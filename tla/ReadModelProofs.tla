-------------------------- MODULE ReadModelProofs --------------------------
(***************************************************************************)
(* Proofs about ReadModel, for any stored items a run of the program can    *)
(* leave: what it stores is again such a log, every stream of it begins     *)
(* with its creation, and the read model shows what the store holds.        *)
(*                                                                         *)
(* A store that was not empty at the start has items of calls no request    *)
(* of this run made, so Ownership and what rests on it cannot be used here. *)
(* What the log looks like is enough: of each subscription its creation,    *)
(* then its enabling, and no other event ever.                              *)
(***************************************************************************)
EXTENDS ReadModel, RepositoryProofs, FiniteSetTheorems

(* The events of a subscription. *)
OfId(items, id) ==
    {i \in 1..Len(items) : items[i].kind = "recorded" /\ items[i].event.id = id}

HasCreation(id) == \E i \in OfId(log, id) : Kind(i) = "Subscribed"

EventBy(r, kind) == [kind |-> kind, id |-> sent[r].id, by |-> r]

(* A creator appends its two events at no stream; a change names a version  *)
(* that is one behind what its handler loaded.                              *)
CallsMade ==
    \A r \in Requests : Made(r) =>
        /\ args[r].stream = CreateStreamId(sent[r].id)
        /\ IsCreator(r) => /\ args[r].expected = NoStream
                           /\ Len(args[r].events) = 2
                           /\ args[r].events[1] = EventBy(r, "Subscribed")
                           /\ args[r].events[2] = EventBy(r, "Enabled")
        /\ ~IsCreator(r) => /\ args[r].expected \in Nat
                            /\ args[r].expected < Cardinality(OfId(log, sent[r].id))

(* What passes validation and has events is a creation, and its stream has  *)
(* no event until the loop writes the first.                                *)
CreatesStream ==
    pc \in {"positioning", "filtering"} =>
        \/ Call.events = <<>>
        \/ IsCreator(possible) /\ OfId(log, sent[possible].id) = {}

BothLeft ==
    /\ OfId(log, sent[possible].id) = {}
    /\ Len(toWrite) = 2
    /\ toWrite[1] = EventBy(possible, "Subscribed")
    /\ toWrite[2] = EventBy(possible, "Enabled")

EnablingLeft ==
    /\ HasCreation(sent[possible].id)
    /\ Len(toWrite) = 1
    /\ toWrite[1] = EventBy(possible, "Enabled")

CompletesStream ==
    pc = "writing" => toWrite = <<>> \/ (written = {} /\ (BothLeft \/ EnablingLeft))

LogInv ==
    /\ TypeInv /\ AppTypeInv
    /\ WellStored(log)
    /\ LoadedFromStream /\ CallsMade /\ CreatesStream /\ CompletesStream

(* The events of a subscription the poller has passed. *)
PassedOf(items, passed, id) == {i \in OfId(items, id) : i <= passed}

Includes(items, T, kind) == \E i \in T : items[i].event.kind = kind

RowsIn(rows, id) == {n \in 1..Len(rows) : rows[n].id = id}

(* The row of a subscription is one, and of events the poller has passed;   *)
(* if it missed none of them, there is a row that tells of all.             *)
RowsFit(items, passed, lost, rows, id) ==
    LET seen == PassedOf(items, passed, id) IN
    /\ \A m, n \in RowsIn(rows, id) : m = n
    /\ \A n \in RowsIn(rows, id) :
           /\ Includes(items, seen, "Subscribed")
           /\ rows[n].enabled => Includes(items, seen, "Enabled")
           /\ \E i \in seen : items[i].event.by = rows[n].by
    /\ seen \cap lost = {} =>
           /\ Includes(items, seen, "Subscribed") => RowsIn(rows, id) # {}
           /\ Includes(items, seen, "Enabled") => \A n \in RowsIn(rows, id) : rows[n].enabled

RowsInv == \A id \in Guid : RowsFit(log, cursor, missed, shown, id)
-----------------------------------------------------------------------------
(* Logs.                                                                    *)

LEMMA StoredType ==
    ASSUME NEW items, WellStored(items)
    PROVE  /\ items \in Seq(Item) /\ Len(items) \in Nat
           /\ \A i \in 1..Len(items) : items[i] \in Item
<1>1. items \in Seq(Item)
  BY DEF WellStored
<1> QED
  BY <1>1, LenProperties, ElementOfSeq

(* What reads as the events of a subscription, and what the writer finds in *)
(* its stream, are the events that carry its id.                            *)
LEMMA StreamHasId ==
    ASSUME NEW items, WellStored(items), NEW id
    PROVE  /\ {i \in 1..Len(items) : /\ items[i].kind = "recorded"
                                     /\ IdEquals(CreateStreamId(id), items[i].stream)}
              = OfId(items, id)
           /\ {i \in 1..Len(items) : /\ items[i].kind = "recorded"
                                     /\ IdEquals(items[i].stream, CreateStreamId(id))}
              = OfId(items, id)
<1>1. ASSUME NEW i \in 1..Len(items), items[i].kind = "recorded"
      PROVE  /\ IdEquals(CreateStreamId(id), items[i].stream) <=> items[i].event.id = id
             /\ IdEquals(items[i].stream, CreateStreamId(id)) <=> items[i].event.id = id
  <2>1. items[i].stream = CreateStreamId(items[i].event.id)
    BY <1>1 DEF WellStored, InPlace
  <2> QED
    BY <2>1, SameStream
<1> QED
  BY <1>1 DEF OfId

LEMMA EventsHaveId ==
    ASSUME WellStored(log), NEW id
    PROVE  /\ EventsOf(CreateStreamId(id)) = OfId(log, id)
           /\ RecordedIn(CreateStreamId(id)) = OfId(log, id)
  BY StreamHasId DEF EventsOf, RecordedIn, Recorded

LEMMA OfIdGrows ==
    ASSUME NEW items, NEW more, Len(items) \in Nat, Len(more) \in Nat, Len(items) <= Len(more),
           \A i \in 1..Len(items) : more[i] = items[i], NEW id
    PROVE  /\ OfId(items, id) \subseteq OfId(more, id)
           /\ Cardinality(OfId(items, id)) \in Nat /\ Cardinality(OfId(more, id)) \in Nat
           /\ Cardinality(OfId(items, id)) <= Cardinality(OfId(more, id))
<1>1. OfId(items, id) \subseteq OfId(more, id)
  BY DEF OfId
<1>2. OfId(more, id) \subseteq 1..Len(more)
  BY DEF OfId
<1>3. IsFiniteSet(OfId(more, id))
  <2>1. IsFiniteSet(1..Len(more))
    BY FS_Interval
  <2> QED
    BY <1>2, <2>1, FS_Subset
<1> QED
  BY <1>1, <1>3, FS_Subset, FS_CardinalityType

(* A log stays well stored with one more item in its place. *)
LEMMA StoredGrows ==
    ASSUME NEW items, WellStored(items), NEW more \in Seq(Item), Len(more) = Len(items) + 1,
           \A i \in 1..Len(items) : more[i] = items[i],
           more[Len(items) + 1].position = Len(items) + 1,
           more[Len(items) + 1].kind = "recorded" => InPlace(more, Len(items) + 1)
    PROVE  WellStored(more)
<1>1. Len(items) \in Nat
  BY StoredType
<1> SUFFICES ASSUME NEW i \in 1..Len(more)
             PROVE  more[i].position = i /\ (more[i].kind = "recorded" => InPlace(more, i))
  BY DEF WellStored
<1>2. CASE i = Len(items) + 1
  BY <1>2
<1>3. CASE i # Len(items) + 1
  <2>1. i \in 1..Len(items) /\ more[i] = items[i]
    BY <1>1, <1>3
  <2>2. \A j \in 1..(i - 1) : more[j] = items[j]
    BY <1>1, <2>1
  <2>3. Preceding(more, i) = Preceding(items, i)
    BY <2>1, <2>2 DEF Preceding
  <2>4. \A j \in Preceding(items, i) : more[j] = items[j]
    BY <2>2 DEF Preceding
  <2> QED
    BY <2>1, <2>3, <2>4 DEF WellStored, InPlace
<1> QED
  BY <1>2, <1>3
-----------------------------------------------------------------------------
(* What is stored stays well stored.                                        *)

LEMMA StoredInit ==
    ASSUME log \in Stored, Constructed, NoneSent
    PROVE  LogInv
<1>1. WellStored(log)
  BY ReadModelAssumption
<1>2. Len(channel) = 0 /\ \A r \in Requests : ~Made(r)
  BY EmptySeq DEF Constructed, Made
<1>3. TypeOK
  <2>1. answer \in [Requests -> Answer]
    BY DEF Constructed, Pending, Answer
  <2>2. log \in Seq(Item) /\ channel \in Seq(Requests) /\ toWrite \in Seq(EventIds)
    BY <1>1, EmptySeq DEF Constructed, WellStored
  <2> QED
    BY <2>1, <2>2 DEF Constructed, TypeOK
<1>4. TypeInv
  <2>1. Turn /\ PositionIsLast
    BY <1>2 DEF Constructed, Turn, Serving, PositionIsLast
  <2>2. PositionsContiguous
    BY <1>1 DEF WellStored, PositionsContiguous
  <2> QED
    BY <1>3, <2>1, <2>2 DEF TypeInv
<1>5. AppTypeInv
  BY <1>2, <1>3 DEF NoneSent, AppTypeInv, AppTypeOK, HandlersInTurn
<1> QED
  BY <1>1, <1>2, <1>4, <1>5
     DEF LogInv, Constructed, NoneSent, LoadedFromStream, CallsMade, CreatesStream,
         CompletesStream

LEMMA LogChange ==
    ASSUME TypeInv, [AppNext]_allVars
    PROVE  \/ UNCHANGED log
           \/ \E kind \in {"created", "recorded"}, event \in EventIds \cup {NoEvent} :
                  Adds(kind, event)
  BY AppStepIsStoreStep, LoopStepAdds DEF Next, AppendAsync, StartAsync, Dispose, vars

LEMMA LoadedStep ==
    ASSUME LogInv, TypeInv', WellStored(log'), [AppNext]_allVars
    PROVE  LoadedFromStream'
<1> SUFFICES ASSUME NEW r \in Requests, handler'[r] = "loaded"
             PROVE  loaded'[r] \subseteq EventsOf(CreateStreamId(sent[r].id))'
  BY DEF LoadedFromStream
<1>0. TypeInv /\ AppTypeInv /\ AppTypeOK /\ WellStored(log) /\ LoadedFromStream
  BY DEF LogInv, AppTypeInv
<1>1. ASSUME NEW q \in Requests, TryGetById(q)
      PROVE  \/ q = r /\ loaded'[r] = EventsOf(CreateStreamId(sent[r].id)) /\ sent'[r] = sent[r]
             \/ handler[r] = "loaded" /\ loaded'[r] = loaded[r] /\ sent'[r] = sent[r]
  BY <1>0, <1>1 DEF TryGetById, AppTypeOK
<1>2. ASSUME NEW q \in Requests, NEW c \in Commands, SendAsync(q, c)
      PROVE  handler[r] = "loaded" /\ loaded'[r] = loaded[r] /\ sent'[r] = sent[r]
  BY <1>0, <1>2 DEF SendAsync, AppTypeOK
<1>3. ASSUME NEW q \in Requests, NEW how \in {"returned", "threw"}, Finish(q, how), UNCHANGED loaded
      PROVE  handler[r] = "loaded" /\ loaded'[r] = loaded[r] /\ sent'[r] = sent[r]
  BY <1>0, <1>3 DEF Finish, AppTypeOK
<1>4. ASSUME NEW q \in Requests, NEW id, NEW version, NEW kinds, Save(q, id, version, kinds),
             UNCHANGED <<sent, loaded, told>>
      PROVE  handler[r] = "loaded" /\ loaded'[r] = loaded[r] /\ sent'[r] = sent[r]
  BY <1>0, <1>4 DEF Save, AppTypeOK
<1>5. ASSUME NEW q \in Requests, HandlerStep(q), ~TryGetById(q)
      PROVE  handler[r] = "loaded" /\ loaded'[r] = loaded[r] /\ sent'[r] = sent[r]
  <2>1. CASE HandleSubscribe(q) \/ HandleChange(q)
    BY <1>4, <2>1 DEF HandleSubscribe, HandleChange
  <2>2. CASE \/ NotFound(q) \/ ReadThrows(q) \/ HandleEnable(q) \/ HandleUninitialized(q)
             \/ SaveReturns(q)
    BY <1>3, <2>2 DEF NotFound, ReadThrows, HandleEnable, HandleUninitialized, SaveReturns
  <2> QED
    BY <1>5, <2>1, <2>2 DEF HandlerStep
<1>6. ASSUME StoreStep \/ UNCHANGED allVars \/ \E q \in Requests : TimeOut(q)
      PROVE  handler[r] = "loaded" /\ loaded'[r] = loaded[r] /\ sent'[r] = sent[r]
  BY <1>6 DEF StoreStep, allVars, appVars, TimeOut
<1>7. \/ UNCHANGED log /\ loaded'[r] = EventsOf(CreateStreamId(sent[r].id)) /\ sent'[r] = sent[r]
      \/ handler[r] = "loaded" /\ loaded'[r] = loaded[r] /\ sent'[r] = sent[r]
  <2>1. ASSUME NEW q \in Requests, TryGetById(q)
        PROVE  UNCHANGED log
    BY <2>1 DEF TryGetById, vars
  <2> QED
    BY <1>1, <1>2, <1>5, <1>6, <2>1 DEF AppNext
<1>8. PICK id : id = sent[r].id
  OBVIOUS
<1>9. /\ EventsOf(CreateStreamId(sent[r].id)) = OfId(log, id)
      /\ EventsOf(CreateStreamId(sent[r].id))' = OfId(log', id)
  <2>1. sent'[r].id = id
    BY <1>7, <1>8
  <2> QED
    BY <1>0, <1>8, <2>1, StreamHasId DEF EventsOf, Recorded
<1>10. OfId(log, id) \subseteq OfId(log', id)
  BY <1>0, LogGrows, OfIdGrows
<1> QED
  BY <1>0, <1>7, <1>9, <1>10 DEF LoadedFromStream

LEMMA MadeType ==
    ASSUME TypeInv, AppTypeInv, NEW r \in Requests, Made(r)
    PROVE  sent[r] \in Commands /\ sent[r].id \in Guid /\ args[r] \in Calls
<1>1. sent[r] \in Commands
  BY DEF AppTypeInv, HandlersInTurn
<1>2. args[r] \in Calls
  BY DEF TypeInv, TypeOK, Made
<1> QED
  BY <1>1, <1>2, CommandType

LEMMA CreatorsCall ==
    ASSUME LogInv, NEW r \in Requests, HandleSubscribe(r)
    PROVE  /\ args'[r].stream = CreateStreamId(sent[r].id)
           /\ args'[r].expected = NoStream
           /\ Len(args'[r].events) = 2
           /\ args'[r].events[1] = EventBy(r, "Subscribed")
           /\ args'[r].events[2] = EventBy(r, "Enabled")
<1>1. TypeOK
  BY DEF LogInv, TypeInv
<1> DEFINE kinds == <<"Subscribed", "Enabled">>
<1>2. PICK call \in Calls :
          /\ call.stream = CreateStreamId(sent[r].id)
          /\ call.expected = Expected(-1)
          /\ call.events = Serialize(r, sent[r].id, kinds)
          /\ AppendAsync(r, call)
  BY DEF HandleSubscribe, Save
<1>3. args'[r] = call
  BY <1>1, <1>2 DEF AppendAsync, TypeOK
<1>4. Len(kinds) = 2 /\ kinds[1] = "Subscribed" /\ kinds[2] = "Enabled"
  OBVIOUS
<1>5. /\ DOMAIN call.events = 1..2
      /\ call.events[1] = EventBy(r, "Subscribed")
      /\ call.events[2] = EventBy(r, "Enabled")
  <2> HIDE DEF kinds
  <2>1. call.events = [i \in 1..2 |-> [kind |-> kinds[i], id |-> sent[r].id, by |-> r]]
    BY <1>2, <1>4 DEF Serialize
  <2>2. 1 \in 1..2 /\ 2 \in 1..2
    OBVIOUS
  <2>3. /\ DOMAIN call.events = 1..2
        /\ call.events[1] = [kind |-> kinds[1], id |-> sent[r].id, by |-> r]
        /\ call.events[2] = [kind |-> kinds[2], id |-> sent[r].id, by |-> r]
    BY <2>1, <2>2
  <2> QED
    BY <1>4, <2>3 DEF EventBy
<1>6. Len(call.events) = 2
  <2>1. PICK n : n = Len(call.events)
    OBVIOUS
  <2>2. n \in Nat /\ 1..n = 1..2
    BY <1>5, <2>1, CallType, LenProperties
  <2>3. \A k \in Int : k \in 1..n <=> k \in 1..2
    BY <2>2
  <2>4. n = 2
    BY <2>2, <2>3
  <2> QED
    BY <2>1, <2>4
<1> QED
  BY <1>2, <1>3, <1>5, <1>6 DEF Expected

LEMMA ChangersCall ==
    ASSUME LogInv, NEW r \in Requests, HandleChange(r)
    PROVE  /\ args'[r].stream = CreateStreamId(sent[r].id)
           /\ args'[r].expected \in Nat
           /\ args'[r].expected < Cardinality(OfId(log, sent[r].id))
<1>1. TypeOK /\ WellStored(log) /\ LoadedFromStream
  BY DEF LogInv, TypeInv
<1>2. PICK call \in Calls :
          /\ call.stream = CreateStreamId(sent[r].id)
          /\ call.expected = Expected(Version(loaded[r]))
          /\ AppendAsync(r, call)
  BY DEF HandleChange, Save
<1>3. args'[r] = call
  BY <1>1, <1>2 DEF AppendAsync, TypeOK
<1>4. loaded[r] \subseteq OfId(log, sent[r].id) /\ loaded[r] # {}
  BY <1>1, EventsHaveId DEF HandleChange, LoadedFromStream, HasId, Has
<1>5. IsFiniteSet(OfId(log, sent[r].id))
  <2>1. IsFiniteSet(1..Len(log)) /\ OfId(log, sent[r].id) \subseteq 1..Len(log)
    BY <1>1, StoredType, FS_Interval DEF OfId
  <2> QED
    BY <2>1, FS_Subset
<1>6. /\ Cardinality(loaded[r]) \in Nat /\ Cardinality(loaded[r]) # 0
      /\ Cardinality(OfId(log, sent[r].id)) \in Nat
      /\ Cardinality(loaded[r]) <= Cardinality(OfId(log, sent[r].id))
  BY <1>4, <1>5, FS_Subset, FS_CardinalityType, FS_EmptySet
<1>7. Expected(Version(loaded[r])) = Cardinality(loaded[r]) - 1
  BY <1>6 DEF Expected, Version
<1> QED
  BY <1>2, <1>3, <1>6, <1>7

LEMMA CallsStep ==
    ASSUME LogInv, TypeInv', [AppNext]_allVars
    PROVE  CallsMade'
<1>0. TypeInv /\ AppTypeInv /\ CallsMade /\ WellStored(log)
  BY DEF LogInv
<1> SUFFICES ASSUME NEW r \in Requests, Made(r)'
             PROVE  /\ args'[r].stream = CreateStreamId(sent'[r].id)
                    /\ IsCreator(r)' => /\ args'[r].expected = NoStream
                                        /\ Len(args'[r].events) = 2
                                        /\ args'[r].events[1] = EventBy(r, "Subscribed")'
                                        /\ args'[r].events[2] = EventBy(r, "Enabled")'
                    /\ ~IsCreator(r)' =>
                           /\ args'[r].expected \in Nat
                           /\ args'[r].expected < Cardinality(OfId(log', sent'[r].id))
  BY DEF CallsMade
<1>1. CASE Made(r)
  <2>1. sent'[r] = sent[r] /\ args'[r] = args[r]
    BY <1>0, <1>1, MadeStays
  <2>2. PICK id : id = sent[r].id
    OBVIOUS
  <2>3. /\ Cardinality(OfId(log, id)) \in Nat /\ Cardinality(OfId(log', id)) \in Nat
        /\ Cardinality(OfId(log, id)) <= Cardinality(OfId(log', id))
    BY <1>0, LogGrows, OfIdGrows
  <2>4. args[r].expected < Cardinality(OfId(log, id)) /\ args[r].expected \in Nat
           => args[r].expected < Cardinality(OfId(log', id))
    BY <2>3
  <2> QED
    BY <1>0, <1>1, <2>1, <2>2, <2>4 DEF CallsMade, IsCreator, EventBy
<1>2. CASE ~Made(r)
  <2>1. CASE HandleSubscribe(r)
    BY <2>1, CreatorsCall DEF HandleSubscribe, IsCreator, EventBy
  <2>2. CASE HandleChange(r)
    <3>1. UNCHANGED <<log, sent>>
      BY <2>2 DEF HandleChange, Save, AppendAsync
    <3> QED
      BY <2>2, <3>1, ChangersCall DEF HandleChange, IsCreator
  <2> QED
    BY <1>0, <1>2, <2>1, <2>2, CallIsMade
<1> QED
  BY <1>1, <1>2
-----------------------------------------------------------------------------
(* The loop creates a stream, and does nothing else to it.                  *)

(* What the loop writes: its place is free until then, and behind the       *)
(* creation after it.                                                       *)
LEMMA StoredStep ==
    ASSUME LogInv, TypeInv', [AppNext]_allVars
    PROVE  WellStored(log')
<1>0. /\ TypeInv /\ TypeOK /\ AppTypeInv /\ WellStored(log) /\ CallsMade /\ CompletesStream
      /\ log' \in Seq(Item) /\ PositionsContiguous' /\ Len(log) \in Nat
  BY StoredType DEF LogInv, TypeInv, TypeOK
<1>1. CASE UNCHANGED log
  BY <1>0, <1>1
<1>2. ASSUME NEW kind \in {"created", "recorded"}, NEW event \in EventIds \cup {NoEvent},
             Adds(kind, event)
      PROVE  WellStored(log')
  <2>1. /\ Len(log') = Len(log) + 1
        /\ \A i \in 1..Len(log) : log'[i] = log[i]
        /\ log'[Len(log) + 1].kind = kind
        /\ log'[Len(log) + 1].stream = Call.stream
        /\ log'[Len(log) + 1].event = event
    BY <1>0, <1>2, AddsAppends
  <2>2. log'[Len(log) + 1].position = Len(log) + 1
    BY <1>0, <2>1 DEF PositionsContiguous
  <2>3. CASE kind = "created"
    BY <1>0, <2>1, <2>2, <2>3, StoredGrows
  <2>4. CASE kind = "recorded"
    <3>1. pc = "writing" /\ toWrite # <<>> /\ event = Head(toWrite)
      BY <1>2, <2>4 DEF Adds
    <3>2. possible \in Requests /\ Made(possible)
      BY <1>0, <3>1, ServedIsMade DEF Serving
    <3>3. PICK id : id = sent[possible].id
      OBVIOUS
    <3>4. id \in Guid /\ Call.stream = CreateStreamId(id)
      BY <1>0, <3>2, <3>3, MadeType DEF CallsMade, Call
    <3>5. Preceding(log', Len(log) + 1) = {j \in OfId(log, event.id) : TRUE}
      BY <1>0, <2>1 DEF Preceding, OfId
    <3>6. event = toWrite[1]
      BY <1>0, <3>1, HeadTailProperties DEF TypeOK
    <3>7. \/ event = EventBy(possible, "Subscribed") /\ OfId(log, id) = {}
          \/ event = EventBy(possible, "Enabled") /\ HasCreation(id)
      BY <1>0, <3>1, <3>3, <3>6 DEF CompletesStream, BothLeft, EnablingLeft
    <3>8. event.id = id
      BY <3>3, <3>7 DEF EventBy
    <3>9. InPlace(log', Len(log) + 1)
      <4>1. CASE event = EventBy(possible, "Subscribed") /\ OfId(log, id) = {}
        <5>1. event.kind = "Subscribed"
          BY <4>1 DEF EventBy
        <5> QED
          BY <2>1, <3>4, <3>5, <3>8, <4>1, <5>1 DEF InPlace
      <4>2. CASE event = EventBy(possible, "Enabled") /\ HasCreation(id)
        <5>1. event.kind = "Enabled"
          BY <4>2 DEF EventBy
        <5>2. PICK j \in OfId(log, id) : log[j].event.kind = "Subscribed"
          BY <4>2 DEF HasCreation, Kind
        <5>3. j \in Preceding(log', Len(log) + 1) /\ log'[j] = log[j]
          BY <2>1, <3>5, <3>8, <5>2 DEF OfId
        <5> QED
          BY <2>1, <3>4, <3>8, <5>1, <5>2, <5>3 DEF InPlace
      <4> QED
        BY <3>7, <4>1, <4>2
    <3> QED
      BY <1>0, <2>1, <2>2, <3>9, StoredGrows
  <2> QED
    BY <2>3, <2>4
<1> QED
  BY <1>0, <1>1, <1>2, LogChange

(* A step of the loop that neither serves another request nor writes.       *)
LEMMA LoopStays ==
    ASSUME LogInv, [AppNext]_allVars, pc \in Serving, UNCHANGED possible
    PROVE  sent'[possible] = sent[possible] /\ args'[possible] = args[possible]
  BY ServedIsMade, MadeStays DEF LogInv

(* An event that passes validation is a creator's, at an empty stream.      *)
LEMMA PassedIsCreation ==
    ASSUME LogInv, pc = "validating", PassesValidation(Call), Call.events # <<>>
    PROVE  IsCreator(possible) /\ OfId(log, sent[possible].id) = {}
<1>0. TypeInv /\ AppTypeInv /\ CallsMade /\ WellStored(log)
  BY DEF LogInv
<1>1. possible \in Requests /\ Made(possible) /\ Call.stream = CreateStreamId(sent[possible].id)
  BY <1>0, ServedIsMade DEF Serving, CallsMade, Call
<1>2. RecordedIn(Call.stream) = OfId(log, sent[possible].id)
  BY <1>0, <1>1, EventsHaveId
<1>3. CASE IsCreator(possible)
  <2>1. Call.expected = NoStream
    BY <1>0, <1>1, <1>3 DEF CallsMade, Call
  <2> QED
    BY <1>2, <1>3, <2>1 DEF PassesValidation, NoStream, AnyVersion, StreamExists, Exact
<1>4. CASE ~IsCreator(possible)
  <2>1. /\ Call.expected \in Nat
        /\ Call.expected < Cardinality(RecordedIn(Call.stream))
    BY <1>0, <1>1, <1>2, <1>4 DEF CallsMade, Call
  <2> QED
    BY <2>1 DEF PassesValidation, NoStream, AnyVersion, StreamExists
<1> QED
  BY <1>3, <1>4

LEMMA CreatesStep ==
    ASSUME LogInv, TypeInv', [AppNext]_allVars
    PROVE  CreatesStream'
<1> SUFFICES ASSUME pc' \in {"positioning", "filtering"}, Call'.events # <<>>
             PROVE  IsCreator(possible)' /\ OfId(log', sent'[possible'].id) = {}
  BY DEF CreatesStream
<1>0. TypeInv /\ CreatesStream
  BY DEF LogInv
<1>1. CASE Validate
  <2>1. pc = "validating" /\ PassesValidation(Call) /\ UNCHANGED <<possible, log>>
    BY <1>1 DEF Validate, EndTurn, GoTo
  <2>2. sent'[possible] = sent[possible] /\ Call' = Call
    BY <2>1, LoopStays DEF Serving, Call
  <2> QED
    BY <2>1, <2>2, PassedIsCreation DEF IsCreator
<1>2. CASE EnsureCreated
  <2>1. pc = "positioning" /\ UNCHANGED possible
    BY <1>2 DEF EnsureCreated, GoTo
  <2>2. sent'[possible] = sent[possible] /\ Call' = Call
    BY <2>1, LoopStays DEF Serving, Call
  <2>3. IsCreator(possible) /\ OfId(log, sent[possible].id) = {}
    BY <1>0, <2>1, <2>2 DEF CreatesStream
  <2>4. ASSUME NEW kind \in {"created", "recorded"}, NEW event \in EventIds \cup {NoEvent},
               Adds(kind, event)
        PROVE  \A id : OfId(log', id) = OfId(log, id)
    <3>1. kind = "created"
      BY <2>1, <2>4 DEF Adds
    <3>2. /\ Len(log) \in Nat /\ Len(log') = Len(log) + 1
          /\ \A i \in 1..Len(log) : log'[i] = log[i]
          /\ log'[Len(log) + 1].kind = "created"
      BY <1>0, <2>4, <3>1, AddsAppends, LogGrows
    <3> QED
      BY <3>2 DEF OfId
  <2>5. \A id : OfId(log', id) = OfId(log, id)
    BY <1>0, <2>4, LogChange
  <2> QED
    BY <2>1, <2>2, <2>3, <2>5 DEF IsCreator
<1>3. CASE UNCHANGED <<pc, possible, log>>
  <2>1. sent'[possible] = sent[possible] /\ Call' = Call
    BY <1>3, LoopStays DEF Serving, Call
  <2> QED
    BY <1>0, <1>3, <2>1 DEF CreatesStream, IsCreator
<1>4. CASE \/ TakeRequest \/ StopLoop \/ ValidationThrows \/ ProcessingThrows \/ FilterWritten
           \/ WriteNext \/ AnswerOk \/ StartAsync
  BY <1>4 DEF TakeRequest, StopLoop, ValidationThrows, ProcessingThrows, FilterWritten,
              WriteNext, AnswerOk, StartAsync, GoTo, EndTurn
<1>5. ASSUME Dispose \/ UNCHANGED vars \/ \E r \in Requests, call \in Calls : AppendAsync(r, call)
      PROVE  UNCHANGED <<pc, possible, log>>
  BY <1>5 DEF Dispose, AppendAsync, vars, loopVars
<1> QED
  BY <1>1, <1>2, <1>3, <1>4, <1>5, AppStepIsStoreStep DEF Next, LoopStep

LEMMA CompletesStep ==
    ASSUME LogInv, TypeInv', [AppNext]_allVars
    PROVE  CompletesStream'
<1> SUFFICES ASSUME pc' = "writing", toWrite' # <<>>
             PROVE  written' = {} /\ (BothLeft' \/ EnablingLeft')
  BY DEF CompletesStream
<1>0. TypeInv /\ TypeOK /\ WellStored(log) /\ CreatesStream /\ CompletesStream /\ CallsMade
      /\ Len(log) \in Nat
  BY StoredType DEF LogInv, TypeInv
<1>1. CASE FilterWritten
  <2>1. /\ pc = "filtering" /\ UNCHANGED <<possible, log>> /\ toWrite' = Call.events
        /\ written' = {log[i].event : i \in RecordedIn(Call.stream)}
    BY <1>1 DEF FilterWritten, GoTo
  <2>2. sent'[possible] = sent[possible] /\ possible \in Requests /\ Made(possible)
    BY <1>0, <2>1, LoopStays, ServedIsMade DEF Serving
  <2>3. IsCreator(possible) /\ OfId(log, sent[possible].id) = {}
    BY <1>0, <2>1 DEF CreatesStream
  <2>4. RecordedIn(Call.stream) = {}
    BY <1>0, <2>2, <2>3, EventsHaveId DEF CallsMade, Call
  <2>5. /\ Len(toWrite') = 2
        /\ toWrite'[1] = EventBy(possible, "Subscribed")
        /\ toWrite'[2] = EventBy(possible, "Enabled")
    BY <1>0, <2>1, <2>2, <2>3 DEF CallsMade, Call
  <2>6. BothLeft'
    BY <2>1, <2>2, <2>3, <2>5 DEF BothLeft, EventBy
  <2>7. written' = {}
    BY <2>1, <2>4
  <2> QED
    BY <2>6, <2>7
<1>2. CASE WriteNext
  <2>1. /\ pc = "writing" /\ UNCHANGED <<possible, written>> /\ toWrite # <<>>
        /\ toWrite' = Tail(toWrite)
    BY <1>2 DEF WriteNext
  <2>2. sent'[possible] = sent[possible]
    BY <2>1, LoopStays DEF Serving
  <2>3. /\ Len(toWrite) \in Nat /\ Len(toWrite') = Len(toWrite) - 1 /\ Len(toWrite') # 0
        /\ Head(toWrite) = toWrite[1]
        /\ \A k \in 1..Len(toWrite') : toWrite'[k] = toWrite[k + 1]
    BY <1>0, <2>1, LenProperties, HeadTailProperties, EmptySeq DEF TypeOK
  <2>4. written = {} /\ BothLeft
    BY <1>0, <2>1, <2>3 DEF CompletesStream, EnablingLeft
  <2>5. Len(toWrite') = 1 /\ toWrite'[1] = EventBy(possible, "Enabled")
    BY <2>3, <2>4 DEF BothLeft
  <2>6. Head(toWrite) = EventBy(possible, "Subscribed")
    BY <2>3, <2>4 DEF BothLeft
  <2>7. Adds("recorded", Head(toWrite))
    <3>1. possible # NoRequest /\ position = Len(log)
      BY <1>0, <2>1 DEF TypeInv, Turn, Serving, PositionIsLast
    <3>2. Head(toWrite) \in EventIds
      BY <1>0, <2>1, HeadTailProperties DEF TypeOK
    <3> QED
      BY <1>2, <2>1, <2>4, <3>1, <3>2 DEF WriteNext, Adds
  <2>8. /\ Len(log') = Len(log) + 1
        /\ log'[Len(log) + 1].kind = "recorded"
        /\ log'[Len(log) + 1].event = EventBy(possible, "Subscribed")
    <3>1. Head(toWrite) \in EventIds
      BY <2>7 DEF Adds
    <3> QED
      BY <1>0, <2>6, <2>7, <3>1, AddsAppends
  <2>9. HasCreation(sent[possible].id)'
    <3>1. /\ Len(log) + 1 \in 1..Len(log')
          /\ log'[Len(log) + 1].event.id = sent[possible].id
          /\ log'[Len(log) + 1].event.kind = "Subscribed"
      BY <1>0, <2>8 DEF EventBy
    <3> QED
      BY <2>1, <2>2, <2>8, <3>1 DEF HasCreation, OfId, Kind
  <2>10. EnablingLeft'
    BY <2>1, <2>2, <2>5, <2>9 DEF EnablingLeft, EventBy
  <2> QED
    BY <2>1, <2>4, <2>10
<1>3. CASE UNCHANGED <<pc, possible, log, written, toWrite>>
  <2>1. sent'[possible] = sent[possible]
    BY <1>3, LoopStays DEF Serving
  <2> QED
    BY <1>0, <1>3, <2>1 DEF CompletesStream, BothLeft, EnablingLeft, EventBy, HasCreation, Kind
<1>4. CASE \/ TakeRequest \/ StopLoop \/ Validate \/ ValidationThrows \/ ProcessingThrows
           \/ EnsureCreated \/ AnswerOk \/ StartAsync
  BY <1>4 DEF TakeRequest, StopLoop, Validate, ValidationThrows, ProcessingThrows,
              EnsureCreated, AnswerOk, StartAsync, GoTo, EndTurn
<1>5. ASSUME Dispose \/ UNCHANGED vars \/ \E r \in Requests, call \in Calls : AppendAsync(r, call)
      PROVE  UNCHANGED <<pc, possible, log, written, toWrite>>
  BY <1>5 DEF Dispose, AppendAsync, vars, loopVars
<1> QED
  BY <1>1, <1>2, <1>3, <1>4, <1>5, AppStepIsStoreStep DEF Next, LoopStep

LEMMA LogStep == LogInv /\ [AppNext]_allVars => LogInv'
<1> SUFFICES ASSUME LogInv, [AppNext]_allVars PROVE LogInv'
  OBVIOUS
<1>1. TypeInv /\ TypeInv' /\ AppTypeInv'
  BY AppStepIsStoreStep, TypeStep, AppTypeStep DEF LogInv
<1>2. WellStored(log')
  BY <1>1, StoredStep
<1> QED
  BY <1>1, <1>2, LoadedStep, CallsStep, CreatesStep, CompletesStep DEF LogInv
-----------------------------------------------------------------------------
(* The rows of the read model.                                              *)

Row == [id : Guid, by : Requests, enabled : BOOLEAN]

(* The log grows behind the poller. *)
LEMMA RowsStay ==
    ASSUME NEW items, NEW more, Len(items) \in Nat, Len(more) \in Nat, Len(items) <= Len(more),
           \A i \in 1..Len(items) : more[i] = items[i],
           NEW passed \in 0..Len(items), NEW lost, NEW rows, NEW id,
           RowsFit(items, passed, lost, rows, id)
    PROVE  RowsFit(more, passed, lost, rows, id)
<1> DEFINE seen == PassedOf(items, passed, id)
<1>1. PassedOf(more, passed, id) = seen
  BY DEF PassedOf, OfId
<1>2. \A i \in seen : more[i] = items[i]
  BY DEF PassedOf, OfId
<1>3. \A kind : Includes(more, seen, kind) <=> Includes(items, seen, kind)
  BY <1>2 DEF Includes
<1> HIDE DEF seen
<1>4. RowsFit(items, passed, lost, rows, id) <=> RowsFit(more, passed, lost, rows, id)
  BY <1>1, <1>2, <1>3 DEF RowsFit, seen
<1> QED
  BY <1>4

(* What passing the next item adds to what is seen of a subscription. *)
LEMMA PassedNext ==
    ASSUME NEW items, Len(items) \in Nat, NEW passed \in 0..(Len(items) - 1), NEW id
    PROVE  /\ PassedOf(items, passed, id) \subseteq PassedOf(items, passed + 1, id)
           /\ PassedOf(items, passed + 1, id)
                 \subseteq PassedOf(items, passed, id) \cup {passed + 1}
           /\ passed + 1 \in PassedOf(items, passed + 1, id)
                 <=> items[passed + 1].kind = "recorded" /\ items[passed + 1].event.id = id
  BY DEF PassedOf, OfId

(* An item that is missed, or is none of the subscription's. *)
LEMMA RowsPass ==
    ASSUME NEW items, Len(items) \in Nat, NEW passed \in 0..(Len(items) - 1),
           NEW lost, NEW more, lost \subseteq more, NEW rows, NEW id,
           RowsFit(items, passed, lost, rows, id),
           passed + 1 \in PassedOf(items, passed + 1, id) => passed + 1 \in more
    PROVE  RowsFit(items, passed + 1, more, rows, id)
<1> DEFINE seen == PassedOf(items, passed, id)
           next == PassedOf(items, passed + 1, id)
<1>1. seen \subseteq next /\ next \subseteq seen \cup {passed + 1}
  BY PassedNext
<1>2. passed + 1 \in next => passed + 1 \in more
  OBVIOUS
<1>3. /\ \A m, n \in RowsIn(rows, id) : m = n
      /\ \A n \in RowsIn(rows, id) :
             /\ Includes(items, seen, "Subscribed")
             /\ rows[n].enabled => Includes(items, seen, "Enabled")
             /\ \E i \in seen : items[i].event.by = rows[n].by
      /\ seen \cap lost = {} =>
             /\ Includes(items, seen, "Subscribed") => RowsIn(rows, id) # {}
             /\ Includes(items, seen, "Enabled") => \A n \in RowsIn(rows, id) : rows[n].enabled
  BY DEF RowsFit
<1> HIDE DEF seen, next
<1>4. \A kind : Includes(items, seen, kind) => Includes(items, next, kind)
  BY <1>1 DEF Includes
<1>5. next \cap more = {} => next = seen /\ seen \cap lost = {}
  BY <1>1, <1>2
<1>6. \A n \in RowsIn(rows, id) :
          /\ Includes(items, next, "Subscribed")
          /\ rows[n].enabled => Includes(items, next, "Enabled")
          /\ \E i \in next : items[i].event.by = rows[n].by
  BY <1>1, <1>3, <1>4
<1> QED
  BY <1>3, <1>5, <1>6 DEF RowsFit, next

(* A creation is the first event of its subscription, which has no row.     *)
LEMMA RowsAdd ==
    ASSUME NEW items, WellStored(items), NEW passed \in 0..(Len(items) - 1),
           items[passed + 1].kind = "recorded",
           items[passed + 1].event.kind = "Subscribed",
           NEW lost, NEW rows \in Seq(Row), NEW id,
           items[passed + 1].event.id = id,
           RowsFit(items, passed, lost, rows, id)
    PROVE  RowsFit(items, passed + 1, lost, AddRow(rows, items[passed + 1].event), id)
<1> DEFINE event == items[passed + 1].event
           seen == PassedOf(items, passed, id)
           next == PassedOf(items, passed + 1, id)
           row == [id |-> event.id, by |-> event.by, enabled |-> FALSE]
<1>0. Len(items) \in Nat /\ passed + 1 \in 1..Len(items)
  BY StoredType
<1>1. Preceding(items, passed + 1) = {}
  BY <1>0 DEF WellStored, InPlace
<1>2. seen = {}
  BY <1>0, <1>1 DEF PassedOf, OfId, Preceding
<1>3. next = {passed + 1}
  <2>1. next \subseteq seen \cup {passed + 1} /\ passed + 1 \in next
    BY <1>0, PassedNext
  <2> HIDE DEF next
  <2> QED
    BY <1>2, <2>1
<1>4. RowsIn(rows, id) = {}
  BY <1>2 DEF RowsFit, Includes
<1>5. /\ Len(Append(rows, row)) = Len(rows) + 1
      /\ \A n \in 1..Len(rows) : Append(rows, row)[n] = rows[n]
      /\ Append(rows, row)[Len(rows) + 1] = row
  BY AppendProperties
<1>6. AddRow(rows, event) = Append(rows, row)
  BY DEF AddRow
<1>7. RowsIn(Append(rows, row), id) = {Len(rows) + 1}
  BY <1>4, <1>5 DEF RowsIn
<1>8. /\ Includes(items, next, "Subscribed") /\ ~Includes(items, next, "Enabled")
      /\ \E i \in next : items[i].event.by = row.by
      /\ ~row.enabled
  BY <1>3 DEF Includes
<1> HIDE DEF next, row, event
<1> QED
  BY <1>5, <1>6, <1>7, <1>8 DEF RowsFit, next, event

LEMMA RowsEnable ==
    ASSUME NEW items, WellStored(items), NEW passed \in 0..(Len(items) - 1),
           items[passed + 1].kind = "recorded",
           items[passed + 1].event.kind = "Enabled",
           NEW lost, NEW rows \in Seq(Row), NEW id,
           items[passed + 1].event.id = id,
           RowsFit(items, passed, lost, rows, id)
    PROVE  RowsFit(items, passed + 1, lost, SetEnabled(rows, id, TRUE), id)
<1> DEFINE seen == PassedOf(items, passed, id)
           next == PassedOf(items, passed + 1, id)
           more == SetEnabled(rows, id, TRUE)
<1>0. Len(items) \in Nat /\ passed + 1 \in 1..Len(items)
  BY StoredType
<1>1. seen \subseteq next /\ passed + 1 \in next
  <2>1. seen \subseteq next
    BY <1>0, PassedNext
  <2>2. passed + 1 \in next
    BY <1>0 DEF PassedOf, OfId
  <2> QED
    BY <2>1, <2>2
<1>2. Includes(items, seen, "Subscribed")
  <2>1. PICK j \in Preceding(items, passed + 1) : items[j].event.kind = "Subscribed"
    BY <1>0 DEF WellStored, InPlace
  <2>2. j \in seen
    BY <1>0, <2>1 DEF PassedOf, OfId, Preceding
  <2> QED
    BY <2>1, <2>2 DEF Includes
<1>3. Includes(items, next, "Subscribed") /\ Includes(items, next, "Enabled")
  BY <1>1, <1>2 DEF Includes
<1>4. /\ Len(more) = Len(rows)
      /\ \A n \in 1..Len(rows) : /\ more[n].id = rows[n].id
                                 /\ more[n].by = rows[n].by
                                 /\ rows[n].id = id => more[n].enabled
  <2>1. Len(rows) \in Nat /\ \A n \in 1..Len(rows) : rows[n] \in Row
    BY LenProperties, ElementOfSeq
  <2>2. /\ DOMAIN more = 1..Len(rows)
        /\ \A n \in 1..Len(rows) :
               more[n] = IF rows[n].id = id THEN [rows[n] EXCEPT !.enabled = TRUE] ELSE rows[n]
    BY DEF SetEnabled
  <2>3. Len(more) = Len(rows)
    BY <2>1 DEF SetEnabled
  <2> HIDE DEF more
  <2>4. ASSUME NEW n \in 1..Len(rows)
        PROVE  /\ more[n].id = rows[n].id /\ more[n].by = rows[n].by
               /\ rows[n].id = id => more[n].enabled
    BY <2>1, <2>2 DEF Row
  <2> QED
    BY <2>3, <2>4
<1>5. RowsIn(more, id) = RowsIn(rows, id)
  <2> HIDE DEF more
  <2> QED
    BY <1>4 DEF RowsIn
<1>6. /\ \A m, n \in RowsIn(rows, id) : m = n
      /\ \A n \in RowsIn(rows, id) : \E i \in seen : items[i].event.by = rows[n].by
      /\ seen \cap lost = {} => RowsIn(rows, id) # {}
  BY <1>2 DEF RowsFit
<1>7. \A n \in RowsIn(rows, id) : more[n].by = rows[n].by /\ more[n].enabled
  <2> HIDE DEF more
  <2> QED
    BY <1>4 DEF RowsIn
<1> HIDE DEF more, seen, next
<1>8. next \cap lost = {} => RowsIn(rows, id) # {}
  BY <1>1, <1>6
<1>9. \A n \in RowsIn(more, id) : /\ more[n].enabled
                                  /\ \E i \in next : items[i].event.by = more[n].by
  BY <1>1, <1>5, <1>6, <1>7
<1> QED
  BY <1>3, <1>5, <1>6, <1>8, <1>9 DEF RowsFit, next, more

(* An event of one subscription leaves the rows of the others alone. *)
LEMMA RowsOfOthers ==
    ASSUME NEW rows \in Seq(Row),
           NEW event, event.kind \in {"Subscribed", "Enabled"}, NEW id, event.id # id,
           NEW items, NEW passed, NEW lost, RowsFit(items, passed, lost, rows, id)
    PROVE  RowsFit(items, passed, lost, Receive(rows, event), id)
<1> DEFINE next == Receive(rows, event)
<1> SUFFICES /\ RowsIn(next, id) = RowsIn(rows, id)
             /\ \A n \in RowsIn(rows, id) : next[n] = rows[n]
  <2>1. ASSUME /\ RowsIn(next, id) = RowsIn(rows, id)
               /\ \A n \in RowsIn(rows, id) : next[n] = rows[n]
        PROVE  RowsFit(items, passed, lost, next, id)
    <3> HIDE DEF next
    <3> QED
      BY <2>1 DEF RowsFit
  <2> QED
    BY <2>1
<1>1. CASE event.kind = "Subscribed"
  <2> DEFINE row == [id |-> event.id, by |-> event.by, enabled |-> FALSE]
  <2>1. Receive(rows, event) = Append(rows, row)
    BY <1>1 DEF Receive, AddRow
  <2>2. /\ Len(Append(rows, row)) = Len(rows) + 1
        /\ \A n \in 1..Len(rows) : Append(rows, row)[n] = rows[n]
        /\ Append(rows, row)[Len(rows) + 1] = row
    BY AppendProperties
  <2>3. row.id # id
    OBVIOUS
  <2> HIDE DEF row
  <2> QED
    BY <2>1, <2>2, <2>3 DEF RowsIn
<1>2. CASE event.kind = "Enabled"
  <2>1. Receive(rows, event) = SetEnabled(rows, event.id, TRUE)
    BY <1>2 DEF Receive
  <2> DEFINE more == SetEnabled(rows, event.id, TRUE)
  <2>2. /\ Len(more) = Len(rows)
        /\ \A n \in 1..Len(rows) :
               more[n] = IF rows[n].id = event.id THEN [rows[n] EXCEPT !.enabled = TRUE]
                         ELSE rows[n]
    BY DEF SetEnabled
  <2>3. Len(rows) \in Nat /\ \A n \in 1..Len(rows) : rows[n] \in Row
    BY LenProperties, ElementOfSeq
  <2> HIDE DEF more
  <2>4. \A n \in 1..Len(rows) : /\ more[n].id = rows[n].id
                                /\ rows[n].id = id => more[n] = rows[n]
    BY <2>2, <2>3 DEF Row
  <2> QED
    BY <2>1, <2>2, <2>4 DEF RowsIn, more
<1> QED
  BY <1>1, <1>2
-----------------------------------------------------------------------------
(* The invariant of the whole application.                                  *)

RmTypes ==
    /\ connected \in BOOLEAN
    /\ registered \in 0..Len(Receivers)
    /\ cursor \in 0..Len(log)
    /\ missed \subseteq 1..Len(log)
    /\ shown \in Seq(Row)

RmInv == LogInv /\ RmTypes /\ RowsInv

(* The read model writes nothing. *)
LEMMA RmStepIsAppStep == [RmNext]_appAndRmVars => [AppNext]_allVars
<1> SUFFICES ASSUME [RmNext]_appAndRmVars
             PROVE  [AppNext]_allVars
  OBVIOUS
<1>1. CASE Start \/ Loop \/ Close
  BY <1>1 DEF Start, Loop, Close, AppNext, StoreStep
<1>2. CASE Connect \/ SubscribeToStream \/ Poll \/ UNCHANGED appAndRmVars
  BY <1>2 DEF Connect, SubscribeToStream, Poll, appAndRmVars
<1>3. ASSUME NEW r \in Requests, NEW c \in Commands, Handle(r) \/ GiveUp(r) \/ Send(r, c)
      PROVE  AppNext
  BY <1>3 DEF Handle, GiveUp, Send, AppNext
<1>4. ASSUME NEW r \in Requests, Handle(r) \/ GiveUp(r)
      PROVE  AppNext
  BY <1>4 DEF Handle, GiveUp, AppNext
<1> QED
  BY <1>1, <1>2, <1>3, <1>4 DEF RmNext, Progress

(* What a step does to the poller and the rows. *)
LEMMA RmStepPolls ==
    ASSUME [RmNext]_appAndRmVars, RmTypes
    PROVE  /\ connected' \in BOOLEAN /\ registered' \in 0..Len(Receivers)
           /\ UNCHANGED pollVars \/ Poll \/ PollTooEarly
<1>0. Len(Receivers) = 4
  BY DEF Receivers
<1>1. CASE Start \/ Loop
  BY <1>1 DEF Start, Loop, rmVars, RmTypes, PollTooEarly
<1>2. CASE Connect \/ Poll
  BY <1>2 DEF Connect, Poll, RmTypes
<1>3. CASE SubscribeToStream
  BY <1>0, <1>3 DEF SubscribeToStream, Ready, RmTypes
<1>4. CASE Close
  BY <1>0, <1>4 DEF Close, RmTypes
<1>5. ASSUME NEW r \in Requests, NEW c \in Commands, Handle(r) \/ GiveUp(r) \/ Send(r, c)
      PROVE  UNCHANGED rmVars
  BY <1>5 DEF Handle, GiveUp, Send
<1>6. ASSUME NEW r \in Requests, Handle(r) \/ GiveUp(r)
      PROVE  UNCHANGED rmVars
  BY <1>6 DEF Handle, GiveUp
<1>7. ASSUME UNCHANGED rmVars \/ UNCHANGED appAndRmVars
      PROVE  UNCHANGED <<connected, registered, pollVars>>
  BY <1>7 DEF rmVars, appAndRmVars
<1> QED
  BY <1>1, <1>2, <1>3, <1>4, <1>5, <1>6, <1>7 DEF RmNext, Progress, RmTypes

(* The event the poller comes to. *)
LEMMA EventType ==
    ASSUME WellStored(log), NEW i \in 1..Len(log), Recorded(i)
    PROVE  /\ log[i].event.id \in Guid
           /\ log[i].event.by \in Requests
           /\ log[i].event.kind \in {"Subscribed", "Enabled"}
<1>1. log[i] \in Item /\ log[i].kind = "recorded"
  BY StoredType DEF Recorded
<1>2. log[i].event \in EventIds
  BY <1>1 DEF Item
<1>3. log[i].event.by \in Requests
  BY <1>2, RepositoryAssumption
<1> QED
  BY <1>1, <1>3 DEF WellStored, InPlace

LEMMA ReceiveType ==
    ASSUME NEW rows \in Seq(Row), NEW event, event.id \in Guid, event.by \in Requests,
           event.kind \in {"Subscribed", "Enabled"}
    PROVE  Receive(rows, event) \in Seq(Row)
<1>1. CASE event.kind = "Subscribed"
  <2> DEFINE row == [id |-> event.id, by |-> event.by, enabled |-> FALSE]
  <2>1. row \in Row
    BY DEF Row
  <2>2. Receive(rows, event) = Append(rows, row)
    BY <1>1 DEF Receive, AddRow
  <2> HIDE DEF row
  <2> QED
    BY <2>1, <2>2, AppendProperties
<1>2. CASE event.kind = "Enabled"
  <2>1. Receive(rows, event) = SetEnabled(rows, event.id, TRUE)
    BY <1>2 DEF Receive
  <2>2. Len(rows) \in Nat /\ \A n \in 1..Len(rows) : rows[n] \in Row
    BY LenProperties, ElementOfSeq
  <2>3. \A n \in 1..Len(rows) : [rows[n] EXCEPT !.enabled = TRUE] \in Row
    BY <2>2 DEF Row
  <2>4. SetEnabled(rows, event.id, TRUE) \in [1..Len(rows) -> Row]
    BY <2>2, <2>3 DEF SetEnabled
  <2>5. \A n \in Nat : [1..n -> Row] \subseteq Seq(Row)
    BY SeqDef
  <2> QED
    BY <2>1, <2>2, <2>4, <2>5, Zenon
<1> QED
  BY <1>1, <1>2

LEMMA PollStep ==
    ASSUME RmInv, Poll
    PROVE  /\ cursor' \in 0..Len(log) /\ missed' \subseteq 1..Len(log) /\ shown' \in Seq(Row)
           /\ \A id \in Guid : RowsFit(log, cursor', missed', shown', id)
<1>0. /\ WellStored(log) /\ Len(log) \in Nat /\ shown \in Seq(Row) /\ Len(shown) \in Nat
      /\ cursor \in 0..(Len(log) - 1) /\ cursor + 1 \in 1..Len(log) /\ cursor' = cursor + 1
      /\ missed \subseteq 1..Len(log)
  BY StoredType, LenProperties DEF RmInv, LogInv, RmTypes, Poll
<1>1. \A id \in Guid : RowsFit(log, cursor, missed, shown, id)
  BY DEF RmInv, RowsInv
<1>2. ASSUME NEW id \in Guid, UNCHANGED shown, missed \subseteq missed',
             Recorded(cursor + 1) => cursor + 1 \in missed'
      PROVE  RowsFit(log, cursor + 1, missed', shown, id)
  <2>1. cursor + 1 \in PassedOf(log, cursor + 1, id) => cursor + 1 \in missed'
    BY <1>2 DEF PassedOf, OfId, Recorded
  <2> QED
    BY <1>0, <1>1, <1>2, <2>1, RowsPass
<1>3. ASSUME ~Recorded(cursor + 1) \/ ~IsReceived(log[cursor + 1].event)
      PROVE  /\ missed' \subseteq 1..Len(log) /\ UNCHANGED shown
             /\ \A id \in Guid : RowsFit(log, cursor + 1, missed', shown, id)
  <2>1. /\ UNCHANGED shown /\ missed \subseteq missed'
        /\ missed' \subseteq missed \cup {cursor + 1}
        /\ Recorded(cursor + 1) => cursor + 1 \in missed'
    BY <1>3 DEF Poll
  <2>2. missed' \subseteq 1..Len(log)
    BY <1>0, <2>1
  <2> QED
    BY <1>2, <2>1, <2>2
<1>4. CASE ~Recorded(cursor + 1) \/ ~IsReceived(log[cursor + 1].event)
  BY <1>0, <1>3, <1>4
<1>5. CASE Recorded(cursor + 1) /\ IsReceived(log[cursor + 1].event)
  <2>1. PICK event : event = log[cursor + 1].event
    OBVIOUS
  <2>2. shown' = Receive(shown, event) /\ UNCHANGED missed
    BY <1>5, <2>1 DEF Poll
  <2>3. /\ event.id \in Guid /\ event.by \in Requests
        /\ event.kind \in {"Subscribed", "Enabled"}
    BY <1>0, <1>5, <2>1, EventType
  <2>4. ASSUME NEW id \in Guid
        PROVE  RowsFit(log, cursor + 1, missed, Receive(shown, event), id)
    <3>1. CASE event.id # id
      <4>1. cursor + 1 \notin PassedOf(log, cursor + 1, id)
        BY <2>1, <3>1 DEF PassedOf, OfId
      <4>2. RowsFit(log, cursor + 1, missed, shown, id)
        BY <1>0, <1>1, <2>4, <4>1, RowsPass
      <4> QED
        BY <1>0, <2>3, <3>1, <4>2, RowsOfOthers
    <3>2. CASE event.id = id /\ event.kind = "Subscribed"
      <4>1. RowsFit(log, cursor + 1, missed, AddRow(shown, log[cursor + 1].event), id)
        BY <1>0, <1>1, <1>5, <2>1, <2>4, <3>2, RowsAdd DEF Recorded
      <4> QED
        BY <2>1, <3>2, <4>1 DEF Receive
    <3>3. CASE event.id = id /\ event.kind = "Enabled"
      <4>1. RowsFit(log, cursor + 1, missed, SetEnabled(shown, id, TRUE), id)
        BY <1>0, <1>1, <1>5, <2>1, <2>4, <3>3, RowsEnable DEF Recorded
      <4> QED
        BY <3>3, <4>1 DEF Receive
    <3> QED
      BY <2>3, <3>1, <3>2, <3>3
  <2>5. shown' \in Seq(Row)
    BY <1>0, <2>2, <2>3, ReceiveType
  <2> QED
    BY <1>0, <2>2, <2>4, <2>5
<1> QED
  BY <1>4, <1>5

(* The log grows, and the poller may pass the item being stored. *)
LEMMA GrowStep ==
    ASSUME RmInv, [AppNext]_allVars, UNCHANGED pollVars \/ PollTooEarly
    PROVE  /\ cursor' \in 0..Len(log') /\ missed' \subseteq 1..Len(log') /\ shown' \in Seq(Row)
           /\ \A id \in Guid : RowsFit(log', cursor', missed', shown', id)
<1>0. /\ Len(log) \in Nat /\ Len(log') \in Nat /\ Len(log) <= Len(log')
      /\ \A i \in 1..Len(log) : log'[i] = log[i]
      /\ cursor \in 0..Len(log) /\ missed \subseteq 1..Len(log) /\ shown \in Seq(Row)
  BY LogGrows DEF RmInv, LogInv, RmTypes
<1>1. \A id \in Guid : RowsFit(log', cursor, missed, shown, id)
  BY <1>0, RowsStay DEF RmInv, RowsInv
<1>2. CASE UNCHANGED pollVars
  BY <1>0, <1>1, <1>2 DEF pollVars
<1>3. CASE PollTooEarly
  <2>1. /\ cursor' = cursor + 1 /\ missed' = missed \cup {cursor + 1} /\ UNCHANGED shown
        /\ cursor = Len(log) /\ Len(log') > Len(log)
    BY <1>3 DEF PollTooEarly
  <2>2. cursor \in 0..(Len(log') - 1) /\ cursor + 1 \in 1..Len(log')
    BY <1>0, <2>1
  <2>3. \A id \in Guid : RowsFit(log', cursor + 1, missed', shown, id)
    BY <1>0, <1>1, <2>1, <2>2, RowsPass
  <2>4. missed' \subseteq 1..Len(log')
    <3>1. \A k \in 1..Len(log) : k \in 1..Len(log')
      BY <1>0
    <3>2. \A k \in missed \cup {cursor + 1} : k \in 1..Len(log')
      BY <1>0, <2>2, <3>1
    <3> QED
      BY <2>1, <3>2
  <2>5. cursor' \in 0..Len(log')
    BY <1>0, <2>1
  <2>6. \A id \in Guid : RowsFit(log', cursor', missed', shown', id)
    BY <2>1, <2>3, Zenon
  <2> QED
    BY <1>0, <2>1, <2>4, <2>5, <2>6
<1> QED
  BY <1>2, <1>3

LEMMA RmStep == RmInv /\ [RmNext]_appAndRmVars => RmInv'
<1> SUFFICES ASSUME RmInv, [RmNext]_appAndRmVars PROVE RmInv'
  OBVIOUS
<1>1. [AppNext]_allVars /\ LogInv'
  BY RmStepIsAppStep, LogStep DEF RmInv
<1>2. /\ connected' \in BOOLEAN /\ registered' \in 0..Len(Receivers)
      /\ UNCHANGED pollVars \/ Poll \/ PollTooEarly
  BY RmStepPolls DEF RmInv
<1>3. Poll => log' = log
  BY DEF Poll, allVars, vars
<1>4. /\ cursor' \in 0..Len(log') /\ missed' \subseteq 1..Len(log') /\ shown' \in Seq(Row)
      /\ \A id \in Guid : RowsFit(log', cursor', missed', shown', id)
  BY <1>1, <1>2, <1>3, PollStep, GrowStep
<1> QED
  BY <1>1, <1>2, <1>4 DEF RmInv, RmTypes, RowsInv

LEMMA RmInitInv == RmInit => RmInv
<1> SUFFICES ASSUME RmInit PROVE RmInv
  OBVIOUS
<1>1. LogInv
  BY StoredInit DEF RmInit
<1>2. Len(log) \in Nat /\ Len(shown) = 0 /\ shown \in Seq(Row)
  BY <1>1, StoredType, EmptySeq DEF LogInv, RmInit
<1>3. RmTypes
  <2>1. 0 \in 0..Len(Receivers) /\ 0 \in 0..Len(log)
    BY <1>2 DEF Receivers
  <2> QED
    BY <1>2, <2>1 DEF RmInit, RmTypes
<1>4. ASSUME NEW id \in Guid
      PROVE  RowsFit(log, cursor, missed, shown, id)
  <2>1. PassedOf(log, cursor, id) = {}
    BY <1>2 DEF RmInit, PassedOf, OfId
  <2>2. RowsIn(shown, id) = {}
    BY <1>2 DEF RowsIn
  <2> QED
    BY <2>1, <2>2 DEF RowsFit, Includes
<1> QED
  BY <1>1, <1>3, <1>4 DEF RmInv, RowsInv

LEMMA RmInvHolds == RmSpec => []RmInv
  BY RmInitInv, RmStep, PTL DEF RmSpec
-----------------------------------------------------------------------------
(* What follows.                                                            *)

(* The variables of the application and of its read model keep their types: *)
(* what the poller has passed and missed is in the log, and a row is of a   *)
(* subscription, made by a request.                                         *)
THEOREM RmTypeCorrect == RmSpec => []RmTypeOK
<1>1. RmInv => RmTypeOK
  BY DEF RmInv, LogInv, AppTypeInv, RmTypes, RmTypeOK, Row
<1> QED
  BY <1>1, RmInvHolds, PTL

(* What a run leaves, a later run may begin with: of every subscription its *)
(* creation, then its enabling; so the assumption on Stored is what runs    *)
(* that begin with an empty store justify.                                  *)
THEOREM StoreStaysWellStored == RmSpec => []WellStored(log)
<1>1. RmInv => WellStored(log)
  BY DEF RmInv, LogInv
<1> QED
  BY <1>1, RmInvHolds, PTL

LEMMA StoredBeginsWithCreation ==
    ASSUME WellStored(log)
    PROVE  StreamBeginsWithCreation
<1> SUFFICES ASSUME NEW i \in 1..Len(log), Recorded(i)
             PROVE  log[i].event.kind = "Subscribed"
                       <=> ~\E j \in 1..(i - 1) : /\ Recorded(j)
                                                  /\ IdEquals(log[j].stream, log[i].stream)
  BY DEF StreamBeginsWithCreation
<1>0. Len(log) \in Nat
  BY StoredType
<1>1. InPlace(log, i)
  BY DEF WellStored, Recorded
<1>2. ASSUME NEW j \in 1..(i - 1), Recorded(j)
      PROVE  IdEquals(log[j].stream, log[i].stream) <=> j \in Preceding(log, i)
  <2>1. j \in 1..Len(log)
    BY <1>0
  <2>2. /\ log[j].stream = CreateStreamId(log[j].event.id)
        /\ log[i].stream = CreateStreamId(log[i].event.id)
    BY <1>1, <1>2, <2>1 DEF WellStored, Recorded, InPlace
  <2> QED
    BY <1>2, <2>2, SameStream DEF Preceding, Recorded
<1>3. \A j \in Preceding(log, i) : j \in 1..(i - 1) /\ Recorded(j)
  BY DEF Preceding, Recorded
<1>4. log[i].event.kind = "Subscribed" <=> Preceding(log, i) = {}
  BY <1>1 DEF InPlace
<1> QED
  BY <1>2, <1>3, <1>4

(* Also when a run begins with the items of an earlier one, half written    *)
(* perhaps, a stream begins with its creation, recorded in no other place.  *)
THEOREM StreamsStillBeginWithCreation == RmSpec => []StreamBeginsWithCreation
<1>1. RmInv => StreamBeginsWithCreation
  BY StoredBeginsWithCreation DEF RmInv, LogInv
<1> QED
  BY <1>1, RmInvHolds, PTL

(* The properties' words for what is seen, and for the rows. *)
LEMMA SeenIs ==
    ASSUME WellStored(log), NEW id
    PROVE  /\ SeenOf(id) = PassedOf(log, cursor, id)
           /\ RowsOf(id) = RowsIn(shown, id)
           /\ \A kind : Has(SeenOf(id), kind) <=> Includes(log, SeenOf(id), kind)
           /\ ~HasBeenRemoved(SeenOf(id))
           /\ IsEnabled(SeenOf(id)) <=> Includes(log, SeenOf(id), "Enabled")
<1>1. SeenOf(id) = PassedOf(log, cursor, id)
  BY EventsHaveId DEF SeenOf, PassedOf
<1>2. \A i \in SeenOf(id) : Kind(i) \in {"Subscribed", "Enabled"}
  BY <1>1 DEF PassedOf, OfId, Kind, WellStored, InPlace
<1>3. \A kind : Has(SeenOf(id), kind) <=> Includes(log, SeenOf(id), kind)
  BY DEF Has, Includes, Kind
<1>4. ~HasBeenRemoved(SeenOf(id))
  BY <1>2 DEF HasBeenRemoved, Has
<1>5. IsEnabled(SeenOf(id)) <=> Includes(log, SeenOf(id), "Enabled")
  BY <1>2 DEF IsEnabled, Includes, Kind
<1> QED
  BY <1>1, <1>3, <1>4, <1>5 DEF RowsOf, RowsIn

(* What one row, or none, has for a cardinality. *)
LEMMA AtMostOne ==
    ASSUME NEW T, \A m, n \in T : m = n
    PROVE  Cardinality(T) <= 1 /\ (T # {} => Cardinality(T) = 1)
<1>1. CASE T = {}
  BY <1>1, FS_EmptySet
<1>2. CASE T # {}
  <2>1. PICK x : T = {x}
    BY <1>2
  <2> QED
    BY <2>1, FS_Singleton
<1> QED
  BY <1>1, <1>2

LEMMA RowsAreRight ==
    ASSUME WellStored(log), RmTypes, RowsInv
    PROVE  ShownIsRestored /\ ShownIsStored
<1> SUFFICES ASSUME NEW id \in Guid
             PROVE  /\ SeenOf(id) \cap missed = {} =>
                           IF HasId(SeenOf(id)) /\ ~HasBeenRemoved(SeenOf(id))
                             THEN /\ Cardinality(RowsOf(id)) = 1
                                  /\ \A n \in RowsOf(id) :
                                         /\ shown[n].enabled = IsEnabled(SeenOf(id))
                                         /\ \E i \in SeenOf(id) : log[i].event.by = shown[n].by
                             ELSE RowsOf(id) = {}
                    /\ Cardinality(RowsOf(id)) <= 1
                    /\ \A n \in RowsOf(id) : /\ HasId(SeenOf(id))
                                             /\ shown[n].enabled => IsEnabled(SeenOf(id))
  BY DEF ShownIsRestored, ShownIsStored
<1>1. /\ HasId(SeenOf(id)) <=> Includes(log, SeenOf(id), "Subscribed")
      /\ ~HasBeenRemoved(SeenOf(id))
      /\ IsEnabled(SeenOf(id)) <=> Includes(log, SeenOf(id), "Enabled")
  BY SeenIs DEF HasId
<1>2. /\ \A m, n \in RowsOf(id) : m = n
      /\ \A n \in RowsOf(id) :
             /\ Includes(log, SeenOf(id), "Subscribed")
             /\ shown[n].enabled => Includes(log, SeenOf(id), "Enabled")
             /\ \E i \in SeenOf(id) : log[i].event.by = shown[n].by
      /\ SeenOf(id) \cap missed = {} =>
             /\ Includes(log, SeenOf(id), "Subscribed") => RowsOf(id) # {}
             /\ Includes(log, SeenOf(id), "Enabled") => \A n \in RowsOf(id) : shown[n].enabled
  <2>1. RowsFit(log, cursor, missed, shown, id)
    BY DEF RowsInv
  <2> QED
    BY <2>1, SeenIs DEF RowsFit
<1>3. Cardinality(RowsOf(id)) <= 1 /\ (RowsOf(id) # {} => Cardinality(RowsOf(id)) = 1)
  BY <1>2, AtMostOne
<1>4. ASSUME SeenOf(id) \cap missed = {}, NEW n \in RowsOf(id)
      PROVE  shown[n].enabled = IsEnabled(SeenOf(id))
  <2>1. shown[n].enabled \in BOOLEAN
    <3>1. shown[n] \in Row
      BY ElementOfSeq DEF RmTypes, RowsOf
    <3> QED
      BY <3>1 DEF Row
  <2>2. IsEnabled(SeenOf(id)) \in BOOLEAN
    BY DEF IsEnabled
  <2>3. shown[n].enabled <=> IsEnabled(SeenOf(id))
    BY <1>1, <1>2, <1>4
  <2> QED
    BY <2>1, <2>2, <2>3
<1> QED
  BY <1>1, <1>2, <1>3, <1>4

(* Of a subscription none of whose events it missed, the read model shows   *)
(* what the aggregate would be, restored from the same events.              *)
THEOREM RowsAreRestored == RmSpec => []ShownIsRestored
<1>1. RmInv => ShownIsRestored
  BY RowsAreRight DEF RmInv, LogInv
<1> QED
  BY <1>1, RmInvHolds, PTL

(* Whatever it missed, the read model shows no subscription that the store  *)
(* does not hold, none twice, and none enabled that is not.                 *)
THEOREM RowsAreStored == RmSpec => []ShownIsStored
<1>1. RmInv => ShownIsStored
  BY RowsAreRight DEF RmInv, LogInv
<1> QED
  BY <1>1, RmInvHolds, PTL
=============================================================================
