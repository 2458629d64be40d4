-------------------------- MODULE RepositoryProofs --------------------------
(***************************************************************************)
(* Proofs about Repository: the handlers use the writer as EventStream      *)
(* describes its clients, so all that is proved of the writer holds in the  *)
(* composition; its types; and that every stream begins with the creation   *)
(* of its aggregate.                                                        *)
(***************************************************************************)
EXTENDS Repository, EventStreamProofs

(* What EventStreamProofs shows of the store, used at every step below. *)
StoreInv == TypeInv /\ Ownership /\ VersionInv

Made(r) == args[r] # NoCall

IsCreator(r) == sent[r].kind = "Subscribe"

(* An idle handler is one of a command not yet sent, and the call of a      *)
(* handler is the last thing it does before it returns.                     *)
HandlersInTurn ==
    \A r \in Requests :
        /\ handler[r] # "idle" => sent[r] \in Commands
        /\ Made(r) => handler[r] \in {"saving", "returned", "threw"}

AppTypeInv == AppTypeOK /\ HandlersInTurn
-----------------------------------------------------------------------------
(* The composition with the writer.                                         *)

LEMMA AppInitIsInit == AppInit => Init
  BY DEF AppInit

(* A handler reaches the store by AppendAsync alone. *)
LEMMA AppStepIsStoreStep == [AppNext]_allVars => [Next]_vars
<1> SUFFICES ASSUME [AppNext]_allVars
             PROVE  [Next]_vars
  OBVIOUS
<1>1. CASE StoreStep
  BY <1>1 DEF StoreStep, Next
<1>2. ASSUME NEW r \in Requests, NEW c \in Commands, SendAsync(r, c)
      PROVE  UNCHANGED vars
  BY <1>2 DEF SendAsync
<1>3. ASSUME NEW r \in Requests, NEW id, NEW version, NEW kinds, Save(r, id, version, kinds)
      PROVE  Next
  BY <1>3 DEF Save, Next
<1>4. ASSUME NEW r \in Requests, HandlerStep(r)
      PROVE  [Next]_vars
  <2>1. CASE HandleSubscribe(r)
    BY <1>3, <2>1 DEF HandleSubscribe
  <2>2. CASE HandleChange(r)
    BY <1>3, <2>2 DEF HandleChange
  <2>3. CASE TryGetById(r) \/ NotFound(r) \/ ReadThrows(r)
    BY <2>3 DEF TryGetById, NotFound, ReadThrows
  <2>4. CASE HandleEnable(r) \/ HandleUninitialized(r) \/ SaveReturns(r)
    BY <2>4 DEF HandleEnable, HandleUninitialized, SaveReturns
  <2> QED
    BY <1>4, <2>1, <2>2, <2>3, <2>4 DEF HandlerStep
<1>5. ASSUME NEW r \in Requests, TimeOut(r)
      PROVE  UNCHANGED vars
  BY <1>5 DEF TimeOut
<1>6. CASE UNCHANGED allVars
  BY <1>6 DEF allVars
<1> QED
  BY <1>1, <1>2, <1>4, <1>5, <1>6 DEF AppNext

(* Every behaviour of the commands and their repository is one the writer   *)
(* was proved about: whatever holds of EventStream holds under them.        *)
THEOREM AppImplementsEventStream == AppSpec => Spec
  BY AppInitIsInit, AppStepIsStoreStep, PTL DEF AppSpec, Spec

LEMMA StoreInvInit == AppInit => StoreInv
  BY AppInitIsInit, TypeInit, OwnershipInit, VersionInit DEF StoreInv

LEMMA StoreInvStep == StoreInv /\ [AppNext]_allVars => StoreInv'
  BY AppStepIsStoreStep, TypeStep, OwnershipStep, VersionStep DEF StoreInv

LEMMA StoreInvTypes == StoreInv => TypeInv
  BY DEF StoreInv

LEMMA StoreInvHolds == AppSpec => []StoreInv
  BY StoreInvInit, StoreInvStep, PTL DEF AppSpec

(* No step takes an item from the log, or changes one. *)
LEMMA LogGrows ==
    ASSUME TypeInv, [AppNext]_allVars
    PROVE  /\ Len(log) \in Nat /\ Len(log') \in Nat /\ Len(log) <= Len(log')
           /\ \A i \in 1..Len(log) : i \in 1..Len(log') /\ log'[i] = log[i]
  BY AppStepIsStoreStep, StoreGrows
-----------------------------------------------------------------------------
(* Type correctness. *)

LEMMA CommandType ==
    ASSUME NEW c \in Commands
    PROVE  /\ c # NoCommand
           /\ c.kind \in {"Subscribe", "Enable", "Disable", "Remove"}
           /\ c.id \in Guid
           /\ c.timed \in BOOLEAN
  BY RepositoryAssumption

LEMMA AppTypeInit == AppInit => AppTypeInv
<1> SUFFICES ASSUME AppInit PROVE AppTypeInv
  OBVIOUS
<1>1. TypeOK /\ \A r \in Requests : ~Made(r)
  BY AppInitIsInit, TypeInit DEF TypeInv, AppInit, Init, Constructed, Made
<1>2. AppTypeOK
  BY <1>1 DEF AppInit, NoneSent, AppTypeOK
<1> QED
  BY <1>1, <1>2 DEF AppInit, NoneSent, AppTypeInv, HandlersInTurn

(* A step that loads nothing. *)
LEMMA LoadedType ==
    ASSUME TypeInv, AppTypeOK, [AppNext]_allVars, UNCHANGED loaded
    PROVE  loaded' \in [Requests -> SUBSET (1..Len(log'))]
<1>1. 1..Len(log) \subseteq 1..Len(log')
  BY LogGrows
<1> QED
  BY <1>1 DEF AppTypeOK

(* The end of a handler. *)
LEMMA FinishKeepsTypes ==
    ASSUME TypeInv, TypeInv', AppTypeInv, [AppNext]_allVars, NEW r \in Requests,
           NEW how \in {"returned", "threw"}, handler[r] # "idle",
           Finish(r, how), UNCHANGED <<vars, loaded>>
    PROVE  AppTypeInv'
<1>1. TypeOK' /\ loaded' \in [Requests -> SUBSET (1..Len(log'))]
  BY LoadedType DEF TypeInv, AppTypeInv
<1>2. AppTypeOK'
  BY <1>1 DEF AppTypeInv, AppTypeOK, Finish
<1>3. HandlersInTurn'
  BY DEF AppTypeInv, AppTypeOK, HandlersInTurn, Finish, Made, vars
<1> QED
  BY <1>2, <1>3 DEF AppTypeInv

(* A handler that appends. *)
LEMMA SaveKeepsTypes ==
    ASSUME TypeInv, TypeInv', AppTypeInv, [AppNext]_allVars, NEW r \in Requests,
           NEW id, NEW version, NEW kinds, handler[r] # "idle",
           Save(r, id, version, kinds), UNCHANGED <<sent, loaded, told>>
    PROVE  AppTypeInv'
<1>1. TypeOK' /\ loaded' \in [Requests -> SUBSET (1..Len(log'))]
  BY LoadedType DEF TypeInv, AppTypeInv
<1>2. AppTypeOK'
  BY <1>1 DEF AppTypeInv, AppTypeOK, Save
<1>3. PICK call \in Calls : AppendAsync(r, call)
  BY DEF Save
<1>4. HandlersInTurn'
  BY <1>3 DEF AppTypeInv, AppTypeOK, HandlersInTurn, Save, Made, AppendAsync,
              TypeInv, TypeOK
<1> QED
  BY <1>2, <1>4 DEF AppTypeInv

LEMMA AppTypeStep ==
    TypeInv /\ TypeInv' /\ AppTypeInv /\ [AppNext]_allVars => AppTypeInv'
<1> SUFFICES ASSUME TypeInv, TypeInv', AppTypeInv, [AppNext]_allVars
             PROVE  AppTypeInv'
  OBVIOUS
<1>0. TypeInv /\ TypeOK' /\ AppTypeOK /\ HandlersInTurn
  BY DEF TypeInv, AppTypeInv
<1>a. ASSUME UNCHANGED <<args, appVars>>
      PROVE  AppTypeInv'
  <2>1. loaded' \in [Requests -> SUBSET (1..Len(log'))]
    BY <1>0, <1>a, LoadedType DEF appVars
  <2> QED
    BY <1>0, <1>a, <2>1 DEF appVars, AppTypeInv, AppTypeOK, HandlersInTurn, Made
<1>1. CASE StoreStep
  <2>1. UNCHANGED args
    BY <1>0, <1>1, LoopStepAdds DEF StoreStep, StartAsync, Dispose
  <2> QED
    BY <1>1, <1>a, <2>1 DEF StoreStep
<1>2. ASSUME NEW r \in Requests, NEW c \in Commands, SendAsync(r, c)
      PROVE  AppTypeInv'
  <2>1. loaded' \in [Requests -> SUBSET (1..Len(log'))]
    BY <1>0, <1>2, LoadedType DEF SendAsync
  <2>2. AppTypeOK'
    BY <1>0, <1>2, <2>1 DEF SendAsync, AppTypeOK
  <2>3. ~Made(r)
    BY <1>0, <1>2, CommandType DEF SendAsync, HandlersInTurn
  <2>4. HandlersInTurn'
    BY <1>0, <1>2, <2>3 DEF SendAsync, AppTypeOK, HandlersInTurn, Made, vars
  <2> QED
    BY <2>2, <2>4 DEF AppTypeInv
<1>3. ASSUME NEW r \in Requests, TimeOut(r)
      PROVE  AppTypeInv'
  <2>1. loaded' \in [Requests -> SUBSET (1..Len(log'))]
    BY <1>0, <1>3, LoadedType DEF TimeOut
  <2>2. AppTypeOK'
    BY <1>0, <1>3, <2>1 DEF TimeOut, AppTypeOK
  <2>3. HandlersInTurn'
    BY <1>0, <1>3 DEF TimeOut, HandlersInTurn, Made, vars
  <2> QED
    BY <2>2, <2>3 DEF AppTypeInv
<1>4. ASSUME NEW r \in Requests, HandlerStep(r)
      PROVE  AppTypeInv'
  <2>1. CASE HandleSubscribe(r)
    BY <2>1, SaveKeepsTypes DEF HandleSubscribe
  <2>2. CASE HandleChange(r)
    BY <2>2, SaveKeepsTypes DEF HandleChange
  <2>3. CASE TryGetById(r)
    <3>1. EventsOf(CreateStreamId(sent[r].id)) \in SUBSET (1..Len(log'))
      BY <2>3 DEF TryGetById, EventsOf, vars
    <3>2. AppTypeOK'
      BY <1>0, <2>3, <3>1 DEF TryGetById, AppTypeOK, vars
    <3>3. HandlersInTurn'
      BY <1>0, <2>3 DEF TryGetById, AppTypeOK, HandlersInTurn, Made, vars
    <3> QED
      BY <3>2, <3>3 DEF AppTypeInv
  <2>4. CASE NotFound(r) \/ ReadThrows(r)
    BY <2>4, FinishKeepsTypes DEF NotFound, ReadThrows
  <2>5. CASE HandleEnable(r) \/ HandleUninitialized(r) \/ SaveReturns(r)
    BY <2>5, FinishKeepsTypes DEF HandleEnable, HandleUninitialized, SaveReturns
  <2> QED
    BY <1>4, <2>1, <2>2, <2>3, <2>4, <2>5 DEF HandlerStep
<1>5. CASE UNCHANGED allVars
  BY <1>5, <1>a DEF allVars, vars
<1> QED
  BY <1>1, <1>2, <1>3, <1>4, <1>5 DEF AppNext

(* What was sent and what was called with stay as they are. *)
LEMMA MadeStays ==
    ASSUME TypeInv, AppTypeInv, [AppNext]_allVars, NEW r \in Requests, Made(r)
    PROVE  Made(r)' /\ sent'[r] = sent[r] /\ args'[r] = args[r]
<1>0. TypeOK /\ AppTypeOK /\ HandlersInTurn /\ TypeInv
  BY DEF TypeInv, AppTypeInv
<1>1. sent[r] # NoCommand
  BY <1>0, CommandType DEF HandlersInTurn
<1>2. ASSUME NEW q \in Requests, NEW c \in Commands, SendAsync(q, c)
      PROVE  sent'[r] = sent[r]
  BY <1>0, <1>1, <1>2 DEF SendAsync, AppTypeOK
<1>3. ASSUME NEW q \in Requests, HandlerStep(q) \/ TimeOut(q)
      PROVE  sent'[r] = sent[r]
  BY <1>3 DEF HandlerStep, HandleSubscribe, TryGetById, NotFound, ReadThrows, HandleEnable,
              HandleChange, HandleUninitialized, SaveReturns, Finish, TimeOut
<1>4. ASSUME StoreStep \/ UNCHANGED allVars
      PROVE  sent'[r] = sent[r]
  BY <1>4 DEF StoreStep, allVars, appVars
<1>5. sent'[r] = sent[r]
  BY <1>2, <1>3, <1>4 DEF AppNext
<1>6. args'[r] = args[r]
  <2>1. ASSUME NEW q \in Requests, NEW call \in Calls, AppendAsync(q, call)
        PROVE  args'[r] = args[r]
    BY <1>0, <2>1 DEF AppendAsync, TypeOK, Made
  <2>2. CASE LoopStep
    BY <1>0, <2>2, LoopStepAdds
  <2>3. CASE StartAsync \/ Dispose \/ UNCHANGED vars
    BY <2>3 DEF StartAsync, Dispose, vars
  <2> QED
    BY <2>1, <2>2, <2>3, AppStepIsStoreStep DEF Next
<1> QED
  BY <1>5, <1>6 DEF Made

(* Only two of the handlers call the store. *)
LEMMA CallIsMade ==
    ASSUME TypeInv, AppTypeInv, [AppNext]_allVars, NEW r \in Requests, ~Made(r), Made(r)'
    PROVE  HandleSubscribe(r) \/ HandleChange(r)
<1>0. TypeOK /\ TypeInv
  BY DEF TypeInv
<1>1. ASSUME UNCHANGED args
      PROVE  FALSE
  BY <1>1 DEF Made
<1>2. ASSUME StoreStep \/ UNCHANGED allVars
      PROVE  UNCHANGED args
  BY <1>0, <1>2, LoopStepAdds DEF StoreStep, StartAsync, Dispose, allVars, vars
<1>3. ASSUME NEW q \in Requests, NEW c \in Commands, SendAsync(q, c) \/ TimeOut(q)
      PROVE  UNCHANGED args
  BY <1>3 DEF SendAsync, TimeOut, vars
<1>4. ASSUME NEW q \in Requests,
             \/ TryGetById(q) \/ NotFound(q) \/ ReadThrows(q)
             \/ HandleEnable(q) \/ HandleUninitialized(q) \/ SaveReturns(q)
      PROVE  UNCHANGED args
  BY <1>4 DEF TryGetById, NotFound, ReadThrows, HandleEnable, HandleUninitialized, SaveReturns,
              vars
<1>5. ASSUME NEW q \in Requests, q # r, HandleSubscribe(q) \/ HandleChange(q)
      PROVE  FALSE
  BY <1>0, <1>5 DEF HandleSubscribe, HandleChange, Save, AppendAsync, TypeOK, Made
<1>6. ASSUME NEW q \in Requests, TimeOut(q)
      PROVE  UNCHANGED args
  BY <1>6 DEF TimeOut, vars
<1> QED
  BY <1>1, <1>2, <1>3, <1>4, <1>5, <1>6 DEF AppNext, HandlerStep

(* The variables of the commands keep their types, and what a handler has   *)
(* loaded are indices of the log, however the log grows meanwhile.          *)
THEOREM AppTypeCorrect == AppSpec => []AppTypeOK
<1>1. AppTypeInv => AppTypeOK
  BY DEF AppTypeInv
<1> QED
  BY <1>1, AppTypeInit, AppTypeStep, StoreInvTypes, StoreInvHolds, PTL DEF AppSpec
-----------------------------------------------------------------------------
(* Every stream begins with the creation of its aggregate.                  *)

(* The events of a call name the request, and only a creator's first one    *)
(* is a creation. *)
CallsOfCommands ==
    \A r \in Requests : Made(r) =>
        /\ args[r].stream = CreateStreamId(sent[r].id)
        /\ IsCreator(r) => args[r].expected = NoStream
        /\ \A e \in 1..Len(args[r].events) :
               /\ args[r].events[e].by = r
               /\ args[r].events[e].kind = "Subscribed" <=> IsCreator(r) /\ e = 1

(* What a handler has loaded was recorded in the stream of its aggregate. *)
LoadedFromStream ==
    \A r \in Requests :
        handler[r] = "loaded" => loaded[r] \subseteq EventsOf(CreateStreamId(sent[r].id))

(* A change is made to a stream that held an event before it. *)
ChangesFollow ==
    \A r \in Requests : Made(r) /\ ~IsCreator(r) =>
        \E i \in RecordedIn(args[r].stream) :
            \A k \in 1..Len(log) : log[k].by = r => i < k

EventsNamed ==
    \A i \in 1..Len(log) : Recorded(i) => log[i].event.by = log[i].by

HasRecorded(r) == \E i \in 1..Len(log) : Recorded(i) /\ log[i].by = r

(* The loop found no event of the request it serves, and what it has yet to *)
(* write begins with a creation as long as it has written nothing.          *)
WritesInOrder ==
    pc = "writing" =>
        /\ \A event \in written : event.by # possible
        /\ \A e \in 1..Len(toWrite) :
               /\ toWrite[e].by = possible
               /\ toWrite[e].kind = "Subscribed"
                      <=> IsCreator(possible) /\ e = 1 /\ ~HasRecorded(possible)

CreationInv ==
    /\ CallsOfCommands /\ LoadedFromStream /\ ChangesFollow
    /\ EventsNamed /\ WritesInOrder
    /\ StreamBeginsWithCreation

CreationContext == StoreInv /\ StoreInv' /\ AppTypeInv /\ AppTypeInv' /\ CreationInv

LEMMA CreationInit == AppInit => CreationInv
<1> SUFFICES ASSUME AppInit PROVE CreationInv
  OBVIOUS
<1>1. Len(log) = 0 /\ pc # "writing" /\ \A r \in Requests : ~Made(r) /\ handler[r] = "idle"
  BY EmptySeq DEF AppInit, Init, Constructed, NoneSent, Made
<1> QED
  BY <1>1 DEF CreationInv, CallsOfCommands, LoadedFromStream, ChangesFollow, EventsNamed,
              WritesInOrder, StreamBeginsWithCreation
-----------------------------------------------------------------------------
(* The steps of senders and handlers. *)

LEMMA ServedIsMade ==
    ASSUME TypeInv, pc \in Serving
    PROVE  possible \in Requests /\ Made(possible) /\ Call \in Calls
  BY EventStreamAssumption DEF TypeInv, TypeOK, Turn, Made, Call

(* The streams of two aggregates are equal when the aggregates are one.     *)
LEMMA SameStream ==
    ASSUME NEW a, NEW b
    PROVE  IdEquals(CreateStreamId(a), CreateStreamId(b)) <=> a = b
<1>1. Len(Namespace) \in Nat
  BY LenProperties, RepositoryAssumption
<1> QED
  BY <1>1 DEF IdEquals, Covers, CreateStreamId

LEMMA StreamOfItem ==
    ASSUME StoreInv, CallsOfCommands, NEW i \in 1..Len(log)
    PROVE  /\ log[i].by \in Requests /\ Made(log[i].by)
           /\ log[i].stream = CreateStreamId(sent[log[i].by].id)
<1>1. log[i].by \in Requests
  BY ElementOfSeq DEF StoreInv, TypeInv, TypeOK, Item
<1> QED
  BY <1>1, EventStreamAssumption DEF StoreInv, Ownership, ItemsOwned, CallsOfCommands, Made

(* What reads as a stream's events is what the writer validates against. *)
LEMMA EventsOfIsRecordedIn ==
    ASSUME StoreInv, CallsOfCommands, NEW id
    PROVE  EventsOf(CreateStreamId(id)) = RecordedIn(CreateStreamId(id))
  BY StreamOfItem, SameStream DEF EventsOf, RecordedIn

(* A step that leaves the store alone, and the sends that were made. *)
LEMMA StoreUnchanged ==
    ASSUME CreationContext, UNCHANGED vars,
           \A r \in Requests : Made(r) => sent'[r] = sent[r],
           LoadedFromStream'
    PROVE  CreationInv'
<1>1. CallsOfCommands' /\ ChangesFollow'
  BY DEF CreationContext, CreationInv, CallsOfCommands, ChangesFollow, Made, IsCreator,
         vars, RecordedIn, Recorded
<1>2. EventsNamed' /\ StreamBeginsWithCreation'
  BY DEF CreationContext, CreationInv, EventsNamed, StreamBeginsWithCreation, vars, Recorded
<1>3. WritesInOrder'
  <2>1. pc = "writing" => possible \in Requests /\ Made(possible)
    BY ServedIsMade DEF CreationContext, StoreInv, Serving
  <2> QED
    BY <2>1 DEF CreationContext, CreationInv, WritesInOrder, HasRecorded, IsCreator, vars,
                loopVars, Recorded
<1> QED
  BY <1>1, <1>2, <1>3 DEF CreationInv

LEMMA FinishKeepsCreation ==
    ASSUME CreationContext, NEW r \in Requests, NEW how \in {"returned", "threw"},
           Finish(r, how), UNCHANGED <<vars, loaded>>
    PROVE  CreationInv'
<1>1. handler \in [Requests -> {"idle", "running", "loaded", "saving", "returned", "threw"}]
  BY DEF CreationContext, AppTypeInv, AppTypeOK
<1>2. LoadedFromStream'
  BY <1>1 DEF CreationContext, CreationInv, LoadedFromStream, Finish, EventsOf, Recorded, vars
<1> QED
  BY <1>2, StoreUnchanged DEF Finish

(* The events of a call, by their index. *)
LEMMA SerializeElements ==
    ASSUME NEW r, NEW id, NEW kinds, Serialize(r, id, kinds) \in Seq(EventIds), Len(kinds) \in Nat
    PROVE  \A e \in 1..Len(Serialize(r, id, kinds)) :
               /\ e \in 1..Len(kinds)
               /\ Serialize(r, id, kinds)[e].kind = kinds[e]
               /\ Serialize(r, id, kinds)[e].by = r
<1>1. DOMAIN Serialize(r, id, kinds) = 1..Len(Serialize(r, id, kinds))
  BY LenProperties
<1>2. DOMAIN Serialize(r, id, kinds) = 1..Len(kinds)
  BY DEF Serialize
<1> QED
  BY <1>1, <1>2 DEF Serialize

(* A handler that appends a creation to a stream, or a change to one it has *)
(* loaded an event of. *)
LEMMA SaveKeepsCreation ==
    ASSUME CreationContext, NEW r \in Requests, NEW version, NEW kinds,
           handler[r] # "idle",
           Save(r, sent[r].id, version, kinds), UNCHANGED <<sent, loaded, told>>,
           IsCreator(r) => Expected(version) = NoStream,
           Len(kinds) \in Nat,
           \A e \in 1..Len(kinds) : kinds[e] = "Subscribed" <=> IsCreator(r) /\ e = 1,
           ~IsCreator(r) => RecordedIn(CreateStreamId(sent[r].id)) # {}
    PROVE  CreationInv'
<1>0. /\ TypeOK /\ UncalledIdle /\ AppTypeOK
      /\ CallsOfCommands /\ LoadedFromStream /\ ChangesFollow /\ WritesInOrder
  BY DEF CreationContext, StoreInv, TypeInv, Ownership, AppTypeInv, CreationInv
<1> DEFINE events == Serialize(r, sent[r].id, kinds)
<1>1. PICK call \in Calls :
          /\ call = [stream |-> CreateStreamId(sent[r].id), expected |-> Expected(version),
                     events |-> events]
          /\ AppendAsync(r, call)
  BY DEF Save
<1>2. /\ args[r] = NoCall /\ args' = [args EXCEPT ![r] = call]
      /\ UNCHANGED <<log, pc, possible, written, toWrite>>
  BY <1>1 DEF AppendAsync, loopVars
<1>3. args'[r] = call /\ \A q \in Requests : q # r => args'[q] = args[q]
  BY <1>0, <1>2 DEF TypeOK
<1>4. /\ call.stream = CreateStreamId(sent[r].id) /\ call.expected = Expected(version)
      /\ call.events = events
  BY <1>1
<1>5. CallsOfCommands'
  <2>1. \A e \in 1..Len(events) :
            /\ events[e].by = r
            /\ events[e].kind = "Subscribed" <=> IsCreator(r) /\ e = 1
    <3>1. events \in Seq(EventIds)
      BY <1>1, <1>4, CallType
    <3>2. \A e \in 1..Len(events) :
              e \in 1..Len(kinds) /\ events[e].kind = kinds[e] /\ events[e].by = r
      BY <3>1, SerializeElements
    <3> HIDE DEF events
    <3> QED
      BY <3>2 DEF IsCreator
  <2> HIDE DEF events
  <2> QED
    BY <1>0, <1>3, <1>4, <2>1 DEF CallsOfCommands, Made, IsCreator
<1>6. ChangesFollow'
  <2> SUFFICES ASSUME NEW q \in Requests, Made(q)', ~IsCreator(q)'
               PROVE  \E i \in RecordedIn(args[q].stream)' :
                          \A k \in 1..Len(log') : log'[k].by = q => i < k
    BY DEF ChangesFollow
  <2>1. CASE q = r
    <3>1. \A k \in 1..Len(log) : log[k].by # r
      BY <1>0, <1>2 DEF UncalledIdle, WroteNothing
    <3>2. RecordedIn(CreateStreamId(sent[r].id)) # {}
      BY <2>1 DEF IsCreator
    <3>3. RecordedIn(args[q].stream)' = RecordedIn(CreateStreamId(sent[r].id))
      BY <1>2, <1>3, <1>4, <2>1 DEF RecordedIn, Recorded
    <3> QED
      BY <1>2, <2>1, <3>1, <3>2, <3>3
  <2>2. CASE q # r
    <3>1. args'[q] = args[q] /\ Made(q) /\ ~IsCreator(q)
      BY <1>3, <2>2 DEF Made, IsCreator
    <3>2. RecordedIn(args[q].stream)' = RecordedIn(args[q].stream)
      BY <1>2, <3>1 DEF RecordedIn, Recorded
    <3> QED
      BY <1>0, <1>2, <3>1, <3>2 DEF ChangesFollow
  <2> QED
    BY <2>1, <2>2
<1>7. LoadedFromStream'
  BY <1>0, <1>2 DEF LoadedFromStream, Save, AppTypeOK, EventsOf, Recorded
<1>8. EventsNamed' /\ StreamBeginsWithCreation' /\ WritesInOrder'
  BY <1>2 DEF CreationContext, CreationInv, EventsNamed, StreamBeginsWithCreation,
              WritesInOrder, HasRecorded, IsCreator, Recorded
<1> QED
  BY <1>5, <1>6, <1>7, <1>8 DEF CreationInv

LEMMA RaisedKinds ==
    ASSUME NEW kind, NEW events
    PROVE  /\ Len(Raised(kind, events)) \in Nat
           /\ \A e \in 1..Len(Raised(kind, events)) : Raised(kind, events)[e] # "Subscribed"
  BY DEF Raised

LEMMA HandlerKeepsCreation ==
    ASSUME CreationContext, NEW r \in Requests, HandlerStep(r)
    PROVE  CreationInv'
<1>1. CASE HandleSubscribe(r)
  <2>1. Expected(-1) = NoStream
    BY DEF Expected
  <2>2. /\ Len(<<"Subscribed", "Enabled">>) \in Nat
        /\ \A e \in 1..Len(<<"Subscribed", "Enabled">>) :
               <<"Subscribed", "Enabled">>[e] = "Subscribed" <=> e = 1
    OBVIOUS
  <2> QED
    BY <1>1, <2>1, <2>2, SaveKeepsCreation DEF HandleSubscribe, IsCreator
<1>2. CASE HandleChange(r)
  <2>1. loaded[r] \subseteq EventsOf(CreateStreamId(sent[r].id)) /\ loaded[r] # {}
    BY <1>2 DEF HandleChange, CreationContext, CreationInv, LoadedFromStream, HasId, Has
  <2>2. RecordedIn(CreateStreamId(sent[r].id)) # {}
    BY <2>1, EventsOfIsRecordedIn DEF CreationContext, CreationInv
  <2> QED
    BY <1>2, <2>2, RaisedKinds, SaveKeepsCreation DEF HandleChange, IsCreator
<1>3. CASE TryGetById(r)
  <2>1. LoadedFromStream'
    BY <1>3 DEF TryGetById, CreationContext, CreationInv, LoadedFromStream, AppTypeInv,
                AppTypeOK, EventsOf, Recorded, vars
  <2> QED
    BY <1>3, <2>1, StoreUnchanged DEF TryGetById
<1>4. CASE NotFound(r) \/ ReadThrows(r)
  BY <1>4, FinishKeepsCreation DEF NotFound, ReadThrows
<1>5. CASE HandleEnable(r) \/ HandleUninitialized(r) \/ SaveReturns(r)
  BY <1>5, FinishKeepsCreation DEF HandleEnable, HandleUninitialized, SaveReturns
<1> QED
  BY <1>1, <1>2, <1>3, <1>4, <1>5 DEF HandlerStep
-----------------------------------------------------------------------------
(* The steps of the loop. *)

LEMMA FilterKeepsOrder ==
    ASSUME CreationContext, FilterWritten, UNCHANGED appVars
    PROVE  WritesInOrder'
<1>0. /\ ServedOwned /\ CallsOfCommands /\ EventsNamed /\ pc = "filtering"
      /\ possible \in Requests /\ Made(possible)
  BY ServedIsMade DEF CreationContext, StoreInv, Ownership, CreationInv, FilterWritten, Serving
<1>1. /\ written' = {log[i].event : i \in RecordedIn(Call.stream)}
      /\ toWrite' = args[possible].events
      /\ UNCHANGED <<possible, log, sent>>
  BY DEF FilterWritten, GoTo, appVars, Call
<1>2. \A i \in 1..Len(log) : Recorded(i) => log[i].by # possible
  BY <1>0, TypeInit DEF ServedOwned, CreationContext, StoreInv, TypeInv, Turn, Serving
<1>3. \A event \in written' : event.by # possible
  BY <1>0, <1>1, <1>2 DEF RecordedIn, EventsNamed
<1>4. ~HasRecorded(possible)'
  BY <1>1, <1>2 DEF HasRecorded, Recorded
<1>5. \A e \in 1..Len(toWrite') :
          /\ toWrite'[e].by = possible
          /\ toWrite'[e].kind = "Subscribed" <=> IsCreator(possible) /\ e = 1
  BY <1>0, <1>1 DEF CallsOfCommands
<1> QED
  BY <1>1, <1>3, <1>4, <1>5 DEF WritesInOrder, IsCreator

(* The first event left to write is not in the stream, so it is written. *)
LEMMA WriteNextAdds ==
    ASSUME StoreInv, WritesInOrder, WriteNext
    PROVE  /\ Adds("recorded", Head(toWrite)) /\ UNCHANGED written
           /\ Head(toWrite) \in EventIds /\ Head(toWrite).by = possible
           /\ Head(toWrite).kind = "Subscribed" <=> IsCreator(possible) /\ ~HasRecorded(possible)
<1>0. TypeOK /\ Turn /\ PositionIsLast /\ pc = "writing" /\ toWrite # <<>>
  BY DEF StoreInv, TypeInv, WriteNext
<1>1. Len(toWrite) \in Nat /\ Len(toWrite) >= 1 /\ Head(toWrite) = toWrite[1]
  BY <1>0, LenProperties, EmptySeq, HeadTailProperties DEF TypeOK
<1>2. /\ Head(toWrite) \notin written /\ Head(toWrite).by = possible
      /\ Head(toWrite).kind = "Subscribed" <=> IsCreator(possible) /\ ~HasRecorded(possible)
  BY <1>0, <1>1 DEF WritesInOrder
<1>3. possible # NoRequest /\ position = Len(log)
  BY <1>0 DEF Turn, Serving, PositionIsLast
<1>4. Head(toWrite) \in EventIds
  BY <1>0, HeadTailProperties DEF TypeOK
<1> QED
  BY <1>2, <1>3, <1>4 DEF WriteNext, Adds

LEMMA WriteKeepsOrder ==
    ASSUME CreationContext, WriteNext, UNCHANGED appVars
    PROVE  WritesInOrder'
<1>0. TypeInv /\ TypeOK /\ StoreInv /\ WritesInOrder
  BY DEF CreationContext, StoreInv, TypeInv, CreationInv
<1>1. /\ Adds("recorded", Head(toWrite)) /\ Head(toWrite) \in EventIds
      /\ UNCHANGED <<written, possible, sent>>
      /\ toWrite # <<>> /\ toWrite' = Tail(toWrite) /\ pc = "writing"
  BY <1>0, WriteNextAdds DEF Adds, appVars, WriteNext
<1>2. HasRecorded(possible)'
  <2>1. /\ log'[Len(log) + 1].kind = "recorded" /\ log'[Len(log) + 1].by = possible
        /\ Len(log') = Len(log) + 1
    BY <1>0, <1>1, AddsAppends
  <2>2. Len(log) \in Nat
    BY <1>0, LenProperties DEF TypeOK
  <2> QED
    BY <1>1, <2>1, <2>2 DEF HasRecorded, Recorded
<1>3. \A e \in 1..Len(toWrite') : e + 1 \in 1..Len(toWrite) /\ e + 1 # 1
                                /\ toWrite'[e] = toWrite[e + 1]
  <2>1. /\ Len(toWrite) \in Nat /\ Len(toWrite') = Len(toWrite) - 1
        /\ \A e \in 1..Len(toWrite') : toWrite'[e] = toWrite[e + 1]
    BY <1>0, <1>1, LenProperties, HeadTailProperties DEF TypeOK
  <2> QED
    BY <2>1
<1>4. \A e \in 1..Len(toWrite') : toWrite'[e].by = possible /\ toWrite'[e].kind # "Subscribed"
  BY <1>0, <1>1, <1>3 DEF WritesInOrder
<1>5. \A event \in written' : event.by # possible
  BY <1>0, <1>1 DEF WritesInOrder
<1> QED
  BY <1>1, <1>2, <1>4, <1>5 DEF WritesInOrder

(* The item the loop writes begins its stream exactly if it is a creation. *)
LEMMA WriteKeepsCreation ==
    ASSUME CreationContext, WriteNext
    PROVE  StreamBeginsWithCreation' /\ EventsNamed'
<1>0. /\ TypeInv /\ TypeOK /\ StoreInv /\ WritesInOrder /\ StreamBeginsWithCreation
      /\ EventsNamed /\ CallsOfCommands /\ ChangesFollow /\ ServedAtVersion /\ ItemsOwned
      /\ pc = "writing" /\ toWrite # <<>> /\ Len(log) \in Nat
      /\ possible \in Requests /\ Made(possible)
  BY ServedIsMade, LenProperties
     DEF CreationContext, StoreInv, TypeInv, TypeOK, CreationInv, VersionInv, Ownership,
         WriteNext, Serving
<1> DEFINE n == Len(log) + 1
           event == Head(toWrite)
<1>1. /\ Adds("recorded", event) /\ event \in EventIds /\ event.by = possible
      /\ event.kind = "Subscribed" <=> IsCreator(possible) /\ ~HasRecorded(possible)
  BY <1>0, WriteNextAdds
<1> HIDE DEF event
<1>2. /\ Len(log') = n /\ \A i \in 1..Len(log) : log'[i] = log[i]
      /\ log'[n].kind = "recorded" /\ log'[n].stream = Call.stream
      /\ log'[n].event = event /\ log'[n].by = possible
  BY <1>0, <1>1, AddsAppends
<1>3. \A i \in 1..Len(log') : i \in 1..Len(log) \/ i = n
  BY <1>0, <1>1, AddsIndex
<1>4. event.kind = "Subscribed" <=> RecordedIn(Call.stream) = {}
  <2>1. CASE IsCreator(possible) /\ ~HasRecorded(possible)
    <3>1. OthersIn(log, Call.stream, possible, n) = {}
      BY <1>0, <2>1 DEF ServedAtVersion, AtExpected, CallsOfCommands, Call
    <3>2. \A i \in RecordedIn(Call.stream) : i \in OthersIn(log, Call.stream, possible, n)
      BY <1>0, <2>1 DEF RecordedIn, Recorded, HasRecorded, OthersIn
    <3> QED
      BY <1>1, <2>1, <3>1, <3>2
  <2>2. CASE IsCreator(possible) /\ HasRecorded(possible)
    <3>1. PICK i \in 1..Len(log) : Recorded(i) /\ log[i].by = possible
      BY <2>2 DEF HasRecorded
    <3>2. log[i].stream = Call.stream /\ IdEquals(Call.stream, Call.stream)
      BY <1>0, <3>1, SameStream DEF ItemsOwned, Call, CallsOfCommands
    <3> QED
      BY <1>1, <2>2, <3>1, <3>2 DEF RecordedIn
  <2>3. CASE ~IsCreator(possible)
    BY <1>0, <1>1, <2>3 DEF ChangesFollow, Call
  <2> QED
    BY <2>1, <2>2, <2>3
<1>5. StreamBeginsWithCreation'
  <2> SUFFICES ASSUME NEW i \in 1..Len(log'), Recorded(i)'
               PROVE  log'[i].event.kind = "Subscribed"
                      <=> ~\E j \in 1..(i - 1) : /\ Recorded(j)'
                                                 /\ IdEquals(log'[j].stream, log'[i].stream)
    BY DEF StreamBeginsWithCreation
  <2>1. CASE i \in 1..Len(log)
    <3>1. \A j \in 1..(i - 1) : j \in 1..Len(log) /\ log'[j] = log[j]
      BY <1>0, <1>2, <2>1
    <3> QED
      BY <1>0, <1>2, <2>1, <3>1 DEF StreamBeginsWithCreation, Recorded
  <2>2. CASE i = n
    <3>1. \A j : j \in 1..(i - 1) <=> j \in 1..Len(log)
      BY <1>0, <2>2
    <3> QED
      BY <1>2, <1>4, <2>2, <3>1 DEF RecordedIn, Recorded
  <2> QED
    BY <1>3, <2>1, <2>2
<1>6. EventsNamed'
  BY <1>0, <1>1, <1>2, <1>3 DEF EventsNamed, Recorded
<1> QED
  BY <1>5, <1>6

LEMMA LoopKeepsCreation ==
    ASSUME CreationContext, LoopStep, UNCHANGED appVars
    PROVE  CreationInv'
<1>0. /\ TypeInv /\ CallsOfCommands /\ LoadedFromStream /\ ChangesFollow /\ EventsNamed
      /\ StreamBeginsWithCreation
  BY DEF CreationContext, StoreInv, CreationInv
<1>1. UNCHANGED args /\ UNCHANGED <<sent, handler, loaded, told>>
  BY <1>0, LoopStepAdds DEF appVars
<1>2. /\ Len(log) \in Nat /\ Len(log') \in Nat /\ Len(log) <= Len(log')
      /\ \A i \in 1..Len(log) : i \in 1..Len(log') /\ log'[i] = log[i]
  BY <1>0, LogGrows DEF AppNext, StoreStep
<1>3. CallsOfCommands'
  BY <1>0, <1>1 DEF CallsOfCommands, Made, IsCreator
<1>4. LoadedFromStream'
  <2>1. ASSUME NEW r \in Requests, handler[r] = "loaded"
        PROVE  (loaded[r] \subseteq EventsOf(CreateStreamId(sent[r].id)))'
    <3>1. loaded[r] \subseteq EventsOf(CreateStreamId(sent[r].id))
      BY <1>0, <2>1 DEF LoadedFromStream
    <3>2. (EventsOf(CreateStreamId(sent[r].id)))' = {i \in 1..Len(log') :
              log'[i].kind = "recorded" /\ IdEquals(CreateStreamId(sent[r].id), log'[i].stream)}
      BY <1>1 DEF EventsOf, Recorded, CreateStreamId
    <3> QED
      BY <1>1, <1>2, <3>1, <3>2 DEF EventsOf, Recorded
  <2> QED
    BY <1>1, <2>1 DEF LoadedFromStream
<1>5. ChangesFollow'
  <2> SUFFICES ASSUME NEW r \in Requests, Made(r), ~IsCreator(r)
               PROVE  \E i \in RecordedIn(args[r].stream)' :
                          \A k \in 1..Len(log') : log'[k].by = r => i < k
    BY <1>1 DEF ChangesFollow, Made, IsCreator
  <2>1. PICK i \in RecordedIn(args[r].stream) : \A k \in 1..Len(log) : log[k].by = r => i < k
    BY <1>0 DEF ChangesFollow
  <2>2. i \in 1..Len(log) /\ i \in RecordedIn(args[r].stream)'
    BY <1>1, <1>2, <2>1 DEF RecordedIn, Recorded
  <2>3. \A k \in 1..Len(log') : log'[k].by = r => i < k
    BY <1>2, <2>1, <2>2
  <2> QED
    BY <2>2, <2>3
<1>6. WritesInOrder' /\ EventsNamed' /\ StreamBeginsWithCreation'
  <2>1. CASE WriteNext
    BY <2>1, WriteKeepsOrder, WriteKeepsCreation
  <2>2. CASE FilterWritten
    <3>1. UNCHANGED log
      BY <2>2 DEF FilterWritten
    <3> QED
      BY <1>0, <2>2, <3>1, FilterKeepsOrder DEF EventsNamed, StreamBeginsWithCreation, Recorded
  <2>3. CASE EnsureCreated
    <3>1. pc' = "filtering" /\ pc = "positioning"
      BY <2>3 DEF EnsureCreated, GoTo
    <3>2. CASE UNCHANGED log
      BY <1>0, <3>1, <3>2 DEF EventsNamed, StreamBeginsWithCreation, Recorded, WritesInOrder
    <3>3. ASSUME NEW kind \in {"created", "recorded"}, NEW event \in EventIds \cup {NoEvent},
                 Adds(kind, event)
          PROVE  EventsNamed' /\ StreamBeginsWithCreation'
      <4>1. kind = "created"
        BY <3>1, <3>3 DEF Adds
      <4>2. ASSUME NEW i \in 1..Len(log')
            PROVE  i \in 1..Len(log) \/ ~Recorded(i)'
        <5>1. i \in 1..Len(log) \/ i = Len(log) + 1
          BY <1>0, <3>3, AddsIndex
        <5>2. log'[Len(log) + 1].kind = "created"
          BY <1>0, <3>3, <4>1, AddsAppends
        <5> QED
          BY <5>1, <5>2 DEF Recorded
      <4>3. \A i \in 1..Len(log) : \A j \in 1..(i - 1) : j \in 1..Len(log)
        BY <1>2
      <4> QED
        BY <1>0, <1>2, <4>2, <4>3 DEF EventsNamed, StreamBeginsWithCreation, Recorded
    <3> QED
      BY <1>0, <3>1, <3>2, <3>3, LoopStepAdds DEF WritesInOrder
  <2>4. CASE TakeRequest \/ StopLoop \/ Validate \/ ValidationThrows
    <3>1. UNCHANGED log /\ pc' # "writing"
      BY <2>4 DEF TakeRequest, StopLoop, Validate, ValidationThrows, GoTo, EndTurn
    <3> QED
      BY <1>0, <3>1 DEF WritesInOrder, EventsNamed, StreamBeginsWithCreation, Recorded
  <2>5. CASE ProcessingThrows \/ AnswerOk
    <3>1. UNCHANGED log /\ pc' # "writing"
      BY <2>5 DEF ProcessingThrows, AnswerOk, EndTurn
    <3> QED
      BY <1>0, <3>1 DEF WritesInOrder, EventsNamed, StreamBeginsWithCreation, Recorded
  <2> QED
    BY <2>1, <2>2, <2>3, <2>4, <2>5 DEF LoopStep
<1> QED
  BY <1>3, <1>4, <1>5, <1>6 DEF CreationInv

LEMMA CreationStep == CreationContext /\ [AppNext]_allVars => CreationInv'
<1> SUFFICES ASSUME CreationContext, [AppNext]_allVars
             PROVE  CreationInv'
  OBVIOUS
<1>0. LoadedFromStream
  BY DEF CreationContext, CreationInv
<1>1. CASE StoreStep
  <2>1. CASE LoopStep
    BY <1>1, <2>1, LoopKeepsCreation DEF StoreStep
  <2>2. CASE StartAsync \/ Dispose
    <3>1. /\ UNCHANGED <<log, args, possible, written, toWrite>>
          /\ pc' = pc \/ pc' = "waiting"
      BY <2>2 DEF StartAsync, Dispose, loopVars
    <3> QED
      BY <1>1, <3>1 DEF StoreStep, appVars, CreationContext, CreationInv, CallsOfCommands,
         LoadedFromStream, ChangesFollow, EventsNamed, WritesInOrder, StreamBeginsWithCreation,
         Made, IsCreator, HasRecorded, Recorded, EventsOf, RecordedIn
  <2> QED
    BY <1>1, <2>1, <2>2 DEF StoreStep
<1>2. ASSUME NEW r \in Requests, NEW c \in Commands, SendAsync(r, c)
      PROVE  CreationInv'
  <2>1. ~Made(r)
    BY <1>2, CommandType DEF SendAsync, CreationContext, AppTypeInv, HandlersInTurn
  <2>2. LoadedFromStream'
    BY <1>0, <1>2 DEF SendAsync, LoadedFromStream, CreationContext, AppTypeInv, AppTypeOK,
       EventsOf, Recorded, vars
  <2>3. \A q \in Requests : Made(q) => sent'[q] = sent[q]
    BY <1>2, <2>1 DEF SendAsync, CreationContext, AppTypeInv, AppTypeOK
  <2> QED
    BY <1>2, <2>2, <2>3, StoreUnchanged DEF SendAsync
<1>3. ASSUME NEW r \in Requests, TimeOut(r)
      PROVE  CreationInv'
  <2>1. LoadedFromStream'
    BY <1>0, <1>3 DEF TimeOut, LoadedFromStream, EventsOf, Recorded, vars
  <2> QED
    BY <1>3, <2>1, StoreUnchanged DEF TimeOut
<1>4. CASE UNCHANGED allVars
  <2>1. LoadedFromStream'
    BY <1>0, <1>4 DEF allVars, appVars, LoadedFromStream, EventsOf, Recorded, vars
  <2> QED
    BY <1>4, <2>1, StoreUnchanged DEF allVars, appVars
<1> QED
  BY <1>1, <1>2, <1>3, <1>4, HandlerKeepsCreation DEF AppNext

(* However many Subscribe commands race, time out and are sent again, and   *)
(* whatever is loaded half saved: a stream begins with its creation, which  *)
(* is recorded in no other place.                                           *)
THEOREM StreamsBeginWithCreation == AppSpec => []StreamBeginsWithCreation
<1>1. CreationInv => StreamBeginsWithCreation
  BY DEF CreationInv
<1>2. StoreInv /\ StoreInv' /\ AppTypeInv /\ AppTypeInv' /\ CreationInv /\ [AppNext]_allVars
          => CreationInv'
  BY CreationStep DEF CreationContext
<1> QED
  BY <1>1, <1>2, AppTypeInit, AppTypeStep, StoreInvTypes, CreationInit, StoreInvHolds, PTL DEF AppSpec
-----------------------------------------------------------------------------
(* Who is told that a Subscribe was handled finds the subscription whole.   *)

(* A recorded event of that kind, in the stream of that aggregate. *)
HasKind(items, id, kind) ==
    \E i \in 1..Len(items) : /\ items[i].kind = "recorded"
                             /\ items[i].event.kind = kind
                             /\ items[i].stream = CreateStreamId(id)

(* A sender is told nothing before its command, and a creator's not that it *)
(* was handled before its call was answered.                                *)
ToldAfterAnswer ==
    \A r \in Requests :
        /\ sent[r] = NoCommand => told[r] = "waiting"
        /\ sent[r] # NoCommand /\ IsCreator(r) /\ told[r] = "ok" => answer[r] # Pending

Enabling(events) == \E e \in 1..Len(events) : events[e].kind = "Enabled"

CreatorsEnable == \A r \in Requests : Made(r) /\ IsCreator(r) => Enabling(args[r].events)

EnabledIsLeft ==
    pc = "writing" /\ IsCreator(possible) /\ ~HasRecorded(possible) => Enabling(toWrite)

(* A stream with a creation has the event that enables it too, unless the   *)
(* loop is about to write it.                                               *)
CreatedIsEnabled ==
    \A i \in 1..Len(log) :
        Recorded(i) /\ log[i].event.kind = "Subscribed" =>
            \/ HasKind(log, sent[log[i].by].id, "Enabled")
            \/ pc = "writing" /\ possible = log[i].by /\ Enabling(toWrite)

(* A creator is refused because its stream holds another's creation. *)
RefusedFindWhole ==
    \A r \in Requests : Made(r) /\ IsCreator(r) =>
        /\ answer[r].status # "doesNotExist"
        /\ answer[r].status = "wrongVersion" => /\ HasKind(log, sent[r].id, "Subscribed")
                                               /\ HasKind(log, sent[r].id, "Enabled")

WholeInv ==
    ToldAfterAnswer /\ CreatorsEnable /\ EnabledIsLeft /\ CreatedIsEnabled /\ RefusedFindWhole

WholeContext == CreationContext /\ CreationInv' /\ WholeInv

LEMMA WholeInit == AppInit => WholeInv
<1> SUFFICES ASSUME AppInit PROVE WholeInv
  OBVIOUS
<1>1. /\ Len(log) = 0 /\ pc # "writing"
      /\ \A r \in Requests : ~Made(r) /\ told[r] = "waiting"
  BY EmptySeq DEF AppInit, Init, Constructed, NoneSent, Made
<1> QED
  BY <1>1 DEF WholeInv, ToldAfterAnswer, CreatorsEnable, EnabledIsLeft, CreatedIsEnabled,
              RefusedFindWhole

LEMMA HasKindGrows ==
    ASSUME TypeInv, [AppNext]_allVars, NEW id, NEW kind, HasKind(log, id, kind)
    PROVE  HasKind(log', id, kind)
  BY LogGrows DEF HasKind

LEMMA ToldStep ==
    ASSUME WholeContext, [AppNext]_allVars
    PROVE  ToldAfterAnswer'
<1>0. /\ TypeInv /\ Ownership /\ AppTypeOK /\ ToldAfterAnswer
      /\ sent \in [Requests -> Commands \cup {NoCommand}]
      /\ told \in [Requests -> {"waiting", "ok", "failed", "timedOut"}]
  BY DEF WholeContext, CreationContext, StoreInv, AppTypeInv, AppTypeOK, WholeInv
<1>1. \A r \in Requests : answer[r] # Pending => answer'[r] # Pending
  BY <1>0, AppStepIsStoreStep, AnsweredOnceStep
<1>2. ASSUME NEW r \in Requests, NEW c \in Commands, SendAsync(r, c)
      PROVE  ToldAfterAnswer'
  BY <1>0, <1>1, <1>2, CommandType DEF SendAsync, ToldAfterAnswer, IsCreator
<1>3. ASSUME NEW r \in Requests, TimeOut(r)
      PROVE  ToldAfterAnswer'
  BY <1>0, <1>1, <1>3 DEF TimeOut, ToldAfterAnswer, IsCreator
<1>4. ASSUME UNCHANGED <<sent, told>>
      PROVE  ToldAfterAnswer'
  BY <1>0, <1>1, <1>4 DEF ToldAfterAnswer, IsCreator
<1>5. ASSUME NEW r \in Requests, NEW how \in {"returned", "threw"}, Finish(r, how),
             handler[r] # "idle", IsCreator(r) => answer'[r] # Pending
      PROVE  ToldAfterAnswer'
  <2>1. sent[r] # NoCommand
    BY <1>5, CommandType DEF WholeContext, CreationContext, AppTypeInv, HandlersInTurn
  <2> QED
    BY <1>0, <1>1, <1>5, <2>1 DEF Finish, ToldAfterAnswer, IsCreator
<1>6. ASSUME NEW r \in Requests, HandlerStep(r)
      PROVE  ToldAfterAnswer'
  <2>1. CASE HandleSubscribe(r) \/ HandleChange(r) \/ TryGetById(r)
    BY <1>4, <2>1 DEF HandleSubscribe, HandleChange, TryGetById
  <2>2. CASE NotFound(r) \/ ReadThrows(r) \/ HandleEnable(r) \/ HandleUninitialized(r)
    BY <1>5, <2>2 DEF NotFound, ReadThrows, HandleEnable, HandleUninitialized, IsCreator
  <2>3. CASE SaveReturns(r)
    BY <1>1, <1>5, <2>3 DEF SaveReturns
  <2> QED
    BY <1>6, <2>1, <2>2, <2>3 DEF HandlerStep
<1>7. CASE StoreStep \/ UNCHANGED allVars
  BY <1>4, <1>7 DEF StoreStep, allVars, appVars
<1> QED
  BY <1>2, <1>3, <1>6, <1>7 DEF AppNext

LEMMA EnableStep ==
    ASSUME WholeContext, [AppNext]_allVars
    PROVE  CreatorsEnable'
<1> SUFFICES ASSUME NEW r \in Requests, Made(r)', IsCreator(r)'
             PROVE  Enabling(args'[r].events)
  BY DEF CreatorsEnable, Enabling
<1>1. CASE Made(r)
  BY <1>1, MadeStays DEF WholeContext, CreationContext, StoreInv, WholeInv, CreatorsEnable,
                         IsCreator
<1>2. CASE ~Made(r)
  <2>1. TypeOK
    BY DEF WholeContext, CreationContext, StoreInv, TypeInv
  <2>2. HandleSubscribe(r)
    BY <1>2, CallIsMade DEF HandleChange, IsCreator, WholeContext, CreationContext, StoreInv
  <2>3. PICK call \in Calls :
            /\ call.events = Serialize(r, sent[r].id, <<"Subscribed", "Enabled">>)
            /\ AppendAsync(r, call)
    BY <2>2 DEF HandleSubscribe, Save
  <2>4. args'[r] = call
    BY <2>1, <2>3 DEF AppendAsync, TypeOK
  <2>5. call.events = [e \in 1..2 |-> [kind |-> <<"Subscribed", "Enabled">>[e],
                                     id |-> sent[r].id, by |-> r]]
    BY <2>3 DEF Serialize
  <2>6. call.events[2].kind = "Enabled" /\ DOMAIN call.events = 1..2
    BY <2>5
  <2>7. 2 \in 1..Len(call.events)
    BY <2>6, CallType, LenProperties
  <2> QED
    BY <2>4, <2>6, <2>7 DEF Enabling
<1> QED
  BY <1>1, <1>2

LEMMA LeftStep ==
    ASSUME WholeContext, [AppNext]_allVars
    PROVE  EnabledIsLeft'
<1> SUFFICES ASSUME pc' = "writing", IsCreator(possible)', ~HasRecorded(possible)'
             PROVE  Enabling(toWrite')
  BY DEF EnabledIsLeft, Enabling
<1>0. /\ TypeInv /\ TypeOK /\ StoreInv /\ AppTypeInv
      /\ WritesInOrder /\ EnabledIsLeft /\ CreatorsEnable
  BY DEF WholeContext, CreationContext, StoreInv, TypeInv, CreationInv, WholeInv
<1>1. pc \in Serving => possible \in Requests /\ Made(possible) /\ sent'[possible] = sent[possible]
  BY <1>0, ServedIsMade, MadeStays
<1>2. CASE UNCHANGED <<log, pc, possible, toWrite>>
  BY <1>0, <1>1, <1>2 DEF EnabledIsLeft, Serving, IsCreator, HasRecorded, Recorded
<1>3. CASE FilterWritten
  BY <1>0, <1>1, <1>3 DEF FilterWritten, GoTo, Call, CreatorsEnable, Serving, IsCreator
<1>4. CASE WriteNext
  <2>1. Adds("recorded", Head(toWrite)) /\ Head(toWrite) \in EventIds
    BY <1>0, <1>4, WriteNextAdds
  <2>2. /\ log'[Len(log) + 1].kind = "recorded" /\ log'[Len(log) + 1].by = possible
        /\ Len(log') = Len(log) + 1 /\ possible' = possible
    BY <1>0, <2>1, AddsAppends DEF Adds
  <2>3. Len(log) \in Nat
    BY <1>0, LenProperties DEF TypeOK
  <2> QED
    BY <2>2, <2>3 DEF HasRecorded, Recorded
<1>5. CASE \/ TakeRequest \/ StopLoop \/ Validate \/ ValidationThrows \/ ProcessingThrows
           \/ EnsureCreated \/ AnswerOk \/ StartAsync
  BY <1>5 DEF TakeRequest, StopLoop, Validate, ValidationThrows, ProcessingThrows,
              EnsureCreated, AnswerOk, StartAsync, GoTo, EndTurn
<1>6. CASE Dispose \/ UNCHANGED vars
  BY <1>2, <1>6 DEF Dispose, vars, loopVars
<1>7. ASSUME NEW r \in Requests, NEW call \in Calls, AppendAsync(r, call)
      PROVE  UNCHANGED <<log, pc, possible, toWrite>>
  BY <1>7 DEF AppendAsync, loopVars
<1> QED
  BY <1>2, <1>3, <1>4, <1>5, <1>6, <1>7, AppStepIsStoreStep DEF Next, LoopStep

LEMMA EnabledStep ==
    ASSUME WholeContext, [AppNext]_allVars
    PROVE  CreatedIsEnabled'
<1> SUFFICES ASSUME NEW i \in 1..Len(log'), log'[i].kind = "recorded",
                    log'[i].event.kind = "Subscribed"
             PROVE  \/ HasKind(log', sent'[log'[i].by].id, "Enabled")
                    \/ pc' = "writing" /\ possible' = log'[i].by /\ Enabling(toWrite')
  BY DEF CreatedIsEnabled, Recorded, HasKind, Enabling
<1>0. /\ TypeInv /\ TypeOK /\ StoreInv /\ AppTypeInv
      /\ CallsOfCommands /\ WritesInOrder /\ CreatedIsEnabled
      /\ EnabledIsLeft /\ EventsNamed
      /\ Len(log) \in Nat
  BY LenProperties
     DEF WholeContext, CreationContext, StoreInv, TypeInv, TypeOK, CreationInv, WholeInv
<1>1. ASSUME i \in 1..Len(log), HasKind(log, sent[log[i].by].id, "Enabled")
      PROVE  HasKind(log', sent'[log'[i].by].id, "Enabled")
  <2>1. log'[i] = log[i] /\ sent'[log[i].by] = sent[log[i].by]
    BY <1>0, <1>1, LogGrows, StreamOfItem, MadeStays
  <2> QED
    BY <1>0, <1>1, <2>1, HasKindGrows
<1>2. ASSUME i \in 1..Len(log)
      PROVE  \/ HasKind(log, sent[log[i].by].id, "Enabled")
             \/ pc = "writing" /\ possible = log[i].by /\ Enabling(toWrite)
  <2>1. log'[i] = log[i]
    BY <1>0, <1>2, LogGrows
  <2> QED
    BY <1>0, <1>2, <2>1 DEF CreatedIsEnabled, Recorded
<1>3. CASE WriteNext
  <2>1. /\ Adds("recorded", Head(toWrite)) /\ Head(toWrite) \in EventIds
        /\ toWrite # <<>> /\ toWrite' = Tail(toWrite)
        /\ possible' = possible /\ pc = "writing" /\ pc' = "writing"
        /\ Head(toWrite).kind = "Subscribed" => IsCreator(possible) /\ ~HasRecorded(possible)
    BY <1>0, <1>3, WriteNextAdds DEF Adds
  <2>2. /\ possible \in Requests /\ Made(possible) /\ sent'[possible] = sent[possible]
        /\ Call.stream = CreateStreamId(sent[possible].id)
    BY <1>0, <2>1, ServedIsMade, MadeStays DEF Serving, CallsOfCommands, Call
  <2>3. /\ Len(log') = Len(log) + 1
        /\ log'[Len(log) + 1].kind = "recorded" /\ log'[Len(log) + 1].by = possible
        /\ log'[Len(log) + 1].event = Head(toWrite)
        /\ log'[Len(log) + 1].stream = Call.stream
    BY <1>0, <2>1, AddsAppends
  <2>4. Enabling(toWrite) => Head(toWrite).kind = "Enabled" \/ Enabling(toWrite')
    <3>1. /\ Len(toWrite) \in Nat /\ Len(toWrite') = Len(toWrite) - 1
          /\ Head(toWrite) = toWrite[1]
          /\ \A k \in 1..Len(toWrite') : toWrite'[k] = toWrite[k + 1]
      BY <1>0, <2>1, LenProperties, HeadTailProperties DEF TypeOK
    <3>2. ASSUME NEW e \in 1..Len(toWrite), e # 1
          PROVE  e - 1 \in 1..Len(toWrite') /\ toWrite'[e - 1] = toWrite[e]
      BY <3>1, <3>2
    <3> QED
      BY <3>1, <3>2 DEF Enabling
  <2>5. Head(toWrite).kind = "Enabled" => HasKind(log', sent[possible].id, "Enabled")
    BY <1>0, <2>2, <2>3 DEF HasKind
  <2>6. CASE i \in 1..Len(log)
    <3>1. log'[i].by = log[i].by
      BY <1>0, <2>6, LogGrows
    <3> QED
      BY <1>1, <1>2, <2>1, <2>2, <2>4, <2>5, <2>6, <3>1
  <2>7. CASE i = Len(log) + 1
    <3>1. Enabling(toWrite)
      BY <1>0, <2>1, <2>3, <2>7 DEF EnabledIsLeft
    <3> QED
      BY <2>1, <2>3, <2>4, <2>7, <3>1
  <2> QED
    BY <1>0, <2>3, <2>6, <2>7
<1>4. ASSUME UNCHANGED log, pc = "writing" /\ toWrite # <<>> => UNCHANGED <<pc, possible, toWrite>>
      PROVE  \/ HasKind(log', sent'[log'[i].by].id, "Enabled")
             \/ pc' = "writing" /\ possible' = log'[i].by /\ Enabling(toWrite')
  <2>1. Enabling(toWrite) => toWrite # <<>>
    BY EmptySeq DEF Enabling
  <2> QED
    BY <1>1, <1>2, <1>4, <2>1
<1>5. CASE EnsureCreated
  <2>1. pc = "positioning"
    BY <1>5 DEF EnsureCreated
  <2>2. ASSUME NEW kind \in {"created", "recorded"}, NEW event \in EventIds \cup {NoEvent},
               Adds(kind, event)
        PROVE  i \in 1..Len(log)
    <3>1. log'[Len(log) + 1].kind = "created"
      BY <1>0, <2>1, <2>2, AddsAppends DEF Adds
    <3>2. i \in 1..Len(log) \/ i = Len(log) + 1
      BY <1>0, <2>2, AddsIndex
    <3> QED
      BY <3>1, <3>2
  <2>3. i \in 1..Len(log)
    BY <1>0, <1>5, <2>2, LoopStepAdds DEF LoopStep
  <2> QED
    BY <1>1, <1>2, <2>1, <2>3
<1>6. CASE \/ TakeRequest \/ StopLoop \/ Validate \/ ValidationThrows \/ ProcessingThrows
           \/ FilterWritten \/ AnswerOk \/ StartAsync \/ Dispose \/ UNCHANGED vars
  BY <1>4, <1>6 DEF TakeRequest, StopLoop, Validate, ValidationThrows, ProcessingThrows,
              FilterWritten, AnswerOk, StartAsync, Dispose, vars, loopVars
<1>7. ASSUME NEW r \in Requests, NEW call \in Calls, AppendAsync(r, call)
      PROVE  UNCHANGED <<log, pc, possible, toWrite>>
  BY <1>7 DEF AppendAsync, loopVars
<1> QED
  BY <1>3, <1>4, <1>5, <1>6, <1>7, AppStepIsStoreStep DEF Next, LoopStep

(* A stream with an event has a creation, and is enabled unless the loop is *)
(* writing.                                                                 *)
LEMMA EventIsOfWhole ==
    ASSUME StoreInv, CreationInv, WholeInv, NEW id, RecordedIn(CreateStreamId(id)) # {}
    PROVE  /\ HasKind(log, id, "Subscribed")
           /\ pc # "writing" => HasKind(log, id, "Enabled")
<1> DEFINE T == RecordedIn(CreateStreamId(id))
<1>1. CallsOfCommands /\ StreamBeginsWithCreation /\ CreatedIsEnabled /\ Len(log) \in Nat
  BY LenProperties DEF StoreInv, TypeInv, TypeOK, CreationInv, WholeInv
<1>2. T \subseteq 1..Len(log)
  BY DEF RecordedIn
<1>3. PICK m \in T : \A k \in T : m <= k
  <2>1. T \subseteq Nat /\ T # {}
    BY <1>1, <1>2
  <2> HIDE DEF T
  <2> QED
    BY <2>1, LeastMember
<1>4. m \in 1..Len(log) /\ Recorded(m) /\ sent[log[m].by].id = id
      /\ log[m].stream = CreateStreamId(id)
  <2>1. m \in 1..Len(log) /\ Recorded(m) /\ IdEquals(log[m].stream, CreateStreamId(id))
    BY DEF RecordedIn
  <2> QED
    BY <1>1, <2>1, StreamOfItem, SameStream
<1>5. log[m].event.kind = "Subscribed"
  <2>1. ASSUME NEW j \in 1..(m - 1), Recorded(j), IdEquals(log[j].stream, log[m].stream)
        PROVE  FALSE
    <3>1. j \in 1..Len(log) /\ j < m
      BY <1>1, <1>4
    <3>2. j \in T
      BY <1>4, <2>1, <3>1 DEF RecordedIn
    <3> QED
      BY <1>1, <1>3, <1>4, <3>1, <3>2
  <2> QED
    BY <1>1, <1>4, <2>1 DEF StreamBeginsWithCreation
<1>6. HasKind(log, id, "Subscribed")
  BY <1>4, <1>5 DEF HasKind, Recorded
<1>7. pc # "writing" => HasKind(log, id, "Enabled")
  BY <1>1, <1>4, <1>5 DEF CreatedIsEnabled
<1> QED
  BY <1>6, <1>7

LEMMA RefusedStep ==
    ASSUME WholeContext, [AppNext]_allVars
    PROVE  RefusedFindWhole'
<1> SUFFICES ASSUME NEW r \in Requests, Made(r)', IsCreator(r)'
             PROVE  /\ answer'[r].status # "doesNotExist"
                    /\ answer'[r].status = "wrongVersion" =>
                           /\ HasKind(log', sent'[r].id, "Subscribed")
                           /\ HasKind(log', sent'[r].id, "Enabled")
  BY DEF RefusedFindWhole, HasKind
<1>0. /\ TypeInv /\ TypeOK /\ Turn /\ StoreInv /\ AppTypeInv
      /\ UncalledIdle /\ CallsOfCommands /\ CreationInv
      /\ WholeInv /\ RefusedFindWhole
  BY DEF WholeContext, CreationContext, StoreInv, TypeInv, Ownership, CreationInv, WholeInv
<1>1. CASE answer'[r] = answer[r]
  <2>1. CASE Made(r)
    BY <1>0, <1>1, <2>1, MadeStays, HasKindGrows DEF RefusedFindWhole, IsCreator
  <2>2. CASE ~Made(r)
    BY <1>0, <1>1, <2>2 DEF UncalledIdle, Made, Pending
  <2> QED
    BY <2>1, <2>2
<1>2. CASE answer'[r] # answer[r]
  <2>1. CASE Validate
    <3>1. /\ answer' = [answer EXCEPT ![possible] = Verdict(Call)] /\ UNCHANGED <<log, args>>
          /\ pc = "validating" /\ ~PassesValidation(Call)
      BY <1>2, <2>1 DEF Validate, Complete
    <3>2. /\ r = possible /\ answer'[r] = Verdict(Call)
          /\ Made(r) /\ sent'[r] = sent[r] /\ IsCreator(r)
      BY <1>0, <1>2, <3>1, ServedIsMade, MadeStays DEF TypeOK, Serving, IsCreator
    <3>3. Call.expected = NoStream /\ Call.stream = CreateStreamId(sent[r].id)
      BY <1>0, <3>2 DEF CallsOfCommands, Call
    <3>4. answer'[r].status = "wrongVersion"
      BY <3>2, <3>3 DEF Verdict, IsStaleOk, Exact, Refusal, Failed, NoStream, StreamExists
    <3>5. RecordedIn(CreateStreamId(sent[r].id)) # {}
      BY <3>1, <3>3 DEF PassesValidation
    <3>6. HasKind(log, sent[r].id, "Subscribed") /\ HasKind(log, sent[r].id, "Enabled")
      BY <1>0, <3>1, <3>5, EventIsOfWhole
    <3> QED
      BY <3>1, <3>2, <3>4, <3>6
  <2>2. CASE ProcessingThrows \/ AnswerOk
    BY <1>0, <1>2, <2>2 DEF ProcessingThrows, AnswerOk, Complete, Ok, Failed, TypeOK
  <2>3. ASSUME NEW q \in Requests, NEW call \in Calls, AppendAsync(q, call)
        PROVE  answer'[r].status = "closed"
    BY <1>0, <1>2, <2>3 DEF AppendAsync, Closed, TypeOK
  <2>4. CASE \/ StartAsync \/ Dispose \/ TakeRequest \/ StopLoop \/ ValidationThrows
             \/ EnsureCreated \/ FilterWritten \/ WriteNext \/ UNCHANGED vars
    BY <1>2, <2>4 DEF StartAsync, Dispose, TakeRequest, StopLoop, ValidationThrows,
                      EnsureCreated, FilterWritten, WriteNext, vars
  <2> QED
    BY <2>1, <2>2, <2>3, <2>4, AppStepIsStoreStep DEF Next, LoopStep
<1> QED
  BY <1>1, <1>2

LEMMA WholeStep == WholeContext /\ [AppNext]_allVars => WholeInv'
  BY ToldStep, EnableStep, LeftStep, EnabledStep, RefusedStep DEF WholeInv

LEMMA AnsweredIsWhole ==
    ASSUME StoreInv, AppTypeInv, CreationInv, WholeInv, AckedIsRecorded, PendingIsPending
    PROVE  AnsweredSubscribeIsWhole
<1> SUFFICES ASSUME NEW r \in Requests, sent[r] # NoCommand, IsCreator(r), told[r] = "ok",
                    answer[r].status \notin {"threw", "closed"}
             PROVE  \A kind \in {"Subscribed", "Enabled"} :
                        \E i \in EventsOf(CreateStreamId(sent[r].id)) : Kind(i) = kind
  BY DEF AnsweredSubscribeIsWhole, IsCreator, Has
<1>0. /\ TypeOK /\ UncalledIdle /\ CallsOfCommands /\ ToldAfterAnswer /\ CreatorsEnable
      /\ RefusedFindWhole
  BY DEF StoreInv, TypeInv, Ownership, CreationInv, WholeInv
<1>1. answer[r] # Pending /\ Made(r)
  BY <1>0 DEF ToldAfterAnswer, UncalledIdle, Made
<1>2. ASSUME NEW kind, HasKind(log, sent[r].id, kind)
      PROVE  \E i \in EventsOf(CreateStreamId(sent[r].id)) : Kind(i) = kind
  BY <1>2, SameStream DEF HasKind, EventsOf, Recorded, Kind
<1>3. CASE answer[r].status = "ok"
  <2>1. \A e \in 1..Len(args[r].events) : InStream(args[r].events[e], args[r].stream)
    <3>1. args[r].expected = NoStream /\ ~Exact(NoStream)
      BY <1>0, <1>1 DEF CallsOfCommands, Exact
    <3> QED
      BY <1>1, <1>3, <3>1 DEF AckedIsRecorded, Acknowledged, Made
  <2>2. args[r].stream = CreateStreamId(sent[r].id)
    BY <1>0, <1>1 DEF CallsOfCommands
  <2>3. ASSUME NEW e \in 1..Len(args[r].events)
        PROVE  \E i \in EventsOf(CreateStreamId(sent[r].id)) : Kind(i) = args[r].events[e].kind
    <3>1. PICK i \in RecordedIn(CreateStreamId(sent[r].id)) : log[i].event = args[r].events[e]
      BY <2>1, <2>2, <2>3 DEF InStream
    <3> QED
      BY <1>0, <3>1, EventsOfIsRecordedIn DEF Kind
  <2>4. PICK e \in 1..Len(args[r].events) : args[r].events[e].kind = "Enabled"
    BY <1>0, <1>1 DEF CreatorsEnable, Enabling
  <2>5. /\ 1 \in 1..Len(args[r].events) /\ args[r].events[1].kind = "Subscribed"
    <3>1. args[r] \in Calls
      BY <1>0, <1>1 DEF TypeOK, Made
    <3>2. Len(args[r].events) \in Nat
      BY <3>1, CallType, LenProperties
    <3>3. 1 \in 1..Len(args[r].events)
      BY <2>4, <3>2
    <3> QED
      BY <1>0, <1>1, <3>3 DEF CallsOfCommands
  <2> QED
    BY <2>3, <2>4, <2>5
<1>4. CASE answer[r].status # "ok"
  <2>1. answer[r].status \in {"doesNotExist", "wrongVersion"}
    <3>1. answer[r].status # "pending"
      BY <1>1 DEF PendingIsPending
    <3> QED
      BY <1>0, <1>4, <3>1 DEF TypeOK, Answer
  <2> QED
    BY <1>0, <1>1, <1>2, <2>1 DEF RefusedFindWhole
<1> QED
  BY <1>3, <1>4

(* A sender told that its Subscribe was handled will find the subscription  *)
(* whole, its own or that of the request that came first, unless the store  *)
(* threw or was disposed.                                                   *)
THEOREM AnsweredSubscribesAreWhole == AppSpec => []AnsweredSubscribeIsWhole
<1>1. StoreInv /\ StoreInv' /\ AppTypeInv /\ AppTypeInv' /\ CreationInv /\ [AppNext]_allVars
          => CreationInv'
  BY CreationStep DEF CreationContext
<1>2. StoreInv /\ StoreInv' /\ AppTypeInv /\ AppTypeInv' /\ CreationInv /\ CreationInv' /\ WholeInv
          /\ [AppNext]_allVars => WholeInv'
  BY WholeStep DEF WholeContext, CreationContext
<1>3. StoreInv /\ AppTypeInv /\ CreationInv /\ WholeInv /\ AckedIsRecorded /\ PendingIsPending
          => AnsweredSubscribeIsWhole
  BY AnsweredIsWhole
<1> QED
  BY <1>1, <1>2, <1>3, AppTypeInit, AppTypeStep, StoreInvTypes, CreationInit, WholeInit, StoreInvHolds,
     AppImplementsEventStream, AckedRequestsAreRecorded, PendingHolds, PTL DEF AppSpec
=============================================================================
