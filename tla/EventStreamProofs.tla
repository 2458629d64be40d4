------------------------- MODULE EventStreamProofs -------------------------
(***************************************************************************)
(* Proofs about EventStream, for every set of requests, streams, events and *)
(* calls.  The inductive invariant is built in layers: types and the turn   *)
(* of the loop; who owns which item of the log; the shape of the log; and   *)
(* the expected version an event was written at.                            *)
(***************************************************************************)
EXTENDS EventStream, SequenceTheorems, WellFoundedInduction, TLAPS

Serving == {"validating", "positioning", "filtering", "writing"}

(* The loop serves a request exactly while it is inside its body, and every *)
(* request that is queued or served has been made.                          *)
Turn ==
    /\ possible # NoRequest <=> pc \in Serving
    /\ possible # NoRequest => args[possible] \in Calls
    /\ \A k \in 1..Len(channel) : args[channel[k]] \in Calls

(* Past the creation of the stream, the running position is the last one.   *)
PositionIsLast ==
    pc \in {"filtering", "writing"} => position = Len(log)

TypeInv == TypeOK /\ Turn /\ PositionsContiguous /\ PositionIsLast

LessThan == {pair \in Nat \X Nat : pair[1] < pair[2]}
-----------------------------------------------------------------------------
(* Arithmetic: the maximum the loop answers a stale request with exists.    *)

LEMMA LessThanWellFounded == IsWellFoundedOn(LessThan, Nat)
  BY NatLessThanWellFounded DEF OpToRel, LessThan

(* A non-empty set of naturals has a least member. *)
LEMMA LeastMember ==
    ASSUME NEW T, T \subseteq Nat, T # {}
    PROVE  \E m \in T : \A k \in T : m <= k
<1>1. PICK m \in T : \A k \in T : ~(<<k, m>> \in LessThan)
  BY LessThanWellFounded, WFMin
<1>2. ASSUME NEW k \in T
      PROVE  m <= k
  <2>1. m \in Nat /\ k \in Nat
    OBVIOUS
  <2>2. k < m => <<k, m>> \in LessThan
    <3>1. <<k, m>> \in Nat \X Nat /\ <<k, m>>[1] = k /\ <<k, m>>[2] = m
      BY <2>1
    <3> QED
      BY <3>1 DEF LessThan
  <2>3. ~(k < m)
    BY <1>1, <2>2
  <2> QED
    BY <2>1, <2>3
<1> QED
  BY <1>2

(* A non-empty set of naturals below n has a largest member: subtracted     *)
(* from n, its members have a least one.                                    *)
LEMMA LargestMember ==
    ASSUME NEW n \in Nat, NEW T, T \subseteq 0..n, T # {}
    PROVE  \E m \in T : \A k \in T : k <= m
<1> DEFINE U == {n - k : k \in T}
<1>1. \A k \in T : k \in Int /\ k <= n /\ n - k \in Nat
  OBVIOUS
<1>2. U \subseteq Nat /\ U # {}
  BY <1>1
<1>3. PICK u \in U : \A v \in U : u <= v
  BY <1>2, LeastMember
<1>4. PICK m \in T : u = n - m
  OBVIOUS
<1>5. ASSUME NEW k \in T
      PROVE  k <= m
  <2>1. n - m <= n - k
    BY <1>3, <1>4
  <2> QED
    BY <1>1, <2>1
<1> QED
  BY <1>5

(* MaxPosition is the position of an event of the stream: the positions of  *)
(* a contiguous log are its indices.                                        *)
LEMMA MaxPositionType ==
    ASSUME TypeOK, PositionsContiguous, NEW stream, RecordedIn(stream) # {}
    PROVE  MaxPosition(stream) \in Int
<1> DEFINE P == {log[i].position : i \in RecordedIn(stream)}
<1>1. \A i \in RecordedIn(stream) : i \in 1..Len(log) /\ log[i].position = i
  BY DEF RecordedIn, PositionsContiguous
<1>2. Len(log) \in Nat
  BY LenProperties DEF TypeOK
<1>3. P \subseteq 0..Len(log) /\ P # {}
  BY <1>1, <1>2
<1>4. \E p \in P : \A q \in P : q <= p
  BY <1>2, <1>3, LargestMember
<1>5. \E p \in P : \A i \in RecordedIn(stream) : log[i].position <= p
  BY <1>4
<1>6. MaxPosition(stream) \in P
  BY <1>5 DEF MaxPosition
<1> QED
  BY <1>3, <1>6
-----------------------------------------------------------------------------
(* Types, the turn of the loop, and the numbering of the items.             *)

LEMMA CallType ==
    ASSUME NEW c \in Calls
    PROVE  c.stream \in Ids /\ c.expected \in Int /\ c.events \in Seq(EventIds)
  BY EventStreamAssumption

(* Every stream id equals itself, wildcards or not. *)
LEMMA IdEqualsReflexive ==
    ASSUME NEW id \in StreamId
    PROVE  IdEquals(id, id)
<1>1. Len(id.hierarchy) \in Nat
  BY LenProperties DEF StreamId
<1> QED
  BY <1>1 DEF IdEquals, Covers

(* What writing one item does to the log. *)
LEMMA WriteItemAppends ==
    ASSUME TypeInv, possible # NoRequest,
           NEW kind \in {"created", "recorded"}, NEW event \in EventIds \cup {NoEvent},
           kind = "created" <=> event = NoEvent,
           NEW at \in Nat, WriteItem(kind, event, at)
    PROVE  /\ log' \in Seq(Item)
           /\ Len(log') = Len(log) + 1
           /\ \A i \in 1..Len(log) : log'[i] = log[i]
           /\ log'[Len(log) + 1] = [kind |-> kind, stream |-> Call.stream,
                                    event |-> event, position |-> at, by |-> possible]
<1> DEFINE item == [kind |-> kind, stream |-> Call.stream, event |-> event,
                    position |-> at, by |-> possible]
<1>1. item \in Item
  <2>1. Call.stream \in Ids
    BY CallType DEF TypeInv, Turn, Call
  <2>2. possible \in Requests
    BY DEF TypeInv, TypeOK
  <2> QED
    BY <2>1, <2>2 DEF Item
<1>2. log \in Seq(Item) /\ log' = Append(log, item)
  BY DEF TypeInv, TypeOK, WriteItem
<1> HIDE DEF item
<1>3. /\ log' \in Seq(Item)
      /\ Len(log') = Len(log) + 1
      /\ \A i \in 1..Len(log) : log'[i] = log[i]
      /\ log'[Len(log) + 1] = item
  BY <1>1, <1>2, AppendProperties
<1> QED
  BY <1>3 DEF item

(* An item given the next position keeps the numbering. *)
LEMMA NextPosition ==
    ASSUME TypeInv, possible # NoRequest,
           NEW kind \in {"created", "recorded"}, NEW event \in EventIds \cup {NoEvent},
           kind = "created" <=> event = NoEvent,
           WriteItem(kind, event, Len(log) + 1)
    PROVE  PositionsContiguous'
<1>1. Len(log) \in Nat /\ Len(log) + 1 \in Nat
  BY LenProperties DEF TypeInv, TypeOK
<1>2. /\ Len(log') = Len(log) + 1
      /\ \A i \in 1..Len(log) : log'[i] = log[i]
      /\ log'[Len(log) + 1] = [kind |-> kind, stream |-> Call.stream, event |-> event,
                               position |-> Len(log) + 1, by |-> possible]
  BY <1>1, WriteItemAppends
<1>3. log'[Len(log) + 1].position = Len(log) + 1
  BY <1>2
<1> QED
  BY <1>1, <1>2, <1>3 DEF PositionsContiguous, TypeInv

LEMMA LastPositionIsLength ==
    ASSUME TypeInv
    PROVE  LastPosition = Len(log)
<1>1. log \in Seq(Item)
  BY DEF TypeInv, TypeOK
<1>2. CASE log = <<>>
  BY <1>2, EmptySeq DEF LastPosition
<1>3. CASE log # <<>>
  <2>1. Len(log) \in 1..Len(log)
    BY <1>1, <1>3, EmptySeq, LenProperties
  <2> QED
    BY <1>3, <2>1 DEF LastPosition, TypeInv, PositionsContiguous
<1> QED
  BY <1>2, <1>3

LEMMA VerdictType ==
    ASSUME TypeInv, possible # NoRequest, ~PassesValidation(Call)
    PROVE  Verdict(Call) \in Answer
<1>1. RecordedIn(Call.stream) # {} => MaxPosition(Call.stream) \in Int
  BY MaxPositionType DEF TypeInv
<1>2. CASE IsStaleOk(Call)
  <2>1. RecordedIn(Call.stream) # {}
    BY <1>2 DEF IsStaleOk
  <2> QED
    BY <1>1, <1>2, <2>1 DEF Verdict, Ok, Answer
<1>3. CASE ~IsStaleOk(Call)
  BY <1>1, <1>3 DEF Verdict, Refusal, Failed, Answer
<1> QED
  BY <1>2, <1>3

LEMMA TypeInit == Init => TypeInv
<1> SUFFICES ASSUME Init PROVE TypeInv
  OBVIOUS
<1>1. Len(log) = 0 /\ Len(channel) = 0
  BY EmptySeq DEF Init, Constructed
<1>2. TypeOK
  <2>1. answer \in [Requests -> Answer]
    BY DEF Init, Constructed, Pending, Answer
  <2>2. log \in Seq(Item) /\ channel \in Seq(Requests) /\ toWrite \in Seq(EventIds)
    BY EmptySeq DEF Init, Constructed
  <2> QED
    BY <2>1, <2>2 DEF Init, Constructed, TypeOK
<1>3. Turn
  BY <1>1 DEF Init, Constructed, Turn, Serving
<1> QED
  BY <1>1, <1>2, <1>3 DEF Init, Constructed, TypeInv, PositionsContiguous, PositionIsLast

LEMMA TypeStep == TypeInv /\ [Next]_vars => TypeInv'
<1> SUFFICES ASSUME TypeInv, [Next]_vars
             PROVE  TypeInv'
  OBVIOUS
<1> USE EventStreamAssumption
<1>0. /\ TypeOK /\ Turn /\ PositionsContiguous /\ PositionIsLast
      /\ Len(log) \in Nat /\ Len(channel) \in Nat
  BY LenProperties DEF TypeInv, TypeOK
<1>1. ASSUME NEW r \in Requests, NEW call \in Calls, AppendAsync(r, call)
      PROVE  TypeInv'
  <2>1. channel' \in Seq(Requests)
    <3>1. Append(channel, r) \in Seq(Requests)
      BY <1>0, AppendProperties DEF TypeOK
    <3> QED
      BY <1>0, <1>1, <3>1 DEF AppendAsync, TypeOK
  <2>2. answer' \in [Requests -> Answer]
    <3>1. Closed \in Answer
      BY DEF Closed, Answer
    <3> QED
      BY <1>0, <1>1, <3>1 DEF AppendAsync, TypeOK
  <2>3. args' \in [Requests -> Calls \cup {NoCall}]
    BY <1>0, <1>1 DEF AppendAsync, TypeOK
  <2>4. TypeOK'
    BY <1>0, <1>1, <2>1, <2>2, <2>3 DEF AppendAsync, TypeOK, loopVars
  <2>5. \A k \in 1..Len(channel') : args'[channel'[k]] \in Calls
    <3>1. CASE disposed
      BY <1>0, <1>1, <3>1, ElementOfSeq DEF AppendAsync, TypeOK, Turn
    <3>2. CASE ~disposed
      <4>1. /\ Len(channel') = Len(channel) + 1
            /\ \A k \in 1..Len(channel) : channel'[k] = channel[k]
            /\ channel'[Len(channel) + 1] = r
        BY <1>0, <1>1, <3>2, AppendProperties DEF AppendAsync, TypeOK
      <4>2. \A k \in 1..Len(channel') : channel'[k] \in Requests
        BY <2>1, ElementOfSeq
      <4>3. args \in [Requests -> Calls \cup {NoCall}] /\ args' = [args EXCEPT ![r] = call]
        BY <1>0, <1>1 DEF AppendAsync, TypeOK
      <4>4. \A k \in 1..Len(channel) : channel[k] \in Requests /\ args[channel[k]] \in Calls
        BY <1>0, ElementOfSeq DEF TypeOK, Turn
      <4>5. \A q \in Requests : args[q] \in Calls => args'[q] \in Calls
        BY <1>1, <4>3
      <4>6. args'[r] \in Calls
        BY <1>1, <4>3
      <4>7. Len(channel) \in Nat
        BY <1>0, LenProperties DEF TypeOK
      <4> QED
        BY <4>1, <4>4, <4>5, <4>6, <4>7
    <3> QED
      BY <3>1, <3>2
  <2>6. Turn'
    BY <1>0, <1>1, <2>5 DEF AppendAsync, TypeOK, Turn, loopVars, Serving
  <2> QED
    BY <1>0, <1>1, <2>4, <2>6
       DEF TypeInv, AppendAsync, loopVars, PositionsContiguous, PositionIsLast
<1>2. CASE StartAsync
  BY <1>0, <1>2 DEF StartAsync, TypeInv, TypeOK, Turn, Serving, PositionsContiguous, PositionIsLast
<1>3. CASE Dispose
  BY <1>0, <1>3 DEF Dispose, TypeInv, TypeOK, Turn, Serving, PositionsContiguous,
                    PositionIsLast, loopVars
<1>4. CASE TakeRequest
  <2>1. /\ Head(channel) = channel[1] /\ 1 \in 1..Len(channel)
        /\ Head(channel) \in Requests
        /\ Tail(channel) \in Seq(Requests)
        /\ Len(Tail(channel)) = Len(channel) - 1
        /\ \A k \in 1..Len(Tail(channel)) : Tail(channel)[k] = channel[k + 1]
    BY <1>0, <1>4, HeadTailProperties, EmptySeq DEF TakeRequest, TypeOK
  <2>2. TypeOK'
    BY <1>0, <1>4, <2>1 DEF TakeRequest, TypeOK
  <2>3. Turn'
    BY <1>0, <1>4, <2>1 DEF TakeRequest, Turn, Serving
  <2> QED
    BY <1>0, <1>4, <2>2, <2>3 DEF TakeRequest, TypeInv, PositionsContiguous, PositionIsLast
<1>5. CASE StopLoop
  BY <1>0, <1>5 DEF StopLoop, TypeInv, TypeOK, Turn, Serving, PositionsContiguous, PositionIsLast
<1>6. CASE Validate
  <2>1. possible # NoRequest
    BY <1>0, <1>6 DEF Validate, Turn, Serving
  <2>2. CASE PassesValidation(Call)
    BY <1>0, <1>6, <2>1, <2>2 DEF Validate, GoTo, TypeInv, TypeOK, Turn, Serving,
                                  PositionsContiguous, PositionIsLast
  <2>3. CASE ~PassesValidation(Call)
    <3>1. Verdict(Call) \in Answer
      BY <2>1, <2>3, VerdictType
    <3>2. answer' \in [Requests -> Answer]
      BY <1>0, <1>6, <2>3, <3>1 DEF Validate, Complete, TypeOK
    <3> QED
      BY <1>0, <1>6, <2>3, <3>2, EmptySeq DEF Validate, EndTurn, TypeInv, TypeOK, Turn,
                                     Serving, PositionsContiguous, PositionIsLast
  <2> QED
    BY <2>2, <2>3
<1>7. CASE ValidationThrows
  BY <1>0, <1>7, EmptySeq DEF ValidationThrows, EndTurn, TypeInv, TypeOK, Turn, Serving,
                         PositionsContiguous, PositionIsLast
<1>8. CASE ProcessingThrows
  <2>1. answer' \in [Requests -> Answer]
    BY <1>0, <1>8 DEF ProcessingThrows, Complete, TypeOK, Failed, Answer
  <2> QED
    BY <1>0, <1>8, <2>1, EmptySeq DEF ProcessingThrows, EndTurn, TypeInv, TypeOK, Turn,
                                 Serving, PositionsContiguous, PositionIsLast
<1>9. CASE EnsureCreated
  <2>1. possible # NoRequest /\ LastPosition = Len(log)
    BY <1>0, <1>9, LastPositionIsLength DEF EnsureCreated, Turn, Serving
  <2>2. CASE IsCreated(Call.stream)
    BY <1>0, <1>9, <2>1, <2>2 DEF EnsureCreated, GoTo, TypeInv, TypeOK, Turn, Serving,
                                  PositionsContiguous, PositionIsLast
  <2>3. CASE ~IsCreated(Call.stream)
    <3>1. WriteItem("created", NoEvent, Len(log) + 1)
      BY <1>9, <2>1, <2>3 DEF EnsureCreated
    <3>2. log' \in Seq(Item) /\ Len(log') = Len(log) + 1 /\ PositionsContiguous'
      <4>1. Len(log) + 1 \in Nat
        BY <1>0
      <4> QED
        BY <2>1, <3>1, <4>1, WriteItemAppends, NextPosition
    <3> QED
      BY <1>0, <1>9, <2>1, <2>3, <3>2 DEF EnsureCreated, GoTo, TypeInv, TypeOK, Turn,
                                          Serving, PositionIsLast
  <2> QED
    BY <2>2, <2>3
<1>10. CASE FilterWritten
  <2>1. possible # NoRequest
    BY <1>0, <1>10 DEF FilterWritten, Turn, Serving
  <2>2. Call.events \in Seq(EventIds)
    BY <1>0, <2>1, CallType DEF Turn, Call
  <2>3. written' \subseteq EventIds
    <3>1. \A i \in RecordedIn(Call.stream) : log[i].event \in EventIds
      BY <1>0, ElementOfSeq DEF TypeOK, RecordedIn, Recorded, Item
    <3> QED
      BY <1>10, <3>1 DEF FilterWritten
  <2> QED
    BY <1>0, <1>10, <2>1, <2>2, <2>3 DEF FilterWritten, GoTo, TypeInv, TypeOK, Turn, Serving,
                                         PositionsContiguous, PositionIsLast
<1>11. CASE WriteNext
  <2>1. possible # NoRequest /\ position = Len(log)
    BY <1>0, <1>11 DEF WriteNext, Turn, Serving, PositionIsLast
  <2>2. Head(toWrite) \in EventIds /\ toWrite' \in Seq(EventIds)
    BY <1>0, <1>11, HeadTailProperties DEF WriteNext, TypeOK
  <2>3. CASE Head(toWrite) \in written
    BY <1>0, <1>11, <2>1, <2>2, <2>3 DEF WriteNext, TypeInv, TypeOK, Turn, Serving,
                                         PositionsContiguous, PositionIsLast
  <2>4. CASE Head(toWrite) \notin written
    <3>1. WriteItem("recorded", Head(toWrite), Len(log) + 1)
      BY <1>11, <2>1, <2>4 DEF WriteNext
    <3>2. log' \in Seq(Item) /\ Len(log') = Len(log) + 1 /\ PositionsContiguous'
      <4>1. Len(log) + 1 \in Nat /\ Head(toWrite) # NoEvent
        BY <1>0, <2>2
      <4> QED
        BY <2>1, <2>2, <3>1, <4>1, WriteItemAppends, NextPosition
    <3> QED
      BY <1>0, <1>11, <2>1, <2>2, <2>4, <3>2 DEF WriteNext, TypeInv, TypeOK, Turn,
                                                 Serving, PositionIsLast
  <2> QED
    BY <2>3, <2>4
<1>12. CASE AnswerOk
  <2>1. answer' \in [Requests -> Answer]
    <3>1. Ok(position) \in Answer
      BY <1>0 DEF TypeOK, Ok, Answer
    <3> QED
      BY <1>0, <1>12, <3>1 DEF AnswerOk, Complete, TypeOK
  <2> QED
    BY <1>0, <1>12, <2>1, EmptySeq DEF AnswerOk, EndTurn, TypeInv, TypeOK, Turn, Serving,
                                  PositionsContiguous, PositionIsLast
<1>13. CASE UNCHANGED vars
  BY <1>0, <1>13 DEF vars, loopVars, TypeInv, TypeOK, Turn, Serving, PositionsContiguous,
                     PositionIsLast
<1> QED
  BY <1>1, <1>2, <1>3, <1>4, <1>5, <1>6, <1>7, <1>8, <1>9, <1>10, <1>11, <1>12, <1>13
     DEF Next, LoopStep

(* The variables keep their types (TypeOK), whatever is appended.           *)
THEOREM TypeCorrect == Spec => []TypeOK
<1>1. TypeInv => TypeOK
  BY DEF TypeInv
<1> QED
  BY <1>1, TypeInit, TypeStep, PTL DEF Spec

(* The store numbers its items 1, 2, 3 ... without a gap or a repetition.   *)
THEOREM PositionsAreContiguous == Spec => []PositionsContiguous
<1>1. TypeInv => PositionsContiguous
  BY DEF TypeInv
<1> QED
  BY <1>1, TypeInit, TypeStep, PTL DEF Spec
-----------------------------------------------------------------------------
(* Who owns which items of the log.                                         *)

(* An item belongs to a request that was made, in the stream it named. *)
ItemsOwned ==
    \A i \in 1..Len(log) :
        /\ args[log[i].by] \in Calls
        /\ log[i].stream = args[log[i].by].stream

(* A request that was not made has no answer and no item. *)
UncalledIdle ==
    \A r \in Requests : args[r] = NoCall => answer[r] = Pending /\ WroteNothing(r)

(* A queued request is queued once, is not being served, and has neither an *)
(* answer nor an item.                                                      *)
QueuedIdle ==
    \A k \in 1..Len(channel) :
        /\ answer[channel[k]] = Pending
        /\ WroteNothing(channel[k])
        /\ channel[k] # possible
        /\ \A n \in 1..Len(channel) : channel[k] = channel[n] => k = n

(* The request being served has no answer; it writes nothing before its     *)
(* creation step, no event before its last step, and its items end the log. *)
ServedOwned ==
    possible # NoRequest =>
        /\ answer[possible] = Pending
        /\ pc \in {"validating", "positioning"} => WroteNothing(possible)
        /\ pc = "filtering" => \A i \in 1..Len(log) : Recorded(i) => log[i].by # possible
        /\ \A i \in 1..Len(log) : log[i].by = possible => log[Len(log)].by = possible

Ownership ==
    ItemsOwned /\ UncalledIdle /\ QueuedIdle /\ ServedOwned /\ RefusedWritesNothing

LEMMA OwnershipInit == Init => Ownership
<1> SUFFICES ASSUME Init PROVE Ownership
  OBVIOUS
<1>1. Len(log) = 0 /\ Len(channel) = 0
  BY EmptySeq DEF Init, Constructed
<1> QED
  BY <1>1 DEF Init, Constructed, Ownership, ItemsOwned, UncalledIdle, QueuedIdle, ServedOwned,
              RefusedWritesNothing, WroteNothing, Pending

(* An item of the request being served disturbs no other's claims. *)
LEMMA WriteKeepsOwnership ==
    ASSUME TypeInv, Ownership, possible # NoRequest,
           NEW kind \in {"created", "recorded"}, NEW event \in EventIds \cup {NoEvent},
           kind = "created" <=> event = NoEvent,
           WriteItem(kind, event, Len(log) + 1),
           UNCHANGED <<channel, args, answer, possible>>,
           pc' \in {"filtering", "writing"},
           pc' = "filtering" => kind = "created" /\ pc = "positioning"
    PROVE  Ownership'
<1>1. /\ TypeOK /\ Turn /\ Len(log) \in Nat
      /\ Len(log) + 1 \in Nat
      /\ ItemsOwned /\ UncalledIdle /\ QueuedIdle /\ ServedOwned /\ RefusedWritesNothing
  BY LenProperties DEF TypeInv, TypeOK, Ownership
<1>2. /\ Len(log') = Len(log) + 1
      /\ \A i \in 1..Len(log) : log'[i] = log[i]
      /\ log'[Len(log) + 1] = [kind |-> kind, stream |-> Call.stream, event |-> event,
                               position |-> Len(log) + 1, by |-> possible]
  BY <1>1, WriteItemAppends
<1>3. /\ log'[Len(log) + 1].kind = kind
      /\ log'[Len(log) + 1].stream = Call.stream
      /\ log'[Len(log) + 1].by = possible
  BY <1>2
<1>4. \A r \in Requests : r # possible /\ WroteNothing(r) => WroteNothing(r)'
  BY <1>1, <1>2, <1>3 DEF WroteNothing
<1>5. possible \in Requests /\ args[possible] \in Calls /\ args[possible] # NoCall
      /\ answer[possible] = Pending
  BY <1>1, EventStreamAssumption DEF Turn, TypeOK, ServedOwned
<1>6. ItemsOwned'
  BY <1>1, <1>2, <1>3, <1>5 DEF ItemsOwned, Call
<1>7. UncalledIdle'
  BY <1>1, <1>4, <1>5 DEF UncalledIdle
<1>8. QueuedIdle'
  <2>1. \A k \in 1..Len(channel) : channel[k] \in Requests
    BY <1>1, ElementOfSeq DEF TypeOK
  <2> QED
    BY <1>1, <1>4, <2>1 DEF QueuedIdle
<1>9. ServedOwned'
  <2>1. pc' = "filtering" => \A i \in 1..Len(log') : Recorded(i)' => log'[i].by # possible
    BY <1>1, <1>2, <1>3 DEF ServedOwned, Recorded, WroteNothing
  <2> QED
    BY <1>1, <1>2, <1>3, <2>1 DEF ServedOwned
<1>10. RefusedWritesNothing'
  <2> SUFFICES ASSUME NEW r \in Requests
               PROVE  /\ answer'[r].status \in {"doesNotExist", "wrongVersion", "closed"}
                            => WroteNothing(r)'
                      /\ answer'[r].status = "threw" =>
                            \A i \in 1..Len(log') : Recorded(i)' => log'[i].by # r
    BY DEF RefusedWritesNothing
  <2>1. CASE r = possible
    BY <1>5, <2>1 DEF Pending
  <2>2. CASE r # possible
    BY <1>1, <1>2, <1>3, <1>4, <2>2 DEF RefusedWritesNothing, Recorded
  <2> QED
    BY <2>1, <2>2
<1> QED
  BY <1>6, <1>7, <1>8, <1>9, <1>10 DEF Ownership

(* Ending a turn, with or without an answer, frees the request for good.    *)
LEMMA EndTurnKeepsOwnership ==
    ASSUME TypeInv, Ownership, possible # NoRequest, EndTurn,
           UNCHANGED <<log, channel, args>>,
           \/ UNCHANGED answer
           \/ \E result \in Answer :
                 /\ Complete(result)
                 /\ result.status \in {"doesNotExist", "wrongVersion", "closed"} =>
                       WroteNothing(possible)
                 /\ result.status = "threw" =>
                       \A i \in 1..Len(log) : Recorded(i) => log[i].by # possible
    PROVE  Ownership'
<1>1. /\ TypeOK /\ Turn
      /\ ItemsOwned /\ UncalledIdle /\ QueuedIdle /\ ServedOwned /\ RefusedWritesNothing
  BY DEF TypeInv, Ownership
<1>2. possible \in Requests /\ args[possible] # NoCall
  BY <1>1, EventStreamAssumption DEF Turn, TypeOK
<1>3. \A k \in 1..Len(channel) : channel[k] \in Requests /\ channel[k] # NoRequest
  BY <1>1, ElementOfSeq, EventStreamAssumption DEF TypeOK
<1>4. \A r \in Requests : r # possible => answer'[r] = answer[r]
  BY <1>1 DEF Complete, TypeOK
<1>5. \A r : WroteNothing(r)' <=> WroteNothing(r)
  BY DEF WroteNothing
<1>6. ItemsOwned' /\ UncalledIdle' /\ ServedOwned'
  BY <1>1, <1>2, <1>4, <1>5 DEF ItemsOwned, UncalledIdle, ServedOwned, EndTurn
<1>7. QueuedIdle'
  BY <1>1, <1>3, <1>4, <1>5 DEF QueuedIdle, EndTurn
<1>8. RefusedWritesNothing'
  BY <1>1, <1>2, <1>4, <1>5 DEF RefusedWritesNothing, Complete, TypeOK, Recorded
<1> QED
  BY <1>6, <1>7, <1>8 DEF Ownership

LEMMA OwnershipStep == TypeInv /\ Ownership /\ [Next]_vars => Ownership'
<1> SUFFICES ASSUME TypeInv, Ownership, [Next]_vars
             PROVE  Ownership'
  OBVIOUS
<1>0. /\ TypeOK /\ Turn /\ PositionsContiguous /\ PositionIsLast
      /\ Len(log) \in Nat /\ Len(channel) \in Nat
      /\ ItemsOwned /\ UncalledIdle /\ QueuedIdle /\ ServedOwned /\ RefusedWritesNothing
  BY LenProperties DEF TypeInv, TypeOK, Ownership
<1>a. ASSUME UNCHANGED <<log, channel, args, answer, possible>>,
             pc' \in {"validating", "positioning"} => pc \in {"validating", "positioning"},
             pc' = "filtering" => pc \in {"positioning", "filtering"}
      PROVE  Ownership'
  BY <1>0, <1>a DEF Ownership, ItemsOwned, UncalledIdle, QueuedIdle, ServedOwned,
                    RefusedWritesNothing, WroteNothing, Recorded
<1>1. ASSUME NEW r \in Requests, NEW call \in Calls, AppendAsync(r, call)
      PROVE  Ownership'
  <2>1. /\ args[r] = NoCall /\ answer[r] = Pending /\ WroteNothing(r)
        /\ args' = [args EXCEPT ![r] = call]
        /\ UNCHANGED <<log, loopVars>>
    BY <1>0, <1>1 DEF AppendAsync, UncalledIdle
  <2>2. r # possible /\ \A k \in 1..Len(channel) : channel[k] # r
    BY <1>0, <2>1, EventStreamAssumption DEF Turn
  <2>3. \A i \in 1..Len(log) : log[i].by # r
    BY <2>1 DEF WroteNothing
  <2>4. \A s \in Requests : s # r => args'[s] = args[s] /\ answer'[s] = answer[s]
    BY <1>0, <1>1 DEF AppendAsync, TypeOK
  <2>5. \A s : WroteNothing(s)' <=> WroteNothing(s)
    BY <2>1 DEF WroteNothing
  <2>6. ItemsOwned'
    <3>1. \A i \in 1..Len(log) : log[i].by \in Requests
      BY <1>0, ElementOfSeq DEF TypeOK, Item
    <3> QED
      BY <1>0, <2>1, <2>3, <2>4, <3>1 DEF ItemsOwned
  <2>7. UncalledIdle'
    BY <1>0, <1>1, <2>4, <2>5, EventStreamAssumption DEF UncalledIdle, AppendAsync, TypeOK
  <2>8. QueuedIdle'
    <3>0. \A k \in 1..Len(channel) : channel[k] \in Requests
      BY <1>0, ElementOfSeq DEF TypeOK
    <3>1. CASE disposed
      BY <1>0, <1>1, <2>1, <2>2, <2>4, <2>5, <3>0, <3>1 DEF AppendAsync, QueuedIdle, loopVars
    <3>2. CASE ~disposed
      <4>1. /\ Len(channel') = Len(channel) + 1
            /\ \A k \in 1..Len(channel) : channel'[k] = channel[k]
            /\ channel'[Len(channel) + 1] = r
            /\ answer' = answer
        BY <1>0, <1>1, <3>2, AppendProperties DEF AppendAsync, TypeOK
      <4> QED
        BY <1>0, <2>1, <2>2, <2>5, <3>0, <4>1 DEF QueuedIdle, loopVars
    <3> QED
      BY <3>1, <3>2
  <2>9. ServedOwned'
    BY <1>0, <2>1, <2>2, <2>4, <2>5 DEF ServedOwned, Recorded, loopVars, TypeOK
  <2>10. RefusedWritesNothing'
    <3> SUFFICES ASSUME NEW s \in Requests
                 PROVE  /\ answer'[s].status \in {"doesNotExist", "wrongVersion", "closed"}
                              => WroteNothing(s)'
                        /\ answer'[s].status = "threw" =>
                              \A i \in 1..Len(log') : Recorded(i)' => log'[i].by # s
      BY DEF RefusedWritesNothing
    <3>1. CASE s = r
      BY <2>1, <2>3, <2>5, <3>1
    <3>2. CASE s # r
      BY <1>0, <2>1, <2>4, <2>5, <3>2 DEF RefusedWritesNothing, Recorded
    <3> QED
      BY <3>1, <3>2
  <2> QED
    BY <2>6, <2>7, <2>8, <2>9, <2>10 DEF Ownership
<1>2. CASE StartAsync
  BY <1>a, <1>2 DEF StartAsync
<1>3. CASE Dispose
  BY <1>a, <1>3 DEF Dispose, loopVars
<1>4. CASE TakeRequest
  <2>1. /\ possible' = channel[1] /\ 1 \in 1..Len(channel)
        /\ Len(channel') = Len(channel) - 1
        /\ \A k \in 1..Len(channel') : channel'[k] = channel[k + 1]
    BY <1>0, <1>4, HeadTailProperties, EmptySeq DEF TakeRequest, TypeOK
  <2>2. /\ answer[channel[1]] = Pending /\ WroteNothing(channel[1])
        /\ \A k \in 1..Len(channel) : channel[k] = channel[1] => k = 1
    BY <1>0, <2>1 DEF QueuedIdle
  <2>3. UNCHANGED <<log, args, answer>> /\ pc' = "validating"
    BY <1>4 DEF TakeRequest
  <2>4. \A s : WroteNothing(s)' <=> WroteNothing(s)
    BY <2>3 DEF WroteNothing
  <2>5. ItemsOwned' /\ UncalledIdle' /\ RefusedWritesNothing'
    BY <1>0, <2>3, <2>4 DEF ItemsOwned, UncalledIdle, RefusedWritesNothing, Recorded
  <2>6. QueuedIdle'
    BY <1>0, <2>1, <2>2, <2>3, <2>4 DEF QueuedIdle
  <2>7. ServedOwned'
    BY <2>1, <2>2, <2>3, <2>4 DEF ServedOwned, WroteNothing
  <2> QED
    BY <2>5, <2>6, <2>7 DEF Ownership
<1>5. CASE StopLoop
  BY <1>a, <1>5 DEF StopLoop
<1>6. CASE Validate
  <2>1. possible # NoRequest /\ WroteNothing(possible)
    BY <1>0, <1>6 DEF Validate, Turn, Serving, ServedOwned
  <2>2. CASE PassesValidation(Call)
    BY <1>a, <1>6, <2>2 DEF Validate, GoTo
  <2>3. CASE ~PassesValidation(Call)
    <3>1. Verdict(Call) \in Answer
      BY <2>1, <2>3, VerdictType
    <3>2. Complete(Verdict(Call)) /\ EndTurn /\ UNCHANGED <<log, channel, args>>
      BY <1>6, <2>3 DEF Validate
    <3>3. \A i \in 1..Len(log) : Recorded(i) => log[i].by # possible
      BY <2>1 DEF WroteNothing
    <3> QED
      BY <2>1, <3>1, <3>2, <3>3, EndTurnKeepsOwnership
  <2> QED
    BY <2>2, <2>3
<1>7. CASE ValidationThrows
  <2>1. possible # NoRequest
    BY <1>0, <1>7 DEF ValidationThrows, Turn, Serving
  <2> QED
    BY <1>7, <2>1, EndTurnKeepsOwnership DEF ValidationThrows
<1>8. CASE ProcessingThrows
  <2>1. possible # NoRequest
    BY <1>0, <1>8 DEF ProcessingThrows, Turn, Serving
  <2>2. \A i \in 1..Len(log) : Recorded(i) => log[i].by # possible
    BY <1>0, <1>8, <2>1 DEF ProcessingThrows, ServedOwned, WroteNothing
  <2>3. Failed("threw", -1) \in Answer /\ Failed("threw", -1).status = "threw"
    BY DEF Failed, Answer
  <2>4. Complete(Failed("threw", -1)) /\ EndTurn /\ UNCHANGED <<log, channel, args>>
    BY <1>8 DEF ProcessingThrows
  <2> QED
    BY <2>1, <2>2, <2>3, <2>4, EndTurnKeepsOwnership
<1>9. CASE EnsureCreated
  <2>1. possible # NoRequest /\ LastPosition = Len(log)
    BY <1>0, <1>9, LastPositionIsLength DEF EnsureCreated, Turn, Serving
  <2>2. pc = "positioning" /\ pc' = "filtering" /\ UNCHANGED <<channel, args, answer, possible>>
    BY <1>9 DEF EnsureCreated, GoTo
  <2>3. CASE IsCreated(Call.stream)
    BY <1>0, <1>9, <2>2, <2>3 DEF EnsureCreated, Ownership, ItemsOwned, UncalledIdle,
       QueuedIdle, ServedOwned, RefusedWritesNothing, WroteNothing, Recorded
  <2>4. CASE ~IsCreated(Call.stream)
    <3>1. WriteItem("created", NoEvent, Len(log) + 1)
      BY <1>9, <2>1, <2>4 DEF EnsureCreated
    <3> QED
      BY <2>1, <2>2, <3>1, WriteKeepsOwnership
  <2> QED
    BY <2>3, <2>4
<1>10. CASE FilterWritten
  BY <1>a, <1>10 DEF FilterWritten, GoTo
<1>11. CASE WriteNext
  <2>1. possible # NoRequest /\ position = Len(log)
    BY <1>0, <1>11 DEF WriteNext, Turn, Serving, PositionIsLast
  <2>2. pc' = "writing" /\ UNCHANGED <<channel, args, answer, possible, pc>>
    BY <1>11 DEF WriteNext
  <2>3. CASE Head(toWrite) \in written
    BY <1>a, <1>11, <2>2, <2>3 DEF WriteNext
  <2>4. CASE Head(toWrite) \notin written
    <3>1. WriteItem("recorded", Head(toWrite), Len(log) + 1)
      BY <1>11, <2>1, <2>4 DEF WriteNext
    <3>2. Head(toWrite) \in EventIds /\ Head(toWrite) # NoEvent
      BY <1>0, <1>11, HeadTailProperties, EventStreamAssumption DEF WriteNext, TypeOK
    <3> QED
      BY <2>1, <2>2, <3>1, <3>2, WriteKeepsOwnership
  <2> QED
    BY <2>3, <2>4
<1>12. CASE AnswerOk
  <2>1. possible # NoRequest
    BY <1>0, <1>12 DEF AnswerOk, Turn, Serving
  <2>2. Ok(position) \in Answer /\ Ok(position).status = "ok"
    BY <1>0 DEF TypeOK, Ok, Answer
  <2>3. Complete(Ok(position)) /\ EndTurn /\ UNCHANGED <<log, channel, args>>
    BY <1>12 DEF AnswerOk
  <2> QED
    BY <2>1, <2>2, <2>3, EndTurnKeepsOwnership
<1>13. CASE UNCHANGED vars
  BY <1>a, <1>13 DEF vars, loopVars
<1> QED
  BY <1>1, <1>2, <1>3, <1>4, <1>5, <1>6, <1>7, <1>8, <1>9, <1>10, <1>11, <1>12, <1>13
     DEF Next, LoopStep

(* A caller told of a version conflict, or of a closed store, left no trace *)
(* in the log; one told of an exception recorded no event.                  *)
THEOREM RefusedRequestsWriteNothing == Spec => []RefusedWritesNothing
<1>1. TypeInv /\ Ownership => RefusedWritesNothing
  BY DEF Ownership
<1> QED
  BY <1>1, TypeInit, TypeStep, OwnershipInit, OwnershipStep, PTL DEF Spec
-----------------------------------------------------------------------------
(* The shape of the log: creations before events, and no duplicates.        *)

(* Past its creation step, the served request's stream is created. *)
CreatedFirst == pc \in {"filtering", "writing"} => IsCreated(Call.stream)

(* While it writes, every event of its stream is its own or was found by    *)
(* the scan.                                                                *)
Filtered ==
    pc = "writing" => \A i \in RecordedIn(Call.stream) :
                          log[i].event \in written \/ log[i].by = possible

Shape == StreamsCreatedOnce /\ EventsRecordedOnce /\ CreatedFirst /\ Filtered

ShapeInv == TypeInv /\ Ownership /\ Shape

LEMMA ShapeInit == Init => Shape
  BY EmptySeq DEF Init, Constructed, Shape, StreamsCreatedOnce, EventsRecordedOnce, CreatedFirst, Filtered

(* A step that leaves the log and the served call alone. *)
LEMMA ShapeUnchanged ==
    ASSUME TypeInv, Shape, UNCHANGED log,
           pc' \in {"filtering", "writing"} =>
               pc \in {"filtering", "writing"} /\ Call' = Call,
           pc' = "writing" => pc = "writing" /\ UNCHANGED <<written, possible>>
    PROVE  Shape'
<1>1. StreamsCreatedOnce' /\ EventsRecordedOnce'
  BY DEF Shape, StreamsCreatedOnce, EventsRecordedOnce, Created, Recorded
<1>2. CreatedFirst'
  BY DEF Shape, CreatedFirst, IsCreated, Created
<1>3. Filtered'
  BY DEF Shape, Filtered, RecordedIn, Recorded
<1> QED
  BY <1>1, <1>2, <1>3 DEF Shape

(* What one more item does to the shape of the log. *)
LEMMA WriteKeepsShape ==
    ASSUME TypeInv, Shape, possible # NoRequest,
           NEW kind \in {"created", "recorded"}, NEW event \in EventIds \cup {NoEvent},
           kind = "created" <=> event = NoEvent,
           WriteItem(kind, event, Len(log) + 1),
           UNCHANGED <<args, possible, written>>,
           kind = "created" => ~IsCreated(Call.stream) /\ pc' = "filtering",
           kind = "recorded" => event \notin written /\ pc = "writing" /\ pc' = "writing"
    PROVE  Shape'
<1>1. /\ Len(log) \in Nat /\ Len(log) + 1 \in Nat
      /\ StreamsCreatedOnce /\ EventsRecordedOnce /\ CreatedFirst /\ Filtered
  BY LenProperties DEF TypeInv, TypeOK, Shape
<1>2. /\ Len(log') = Len(log) + 1
      /\ \A i \in 1..Len(log) : log'[i] = log[i]
      /\ log'[Len(log) + 1] = [kind |-> kind, stream |-> Call.stream, event |-> event,
                               position |-> Len(log) + 1, by |-> possible]
  BY <1>1, WriteItemAppends
<1>3. /\ log'[Len(log) + 1].kind = kind
      /\ log'[Len(log) + 1].stream = Call.stream
      /\ log'[Len(log) + 1].event = event
      /\ log'[Len(log) + 1].by = possible
      /\ Call' = Call
  BY <1>2 DEF Call
<1>4. StreamsCreatedOnce'
  <2>1. kind = "created" <=> ~IsCreated(Call.stream)
    BY <1>1 DEF CreatedFirst
  <2>2. ASSUME NEW i \in 1..Len(log)
        PROVE  Created(i)' <=> ~\E j \in 1..(i - 1) :
                   Created(j)' /\ IdEquals(log'[j].stream, log'[i].stream)
    <3>1. \A j \in 1..(i - 1) : j \in 1..Len(log)
      BY <1>1
    <3>2. log'[i] = log[i] /\ \A j \in 1..(i - 1) : log'[j] = log[j]
      BY <1>2, <3>1
    <3>3. log[i].kind = "created" <=> ~\E j \in 1..(i - 1) :
              log[j].kind = "created" /\ IdEquals(log[j].stream, log[i].stream)
      BY <1>1 DEF StreamsCreatedOnce, Created
    <3> QED
      BY <3>2, <3>3 DEF Created
  <2>3. log'[Len(log) + 1].kind = "created" <=> ~\E j \in 1..Len(log) :
            Created(j)' /\ IdEquals(log'[j].stream, log'[Len(log) + 1].stream)
    BY <1>1, <1>2, <1>3, <2>1 DEF IsCreated, Created
  <2>4. \A i \in 1..Len(log') : i \in 1..Len(log) \/ (i = Len(log) + 1 /\ i - 1 = Len(log))
    BY <1>1, <1>2
  <2> QED
    BY <2>2, <2>3, <2>4 DEF StreamsCreatedOnce, Created
<1>5. EventsRecordedOnce'
  <2> SUFFICES ASSUME NEW i \in 1..Len(log'), NEW j \in 1..Len(log'), i < j,
                      Recorded(i)', Recorded(j)', log'[i].event = log'[j].event,
                      IdEquals(log'[i].stream, log'[j].stream)
               PROVE  log'[i].by = log'[j].by
    BY DEF EventsRecordedOnce
  <2>1. i \in 1..Len(log)
    BY <1>1, <1>2
  <2>2. CASE j \in 1..Len(log)
    BY <1>1, <1>2, <2>1, <2>2 DEF EventsRecordedOnce, Recorded
  <2>3. CASE j = Len(log) + 1
    <3>1. kind = "recorded" /\ event \notin written /\ pc = "writing"
      BY <1>3, <2>3 DEF Recorded
    <3>2. i \in RecordedIn(Call.stream) /\ log[i].event = event
      BY <1>2, <1>3, <2>1, <2>3 DEF RecordedIn, Recorded
    <3>3. log[i].by = possible
      BY <1>1, <3>1, <3>2 DEF Filtered
    <3> QED
      BY <1>2, <1>3, <2>1, <2>3, <3>3
  <2> QED
    BY <1>1, <1>2, <2>2, <2>3
<1>6. CreatedFirst'
  <2>1. CASE kind = "created"
    <3>0. IdEquals(Call.stream, Call.stream)
      BY IdEqualsReflexive, CallType, EventStreamAssumption DEF TypeInv, Turn, Call
    <3>1. log'[Len(log) + 1].kind = "created" /\ IdEquals(log'[Len(log) + 1].stream, Call'.stream)
      BY <1>3, <2>1, <3>0
    <3> QED
      BY <1>1, <1>2, <3>1 DEF CreatedFirst, IsCreated, Created
  <2>2. CASE kind = "recorded"
    <3>1. PICK i \in 1..Len(log) : Created(i) /\ IdEquals(log[i].stream, Call.stream)
      BY <1>1, <2>2 DEF CreatedFirst, IsCreated
    <3>2. i \in 1..Len(log') /\ Created(i)' /\ IdEquals(log'[i].stream, Call'.stream)
      BY <1>1, <1>2, <1>3, <3>1 DEF Created
    <3> QED
      BY <3>2 DEF CreatedFirst, IsCreated
  <2> QED
    BY <2>1, <2>2
<1>7. Filtered'
  <2> SUFFICES ASSUME pc' = "writing", NEW i \in RecordedIn(Call.stream)'
               PROVE  log'[i].event \in written \/ log'[i].by = possible
    BY <1>3 DEF Filtered
  <2>1. kind = "recorded" /\ pc = "writing"
    OBVIOUS
  <2>2. i \in 1..Len(log') /\ Recorded(i)' /\ IdEquals(log'[i].stream, Call.stream)
    BY <1>3 DEF RecordedIn
  <2>3. CASE i \in 1..Len(log)
    <3>1. i \in RecordedIn(Call.stream)
      BY <1>2, <2>2, <2>3 DEF RecordedIn, Recorded
    <3> QED
      BY <1>1, <1>2, <2>1, <2>3, <3>1 DEF Filtered
  <2>4. CASE i = Len(log) + 1
    BY <1>3, <2>4
  <2> QED
    BY <1>1, <1>2, <2>2, <2>3, <2>4
<1> QED
  BY <1>4, <1>5, <1>6, <1>7 DEF Shape

LEMMA ShapeStep == TypeInv /\ Ownership /\ Shape /\ [Next]_vars => Shape'
<1> SUFFICES ASSUME TypeInv, Ownership, Shape, [Next]_vars
             PROVE  Shape'
  OBVIOUS
<1>0. TypeOK /\ Turn /\ PositionIsLast
  BY DEF TypeInv
<1>1. ASSUME NEW r \in Requests, NEW call \in Calls, AppendAsync(r, call)
      PROVE  Shape'
  <2>1. pc \in {"filtering", "writing"} => Call' = Call
    BY <1>0, <1>1, EventStreamAssumption
       DEF AppendAsync, TypeOK, Turn, Serving, Call, loopVars
  <2> QED
    BY <1>1, <2>1, ShapeUnchanged DEF AppendAsync, loopVars
<1>2. CASE StartAsync
  BY <1>2, ShapeUnchanged DEF StartAsync
<1>3. CASE Dispose
  BY <1>3, ShapeUnchanged DEF Dispose, loopVars, Call
<1>4. CASE TakeRequest
  BY <1>4, ShapeUnchanged DEF TakeRequest
<1>5. CASE StopLoop
  BY <1>5, ShapeUnchanged DEF StopLoop
<1>6. CASE Validate
  BY <1>6, ShapeUnchanged DEF Validate, GoTo, EndTurn
<1>7. CASE ValidationThrows
  BY <1>7, ShapeUnchanged DEF ValidationThrows, EndTurn
<1>8. CASE ProcessingThrows
  BY <1>8, ShapeUnchanged DEF ProcessingThrows, EndTurn
<1>9. CASE EnsureCreated
  <2>1. possible # NoRequest /\ LastPosition = Len(log)
    BY <1>0, <1>9, LastPositionIsLength DEF EnsureCreated, Turn, Serving
  <2>2. pc' = "filtering" /\ UNCHANGED <<args, possible, written>> /\ Call' = Call
    BY <1>9 DEF EnsureCreated, GoTo, Call
  <2>3. CASE IsCreated(Call.stream)
    <3>1. UNCHANGED log
      BY <1>9, <2>3 DEF EnsureCreated
    <3> QED
      BY <2>2, <2>3, <3>1 DEF Shape, StreamsCreatedOnce, EventsRecordedOnce, CreatedFirst,
                              Filtered, IsCreated, Created, Recorded
  <2>4. CASE ~IsCreated(Call.stream)
    <3>1. WriteItem("created", NoEvent, Len(log) + 1)
      BY <1>9, <2>1, <2>4 DEF EnsureCreated
    <3> QED
      BY <2>1, <2>2, <2>4, <3>1, WriteKeepsShape
  <2> QED
    BY <2>3, <2>4
<1>10. CASE FilterWritten
  <2>1. /\ pc = "filtering" /\ pc' = "writing" /\ UNCHANGED log /\ Call' = Call
        /\ written' = {log[i].event : i \in RecordedIn(Call.stream)}
    BY <1>10 DEF FilterWritten, GoTo, Call
  <2>2. \A i \in RecordedIn(Call.stream)' : log'[i].event \in written'
    BY <2>1 DEF RecordedIn, Recorded
  <2>3. StreamsCreatedOnce' /\ EventsRecordedOnce' /\ CreatedFirst'
    BY <2>1 DEF Shape, StreamsCreatedOnce, EventsRecordedOnce, CreatedFirst, IsCreated,
                Created, Recorded
  <2> QED
    BY <2>2, <2>3 DEF Shape, Filtered
<1>11. CASE WriteNext
  <2>1. possible # NoRequest /\ position = Len(log)
    BY <1>0, <1>11 DEF WriteNext, Turn, Serving, PositionIsLast
  <2>2. pc = "writing" /\ UNCHANGED <<args, possible, pc, written>> /\ Call' = Call
    BY <1>11 DEF WriteNext, Call
  <2>3. CASE Head(toWrite) \in written
    BY <1>11, <2>2, <2>3, ShapeUnchanged DEF WriteNext
  <2>4. CASE Head(toWrite) \notin written
    <3>1. WriteItem("recorded", Head(toWrite), Len(log) + 1)
      BY <1>11, <2>1, <2>4 DEF WriteNext
    <3>2. Head(toWrite) \in EventIds /\ Head(toWrite) # NoEvent
      BY <1>0, <1>11, HeadTailProperties, EventStreamAssumption DEF WriteNext, TypeOK
    <3> QED
      BY <2>1, <2>2, <2>4, <3>1, <3>2, WriteKeepsShape
  <2> QED
    BY <2>3, <2>4
<1>12. CASE AnswerOk
  BY <1>12, ShapeUnchanged DEF AnswerOk, EndTurn
<1>13. CASE UNCHANGED vars
  BY <1>13, ShapeUnchanged DEF vars, loopVars, Call
<1> QED
  BY <1>1, <1>2, <1>3, <1>4, <1>5, <1>6, <1>7, <1>8, <1>9, <1>10, <1>11, <1>12, <1>13
     DEF Next, LoopStep

(* Every event comes after the creation of its stream, and no stream is     *)
(* created twice.                                                           *)
THEOREM StreamsAreCreatedOnce == Spec => []StreamsCreatedOnce
<1>1. Shape => StreamsCreatedOnce
  BY DEF Shape
<1> QED
  BY <1>1, TypeInit, TypeStep, OwnershipInit, OwnershipStep, ShapeInit, ShapeStep, PTL DEF Spec

(* A retried event is recorded once. *)
THEOREM EventsAreRecordedOnce == Spec => []EventsRecordedOnce
<1>1. Shape => EventsRecordedOnce
  BY DEF Shape
<1> QED
  BY <1>1, TypeInit, TypeStep, OwnershipInit, OwnershipStep, ShapeInit, ShapeStep, PTL DEF Spec
-----------------------------------------------------------------------------
(* Optimistic concurrency.                                                  *)

(* The request being written was validated against the events the others    *)
(* have in its stream, and they have added none since.                      *)
ServedAtVersion ==
    /\ pc = "writing" /\ toWrite # <<>> => Call.events # <<>>
    /\ pc \in {"positioning", "filtering", "writing"} /\ Call.events # <<>> =>
           AtExpected(Call, OthersIn(log, Call.stream, possible, Len(log) + 1))

VersionInv == WrittenAtExpectedVersion /\ ServedAtVersion

LEMMA VersionInit == Init => VersionInv
  BY EmptySeq DEF Init, Constructed, VersionInv, WrittenAtExpectedVersion, ServedAtVersion

(* A step that leaves the log alone, and serves no call it did not serve.   *)
LEMMA VersionUnchanged ==
    ASSUME TypeInv, Ownership, VersionInv, UNCHANGED log,
           \A i \in 1..Len(log) : args'[log[i].by] = args[log[i].by],
           pc' = "writing" =>
               (pc = "writing" /\ (toWrite' # <<>> => toWrite # <<>>))
               \/ (toWrite' # <<>> => Call'.events # <<>>),
           pc' \in {"positioning", "filtering", "writing"} =>
               /\ pc \in {"positioning", "filtering", "writing"}
               /\ Call' = Call /\ possible' = possible
    PROVE  VersionInv'
<1>1. WrittenAtExpectedVersion'
  BY DEF VersionInv, WrittenAtExpectedVersion, Recorded
<1>2. ServedAtVersion'
  BY DEF VersionInv, ServedAtVersion
<1> QED
  BY <1>1, <1>2 DEF VersionInv

(* An item of the served request adds nothing to what the others wrote. *)
LEMMA WriteKeepsVersion ==
    ASSUME TypeInv, Ownership, VersionInv, possible # NoRequest,
           NEW kind \in {"created", "recorded"}, NEW event \in EventIds \cup {NoEvent},
           kind = "created" <=> event = NoEvent,
           WriteItem(kind, event, Len(log) + 1),
           UNCHANGED <<args, possible>>,
           pc \in {"positioning", "writing"},
           kind = "recorded" => Call.events # <<>>,
           pc' = "writing" /\ toWrite' # <<>> => Call.events # <<>>
    PROVE  VersionInv'
<1>1. /\ Len(log) \in Nat /\ Len(log) + 1 \in Nat
      /\ WrittenAtExpectedVersion /\ ServedAtVersion
  BY LenProperties DEF TypeInv, TypeOK, VersionInv
<1>2. /\ Len(log') = Len(log) + 1
      /\ \A i \in 1..Len(log) : log'[i] = log[i]
      /\ log'[Len(log) + 1] = [kind |-> kind, stream |-> Call.stream, event |-> event,
                               position |-> Len(log) + 1, by |-> possible]
  BY <1>1, WriteItemAppends
<1>3. /\ log'[Len(log) + 1].kind = kind
      /\ log'[Len(log) + 1].by = possible
      /\ Call' = Call
  BY <1>2 DEF Call
<1>4. ASSUME NEW s, NEW r, NEW n \in 1..(Len(log) + 1)
      PROVE  OthersIn(log', s, r, n) = OthersIn(log, s, r, n)
  <2>1. \A j : j < n => (j \in 1..Len(log') <=> j \in 1..Len(log))
    BY <1>1, <1>2
  <2> QED
    BY <1>2, <2>1 DEF OthersIn
<1>5. OthersIn(log', Call.stream, possible, Len(log') + 1)
          = OthersIn(log, Call.stream, possible, Len(log) + 1)
  <2>1. \A j : j \in 1..Len(log') /\ log'[j].by # possible
                   <=> j \in 1..Len(log) /\ log[j].by # possible
    BY <1>1, <1>2, <1>3
  <2>2. \A j \in 1..Len(log) : j < Len(log) + 1 /\ j < Len(log') + 1
    BY <1>1, <1>2
  <2> QED
    BY <1>2, <2>1, <2>2 DEF OthersIn
<1>6. WrittenAtExpectedVersion'
  <2> SUFFICES ASSUME NEW i \in 1..Len(log'), log'[i].kind = "recorded"
               PROVE  AtExpected(args[log'[i].by],
                                 OthersIn(log', args[log'[i].by].stream, log'[i].by, i))
    BY DEF WrittenAtExpectedVersion, Recorded
  <2>1. CASE i \in 1..Len(log)
    <3>1. OthersIn(log', args[log'[i].by].stream, log'[i].by, i)
              = OthersIn(log, args[log[i].by].stream, log[i].by, i)
      BY <1>1, <1>2, <1>4, <2>1
    <3> QED
      BY <1>1, <1>2, <2>1, <3>1 DEF WrittenAtExpectedVersion, Recorded
  <2>2. CASE i = Len(log) + 1
    <3>1. kind = "recorded" /\ Call.events # <<>>
      BY <1>3, <2>2
    <3>2. AtExpected(Call, OthersIn(log, Call.stream, possible, i))
      BY <1>1, <2>2, <3>1 DEF ServedAtVersion
    <3>3. OthersIn(log', Call.stream, possible, i) = OthersIn(log, Call.stream, possible, i)
      BY <1>1, <1>4, <2>2
    <3> QED
      BY <1>3, <2>2, <3>2, <3>3 DEF Call
  <2> QED
    BY <1>1, <1>2, <2>1, <2>2
<1>7. ServedAtVersion'
  BY <1>1, <1>3, <1>5 DEF ServedAtVersion
<1> QED
  BY <1>6, <1>7 DEF VersionInv
-----------------------------------------------------------------------------
LEMMA VersionStep == TypeInv /\ Ownership /\ VersionInv /\ [Next]_vars => VersionInv'
<1> SUFFICES ASSUME TypeInv, Ownership, VersionInv, [Next]_vars
             PROVE  VersionInv'
  OBVIOUS
<1>0. /\ TypeOK /\ Turn /\ PositionIsLast /\ ItemsOwned /\ UncalledIdle /\ ServedOwned
      /\ WrittenAtExpectedVersion /\ ServedAtVersion /\ Len(log) \in Nat
  BY LenProperties DEF TypeInv, TypeOK, Ownership, VersionInv
<1>1. ASSUME NEW r \in Requests, NEW call \in Calls, AppendAsync(r, call)
      PROVE  VersionInv'
  <2>1. \A i \in 1..Len(log) : args'[log[i].by] = args[log[i].by]
    <3>1. \A i \in 1..Len(log) : log[i].by \in Requests /\ log[i].by # r
      BY <1>0, <1>1, ElementOfSeq DEF AppendAsync, UncalledIdle, WroteNothing, TypeOK, Item
    <3> QED
      BY <1>0, <1>1, <3>1 DEF AppendAsync, TypeOK
  <2>2. pc \in {"positioning", "filtering", "writing"} => Call' = Call
    BY <1>0, <1>1, EventStreamAssumption
       DEF AppendAsync, TypeOK, Turn, Serving, Call, loopVars
  <2> QED
    BY <1>1, <2>1, <2>2, VersionUnchanged DEF AppendAsync, loopVars
<1>2. CASE StartAsync
  BY <1>2, VersionUnchanged DEF StartAsync
<1>3. CASE Dispose
  BY <1>3, VersionUnchanged DEF Dispose, loopVars, Call
<1>4. CASE TakeRequest
  BY <1>4, VersionUnchanged DEF TakeRequest
<1>5. CASE StopLoop
  BY <1>5, VersionUnchanged DEF StopLoop
<1>6. CASE Validate
  <2>1. possible # NoRequest /\ WroteNothing(possible)
    BY <1>0, <1>6 DEF Validate, Turn, Serving, ServedOwned
  <2>2. CASE PassesValidation(Call)
    <3>1. UNCHANGED <<log, args, possible>> /\ pc' = "positioning" /\ Call' = Call
      BY <1>6, <2>2 DEF Validate, GoTo, Call
    <3>2. OthersIn(log, Call.stream, possible, Len(log) + 1) = RecordedIn(Call.stream)
      BY <1>0, <2>1 DEF OthersIn, RecordedIn, Recorded, WroteNothing
    <3>3. Call.events # <<>> => AtExpected(Call, RecordedIn(Call.stream))
      BY <2>2 DEF PassesValidation, AtExpected, Exact, NoStream, AnyVersion, StreamExists
    <3>4. ServedAtVersion'
      BY <3>1, <3>2, <3>3 DEF ServedAtVersion
    <3>5. WrittenAtExpectedVersion'
      BY <1>0, <3>1 DEF WrittenAtExpectedVersion, Recorded
    <3> QED
      BY <3>4, <3>5 DEF VersionInv
  <2>3. CASE ~PassesValidation(Call)
    BY <1>6, <2>3, VersionUnchanged DEF Validate, EndTurn
  <2> QED
    BY <2>2, <2>3
<1>7. CASE ValidationThrows
  BY <1>7, VersionUnchanged DEF ValidationThrows, EndTurn
<1>8. CASE ProcessingThrows
  BY <1>8, VersionUnchanged DEF ProcessingThrows, EndTurn
<1>9. CASE EnsureCreated
  <2>1. possible # NoRequest /\ LastPosition = Len(log)
    BY <1>0, <1>9, LastPositionIsLength DEF EnsureCreated, Turn, Serving
  <2>2. /\ pc = "positioning" /\ pc' = "filtering"
        /\ UNCHANGED <<args, possible>> /\ Call' = Call
    BY <1>9 DEF EnsureCreated, GoTo, Call
  <2>3. CASE IsCreated(Call.stream)
    <3>1. UNCHANGED log
      BY <1>9, <2>3 DEF EnsureCreated
    <3> QED
      BY <2>2, <3>1, VersionUnchanged
  <2>4. CASE ~IsCreated(Call.stream)
    <3>1. WriteItem("created", NoEvent, Len(log) + 1)
      BY <1>9, <2>1, <2>4 DEF EnsureCreated
    <3> QED
      BY <2>1, <2>2, <3>1, WriteKeepsVersion
  <2> QED
    BY <2>3, <2>4
<1>10. CASE FilterWritten
  <2>1. /\ pc = "filtering" /\ pc' = "writing" /\ UNCHANGED <<log, args, possible>>
        /\ Call' = Call /\ toWrite' = Call.events
    BY <1>10 DEF FilterWritten, GoTo, Call
  <2> QED
    BY <2>1, VersionUnchanged
<1>11. CASE WriteNext
  <2>1. possible # NoRequest /\ position = Len(log)
    BY <1>0, <1>11 DEF WriteNext, Turn, Serving, PositionIsLast
  <2>2. /\ pc = "writing" /\ UNCHANGED <<args, possible, pc>> /\ Call' = Call
        /\ Call.events # <<>>
    BY <1>0, <1>11 DEF WriteNext, Call, ServedAtVersion
  <2>3. CASE Head(toWrite) \in written
    <3>1. UNCHANGED log
      BY <1>11, <2>3 DEF WriteNext
    <3> QED
      BY <2>2, <3>1, VersionUnchanged
  <2>4. CASE Head(toWrite) \notin written
    <3>1. WriteItem("recorded", Head(toWrite), Len(log) + 1)
      BY <1>11, <2>1, <2>4 DEF WriteNext
    <3>2. Head(toWrite) \in EventIds /\ Head(toWrite) # NoEvent
      BY <1>0, <1>11, HeadTailProperties, EventStreamAssumption DEF WriteNext, TypeOK
    <3> QED
      BY <2>1, <2>2, <3>1, <3>2, WriteKeepsVersion
  <2> QED
    BY <2>3, <2>4
<1>12. CASE AnswerOk
  BY <1>12, VersionUnchanged DEF AnswerOk, EndTurn
<1>13. CASE UNCHANGED vars
  BY <1>13, VersionUnchanged DEF vars, loopVars, Call
<1> QED
  BY <1>1, <1>2, <1>3, <1>4, <1>5, <1>6, <1>7, <1>8, <1>9, <1>10, <1>11, <1>12, <1>13
     DEF Next, LoopStep

(* Optimistic concurrency: an event is recorded only while the others have  *)
(* put exactly the expected number of events in its stream.                 *)
THEOREM EventsAreWrittenAtExpectedVersion == Spec => []WrittenAtExpectedVersion
<1>1. VersionInv => WrittenAtExpectedVersion
  BY DEF VersionInv
<1> QED
  BY <1>1, TypeInit, TypeStep, OwnershipInit, OwnershipStep, VersionInit, VersionStep, PTL
     DEF Spec
-----------------------------------------------------------------------------
(* The abstract log.                                                        *)

Answered == {r \in Requests : answer[r] # Pending}

AbstractInv == TypeInv /\ Ownership /\ Shape

LEMMA AbstractInit == Init => Abstract!Init
  BY DEF Init, Constructed, Abstract!Init

(* A completed task is the answer of the request that was pending. *)
LEMMA CompleteAnswers ==
    ASSUME AbstractInv, NEW r \in Requests, NEW result, answer[r] = Pending,
           result # Pending, answer' = [answer EXCEPT ![r] = result], UNCHANGED log
    PROVE  Abstract!Next
<1>1. \A s \in Requests : answer'[s] = IF s = r THEN result ELSE answer[s]
  BY DEF AbstractInv, TypeInv, TypeOK
<1>2. Answered' = Answered \cup {r}
  BY <1>1 DEF Answered
<1>3. r \notin Answered
  BY DEF Answered
<1> QED
  BY <1>2, <1>3 DEF Abstract!Next, Abstract!Answer, Answered

(* Writing an item is the abstract log's own append. *)
LEMMA WriteItemIsAppend ==
    ASSUME AbstractInv, possible # NoRequest,
           NEW kind, NEW event,
           WriteItem(kind, event, Len(log) + 1), UNCHANGED answer
    PROVE  Abstract!AppendItem(kind, Call.stream, event, possible)
<1>1. possible \notin Answered
  BY DEF Answered, AbstractInv, Ownership, ServedOwned
<1>2. Abstract!IsAdjacent(possible)
  BY DEF Abstract!IsAdjacent, AbstractInv, Ownership, ServedOwned
<1> QED
  BY <1>1, <1>2 DEF Abstract!AppendItem, WriteItem, Answered

LEMMA AbstractStep == AbstractInv /\ [Next]_vars => [Abstract!Next]_(Abstract!vars)
<1> SUFFICES ASSUME AbstractInv, [Next]_vars
             PROVE  [Abstract!Next]_(Abstract!vars)
  OBVIOUS
<1>0. /\ TypeInv /\ Ownership /\ Shape /\ TypeOK /\ Turn /\ PositionIsLast
      /\ ServedOwned /\ UncalledIdle
  BY DEF AbstractInv, TypeInv, Ownership
<1>a. UNCHANGED <<log, answer>> => UNCHANGED Abstract!vars
  BY DEF Abstract!vars
<1>b. ASSUME possible # NoRequest
      PROVE  possible \in Requests /\ answer[possible] = Pending
             /\ Call \in Calls /\ Call.stream \in Ids
  BY <1>0, <1>b, EventStreamAssumption DEF TypeOK, Turn, ServedOwned, Call
<1>1. ASSUME NEW r \in Requests, NEW call \in Calls, AppendAsync(r, call)
      PROVE  [Abstract!Next]_(Abstract!vars)
  <2>1. CASE disposed
    <3>1. answer[r] = Pending /\ Closed # Pending
      BY <1>0, <1>1 DEF AppendAsync, UncalledIdle, Closed, Pending
    <3> QED
      BY <1>1, <2>1, <3>1, CompleteAnswers DEF AppendAsync
  <2>2. CASE ~disposed
    BY <1>a, <1>1, <2>2 DEF AppendAsync
  <2> QED
    BY <2>1, <2>2
<1>2. CASE StartAsync \/ Dispose \/ TakeRequest \/ StopLoop \/ ValidationThrows \/ FilterWritten
  BY <1>a, <1>2 DEF StartAsync, Dispose, TakeRequest, StopLoop, ValidationThrows, FilterWritten
<1>3. CASE Validate
  <2>1. CASE PassesValidation(Call)
    BY <1>a, <1>3, <2>1 DEF Validate
  <2>2. CASE ~PassesValidation(Call)
    <3>1. possible # NoRequest
      BY <1>0, <1>3 DEF Validate, Turn, Serving
    <3>2. Verdict(Call) # Pending
      BY DEF Verdict, Refusal, Failed, Ok, Pending
    <3> QED
      BY <1>3, <1>b, <2>2, <3>1, <3>2, CompleteAnswers DEF Validate, Complete
  <2> QED
    BY <2>1, <2>2
<1>4. CASE ProcessingThrows
  <2>1. possible # NoRequest /\ Failed("threw", -1) # Pending
    BY <1>0, <1>4 DEF ProcessingThrows, Turn, Serving, Failed, Pending
  <2> QED
    BY <1>4, <1>b, <2>1, CompleteAnswers DEF ProcessingThrows, Complete
<1>5. CASE EnsureCreated
  <2>1. possible # NoRequest /\ LastPosition = Len(log) /\ UNCHANGED answer
    BY <1>0, <1>5, LastPositionIsLength DEF EnsureCreated, Turn, Serving
  <2>2. CASE IsCreated(Call.stream)
    BY <1>a, <1>5, <2>2 DEF EnsureCreated
  <2>3. CASE ~IsCreated(Call.stream)
    <3>1. WriteItem("created", NoEvent, Len(log) + 1)
      BY <1>5, <2>1, <2>3 DEF EnsureCreated
    <3>2. Abstract!IsNew(Call.stream)
      BY <2>3 DEF IsCreated, Created, Abstract!IsNew, Abstract!Created, Abstract!IdEquals,
                  Abstract!Covers, IdEquals, Covers
    <3>3. Abstract!CreateStream(Call.stream, possible)
      BY <2>1, <3>1, <3>2, WriteItemIsAppend DEF Abstract!CreateStream
    <3> QED
      BY <1>b, <2>1, <3>3 DEF Abstract!Next
  <2> QED
    BY <2>2, <2>3
<1>6. CASE WriteNext
  <2>1. /\ possible # NoRequest /\ position = Len(log) /\ UNCHANGED answer
        /\ pc = "writing" /\ Head(toWrite) \in EventIds
    BY <1>0, <1>6, HeadTailProperties DEF WriteNext, Turn, Serving, PositionIsLast, TypeOK
  <2>2. CASE Head(toWrite) \in written
    BY <1>a, <1>6, <2>1, <2>2 DEF WriteNext
  <2>3. CASE Head(toWrite) \notin written
    <3>1. WriteItem("recorded", Head(toWrite), Len(log) + 1)
      BY <1>6, <2>1, <2>3 DEF WriteNext
    <3>2. ~Abstract!IsNew(Call.stream)
      BY <1>0, <2>1 DEF Shape, CreatedFirst, IsCreated, Created, Abstract!IsNew,
         Abstract!Created, Abstract!IdEquals, Abstract!Covers, IdEquals, Covers
    <3>3. Abstract!IsFresh(Call.stream, Head(toWrite), possible)
      BY <1>0, <2>1, <2>3 DEF Shape, Filtered, RecordedIn, Recorded, Abstract!IsFresh,
         Abstract!Recorded, Abstract!IdEquals, Abstract!Covers, IdEquals, Covers
    <3>4. Abstract!RecordEvent(Call.stream, Head(toWrite), possible)
      BY <2>1, <3>1, <3>2, <3>3, WriteItemIsAppend DEF Abstract!RecordEvent
    <3> QED
      BY <1>b, <2>1, <3>4 DEF Abstract!Next
  <2> QED
    BY <2>2, <2>3
<1>7. CASE AnswerOk
  <2>1. possible # NoRequest /\ Ok(position) # Pending
    BY <1>0, <1>7 DEF AnswerOk, Turn, Serving, Ok, Pending
  <2> QED
    BY <1>7, <1>b, <2>1, CompleteAnswers DEF AnswerOk, Complete
<1>8. CASE UNCHANGED vars
  BY <1>a, <1>8 DEF vars
<1> QED
  BY <1>1, <1>2, <1>3, <1>4, <1>5, <1>6, <1>7, <1>8 DEF Next, LoopStep

(* The loop, its channel and its answers implement the append-only log of   *)
(* StreamLog: no step rewrites an item, and no answered request writes.     *)
THEOREM LoopImplementsStreamLog == Spec => ImplementsStreamLog
<1>1. TypeInv /\ Ownership /\ Shape => AbstractInv
  BY DEF AbstractInv
<1> QED
  BY <1>1, AbstractInit, AbstractStep, TypeInit, TypeStep, OwnershipInit, OwnershipStep,
     ShapeInit, ShapeStep, PTL
     DEF Spec, ImplementsStreamLog, Abstract!Spec
-----------------------------------------------------------------------------
(* What a step of the loop does to the log. *)

(* The item a step of the loop adds, if it adds one. *)
Adds(kind, event) ==
    /\ possible # NoRequest
    /\ WriteItem(kind, event, Len(log) + 1)
    /\ UNCHANGED <<args, possible>>
    /\ \/ /\ kind = "created" /\ event = NoEvent
          /\ pc = "positioning" /\ pc' = "filtering"
       \/ /\ kind = "recorded" /\ event = Head(toWrite) /\ event \in EventIds
          /\ toWrite # <<>> /\ toWrite' = Tail(toWrite)
          /\ pc = "writing" /\ pc' = "writing"

LEMMA LoopStepAdds ==
    ASSUME TypeInv, LoopStep
    PROVE  /\ UNCHANGED args
           /\ \/ UNCHANGED log
              \/ \E kind \in {"created", "recorded"}, event \in EventIds \cup {NoEvent} :
                     Adds(kind, event)
<1>0. TypeOK /\ Turn /\ PositionIsLast
  BY DEF TypeInv
<1>1. CASE TakeRequest \/ StopLoop \/ Validate \/ ValidationThrows
  BY <1>1 DEF TakeRequest, StopLoop, Validate, ValidationThrows
<1>2. CASE ProcessingThrows \/ FilterWritten \/ AnswerOk
  BY <1>2 DEF ProcessingThrows, FilterWritten, AnswerOk
<1>3. CASE EnsureCreated
  <2>1. possible # NoRequest /\ LastPosition = Len(log)
    BY <1>0, <1>3, LastPositionIsLength DEF EnsureCreated, Turn, Serving
  <2>2. CASE IsCreated(Call.stream)
    BY <1>3, <2>2 DEF EnsureCreated
  <2>3. CASE ~IsCreated(Call.stream)
    <3>1. Adds("created", NoEvent)
      BY <1>3, <2>1, <2>3 DEF EnsureCreated, Adds, GoTo
    <3> QED
      BY <1>3, <3>1 DEF EnsureCreated
  <2> QED
    BY <2>2, <2>3
<1>4. CASE WriteNext
  <2>1. possible # NoRequest /\ position = Len(log)
    BY <1>0, <1>4 DEF WriteNext, Turn, Serving, PositionIsLast
  <2>2. Head(toWrite) \in EventIds
    BY <1>0, <1>4, HeadTailProperties DEF WriteNext, TypeOK
  <2>3. CASE Head(toWrite) \in written
    BY <1>4, <2>3 DEF WriteNext
  <2>4. CASE Head(toWrite) \notin written
    <3>1. Adds("recorded", Head(toWrite))
      BY <1>4, <2>1, <2>2, <2>4 DEF WriteNext, Adds
    <3> QED
      BY <1>4, <2>2, <3>1 DEF WriteNext
  <2> QED
    BY <2>3, <2>4
<1> QED
  BY <1>1, <1>2, <1>3, <1>4 DEF LoopStep

LEMMA AddsAppends ==
    ASSUME TypeInv, NEW kind \in {"created", "recorded"},
           NEW event \in EventIds \cup {NoEvent}, Adds(kind, event)
    PROVE  /\ Len(log') = Len(log) + 1
           /\ \A i \in 1..Len(log) : log'[i] = log[i]
           /\ log'[Len(log) + 1].kind = kind
           /\ log'[Len(log) + 1].stream = Call.stream
           /\ log'[Len(log) + 1].event = event
           /\ log'[Len(log) + 1].by = possible
<1>1. Len(log) + 1 \in Nat
  BY LenProperties DEF TypeInv, TypeOK
<1>2. kind = "created" <=> event = NoEvent
  BY EventStreamAssumption DEF Adds
<1>3. /\ Len(log') = Len(log) + 1
      /\ \A i \in 1..Len(log) : log'[i] = log[i]
      /\ log'[Len(log) + 1] = [kind |-> kind, stream |-> Call.stream, event |-> event,
                               position |-> Len(log) + 1, by |-> possible]
  BY <1>1, <1>2, WriteItemAppends DEF Adds
<1> QED
  BY <1>3

(* The item just added is the only new one. *)
LEMMA AddsIndex ==
    ASSUME TypeInv, NEW kind \in {"created", "recorded"},
           NEW event \in EventIds \cup {NoEvent}, Adds(kind, event),
           NEW i \in 1..Len(log')
    PROVE  /\ Len(log) \in Nat
           /\ i \in 1..Len(log) \/ i = Len(log) + 1
<1>1. Len(log) \in Nat
  BY LenProperties DEF TypeInv, TypeOK
<1>2. Len(log') = Len(log) + 1
  BY AddsAppends
<1> QED
  BY <1>1, <1>2

(* No step takes an item from the log, or changes one. *)
LEMMA StoreGrows ==
    ASSUME TypeInv, [Next]_vars
    PROVE  /\ Len(log) \in Nat /\ Len(log') \in Nat /\ Len(log) <= Len(log')
           /\ \A i \in 1..Len(log) : i \in 1..Len(log') /\ log'[i] = log[i]
<1>1. Len(log) \in Nat
  BY LenProperties DEF TypeInv, TypeOK
<1>2. CASE UNCHANGED log
  BY <1>1, <1>2
<1>3. CASE LoopStep
  <2>1. ASSUME NEW kind \in {"created", "recorded"}, NEW event \in EventIds \cup {NoEvent},
               Adds(kind, event)
        PROVE  Len(log') = Len(log) + 1 /\ \A i \in 1..Len(log) : log'[i] = log[i]
    BY <2>1, AddsAppends
  <2> QED
    BY <1>1, <1>2, <1>3, <2>1, LoopStepAdds
<1>4. CASE StartAsync \/ Dispose \/ UNCHANGED vars
  BY <1>2, <1>4 DEF StartAsync, Dispose, vars
<1>5. ASSUME NEW r \in Requests, NEW call \in Calls, AppendAsync(r, call)
      PROVE  UNCHANGED log
  BY <1>5 DEF AppendAsync
<1> QED
  BY <1>2, <1>3, <1>4, <1>5 DEF Next
-----------------------------------------------------------------------------
(* The answers.                                                             *)

LEMMA AnsweredOnceStep ==
    TypeInv /\ Ownership /\ [Next]_vars =>
        [\A r \in Requests : answer[r] # Pending => answer'[r] = answer[r]]_answer
<1> SUFFICES ASSUME TypeInv, Ownership, [Next]_vars, NEW r \in Requests, answer[r] # Pending
             PROVE  answer'[r] = answer[r]
  OBVIOUS
<1>0. /\ TypeOK /\ Turn /\ ServedOwned /\ UncalledIdle
  BY DEF TypeInv, Ownership
<1>1. ASSUME NEW s \in Requests, NEW call \in Calls, AppendAsync(s, call)
      PROVE  answer'[r] = answer[r]
  BY <1>0, <1>1 DEF AppendAsync, UncalledIdle, TypeOK
<1>2. CASE Validate \/ ProcessingThrows \/ AnswerOk
  <2>1. r # possible
    BY <1>0, <1>2 DEF Validate, ProcessingThrows, AnswerOk, Turn, Serving, ServedOwned
  <2> QED
    BY <1>0, <1>2, <2>1 DEF Validate, ProcessingThrows, AnswerOk, Complete, TypeOK
<1>3. CASE \/ StartAsync \/ Dispose \/ TakeRequest \/ StopLoop \/ ValidationThrows
           \/ EnsureCreated \/ FilterWritten \/ WriteNext
  BY <1>3 DEF StartAsync, Dispose, TakeRequest, StopLoop, ValidationThrows, EnsureCreated,
              FilterWritten, WriteNext
<1>4. CASE UNCHANGED vars
  BY <1>4 DEF vars
<1> QED
  BY <1>1, <1>2, <1>3, <1>4 DEF Next, LoopStep

(* No task is completed twice. *)
THEOREM TasksCompleteOnce == Spec => AnsweredOnce
  BY TypeInit, TypeStep, OwnershipInit, OwnershipStep, AnsweredOnceStep, PTL
     DEF Spec, AnsweredOnce
(* InStream, of any sequence of items. *)
Holds(items, event, stream) ==
    \E i \in 1..Len(items) : /\ items[i].kind = "recorded"
                             /\ items[i].event = event
                             /\ IdEquals(items[i].stream, stream)

(* Of the events the loop is writing, each is in the stream or left to      *)
(* write, and those the scan found are in the stream.                       *)
Progressing ==
    pc = "writing" =>
        /\ \A event \in written : Holds(log, event, Call.stream)
        /\ \A e \in 1..Len(Call.events) :
               \/ Holds(log, Call.events[e], Call.stream)
               \/ \E k \in 1..Len(toWrite) : toWrite[k] = Call.events[e]

AnswersInv == AckedIsRecorded /\ OkCarriesLastPosition /\ Progressing

LEMMA AnswersInit == Init => AnswersInv
<1> SUFFICES ASSUME Init PROVE AnswersInv
  OBVIOUS
<1>1. pc # "writing" /\ \A r \in Requests : args[r] = NoCall /\ answer[r].status = "pending"
  BY DEF Init, Constructed, Pending
<1> QED
  BY <1>1 DEF AnswersInv, AckedIsRecorded, Acknowledged, OkCarriesLastPosition, Progressing

(* What was in a stream stays there. *)
LEMMA InStreamGrows ==
    ASSUME TypeInv, [Next]_vars, NEW event, NEW stream, Holds(log, event, stream)
    PROVE  Holds(log', event, stream)
  BY StoreGrows DEF Holds

LEMMA AcknowledgedMeans ==
    ASSUME NEW r
    PROVE  Acknowledged(r) <=>
               (answer[r].status = "ok" => \A e \in 1..Len(args[r].events) :
                                             Holds(log, args[r].events[e], args[r].stream))
  BY DEF Acknowledged, InStream, RecordedIn, Recorded, Holds

(* Answers that a step does not change stay true. *)
LEMMA AnswersStayTrue ==
    ASSUME TypeInv, Ownership, AnswersInv, [Next]_vars,
           NEW r \in Requests, answer'[r] = answer[r], answer[r].status = "ok"
    PROVE  /\ args'[r] # NoCall /\ ~Exact(args'[r].expected) => Acknowledged(r)'
           /\ \A i \in 1..Len(log') :
                  log'[i].by = r /\ (\A j \in (i + 1)..Len(log') : log'[j].by # r)
                  => answer'[r].version = log'[i].position
<1>0. /\ TypeOK /\ Turn /\ UncalledIdle /\ ServedOwned
      /\ AckedIsRecorded /\ OkCarriesLastPosition
  BY DEF TypeInv, Ownership, AnswersInv
<1>1. args[r] # NoCall /\ r # possible
  <2>1. answer[r] # Pending
    BY DEF Pending
  <2> QED
    BY <1>0, <2>1, EventStreamAssumption DEF UncalledIdle, ServedOwned
<1>2. args'[r] = args[r]
  <2>1. CASE LoopStep
    BY <2>1, LoopStepAdds
  <2>2. ASSUME NEW s \in Requests, NEW call \in Calls, AppendAsync(s, call)
        PROVE  args'[r] = args[r]
    BY <1>0, <1>1, <2>2 DEF AppendAsync, TypeOK
  <2>3. CASE StartAsync \/ Dispose \/ UNCHANGED vars
    BY <2>3 DEF StartAsync, Dispose, vars
  <2> QED
    BY <2>1, <2>2, <2>3 DEF Next
<1>3. ASSUME ~Exact(args[r].expected)
      PROVE  Acknowledged(r)'
  <2>1. \A e \in 1..Len(args[r].events) : Holds(log, args[r].events[e], args[r].stream)
    BY <1>0, <1>1, <1>3, AcknowledgedMeans DEF AckedIsRecorded
  <2>2. \A e \in 1..Len(args[r].events) : Holds(log', args[r].events[e], args[r].stream)
    BY <2>1, InStreamGrows
  <2> QED
    BY <1>2, <2>2 DEF Acknowledged, InStream, RecordedIn, Recorded, Holds
<1>4. ASSUME NEW i \in 1..Len(log'), log'[i].by = r,
             \A j \in (i + 1)..Len(log') : log'[j].by # r
      PROVE  answer'[r].version = log'[i].position
  <2>1. /\ Len(log) \in Nat /\ Len(log') \in Nat /\ Len(log) <= Len(log')
        /\ \A k \in 1..Len(log) : k \in 1..Len(log') /\ log'[k] = log[k]
    BY StoreGrows
  <2>2. i \in 1..Len(log)
    <3>1. CASE UNCHANGED log
      BY <1>4, <3>1
    <3>2. ASSUME NEW kind \in {"created", "recorded"},
                 NEW event \in EventIds \cup {NoEvent}, Adds(kind, event)
          PROVE  i \in 1..Len(log)
      <4>1. i \in 1..Len(log) \/ i = Len(log) + 1
        BY <1>4, <3>2, AddsIndex
      <4>2. log'[Len(log) + 1].by = possible
        BY <3>2, AddsAppends
      <4> QED
        BY <1>1, <1>4, <4>1, <4>2
    <3>3. CASE LoopStep
      BY <3>1, <3>2, <3>3, LoopStepAdds
    <3>4. ASSUME NEW s \in Requests, NEW call \in Calls, AppendAsync(s, call)
          PROVE  UNCHANGED log
      BY <3>4 DEF AppendAsync
    <3>5. CASE StartAsync \/ Dispose \/ UNCHANGED vars
      BY <3>1, <3>5 DEF StartAsync, Dispose, vars
    <3> QED
      BY <3>1, <3>3, <3>4, <3>5 DEF Next
  <2>3. log[i].by = r /\ \A j \in (i + 1)..Len(log) : log[j].by # r
    BY <1>4, <2>1, <2>2
  <2> QED
    BY <1>0, <2>1, <2>2, <2>3 DEF OkCarriesLastPosition
<1> QED
  BY <1>2, <1>3, <1>4

(* A step of the loop that leaves the turn alone, or ends it. *)
LEMMA ProgressStep ==
    ASSUME TypeInv, Ownership, AnswersInv, [Next]_vars
    PROVE  Progressing'
<1>0. TypeOK /\ Turn /\ PositionIsLast /\ Progressing
  BY DEF TypeInv, AnswersInv
<1>a. \A event, stream : Holds(log, event, stream) => Holds(log', event, stream)
  BY InStreamGrows
<1>b. ASSUME UNCHANGED <<pc, written, toWrite>>, pc = "writing" => Call' = Call
      PROVE  Progressing'
  BY <1>0, <1>a, <1>b DEF Progressing
<1>1. ASSUME NEW r \in Requests, NEW call \in Calls, AppendAsync(r, call)
      PROVE  Progressing'
  <2>1. pc = "writing" => Call' = Call
    BY <1>0, <1>1, EventStreamAssumption DEF AppendAsync, TypeOK, Turn, Serving, Call, loopVars
  <2> QED
    BY <1>1, <1>b, <2>1 DEF AppendAsync, loopVars
<1>2. CASE Dispose \/ UNCHANGED vars
  BY <1>2, <1>b DEF Dispose, vars, loopVars, Call
<1>3. CASE \/ StartAsync \/ TakeRequest \/ StopLoop \/ Validate \/ ValidationThrows
           \/ ProcessingThrows \/ EnsureCreated \/ AnswerOk
  BY <1>3 DEF StartAsync, TakeRequest, StopLoop, Validate, ValidationThrows, ProcessingThrows,
              EnsureCreated, AnswerOk, GoTo, EndTurn, Progressing
<1>4. CASE FilterWritten
  <2>1. /\ Call' = Call /\ toWrite' = Call.events /\ UNCHANGED log
        /\ written' = {log[i].event : i \in RecordedIn(Call.stream)}
    BY <1>4 DEF FilterWritten, GoTo, Call
  <2>2. \A event \in written' : Holds(log, event, Call.stream)
    BY <2>1 DEF RecordedIn, Recorded, Holds
  <2>3. \A event \in written' : Holds(log', event, Call.stream)
    BY <1>a, <2>2
  <2> QED
    BY <2>1, <2>3 DEF Progressing
<1>5. CASE WriteNext
  <2>1. /\ pc = "writing" /\ toWrite # <<>> /\ toWrite' = Tail(toWrite)
        /\ UNCHANGED written /\ Call' = Call
    BY <1>5 DEF WriteNext, Call
  <2>2. /\ Len(toWrite) \in Nat /\ Len(toWrite') = Len(toWrite) - 1
        /\ Head(toWrite) = toWrite[1] /\ Head(toWrite) \in EventIds
        /\ \A k \in 1..Len(toWrite') : toWrite'[k] = toWrite[k + 1]
    BY <1>0, <2>1, LenProperties, HeadTailProperties DEF TypeOK
  <2>3. Holds(log', Head(toWrite), Call.stream)
    <3>1. CASE Head(toWrite) \in written
      BY <1>0, <1>a, <2>1, <3>1 DEF Progressing
    <3>2. CASE Head(toWrite) \notin written
      <4>1. possible # NoRequest /\ position = Len(log)
        BY <1>0, <2>1 DEF Turn, Serving, PositionIsLast
      <4>2. Adds("recorded", Head(toWrite))
        BY <1>5, <2>2, <3>2, <4>1 DEF WriteNext, Adds
      <4>3. /\ Len(log') = Len(log) + 1 /\ Len(log) \in Nat
            /\ log'[Len(log) + 1].kind = "recorded"
            /\ log'[Len(log) + 1].stream = Call.stream
            /\ log'[Len(log) + 1].event = Head(toWrite)
        BY <2>2, <4>2, AddsAppends, StoreGrows
      <4>4. IdEquals(Call.stream, Call.stream)
        BY <1>0, <4>1, IdEqualsReflexive, CallType, EventStreamAssumption DEF Turn, Call
      <4> QED
        BY <2>1, <4>3, <4>4 DEF Holds
    <3> QED
      BY <3>1, <3>2
  <2>4. ASSUME NEW e \in 1..Len(Call.events)
        PROVE  \/ Holds(log', Call.events[e], Call.stream)
               \/ \E k \in 1..Len(toWrite') : toWrite'[k] = Call.events[e]
    <3>1. CASE Holds(log, Call.events[e], Call.stream)
      BY <1>a, <3>1
    <3>2. ASSUME NEW k \in 1..Len(toWrite), toWrite[k] = Call.events[e]
          PROVE  \/ Holds(log', Call.events[e], Call.stream)
                 \/ \E n \in 1..Len(toWrite') : toWrite'[n] = Call.events[e]
      <4>1. CASE k = 1
        BY <2>1, <2>2, <2>3, <3>2, <4>1
      <4>2. CASE k # 1
        <5>1. k - 1 \in 1..Len(toWrite') /\ toWrite'[k - 1] = toWrite[k]
          BY <2>2, <3>2, <4>2
        <5> QED
          BY <3>2, <5>1
      <4> QED
        BY <4>1, <4>2
    <3> QED
      BY <1>0, <2>1, <3>1, <3>2 DEF Progressing
  <2>5. \A event \in written' : Holds(log', event, Call.stream)
    BY <1>0, <1>a, <2>1 DEF Progressing
  <2> QED
    BY <2>1, <2>4, <2>5 DEF Progressing
<1> QED
  BY <1>1, <1>2, <1>3, <1>4, <1>5 DEF Next, LoopStep

(* What a caller has just been told is true. *)
LEMMA NewAnswerIsTrue ==
    ASSUME TypeInv, Ownership, AnswersInv, [Next]_vars,
           NEW r \in Requests, answer'[r] # answer[r], answer'[r].status = "ok"
    PROVE  /\ args'[r] # NoCall /\ ~Exact(args'[r].expected) => Acknowledged(r)'
           /\ \A i \in 1..Len(log') :
                  log'[i].by = r /\ (\A j \in (i + 1)..Len(log') : log'[j].by # r)
                  => answer'[r].version = log'[i].position
<1>0. /\ TypeOK /\ Turn /\ PositionIsLast /\ PositionsContiguous /\ ServedOwned /\ Progressing
      /\ Len(log) \in Nat
  BY LenProperties DEF TypeInv, TypeOK, Ownership, AnswersInv
<1>1. CASE Validate
  <2>1. /\ answer' = [answer EXCEPT ![possible] = Verdict(Call)] /\ UNCHANGED <<log, args>>
        /\ pc = "validating"
    BY <1>1 DEF Validate, Complete
  <2>2. r = possible /\ Verdict(Call).status = "ok" /\ WroteNothing(r)
    BY <1>0, <2>1 DEF TypeOK, ServedOwned, Turn, Serving
  <2>3. Exact(args'[r].expected)
    BY <2>1, <2>2 DEF Verdict, Refusal, Failed, IsStaleOk, Call
  <2> QED
    BY <2>1, <2>2, <2>3 DEF WroteNothing
<1>2. CASE AnswerOk
  <2>1. /\ answer' = [answer EXCEPT ![possible] = Ok(position)] /\ UNCHANGED <<log, args>>
        /\ pc = "writing" /\ toWrite = <<>>
    BY <1>2 DEF AnswerOk, Complete
  <2>2. r = possible /\ answer'[r].version = Len(log) /\ possible # NoRequest
    BY <1>0, <2>1 DEF TypeOK, Ok, PositionIsLast, Turn, Serving
  <2>3. Acknowledged(r)'
    <3>1. Len(toWrite) = 0
      BY <2>1, EmptySeq
    <3>2. \A e \in 1..Len(args[r].events) : Holds(log, args[r].events[e], args[r].stream)
      BY <1>0, <2>1, <2>2, <3>1 DEF Progressing, Call
    <3> QED
      BY <2>1, <3>2 DEF Acknowledged, InStream, RecordedIn, Recorded, Holds
  <2>4. ASSUME NEW i \in 1..Len(log), log[i].by = r,
               \A j \in (i + 1)..Len(log) : log[j].by # r
        PROVE  log[i].position = Len(log)
    <3>1. log[Len(log)].by = r
      BY <1>0, <2>2, <2>4 DEF ServedOwned
    <3>2. i = Len(log)
      BY <1>0, <2>4, <3>1
    <3> QED
      BY <1>0, <3>2 DEF PositionsContiguous
  <2> QED
    BY <2>1, <2>2, <2>3, <2>4
<1>3. CASE ProcessingThrows
  BY <1>0, <1>3 DEF ProcessingThrows, Complete, Failed, TypeOK
<1>4. ASSUME NEW s \in Requests, NEW call \in Calls, AppendAsync(s, call)
      PROVE  FALSE
  BY <1>0, <1>4 DEF AppendAsync, Closed, TypeOK
<1>5. CASE \/ StartAsync \/ Dispose \/ TakeRequest \/ StopLoop \/ ValidationThrows
           \/ EnsureCreated \/ FilterWritten \/ WriteNext \/ UNCHANGED vars
  BY <1>5 DEF StartAsync, Dispose, TakeRequest, StopLoop, ValidationThrows, EnsureCreated,
              FilterWritten, WriteNext, vars
<1> QED
  BY <1>1, <1>2, <1>3, <1>4, <1>5 DEF Next, LoopStep

LEMMA AnswersStep == TypeInv /\ Ownership /\ AnswersInv /\ [Next]_vars => AnswersInv'
<1> SUFFICES ASSUME TypeInv, Ownership, AnswersInv, [Next]_vars
             PROVE  AnswersInv'
  OBVIOUS
<1>1. ASSUME NEW r \in Requests, answer'[r].status = "ok"
      PROVE  /\ args'[r] # NoCall /\ ~Exact(args'[r].expected) => Acknowledged(r)'
             /\ \A i \in 1..Len(log') :
                    log'[i].by = r /\ (\A j \in (i + 1)..Len(log') : log'[j].by # r)
                    => answer'[r].version = log'[i].position
  BY <1>1, AnswersStayTrue, NewAnswerIsTrue
<1>2. AckedIsRecorded'
  BY <1>1 DEF AckedIsRecorded, Acknowledged, Exact
<1>3. OkCarriesLastPosition'
  BY <1>1 DEF OkCarriesLastPosition
<1> QED
  BY <1>2, <1>3, ProgressStep DEF AnswersInv

(* An append that names no exact version and is answered Ok has all its     *)
(* events in its stream.                                                    *)
THEOREM AckedRequestsAreRecorded == Spec => []AckedIsRecorded
<1>1. AnswersInv => AckedIsRecorded
  BY DEF AnswersInv
<1> QED
  BY <1>1, TypeInit, TypeStep, OwnershipInit, OwnershipStep, AnswersInit, AnswersStep, PTL DEF Spec

(* An Ok answer carries the position of the last item its request wrote.    *)
THEOREM AnswersCarryLastPosition == Spec => []OkCarriesLastPosition
<1>1. AnswersInv => OkCarriesLastPosition
  BY DEF AnswersInv
<1> QED
  BY <1>1, TypeInit, TypeStep, OwnershipInit, OwnershipStep, AnswersInit, AnswersStep, PTL DEF Spec

(* A task has a result when its status says so. *)
PendingIsPending == \A r \in Requests : answer[r].status = "pending" => answer[r] = Pending

LEMMA PendingHolds == Spec => []PendingIsPending
<1>1. Init => PendingIsPending
  BY DEF Init, Constructed, PendingIsPending
<1>2. ASSUME TypeInv, PendingIsPending, [Next]_vars
      PROVE  PendingIsPending'
  <2>0. /\ answer \in [Requests -> Answer]
        /\ \A r \in Requests : answer[r].status = "pending" => answer[r] = Pending
    BY <1>2 DEF TypeInv, TypeOK, PendingIsPending
  <2>1. ASSUME NEW r \in Requests, NEW result, result.status # "pending",
               answer' = [answer EXCEPT ![r] = result]
        PROVE  PendingIsPending'
    BY <2>0, <2>1 DEF PendingIsPending
  <2>2. ASSUME NEW r \in Requests, NEW call \in Calls, AppendAsync(r, call)
        PROVE  PendingIsPending'
    BY <2>0, <2>1, <2>2 DEF AppendAsync, Closed, PendingIsPending
  <2>3. ASSUME NEW result, result.status # "pending", Complete(result)
        PROVE  PendingIsPending'
    BY <2>0, <2>3 DEF Complete, PendingIsPending
  <2>4. CASE Validate
    <3>1. Verdict(Call).status # "pending"
      BY DEF Verdict, Refusal, Ok, Failed
    <3> QED
      BY <2>0, <2>3, <2>4, <3>1 DEF Validate, PendingIsPending
  <2>5. CASE ProcessingThrows
    BY <2>3, <2>5 DEF ProcessingThrows, Failed
  <2>6. CASE AnswerOk
    BY <2>3, <2>6 DEF AnswerOk, Ok
  <2>7. CASE \/ StartAsync \/ Dispose \/ TakeRequest \/ StopLoop \/ ValidationThrows
             \/ EnsureCreated \/ FilterWritten \/ WriteNext \/ UNCHANGED vars
    BY <2>0, <2>7 DEF StartAsync, Dispose, TakeRequest, StopLoop, ValidationThrows, EnsureCreated,
                FilterWritten, WriteNext, vars, PendingIsPending
  <2> QED
    BY <1>2, <2>2, <2>4, <2>5, <2>6, <2>7 DEF Next, LoopStep
<1> QED
  BY <1>1, <1>2, TypeInit, TypeStep, PTL DEF Spec
=============================================================================
