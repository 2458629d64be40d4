------------------------ MODULE SubscriptionsProofs ------------------------
(***************************************************************************)
(* Proofs about Subscriptions, for any subscriptions, filters, and number   *)
(* of items and polling loops.  The heart of it is what the dispatcher's    *)
(* index means while the list of receivers is changed under it: no receiver *)
(* before the index comes to stand at or behind it again.                   *)
(***************************************************************************)
EXTENDS Subscriptions, SequenceTheorems, FiniteSetTheorems, TLAPS

(* The types, over the number of pollers or of loops there are. *)
PollerType      == [cursor : 0..MaxItems, bag : SUBSET Subs]
LoopPc          == {"polling", "sending", "awaiting"}
LoopType(n)     == [poller : 1..n, pc : LoopPc, msg : 0..MaxItems]
SubPc           == {"none", "registered", "subscribed", "removed", "excepted", "disposed"}
SubType(n)      == [pc : SubPc, poller : 0..n, rest : SUBSET Subs]
DispatchType(n) == [pc : {"waiting", "testing", "receiving"}, loop : 0..n, idx : Nat,
                    to : Subs \cup {0}]
GotType(n)      == [loop : 1..n, item : 1..MaxItems]

LEMMA TypesGrow ==
    ASSUME NEW m \in Nat, NEW n \in Nat, m <= n
    PROVE  /\ LoopType(m) \subseteq LoopType(n)
           /\ SubType(m) \subseteq SubType(n)
           /\ DispatchType(m) \subseteq DispatchType(n)
           /\ GotType(m) \subseteq GotType(n)
<1>1. 1..m \subseteq 1..n /\ 0..m \subseteq 0..n
  OBVIOUS
<1> QED
  BY <1>1 DEF LoopType, SubType, DispatchType, GotType

LEMMA SeqGrows ==
    ASSUME NEW S, NEW T, S \subseteq T, NEW s \in Seq(S)
    PROVE  s \in Seq(T)
  OBVIOUS

(* What the record of a poller becomes. *)
LEMMA PollerUpdates ==
    ASSUME NEW r \in PollerType, NEW cursor \in 0..MaxItems, NEW bag \in SUBSET Subs
    PROVE  /\ [r EXCEPT !.cursor = cursor] \in PollerType
           /\ [r EXCEPT !.cursor = cursor].cursor = cursor
           /\ [r EXCEPT !.cursor = cursor].bag = r.bag
           /\ [r EXCEPT !.bag = bag] \in PollerType
           /\ [r EXCEPT !.bag = bag].cursor = r.cursor
           /\ [r EXCEPT !.bag = bag].bag = bag
  BY DEF PollerType

LEMMA IntervalSize ==
    ASSUME NEW m \in Nat
    PROVE  IsFiniteSet(1..m) /\ Cardinality(1..m) = m
<1>1. \A a, b \in Int : IsFiniteSet(a..b) /\ Cardinality(a..b) = IF a > b THEN 0 ELSE b - a + 1
  BY FS_Interval
<1>2. IsFiniteSet(1..m) /\ Cardinality(1..m) = IF 1 > m THEN 0 ELSE m - 1 + 1
  BY <1>1
<1> QED
  BY <1>2

(* A queue without repetitions is no longer than what can stand in it. *)
LEMMA QueueFits ==
    ASSUME NEW n \in Nat, NEW q \in Seq(1..n),
           \A j, k \in 1..Len(q) : q[j] = q[k] => j = k
    PROVE  Len(q) <= n
<1> SUFFICES ASSUME ~(Len(q) <= n) PROVE FALSE
  OBVIOUS
<1>1. Len(q) \in Nat /\ q \in [1..Len(q) -> 1..n]
  BY LenProperties
<1>2. /\ IsFiniteSet(1..Len(q)) /\ IsFiniteSet(1..n)
      /\ Cardinality(1..Len(q)) = Len(q) /\ Cardinality(1..n) = n
  BY <1>1, IntervalSize
<1>3. \E j, k \in 1..Len(q) : j # k /\ q[j] = q[k]
  <2> DEFINE m == Len(q)
  <2>1. /\ Cardinality(1..n) < Cardinality(1..m) /\ IsFiniteSet(1..m) /\ IsFiniteSet(1..n)
        /\ q \in [1..m -> 1..n]
    BY <1>1, <1>2
  <2> HIDE DEF m
  <2>2. \E j, k \in 1..m : j # k /\ q[j] = q[k]
    BY <2>1, FS_PigeonHole, Zenon
  <2> QED
    BY <2>2 DEF m
<1> QED
  BY <1>3

(* List.Remove: the later elements move down by one. *)
LEMMA RemoveAtProperties ==
    ASSUME NEW S, NEW s \in Seq(S), NEW i \in 1..Len(s)
    PROVE  /\ RemoveAt(s, i) \in Seq(S)
           /\ Len(RemoveAt(s, i)) = Len(s) - 1
           /\ \A k \in 1..(Len(s) - 1) : RemoveAt(s, i)[k] = IF k < i THEN s[k] ELSE s[k + 1]
<1> DEFINE a == SubSeq(s, 1, i - 1)
           b == SubSeq(s, i + 1, Len(s))
<1>0. Len(s) \in Nat /\ i \in Nat /\ i - 1 \in Nat
  OBVIOUS
<1>1. a \in Seq(S) /\ Len(a) = i - 1 /\ \A k \in 1..(i - 1) : a[k] = s[k]
  BY <1>0
<1>2. b \in Seq(S) /\ Len(b) = Len(s) - i /\ \A k \in 1..(Len(s) - i) : b[k] = s[i + k]
  BY <1>0
<1>3. RemoveAt(s, i) = a \o b
  BY DEF RemoveAt
<1> HIDE DEF a, b
<1>4. /\ a \o b \in Seq(S) /\ Len(a \o b) = Len(a) + Len(b)
      /\ \A k \in 1..(Len(a) + Len(b)) :
            (a \o b)[k] = IF k <= Len(a) THEN a[k] ELSE b[k - Len(a)]
  BY <1>1, <1>2, ConcatProperties
<1>5. ASSUME NEW k \in 1..(Len(s) - 1)
      PROVE  (a \o b)[k] = IF k < i THEN s[k] ELSE s[k + 1]
  <2>1. CASE k < i
    <3>1. k \in 1..(Len(a) + Len(b)) /\ k <= Len(a) /\ k \in 1..(i - 1)
      BY <1>0, <1>1, <1>2, <2>1
    <3> QED
      BY <1>1, <1>4, <2>1, <3>1
  <2>2. CASE ~(k < i)
    <3>1. /\ k \in 1..(Len(a) + Len(b)) /\ ~(k <= Len(a))
          /\ k - Len(a) \in 1..(Len(s) - i) /\ i + (k - Len(a)) = k + 1
      BY <1>0, <1>1, <1>2, <2>2
    <3>2. (a \o b)[k] = b[k - Len(a)] /\ b[k - Len(a)] = s[i + (k - Len(a))]
      BY <1>2, <1>4, <3>1
    <3> QED
      BY <2>2, <3>1, <3>2
  <2> QED
    BY <2>1, <2>2
<1> QED
  BY <1>0, <1>1, <1>2, <1>3, <1>4, <1>5
-----------------------------------------------------------------------------
(* Type correctness.  A loop whose message is queued or being broadcast     *)
(* awaits it; each is queued at most once.                                  *)

Loops     == 1..Len(loops)
Active(l) == loops[l].pc # "polling"

LoopsHaveMessage == \A l \in Loops : Active(l) => loops[l].msg # 0

QueuedAwait ==
    /\ \A j \in 1..Len(queue) : loops[queue[j]].pc = "awaiting" /\ queue[j] # dispatch.loop
    /\ \A j, k \in 1..Len(queue) : queue[j] = queue[k] => j = k

DispatchInTurn ==
    /\ dispatch.pc = "waiting" => dispatch = Idle
    /\ dispatch.pc # "waiting" => /\ dispatch.loop \in Loops /\ dispatch.idx # 0
                                  /\ loops[dispatch.loop].pc = "awaiting"
    /\ dispatch.pc = "receiving" => dispatch.to \in Subs

SubsHavePoller == \A s \in Subs : sub[s].pc # "none" => sub[s].poller # 0

Turns == LoopsHaveMessage /\ QueuedAwait /\ DispatchInTurn /\ SubsHavePoller

(* TypeOK, over the types above. *)
TypeParts ==
    /\ items \in 0..MaxItems
    /\ connected \in BOOLEAN /\ watcher \in 0..Len(pollers) /\ (connected => watcher # 0)
    /\ closing \subseteq Subs
    /\ pollers \in Seq(PollerType)
    /\ loops \in Seq(LoopType(Len(pollers)))
    /\ queue \in Seq(Loops)
    /\ receivers \in Seq(Subs)
    /\ dispatch \in DispatchType(Len(loops))
    /\ sub \in [Subs -> SubType(Len(pollers))]
    /\ got \in [Subs -> Seq(GotType(Len(loops)))]

TypeInv == TypeParts /\ Turns

LEMMA TypeInvIsType == TypeInv => TypeOK
<1> SUFFICES ASSUME TypeInv PROVE TypeOK
  OBVIOUS
<1>1. Len(loops) \in Nat /\ queue \in Seq(1..Len(loops))
  BY LenProperties DEF TypeInv, TypeParts, Loops
<1>2. \A j, k \in 1..Len(queue) : queue[j] = queue[k] => j = k
  BY DEF TypeInv, Turns, QueuedAwait
<1>3. Len(queue) <= Len(loops)
  BY <1>1, <1>2, QueueFits
<1> QED
  BY <1>1, <1>3
     DEF TypeInv, TypeParts, TypeOK, PollerType, LoopType, LoopPc, SubType, SubPc, DispatchType, GotType

LEMMA TypeFacts ==
    ASSUME TypeInv
    PROVE  /\ MaxItems \in Nat /\ Len(pollers) \in Nat /\ Len(loops) \in Nat
           /\ Len(queue) \in Nat /\ Len(receivers) \in Nat
           /\ \A p \in 1..Len(pollers) : pollers[p] \in PollerType
           /\ \A l \in Loops : loops[l] \in LoopType(Len(pollers))
           /\ \A s \in Subs : sub[s] \in SubType(Len(pollers))
  BY SubscriptionsAssumption, LenProperties DEF TypeInv, TypeParts, Loops

LEMMA TypeInit == Init => TypeInv
<1> SUFFICES ASSUME Init PROVE TypeInv
  OBVIOUS
<1>1. /\ Len(pollers) = 0 /\ Len(loops) = 0 /\ Len(queue) = 0 /\ Len(receivers) = 0
      /\ pollers = <<>> /\ loops = <<>> /\ queue = <<>> /\ receivers = <<>>
  BY DEF Init
<1>2. dispatch \in DispatchType(0) /\ sub \in [Subs -> SubType(0)]
  BY DEF Init, Idle, DispatchType, SubType, SubPc
<1>3. got \in [Subs -> Seq(GotType(0))]
  BY DEF Init
<1>4. TypeParts
  <2>1. /\ items \in 0..MaxItems /\ connected \in BOOLEAN /\ watcher \in 0..Len(pollers)
        /\ (connected => watcher # 0) /\ closing \subseteq Subs
    <3>1. items \in 0..MaxItems
      BY SubscriptionsAssumption DEF Init
    <3>2. watcher \in 0..Len(pollers)
      BY <1>1 DEF Init
    <3>3. connected \in BOOLEAN /\ ~connected /\ closing \subseteq Subs
      BY Zenon DEF Init
    <3> QED
      BY <3>1, <3>2, <3>3
  <2>2. /\ pollers \in Seq(PollerType) /\ loops \in Seq(LoopType(Len(pollers)))
        /\ queue \in Seq(Loops) /\ receivers \in Seq(Subs)
    BY <1>1
  <2> QED
    BY <1>1, <1>2, <1>3, <2>1, <2>2 DEF TypeParts
<1>5. Turns
  BY <1>1 DEF Init, Idle, Turns, LoopsHaveMessage, QueuedAwait, DispatchInTurn, SubsHavePoller, Loops
<1> QED
  BY <1>4, <1>5 DEF TypeInv

-----------------------------------------------------------------------------
(* Type correctness of each step. *)

LEMMA UnregisterType ==
    ASSUME receivers \in Seq(Subs), NEW s \in Subs, Unregister(s)
    PROVE  receivers' \in Seq(Subs)
<1>1. CASE Registered(s)
  <2>1. PICK i \in DOMAIN receivers : receivers' = RemoveAt(receivers, i)
    BY <1>1 DEF Unregister, Registered, ToSet
  <2>2. i \in 1..Len(receivers)
    BY <2>1
  <2> QED
    BY <2>1, <2>2, RemoveAtProperties
<1> QED
  BY <1>1 DEF Unregister

LEMMA ConnectType ==
    ASSUME TypeInv, Connect
    PROVE  TypeInv'
<1> DEFINE m == Len(pollers)
           n == Len(pollers')
<1>1. /\ pollers' \in Seq(PollerType) /\ n \in Nat /\ m \in Nat /\ m <= n
      /\ watcher' \in 1..n
  <2>1. CASE watcher = 0
    <3>1. [cursor |-> 0, bag |-> {}] \in PollerType
      BY SubscriptionsAssumption DEF PollerType
    <3>2. pollers \in Seq(PollerType) /\ Len(pollers) \in Nat
      BY TypeFacts DEF TypeInv, TypeParts
    <3>3. /\ pollers' = Append(pollers, [cursor |-> 0, bag |-> {}])
          /\ watcher' = Len(pollers) + 1
      BY <2>1 DEF Connect
    <3>4. pollers' \in Seq(PollerType) /\ Len(pollers') = Len(pollers) + 1
      BY <3>1, <3>2, <3>3, AppendProperties
    <3> QED
      BY <3>2, <3>3, <3>4
  <2>2. CASE watcher # 0
    BY <2>2, TypeFacts DEF Connect, TypeInv, TypeParts
  <2> QED
    BY <2>1, <2>2
<1> DEFINE new == [poller |-> watcher', pc |-> "polling", msg |-> 0]
<1>2. new \in LoopType(n) /\ loops' = Append(loops, new) /\ new.pc = "polling"
  BY <1>1, SubscriptionsAssumption DEF Connect, LoopType, LoopPc
<1>3. loops \in Seq(LoopType(n))
  BY <1>1, TypesGrow, SeqGrows DEF TypeInv, TypeParts
<1> HIDE DEF new, m, n
<1>4. /\ loops' \in Seq(LoopType(n)) /\ Len(loops') = Len(loops) + 1 /\ Len(loops) \in Nat
      /\ \A l \in Loops : loops'[l] = loops[l]
      /\ loops'[Len(loops')].pc = "polling"
  BY <1>2, <1>3 DEF Loops
<1>5. \A l \in Loops' : l \in Loops \/ l = Len(loops')
  BY <1>4 DEF Loops
<1>6. Loops \subseteq Loops'
  BY <1>4 DEF Loops
<1>7. /\ UNCHANGED <<items, closing, queue, receivers, dispatch, sub, got>> /\ connected'
      /\ connected' \in BOOLEAN
  BY DEF Connect
<1>8. /\ queue' \in Seq(Loops') /\ dispatch' \in DispatchType(Len(loops'))
      /\ sub' \in [Subs -> SubType(n)] /\ got' \in [Subs -> Seq(GotType(Len(loops')))]
  <2>1. queue \in Seq(Loops')
    BY <1>6, SeqGrows DEF TypeInv, TypeParts
  <2>2. dispatch \in DispatchType(Len(loops')) /\ sub \in [Subs -> SubType(n)]
    BY <1>1, <1>4, TypesGrow DEF TypeInv, TypeParts, m
  <2>3. GotType(Len(loops)) \subseteq GotType(Len(loops'))
    BY <1>4, TypesGrow
  <2>4. got \in [Subs -> Seq(GotType(Len(loops')))]
    BY <2>3, SeqGrows DEF TypeInv, TypeParts
  <2> QED
    BY <1>7, <2>1, <2>2, <2>4
<1>9. TypeParts'
  BY <1>1, <1>4, <1>7, <1>8 DEF TypeInv, TypeParts, n
<1>10. Turns'
  <2>1. LoopsHaveMessage'
    BY <1>4, <1>5 DEF TypeInv, Turns, LoopsHaveMessage, Active
  <2>2. QueuedAwait'
    <3>1. \A j \in 1..Len(queue) : queue[j] \in Loops
      BY DEF TypeInv, TypeParts
    <3> QED
      BY <1>4, <1>7, <3>1 DEF TypeInv, Turns, QueuedAwait
  <2>3. DispatchInTurn'
    BY <1>4, <1>6, <1>7 DEF TypeInv, Turns, DispatchInTurn
  <2> QED
    BY <1>7, <2>1, <2>2, <2>3 DEF TypeInv, Turns, SubsHavePoller
<1> QED
  BY <1>9, <1>10 DEF TypeInv

(* A step that only changes the list of receivers, the clients' state and   *)
(* the bags.                                                                *)
LEMMA ClientStepType ==
    ASSUME TypeInv, UNCHANGED <<items, loops, queue, dispatch, got>>,
           pollers' \in Seq(PollerType), Len(pollers') = Len(pollers),
           connected' \in BOOLEAN, watcher' \in 0..Len(pollers), connected' => watcher' # 0,
           closing' \subseteq Subs, receivers' \in Seq(Subs),
           sub' \in [Subs -> SubType(Len(pollers))],
           \A s \in Subs : sub'[s].pc # "none" => sub'[s].poller # 0
    PROVE  TypeInv'
<1>1. TypeParts'
  BY DEF TypeInv, TypeParts, Loops
<1>2. Turns'
  <2>1. LoopsHaveMessage' /\ QueuedAwait' /\ DispatchInTurn'
    BY DEF TypeInv, Turns, LoopsHaveMessage, Active, QueuedAwait, DispatchInTurn, Loops
  <2> QED
    BY <2>1 DEF Turns, SubsHavePoller
<1> QED
  BY <1>1, <1>2 DEF TypeInv

(* A step of a subscription to pc, with its poller and rest.                *)
LEMMA SubStepType ==
    ASSUME TypeInv, NEW s \in Subs, NEW r \in SubType(Len(pollers)), r.poller # 0,
           sub' = [sub EXCEPT ![s] = r]
    PROVE  /\ sub' \in [Subs -> SubType(Len(pollers))]
           /\ \A t \in Subs : sub'[t].pc # "none" => sub'[t].poller # 0
           /\ sub'[s] = r
           /\ \A t \in Subs : t # s => sub'[t] = sub[t]
<1>1. sub \in [Subs -> SubType(Len(pollers))]
  BY DEF TypeInv, TypeParts
<1>2. /\ sub' \in [Subs -> SubType(Len(pollers))] /\ sub'[s] = r
      /\ \A t \in Subs : t # s => sub'[t] = sub[t]
  BY <1>1
<1>3. \A t \in Subs : sub'[t].pc # "none" => sub'[t].poller # 0
  BY <1>2 DEF TypeInv, Turns, SubsHavePoller
<1> QED
  BY <1>2, <1>3

(* What the steps of a subscription make of it, and of the pollers. *)
LEMMA SubscribeToStreamStep ==
    ASSUME TypeInv, NEW s \in Subs, SubscribeToStream(s)
    PROVE  /\ sub' \in [Subs -> SubType(Len(pollers))]
           /\ \A t \in Subs : sub'[t].pc # "none" => sub'[t].poller # 0
           /\ sub'[s].pc = "registered"
           /\ \A t \in Subs : t # s => sub'[t] = sub[t]
<1>1. /\ sub[s] \in SubType(Len(pollers)) /\ Len(pollers) \in Nat
      /\ watcher \in 0..Len(pollers) /\ watcher # 0
  BY TypeFacts DEF SubscribeToStream, TypeInv, TypeParts
<1> DEFINE r == [sub[s] EXCEPT !.pc = "registered", !.poller = watcher]
<1>2. r \in SubType(Len(pollers)) /\ r.pc = "registered" /\ r.poller = watcher
  <2>1. "registered" \in SubPc /\ {} \in SUBSET Subs
    BY DEF SubPc
  <2> QED
    BY <1>1, <2>1 DEF SubType
<1>3. sub' = [sub EXCEPT ![s] = r]
  BY DEF SubscribeToStream
<1> HIDE DEF r
<1> QED
  BY <1>1, <1>2, <1>3, SubStepType

LEMMA SubStep ==
    ASSUME TypeInv, NEW s \in Subs, NEW pc \in SubPc, NEW rest \in SUBSET Subs,
           sub[s].pc # "none",
           \/ sub' = [sub EXCEPT ![s].pc = pc]
           \/ sub' = [sub EXCEPT ![s] = [@ EXCEPT !.pc = pc, !.rest = rest]]
    PROVE  /\ sub' \in [Subs -> SubType(Len(pollers))]
           /\ \A t \in Subs : sub'[t].pc # "none" => sub'[t].poller # 0
           /\ sub'[s].pc = pc /\ sub'[s].poller = sub[s].poller
           /\ \A t \in Subs : t # s => sub'[t] = sub[t]
<1>1. /\ sub[s] \in SubType(Len(pollers)) /\ Len(pollers) \in Nat /\ sub[s].poller # 0
      /\ 0 \in 0..Len(pollers)
  BY TypeFacts DEF TypeInv, Turns, SubsHavePoller
<1>2. PICK r \in SubType(Len(pollers)) :
        /\ r.pc = pc /\ r.poller = sub[s].poller
        /\ sub' = [sub EXCEPT ![s] = r]
  <2>1. CASE sub' = [sub EXCEPT ![s].pc = pc]
    <3> DEFINE r == [sub[s] EXCEPT !.pc = pc]
    <3>1. r \in SubType(Len(pollers)) /\ r.pc = pc /\ r.poller = sub[s].poller
      BY <1>1 DEF SubType
    <3>2. sub' = [sub EXCEPT ![s] = r]
      BY <2>1
    <3> QED
      BY <3>1, <3>2
  <2>2. CASE sub' = [sub EXCEPT ![s] = [@ EXCEPT !.pc = pc, !.rest = rest]]
    <3> DEFINE r == [sub[s] EXCEPT !.pc = pc, !.rest = rest]
    <3>1. r \in SubType(Len(pollers)) /\ r.pc = pc /\ r.poller = sub[s].poller
      BY <1>1 DEF SubType
    <3>2. sub' = [sub EXCEPT ![s] = r]
      BY <2>2
    <3> QED
      BY <3>1, <3>2
  <2> QED
    BY <2>1, <2>2
<1> QED
  BY <1>1, <1>2, SubStepType

(* A change of one poller's bag, or of its cursor. *)
LEMMA BagStep ==
    ASSUME TypeInv, NEW p \in 1..Len(pollers), NEW bag \in SUBSET Subs,
           pollers' = [pollers EXCEPT ![p].bag = bag]
    PROVE  /\ pollers' \in Seq(PollerType) /\ Len(pollers') = Len(pollers)
           /\ pollers'[p].bag = bag
           /\ \A q \in 1..Len(pollers) : /\ pollers'[q].cursor = pollers[q].cursor
                                         /\ q # p => pollers'[q] = pollers[q]
<1> DEFINE r == [pollers[p] EXCEPT !.bag = bag]
<1>1. pollers \in Seq(PollerType) /\ pollers[p] \in PollerType /\ 0 \in 0..MaxItems
  BY TypeFacts DEF TypeInv, TypeParts
<1>2. r \in PollerType /\ r.bag = bag /\ r.cursor = pollers[p].cursor
  BY <1>1, PollerUpdates
<1>3. pollers' = [pollers EXCEPT ![p] = r]
  OBVIOUS
<1> HIDE DEF r
<1>4. /\ pollers' \in Seq(PollerType) /\ Len(pollers') = Len(pollers)
      /\ pollers'[p] = r
      /\ \A q \in 1..Len(pollers) : q # p => pollers'[q] = pollers[q]
  BY <1>1, <1>2, <1>3
<1> QED
  BY <1>2, <1>4

LEMMA CursorStep ==
    ASSUME TypeInv, NEW l \in Loops, Step(l), Cursor(l) < MaxItems
    PROVE  /\ pollers' \in Seq(PollerType) /\ Len(pollers') = Len(pollers)
           /\ Cursor(l) \in Nat
           /\ pollers'[loops[l].poller].cursor = Cursor(l) + 1
           /\ pollers'[loops[l].poller].bag = pollers[loops[l].poller].bag
           /\ loops[l].poller \in 1..Len(pollers)
           /\ \A q \in 1..Len(pollers) : q # loops[l].poller => pollers'[q] = pollers[q]
<1> DEFINE p == loops[l].poller
           c == Cursor(l) + 1
           r == [pollers[p] EXCEPT !.cursor = c]
<1>1. pollers \in Seq(PollerType) /\ Len(pollers) \in Nat /\ p \in 1..Len(pollers)
  BY TypeFacts DEF TypeInv, TypeParts, LoopType
<1>2. pollers[p] \in PollerType
  BY <1>1, TypeFacts
<1>3. Cursor(l) \in 0..MaxItems /\ MaxItems \in Nat
  BY <1>2, TypeFacts DEF Cursor, PollerType
<1>4. c \in 0..MaxItems
  BY <1>3
<1>5. pollers' = [pollers EXCEPT ![p] = r]
  BY DEF Step, Cursor
<1> HIDE DEF c
<1>6. r \in PollerType /\ r.bag = pollers[p].bag /\ r.cursor = c
  <2> DEFINE old == pollers[p]
  <2>1. old \in PollerType /\ {} \in SUBSET Subs
    BY <1>2
  <2> HIDE DEF old
  <2>2. /\ [old EXCEPT !.cursor = c] \in PollerType
        /\ [old EXCEPT !.cursor = c].cursor = c
        /\ [old EXCEPT !.cursor = c].bag = old.bag
    BY <1>4, <2>1, PollerUpdates
  <2> QED
    BY <2>2 DEF old
<1> HIDE DEF r
<1>7. /\ pollers' \in Seq(PollerType) /\ Len(pollers') = Len(pollers) /\ pollers'[p] = r
      /\ \A q \in 1..Len(pollers) : q # p => pollers'[q] = pollers[q]
  BY <1>1, <1>5, <1>6
<1> QED
  BY <1>1, <1>3, <1>6, <1>7 DEF c

(* A change of one loop, to pc and msg or to pc alone.                      *)
LEMMA LoopStep ==
    ASSUME TypeInv, NEW l \in Loops, NEW pc \in LoopPc, NEW msg \in 0..MaxItems,
           \/ loops' = [loops EXCEPT ![l] = [@ EXCEPT !.pc = pc, !.msg = msg]]
           \/ loops' = [loops EXCEPT ![l].pc = pc] /\ msg = loops[l].msg
    PROVE  /\ loops' \in Seq(LoopType(Len(pollers))) /\ Len(loops') = Len(loops)
           /\ loops'[l].pc = pc /\ loops'[l].msg = msg
           /\ \A k \in Loops : /\ loops'[k].poller = loops[k].poller
                               /\ k # l => loops'[k] = loops[k]
<1>1. /\ loops \in Seq(LoopType(Len(pollers))) /\ loops[l] \in LoopType(Len(pollers))
      /\ Len(pollers) \in Nat
  BY TypeFacts DEF TypeInv, TypeParts
<1>2. PICK r \in LoopType(Len(pollers)) :
        /\ r.pc = pc /\ r.msg = msg /\ r.poller = loops[l].poller
        /\ loops' = [loops EXCEPT ![l] = r]
  <2>1. CASE loops' = [loops EXCEPT ![l] = [@ EXCEPT !.pc = pc, !.msg = msg]]
    <3> DEFINE r == [loops[l] EXCEPT !.pc = pc, !.msg = msg]
    <3>1. r \in LoopType(Len(pollers)) /\ r.pc = pc /\ r.msg = msg /\ r.poller = loops[l].poller
      BY <1>1 DEF LoopType
    <3>2. loops' = [loops EXCEPT ![l] = r]
      BY <2>1
    <3> QED
      BY <3>1, <3>2
  <2>2. CASE loops' = [loops EXCEPT ![l].pc = pc] /\ msg = loops[l].msg
    <3> DEFINE r == [loops[l] EXCEPT !.pc = pc]
    <3>1. r \in LoopType(Len(pollers)) /\ r.pc = pc /\ r.msg = msg /\ r.poller = loops[l].poller
      BY <1>1, <2>2 DEF LoopType
    <3>2. loops' = [loops EXCEPT ![l] = r]
      BY <2>2
    <3> QED
      BY <3>1, <3>2
  <2> QED
    BY <2>1, <2>2
<1>3. /\ loops' \in Seq(LoopType(Len(pollers))) /\ Len(loops') = Len(loops) /\ loops'[l] = r
      /\ \A k \in Loops : k # l => loops'[k] = loops[k]
  BY <1>1, <1>2 DEF Loops
<1> QED
  BY <1>2, <1>3

(* A step of the polling loops or the dispatcher. *)
LEMMA LoopStepType ==
    ASSUME TypeInv, UNCHANGED <<clientVars, receivers, sub>>,
           items' \in 0..MaxItems,
           pollers' \in Seq(PollerType), Len(pollers') = Len(pollers),
           loops' \in Seq(LoopType(Len(pollers))), Len(loops') = Len(loops),
           queue' \in Seq(Loops), dispatch' \in DispatchType(Len(loops)),
           got' \in [Subs -> Seq(GotType(Len(loops)))],
           LoopsHaveMessage', QueuedAwait', DispatchInTurn'
    PROVE  TypeInv'
<1>1. TypeParts'
  BY DEF TypeInv, TypeParts, Loops, clientVars
<1>2. SubsHavePoller'
  BY DEF TypeInv, Turns, SubsHavePoller
<1> QED
  BY <1>1, <1>2 DEF TypeInv, Turns

LEMMA PollType ==
    ASSUME TypeInv, NEW l \in Loops, Poll(l)
    PROVE  /\ TypeInv'
           /\ loops'[l].pc = "sending" /\ loops'[l].msg = Cursor(l) + 1
           /\ Len(loops') = Len(loops)
           /\ \A k \in Loops : /\ loops'[k].poller = loops[k].poller
                               /\ k # l => loops'[k] = loops[k]
<1>1. items \in 0..MaxItems /\ MaxItems \in Nat /\ Len(pollers) \in Nat
  BY TypeFacts DEF TypeInv, TypeParts
<1>2. Cursor(l) \in 0..MaxItems
  BY TypeFacts DEF LoopType, PollerType, Cursor
<1>3. Step(l) /\ Cursor(l) < MaxItems
  BY <1>1, <1>2 DEF Poll
<1>4. pollers' \in Seq(PollerType) /\ Len(pollers') = Len(pollers)
  BY <1>3, CursorStep
<1> DEFINE m == Cursor(l) + 1
<1>5. m \in 0..MaxItems /\ m # 0 /\ "sending" \in LoopPc
  BY <1>1, <1>2, <1>3 DEF LoopPc
<1>6. loops' = [loops EXCEPT ![l] = [@ EXCEPT !.pc = "sending", !.msg = m]]
  BY DEF Poll
<1> HIDE DEF m
<1>7. /\ loops' \in Seq(LoopType(Len(pollers))) /\ Len(loops') = Len(loops)
      /\ loops'[l].pc = "sending" /\ loops'[l].msg = m
      /\ \A k \in Loops : /\ loops'[k].poller = loops[k].poller
                          /\ k # l => loops'[k] = loops[k]
  BY <1>5, <1>6, LoopStep
<1>8. /\ UNCHANGED <<items, clientVars, queue, receivers, dispatch, sub, got>>
      /\ loops[l].pc = "polling"
  BY DEF Poll
<1>9. LoopsHaveMessage'
  BY <1>5, <1>7 DEF LoopsHaveMessage, Active, Loops, TypeInv, Turns
<1>10. QueuedAwait'
  <2>1. \A j \in 1..Len(queue) : queue[j] \in Loops /\ queue[j] # l
    BY <1>8 DEF TypeInv, TypeParts, Turns, QueuedAwait
  <2> QED
    BY <1>7, <1>8, <2>1 DEF QueuedAwait, TypeInv, Turns
<1>11. DispatchInTurn'
  BY <1>7, <1>8 DEF DispatchInTurn, Loops, TypeInv, Turns
<1>12. TypeInv'
  <2>1. UNCHANGED <<clientVars, receivers, sub>> /\ items' \in 0..MaxItems
    BY <1>1, <1>8
  <2>2. /\ queue' \in Seq(Loops) /\ dispatch' \in DispatchType(Len(loops))
        /\ got' \in [Subs -> Seq(GotType(Len(loops)))]
    BY <1>8 DEF TypeInv, TypeParts
  <2> QED
    BY <1>4, <1>7, <1>9, <1>10, <1>11, <2>1, <2>2, LoopStepType
<1> QED
  BY <1>7, <1>12 DEF m

LEMMA PollTooEarlyType ==
    ASSUME TypeInv, NEW l \in Loops, PollTooEarly(l)
    PROVE  TypeInv'
<1>1. items \in 0..MaxItems /\ MaxItems \in Nat /\ Len(pollers) \in Nat
  BY TypeFacts DEF TypeInv, TypeParts
<1>2. Step(l) /\ Cursor(l) < MaxItems
  BY <1>1 DEF PollTooEarly
<1>3. pollers' \in Seq(PollerType) /\ Len(pollers') = Len(pollers)
  BY <1>2, CursorStep
<1>4. UNCHANGED <<clientVars, loops, queue, receivers, dispatch, sub, got>> /\ items' \in 0..MaxItems
  BY <1>1 DEF PollTooEarly
<1>5. LoopsHaveMessage' /\ QueuedAwait' /\ DispatchInTurn'
  BY <1>4 DEF TypeInv, Turns, LoopsHaveMessage, Active, QueuedAwait, DispatchInTurn, Loops
<1>6. /\ loops' \in Seq(LoopType(Len(pollers))) /\ Len(loops') = Len(loops)
      /\ queue' \in Seq(Loops) /\ dispatch' \in DispatchType(Len(loops))
      /\ got' \in [Subs -> Seq(GotType(Len(loops)))]
  BY <1>4 DEF TypeInv, TypeParts
<1> QED
  BY <1>3, <1>4, <1>5, <1>6, LoopStepType

LEMMA StoreItemType ==
    ASSUME TypeInv, StoreItem
    PROVE  TypeInv'
<1>1. items' \in 0..MaxItems
  BY TypeFacts DEF TypeInv, TypeParts, StoreItem
<1>2. UNCHANGED <<clientVars, pollers, loops, queue, receivers, dispatch, sub, got>>
  BY DEF StoreItem
<1>3. LoopsHaveMessage' /\ QueuedAwait' /\ DispatchInTurn'
  BY <1>2 DEF TypeInv, Turns, LoopsHaveMessage, Active, QueuedAwait, DispatchInTurn, Loops
<1> QED
  BY <1>1, <1>2, <1>3, LoopStepType DEF TypeInv, TypeParts

LEMMA BroadcastAsyncType ==
    ASSUME TypeInv, NEW l \in Loops, BroadcastAsync(l)
    PROVE  /\ TypeInv'
           /\ loops'[l].pc = "awaiting" /\ loops'[l].msg = loops[l].msg
           /\ Len(loops') = Len(loops)
           /\ \A k \in Loops : /\ loops'[k].poller = loops[k].poller
                               /\ k # l => loops'[k] = loops[k]
<1>1. Len(queue) \in Nat /\ queue \in Seq(Loops)
  BY TypeFacts DEF TypeInv, TypeParts
<1>2. loops[l].msg \in 0..MaxItems /\ "awaiting" \in LoopPc
  BY TypeFacts DEF LoopType, LoopPc
<1>3. loops' = [loops EXCEPT ![l].pc = "awaiting"] /\ loops[l].pc = "sending"
  BY DEF BroadcastAsync
<1>4. /\ loops' \in Seq(LoopType(Len(pollers))) /\ Len(loops') = Len(loops)
      /\ loops'[l].pc = "awaiting" /\ loops'[l].msg = loops[l].msg
      /\ \A k \in Loops : /\ loops'[k].poller = loops[k].poller
                          /\ k # l => loops'[k] = loops[k]
  BY <1>2, <1>3, LoopStep
<1>5. /\ queue' \in Seq(Loops) /\ Len(queue') = Len(queue) + 1
      /\ queue'[Len(queue')] = l /\ \A j \in 1..Len(queue) : queue'[j] = queue[j]
  BY <1>1 DEF BroadcastAsync
<1>6. UNCHANGED <<items, clientVars, pollers, receivers, dispatch, sub, got>>
  BY DEF BroadcastAsync
<1>7. LoopsHaveMessage'
  BY <1>3, <1>4 DEF LoopsHaveMessage, Active, Loops, TypeInv, Turns
<1>8. l # dispatch.loop /\ \A j \in 1..Len(queue) : queue[j] \in Loops /\ queue[j] # l
  <2>1. dispatch.pc # "waiting" => l # dispatch.loop
    BY <1>3 DEF TypeInv, Turns, DispatchInTurn
  <2>2. dispatch.pc = "waiting" => l # dispatch.loop
    BY <1>4 DEF TypeInv, Turns, DispatchInTurn, Idle, Loops
  <2> QED
    BY <1>1, <1>3, <2>1, <2>2 DEF TypeInv, Turns, QueuedAwait
<1>9. QueuedAwait'
  <2>1. \A j \in 1..Len(queue') : j \in 1..Len(queue) \/ j = Len(queue')
    BY <1>1, <1>5
  <2>2. \A j \in 1..Len(queue') : loops'[queue'[j]].pc = "awaiting" /\ queue'[j] # dispatch'.loop
    BY <1>4, <1>5, <1>6, <1>8, <2>1 DEF TypeInv, Turns, QueuedAwait
  <2>3. \A j, k \in 1..Len(queue') : queue'[j] = queue'[k] => j = k
    BY <1>5, <1>8, <2>1 DEF TypeInv, Turns, QueuedAwait
  <2> QED
    BY <2>2, <2>3 DEF QueuedAwait
<1>10. DispatchInTurn'
  BY <1>4, <1>6 DEF DispatchInTurn, Loops, TypeInv, Turns
<1>11. TypeInv'
  <2>1. UNCHANGED <<clientVars, receivers, sub>> /\ items' \in 0..MaxItems
    BY <1>6 DEF TypeInv, TypeParts
  <2>2. /\ pollers' \in Seq(PollerType) /\ Len(pollers') = Len(pollers)
        /\ dispatch' \in DispatchType(Len(loops)) /\ got' \in [Subs -> Seq(GotType(Len(loops)))]
    BY <1>6 DEF TypeInv, TypeParts
  <2> QED
    BY <1>4, <1>5, <1>7, <1>9, <1>10, <2>1, <2>2, LoopStepType
<1> QED
  BY <1>4, <1>11

LEMMA TakeMessageType ==
    ASSUME TypeInv, TakeMessage
    PROVE  TypeInv'
<1>1. Len(queue) \in Nat /\ Len(loops) \in Nat /\ queue \in Seq(Loops) /\ queue # <<>>
  BY TypeFacts DEF TypeInv, TypeParts, TakeMessage
<1>2. /\ queue[1] \in Loops /\ loops[queue[1]].pc = "awaiting"
      /\ dispatch' = [pc |-> "testing", loop |-> queue[1], idx |-> 1, to |-> 0]
  BY <1>1 DEF TakeMessage, TypeInv, Turns, QueuedAwait
<1>3. /\ queue' \in Seq(Loops) /\ Len(queue') = Len(queue) - 1
      /\ \A j \in 1..Len(queue') : queue'[j] = queue[j + 1]
  BY <1>1 DEF TakeMessage
<1>4. UNCHANGED <<items, clientVars, pollers, loops, receivers, sub, got>>
  BY DEF TakeMessage
<1>5. dispatch' \in DispatchType(Len(loops)) /\ DispatchInTurn'
  BY <1>1, <1>2, <1>4 DEF DispatchType, DispatchInTurn, Loops
<1>6. QueuedAwait'
  <2>1. \A j \in 1..Len(queue') : j + 1 \in 1..Len(queue) /\ j + 1 # 1
    BY <1>1, <1>3
  <2>2. \A j \in 1..Len(queue) : loops[queue[j]].pc = "awaiting" /\ (j # 1 => queue[j] # queue[1])
    BY <1>1 DEF TypeInv, Turns, QueuedAwait
  <2>3. \A j \in 1..Len(queue') : loops'[queue'[j]].pc = "awaiting" /\ queue'[j] # dispatch'.loop
    BY <1>2, <1>3, <1>4, <2>1, <2>2
  <2>4. \A j, k \in 1..Len(queue') : queue'[j] = queue'[k] => j = k
    BY <1>1, <1>3, <2>1 DEF TypeInv, Turns, QueuedAwait
  <2> QED
    BY <2>3, <2>4 DEF QueuedAwait
<1>7. LoopsHaveMessage'
  BY <1>4 DEF LoopsHaveMessage, Active, Loops, TypeInv, Turns
<1> QED
  <2>1. UNCHANGED <<clientVars, receivers, sub>> /\ items' \in 0..MaxItems
    BY <1>4 DEF TypeInv, TypeParts
  <2>2. /\ pollers' \in Seq(PollerType) /\ Len(pollers') = Len(pollers)
        /\ loops' \in Seq(LoopType(Len(pollers))) /\ Len(loops') = Len(loops)
        /\ got' \in [Subs -> Seq(GotType(Len(loops)))]
    BY <1>4 DEF TypeInv, TypeParts
  <2> QED
    BY <1>3, <1>5, <1>6, <1>7, <2>1, <2>2, LoopStepType

LEMMA FetchReceiverType ==
    ASSUME TypeInv, FetchReceiver
    PROVE  /\ TypeInv'
           /\ dispatch.idx \in 1..Len(receivers) /\ dispatch'.to = receivers[dispatch.idx]
           /\ dispatch'.pc = "receiving" /\ dispatch'.idx = dispatch.idx
           /\ dispatch'.loop = dispatch.loop
<1>1. /\ dispatch \in DispatchType(Len(loops)) /\ dispatch.pc = "testing"
      /\ receivers \in Seq(Subs) /\ Len(receivers) \in Nat
  BY TypeFacts DEF TypeInv, TypeParts, FetchReceiver
<1>2. dispatch.idx \in 1..Len(receivers)
  BY <1>1 DEF FetchReceiver, TypeInv, Turns, DispatchInTurn, DispatchType
<1>3. receivers[dispatch.idx] \in Subs
  BY <1>1, <1>2
<1>4. /\ dispatch' \in DispatchType(Len(loops)) /\ dispatch'.to = receivers[dispatch.idx]
      /\ dispatch'.pc = "receiving" /\ dispatch'.idx = dispatch.idx
      /\ dispatch'.loop = dispatch.loop
  BY <1>1, <1>3 DEF FetchReceiver, DispatchType
<1>5. UNCHANGED <<items, clientVars, pollers, loops, queue, receivers, sub, got>>
  BY DEF FetchReceiver
<1>6. LoopsHaveMessage' /\ QueuedAwait' /\ DispatchInTurn'
  BY <1>1, <1>3, <1>4, <1>5
     DEF TypeInv, Turns, LoopsHaveMessage, Active, QueuedAwait, DispatchInTurn, Loops
<1>7. TypeInv'
  BY <1>4, <1>5, <1>6, LoopStepType DEF TypeInv, TypeParts
<1> QED
  BY <1>2, <1>4, <1>7

(* Receive gives its receiver the message, if the filter lets it through.   *)
LEMMA ReceiveType ==
    ASSUME TypeInv, Receive
    PROVE  /\ TypeInv'
           /\ dispatch.to \in Subs /\ dispatch.loop \in Loops
           /\ dispatch'.pc = "testing" /\ dispatch'.idx = dispatch.idx + 1
           /\ dispatch'.loop = dispatch.loop
           /\ \A s \in Subs : s # dispatch.to => got'[s] = got[s]
           /\ \/ got'[dispatch.to] = got[dispatch.to]
              \/ got'[dispatch.to] = Append(got[dispatch.to],
                                            [loop |-> dispatch.loop,
                                             item |-> loops[dispatch.loop].msg])
           /\ [loop |-> dispatch.loop, item |-> loops[dispatch.loop].msg] \in GotType(Len(loops))
<1> DEFINE to == dispatch.to
           l  == dispatch.loop
           g  == [loop |-> l, item |-> loops[l].msg]
<1>1. dispatch \in DispatchType(Len(loops)) /\ dispatch.pc = "receiving"
  BY DEF TypeInv, TypeParts, Receive
<1>2. to \in Subs /\ l \in Loops /\ loops[l].pc = "awaiting"
  BY <1>1 DEF TypeInv, Turns, DispatchInTurn
<1>3. got \in [Subs -> Seq(GotType(Len(loops)))]
  BY DEF TypeInv, TypeParts
<1>4. loops[l].msg \in 1..MaxItems
  <2>1. loops[l].msg \in 0..MaxItems /\ MaxItems \in Nat
    BY <1>2, TypeFacts DEF LoopType
  <2> QED
    BY <1>2, <2>1 DEF TypeInv, Turns, LoopsHaveMessage, Active
<1>5. g \in GotType(Len(loops))
  BY <1>2, <1>4 DEF GotType, Loops
<1>6. got' = got \/ got' = [got EXCEPT ![to] = Append(@, g)]
  BY DEF Receive
<1>7. /\ dispatch'.pc = "testing" /\ dispatch'.idx = dispatch.idx + 1 /\ dispatch'.loop = l
      /\ dispatch' \in DispatchType(Len(loops)) /\ dispatch'.idx # 0
  <2>1. dispatch' = [dispatch EXCEPT !.pc = "testing", !.to = 0, !.idx = @ + 1]
    BY DEF Receive
  <2>2. dispatch.idx \in Nat
    BY <1>1 DEF DispatchType
  <2>3. dispatch.idx + 1 \in Nat /\ dispatch.idx + 1 # 0
    BY <2>2
  <2> DEFINE i == dispatch.idx + 1
  <2>4. dispatch' = [dispatch EXCEPT !.pc = "testing", !.to = 0, !.idx = i]
    BY <2>1
  <2>5. i \in Nat /\ i # 0
    BY <2>3
  <2> HIDE DEF i
  <2>6. /\ dispatch'.pc = "testing" /\ dispatch'.idx = i /\ dispatch'.loop = l
        /\ dispatch' \in DispatchType(Len(loops))
    BY <1>1, <2>4, <2>5 DEF DispatchType
  <2> QED
    BY <2>5, <2>6 DEF i
<1>8. UNCHANGED <<items, clientVars, pollers, loops, queue, receivers, sub>>
  BY DEF Receive
<1>9. LoopsHaveMessage' /\ QueuedAwait' /\ DispatchInTurn'
  BY <1>2, <1>7, <1>8
     DEF TypeInv, Turns, LoopsHaveMessage, Active, QueuedAwait, DispatchInTurn, Loops
<1> HIDE DEF g, to, l
<1>10. /\ got' \in [Subs -> Seq(GotType(Len(loops)))]
       /\ \A s \in Subs : s # to => got'[s] = got[s]
       /\ got'[to] = got[to] \/ got'[to] = Append(got[to], g)
  <2>1. CASE got' = got
    BY <1>3, <2>1
  <2>2. CASE got' = [got EXCEPT ![to] = Append(@, g)]
    <3>1. Append(got[to], g) \in Seq(GotType(Len(loops)))
      BY <1>2, <1>3, <1>5, AppendProperties
    <3> QED
      BY <1>2, <1>3, <2>2, <3>1
  <2> QED
    BY <1>6, <2>1, <2>2
<1>11. TypeInv'
  BY <1>7, <1>8, <1>9, <1>10, LoopStepType DEF TypeInv, TypeParts
<1> QED
  BY <1>2, <1>5, <1>7, <1>10, <1>11 DEF g, to, l

LEMMA SetResultType ==
    ASSUME TypeInv, SetResult
    PROVE  /\ TypeInv'
           /\ dispatch.loop \in Loops /\ loops'[dispatch.loop].pc = "polling"
           /\ loops'[dispatch.loop].msg = 0
           /\ Len(loops') = Len(loops)
           /\ \A k \in Loops : /\ loops'[k].poller = loops[k].poller
                               /\ k # dispatch.loop => loops'[k] = loops[k]
<1> DEFINE l == dispatch.loop
<1>1. dispatch.pc = "testing" /\ l \in Loops
  BY DEF SetResult, TypeInv, Turns, DispatchInTurn
<1>2. 0 \in 0..MaxItems /\ "polling" \in LoopPc
  BY SubscriptionsAssumption DEF LoopPc
<1>3. loops' = [loops EXCEPT ![l] = [@ EXCEPT !.pc = "polling", !.msg = 0]]
  BY DEF SetResult
<1>4. /\ loops' \in Seq(LoopType(Len(pollers))) /\ Len(loops') = Len(loops)
      /\ loops'[l].pc = "polling" /\ loops'[l].msg = 0
      /\ \A k \in Loops : /\ loops'[k].poller = loops[k].poller
                          /\ k # l => loops'[k] = loops[k]
  BY <1>1, <1>2, <1>3, LoopStep
<1>5. UNCHANGED <<items, clientVars, pollers, queue, receivers, sub, got>> /\ dispatch' = Idle
  BY DEF SetResult
<1>6. LoopsHaveMessage'
  BY <1>4 DEF LoopsHaveMessage, Active, Loops, TypeInv, Turns
<1>7. QueuedAwait'
  <2>1. \A j \in 1..Len(queue) : queue[j] \in Loops /\ queue[j] # l /\ queue[j] # 0
    BY DEF TypeInv, TypeParts, Turns, QueuedAwait, Loops
  <2>2. dispatch'.loop = 0
    BY <1>5 DEF Idle
  <2> QED
    BY <1>4, <1>5, <2>1, <2>2 DEF QueuedAwait, TypeInv, Turns
<1>8. DispatchInTurn'
  BY <1>5 DEF DispatchInTurn, Idle
<1>9. dispatch' \in DispatchType(Len(loops))
  BY <1>5, TypeFacts DEF Idle, DispatchType
<1>10. TypeInv'
  <2>1. UNCHANGED <<clientVars, receivers, sub>> /\ items' \in 0..MaxItems
    BY <1>5 DEF TypeInv, TypeParts
  <2>2. /\ pollers' \in Seq(PollerType) /\ Len(pollers') = Len(pollers)
        /\ queue' \in Seq(Loops) /\ got' \in [Subs -> Seq(GotType(Len(loops)))]
    BY <1>5 DEF TypeInv, TypeParts
  <2> QED
    BY <1>4, <1>6, <1>7, <1>8, <1>9, <2>1, <2>2, LoopStepType
<1> QED
  BY <1>1, <1>4, <1>10

(* What the clients' steps leave alone, and what they make of the rest.     *)
LEMMA DisconnectType ==
    ASSUME TypeInv, Disconnect
    PROVE  TypeInv'
<1>1. /\ UNCHANGED <<items, pollers, loops, queue, receivers, dispatch, sub, got>>
      /\ ~connected' /\ watcher' = 0 /\ connected' \in BOOLEAN
  BY DEF Disconnect
<1>2. watcher \in 1..Len(pollers)
  BY TypeFacts DEF Disconnect, TypeInv, TypeParts
<1>3. closing' \subseteq Subs
  BY <1>2, TypeFacts DEF Disconnect, PollerType
<1>4. watcher' \in 0..Len(pollers)
  BY <1>1, TypeFacts
<1>5. /\ pollers' \in Seq(PollerType) /\ Len(pollers') = Len(pollers)
      /\ receivers' \in Seq(Subs) /\ sub' \in [Subs -> SubType(Len(pollers))]
  BY <1>1 DEF TypeInv, TypeParts
<1>6. \A s \in Subs : sub'[s].pc # "none" => sub'[s].poller # 0
  BY <1>1 DEF TypeInv, Turns, SubsHavePoller
<1> QED
  BY <1>1, <1>3, <1>4, <1>5, <1>6, ClientStepType

(* The steps of one subscription. *)
LEMMA SubscriptionStepType ==
    ASSUME TypeInv, NEW s \in Subs,
           UNCHANGED <<items, connected, watcher, loops, queue, dispatch, got>>,
           closing' \subseteq closing, receivers' \in Seq(Subs),
           pollers' \in Seq(PollerType), Len(pollers') = Len(pollers),
           sub' \in [Subs -> SubType(Len(pollers))],
           \A t \in Subs : sub'[t].pc # "none" => sub'[t].poller # 0
    PROVE  TypeInv'
<1>1. /\ connected' \in BOOLEAN /\ watcher' \in 0..Len(pollers) /\ (connected' => watcher' # 0)
      /\ closing' \subseteq Subs
  BY DEF TypeInv, TypeParts
<1> QED
  BY <1>1, ClientStepType

LEMMA SubscriptionFacts ==
    ASSUME TypeInv, NEW s \in Subs
    PROVE  /\ receivers \in Seq(Subs) /\ pollers \in Seq(PollerType)
           /\ sub \in [Subs -> SubType(Len(pollers))]
           /\ \A t \in Subs : sub[t].pc # "none" => sub[t].poller # 0
           /\ sub[s].rest \subseteq Subs
           /\ sub[s].pc # "none" => /\ sub[s].poller \in 1..Len(pollers)
                                    /\ pollers[sub[s].poller].bag \subseteq Subs
<1>1. sub[s].poller \in 0..Len(pollers) /\ Len(pollers) \in Nat /\ sub[s].rest \subseteq Subs
  BY TypeFacts DEF SubType
<1>2. \A t \in Subs : sub[t].pc # "none" => sub[t].poller # 0
  BY DEF TypeInv, Turns, SubsHavePoller
<1>3. ASSUME sub[s].pc # "none"
      PROVE  sub[s].poller \in 1..Len(pollers) /\ pollers[sub[s].poller].bag \subseteq Subs
  BY <1>1, <1>2, <1>3, TypeFacts DEF PollerType
<1> QED
  BY <1>1, <1>2, <1>3 DEF TypeInv, TypeParts

LEMMA DisposeNextType ==
    ASSUME TypeInv, NEW s \in Subs, DisposeNext(s)
    PROVE  TypeInv'
<1>1. /\ UNCHANGED <<items, connected, watcher, pollers, loops, queue, dispatch, sub, got>>
      /\ closing' \subseteq closing /\ Unregister(s)
  BY DEF DisposeNext
<1>2. receivers' \in Seq(Subs)
  BY <1>1, SubscriptionFacts, UnregisterType
<1> QED
  BY <1>1, <1>2, SubscriptionFacts, SubscriptionStepType

LEMMA SubscribeToStreamType ==
    ASSUME TypeInv, NEW s \in Subs, SubscribeToStream(s)
    PROVE  TypeInv'
<1>1. /\ UNCHANGED <<items, connected, watcher, closing, pollers, loops, queue, dispatch, got>>
      /\ receivers' = Append(receivers, s)
  BY DEF SubscribeToStream, clientVars
<1>2. receivers' \in Seq(Subs) /\ pollers \in Seq(PollerType)
  BY <1>1, SubscriptionFacts, AppendProperties
<1> QED
  BY <1>1, <1>2, SubscribeToStreamStep, SubscriptionStepType

LEMMA AddToBagType ==
    ASSUME TypeInv, NEW s \in Subs, AddToBag(s)
    PROVE  /\ TypeInv'
           /\ sub'[s].pc = "subscribed" /\ sub'[s].poller = sub[s].poller
           /\ \A t \in Subs : t # s => sub'[t] = sub[t]
           /\ s \in pollers'[sub[s].poller].bag
           /\ Len(pollers') = Len(pollers)
           /\ \A q \in 1..Len(pollers) : /\ pollers'[q].cursor = pollers[q].cursor
                                         /\ pollers[q].bag \subseteq pollers'[q].bag
<1> DEFINE p   == sub[s].poller
           bag == pollers[p].bag \cup {s}
<1>1. /\ UNCHANGED <<items, connected, watcher, closing, loops, queue, receivers, dispatch, got>>
      /\ pollers' = [pollers EXCEPT ![p].bag = bag]
      /\ sub' = [sub EXCEPT ![s].pc = "subscribed"] /\ sub[s].pc # "none"
  BY DEF AddToBag, clientVars
<1>2. p \in 1..Len(pollers) /\ bag \in SUBSET Subs /\ "subscribed" \in SubPc /\ {} \in SUBSET Subs
  BY <1>1, SubscriptionFacts DEF SubPc
<1>3. /\ pollers' \in Seq(PollerType) /\ Len(pollers') = Len(pollers) /\ pollers'[p].bag = bag
      /\ \A q \in 1..Len(pollers) : /\ pollers'[q].cursor = pollers[q].cursor
                                    /\ q # p => pollers'[q] = pollers[q]
  <2> HIDE DEF p, bag
  <2> QED
    BY <1>1, <1>2, BagStep
<1>4. /\ sub' \in [Subs -> SubType(Len(pollers))]
      /\ \A t \in Subs : sub'[t].pc # "none" => sub'[t].poller # 0
      /\ sub'[s].pc = "subscribed" /\ sub'[s].poller = p
      /\ \A t \in Subs : t # s => sub'[t] = sub[t]
  BY <1>1, <1>2, SubStep
<1>5. TypeInv'
  BY <1>1, <1>3, <1>4, SubscriptionFacts, SubscriptionStepType
<1>6. \A q \in 1..Len(pollers) : pollers[q].bag \subseteq pollers'[q].bag
  BY <1>3
<1> QED
  BY <1>3, <1>4, <1>5, <1>6

LEMMA UnsubscribeType ==
    ASSUME TypeInv, NEW s \in Subs, Unsubscribe(s)
    PROVE  /\ TypeInv'
           /\ sub'[s].pc = "removed"
           /\ \A t \in Subs : t # s => sub'[t] = sub[t]
<1>1. /\ UNCHANGED <<items, connected, watcher, closing, pollers, loops, queue, dispatch, got>>
      /\ sub' = [sub EXCEPT ![s].pc = "removed"] /\ sub[s].pc # "none" /\ Unregister(s)
  BY DEF Unsubscribe, clientVars
<1>2. "removed" \in SubPc /\ {} \in SUBSET Subs
  BY DEF SubPc
<1>3. /\ sub' \in [Subs -> SubType(Len(pollers))]
      /\ \A t \in Subs : sub'[t].pc # "none" => sub'[t].poller # 0
      /\ sub'[s].pc = "removed" /\ \A t \in Subs : t # s => sub'[t] = sub[t]
  BY <1>1, <1>2, SubStep
<1>4. receivers' \in Seq(Subs)
  BY <1>1, SubscriptionFacts, UnregisterType
<1> QED
  BY <1>1, <1>3, <1>4, SubscriptionFacts, SubscriptionStepType

LEMMA ExceptType ==
    ASSUME TypeInv, NEW s \in Subs, Except(s)
    PROVE  /\ TypeInv'
           /\ sub'[s].pc = "excepted"
           /\ \A t \in Subs : t # s => sub'[t] = sub[t]
<1> DEFINE rest == pollers[sub[s].poller].bag \ {s}
<1>1. /\ UNCHANGED <<items, connected, watcher, closing, pollers, loops, queue, receivers, dispatch, got>>
      /\ sub' = [sub EXCEPT ![s] = [@ EXCEPT !.pc = "excepted", !.rest = rest]]
      /\ sub[s].pc # "none"
  BY DEF Except, clientVars
<1>2. rest \in SUBSET Subs /\ "excepted" \in SubPc
  BY <1>1, SubscriptionFacts DEF SubPc
<1> HIDE DEF rest
<1>3. /\ sub' \in [Subs -> SubType(Len(pollers))]
      /\ \A t \in Subs : sub'[t].pc # "none" => sub'[t].poller # 0
      /\ sub'[s].pc = "excepted" /\ \A t \in Subs : t # s => sub'[t] = sub[t]
  BY <1>1, <1>2, SubStep
<1> QED
  BY <1>1, <1>3, SubscriptionFacts, SubscriptionStepType

LEMMA ExchangeType ==
    ASSUME TypeInv, NEW s \in Subs, Exchange(s)
    PROVE  /\ TypeInv'
           /\ sub'[s].pc = "disposed"
           /\ \A t \in Subs : t # s => sub'[t] = sub[t]
           /\ sub[s].poller \in 1..Len(pollers)
           /\ pollers'[sub[s].poller].bag = sub[s].rest
           /\ Len(pollers') = Len(pollers)
           /\ \A q \in 1..Len(pollers) : /\ pollers'[q].cursor = pollers[q].cursor
                                         /\ q # sub[s].poller => pollers'[q] = pollers[q]
<1> DEFINE p   == sub[s].poller
           bag == sub[s].rest
<1>1. /\ UNCHANGED <<items, connected, watcher, closing, loops, queue, receivers, dispatch, got>>
      /\ pollers' = [pollers EXCEPT ![p].bag = bag]
      /\ sub' = [sub EXCEPT ![s] = [@ EXCEPT !.pc = "disposed", !.rest = {}]]
      /\ sub[s].pc # "none"
  BY DEF Exchange, clientVars
<1>2. p \in 1..Len(pollers) /\ bag \in SUBSET Subs /\ "disposed" \in SubPc /\ {} \in SUBSET Subs
  BY <1>1, SubscriptionFacts DEF SubPc
<1>3. /\ pollers' \in Seq(PollerType) /\ Len(pollers') = Len(pollers) /\ pollers'[p].bag = bag
      /\ \A q \in 1..Len(pollers) : /\ pollers'[q].cursor = pollers[q].cursor
                                    /\ q # p => pollers'[q] = pollers[q]
  <2> HIDE DEF p, bag
  <2> QED
    BY <1>1, <1>2, BagStep
<1>4. /\ sub' \in [Subs -> SubType(Len(pollers))]
      /\ \A t \in Subs : sub'[t].pc # "none" => sub'[t].poller # 0
      /\ sub'[s].pc = "disposed" /\ \A t \in Subs : t # s => sub'[t] = sub[t]
  BY <1>1, <1>2, SubStep
<1>5. TypeInv'
  BY <1>1, <1>3, <1>4, SubscriptionFacts, SubscriptionStepType
<1> QED
  BY <1>2, <1>3, <1>4, <1>5

LEMMA TypeStep == TypeInv /\ [Next]_vars => TypeInv'
<1> SUFFICES ASSUME TypeInv, [Next]_vars PROVE TypeInv'
  OBVIOUS
<1>1. CASE StoreItem
  BY <1>1, StoreItemType
<1>2. CASE Connect
  BY <1>2, ConnectType
<1>3. CASE Disconnect
  BY <1>3, DisconnectType
<1>4. ASSUME NEW s \in Subs, DisposeNext(s) PROVE TypeInv'
  BY <1>4, DisposeNextType
<1>5. ASSUME NEW s \in Subs, SubscribeToStream(s) PROVE TypeInv'
  BY <1>5, SubscribeToStreamType
<1>6. ASSUME NEW s \in Subs, AddToBag(s) PROVE TypeInv'
  BY <1>6, AddToBagType
<1>7. ASSUME NEW s \in Subs, Unsubscribe(s) PROVE TypeInv'
  BY <1>7, UnsubscribeType
<1>8. ASSUME NEW s \in Subs, Except(s) PROVE TypeInv'
  BY <1>8, ExceptType
<1>9. ASSUME NEW s \in Subs, Exchange(s) PROVE TypeInv'
  BY <1>9, ExchangeType
<1>10. ASSUME NEW l \in Loops, Poll(l) PROVE TypeInv'
  BY <1>10, PollType
<1>11. ASSUME NEW l \in Loops, PollTooEarly(l) PROVE TypeInv'
  BY <1>11, PollTooEarlyType
<1>12. ASSUME NEW l \in Loops, BroadcastAsync(l) PROVE TypeInv'
  BY <1>12, BroadcastAsyncType
<1>13. CASE TakeMessage
  BY <1>13, TakeMessageType
<1>14. CASE FetchReceiver
  BY <1>14, FetchReceiverType
<1>15. CASE Receive
  BY <1>15, ReceiveType
<1>16. CASE SetResult
  BY <1>16, SetResultType
<1>17. CASE UNCHANGED vars
  BY <1>17 DEF vars, clientVars, history, TypeInv, TypeParts, Turns, LoopsHaveMessage, QueuedAwait,
               DispatchInTurn, SubsHavePoller, Active, Loops
<1>18. DOMAIN loops = Loops
  BY DEF TypeInv, TypeParts, Loops
<1> QED
  BY <1>1, <1>2, <1>3, <1>4, <1>5, <1>6, <1>7, <1>8, <1>9, <1>10, <1>11, <1>12, <1>13, <1>14,
     <1>15, <1>16, <1>17, <1>18 DEF Next, PollerLoop, BroadcastMessages

LEMMA TypeAlways == Spec => []TypeInv
  BY TypeInit, TypeStep, PTL DEF Spec

(* Every variable stays in its type, a queued loop is queued once, and the  *)
(* queue never holds more messages than there are loops.                    *)
THEOREM TypeCorrect == Spec => []TypeOK
  BY TypeAlways, TypeInvIsType, PTL
-----------------------------------------------------------------------------
(* A subscription stays in its poller's bag until it is disposed: only an   *)
(* Exchange takes anything out of a bag, and it takes out the one that is   *)
(* being disposed, unless the bag changed since the Except.                 *)

LEMMA TrackedStep == TypeInv /\ SubscribedIsTracked /\ [Next]_vars => SubscribedIsTracked'
<1> SUFFICES ASSUME TypeInv, SubscribedIsTracked, [Next]_vars, ~raced',
                    NEW s \in Subs, sub'[s].pc = "subscribed"
             PROVE  s \in pollers'[sub'[s].poller].bag
  BY DEF SubscribedIsTracked
<1>a. sub[s].pc = "subscribed" /\ ~raced => /\ s \in pollers[sub[s].poller].bag
                                            /\ sub[s].poller \in 1..Len(pollers)
  BY SubscriptionFacts DEF SubscribedIsTracked
<1>b. Len(pollers) \in Nat /\ \A p \in 1..Len(pollers) : pollers[p] \in PollerType
  BY TypeFacts
(* The steps that leave the bags and the subscriptions alone.               *)
<1>c. ASSUME UNCHANGED <<sub, raced>>, \A p \in 1..Len(pollers) : pollers'[p].bag = pollers[p].bag
      PROVE  s \in pollers'[sub'[s].poller].bag
  BY <1>a, <1>c
<1>1. CASE StoreItem \/ Disconnect \/ TakeMessage \/ FetchReceiver \/ Receive \/ SetResult
           \/ UNCHANGED vars
  BY <1>1, <1>c DEF StoreItem, Disconnect, TakeMessage, FetchReceiver, Receive, SetResult, vars, history
<1>2. CASE Connect
  <2>1. UNCHANGED <<sub, raced>>
    BY <1>2 DEF Connect, history
  <2>2. \A p \in 1..Len(pollers) : pollers'[p] = pollers[p]
    <3>1. pollers \in Seq(PollerType)
      BY SubscriptionFacts
    <3>2. pollers' = pollers \/ pollers' = Append(pollers, [cursor |-> 0, bag |-> {}])
      BY <1>2 DEF Connect
    <3> QED
      BY <3>1, <3>2
  <2> QED
    BY <1>c, <2>1, <2>2
<1>3. ASSUME NEW t \in Subs, DisposeNext(t) PROVE s \in pollers'[sub'[s].poller].bag
  BY <1>3, <1>c DEF DisposeNext
<1>4. ASSUME NEW t \in Subs, SubscribeToStream(t) PROVE s \in pollers'[sub'[s].poller].bag
  <2>1. UNCHANGED <<pollers, raced>>
    BY <1>4 DEF SubscribeToStream, history
  <2> QED
    BY <1>4, <1>a, <2>1, SubscribeToStreamStep
<1>5. ASSUME NEW t \in Subs, AddToBag(t) PROVE s \in pollers'[sub'[s].poller].bag
  <2>1. UNCHANGED raced
    BY <1>5 DEF AddToBag, history
  <2> QED
    BY <1>5, <1>a, <2>1, AddToBagType
<1>6. ASSUME NEW t \in Subs, Unsubscribe(t) PROVE s \in pollers'[sub'[s].poller].bag
  <2>1. UNCHANGED <<pollers, raced>>
    BY <1>6 DEF Unsubscribe
  <2> QED
    BY <1>6, <1>a, <2>1, UnsubscribeType
<1>7. ASSUME NEW t \in Subs, Except(t) PROVE s \in pollers'[sub'[s].poller].bag
  <2>1. UNCHANGED <<pollers, raced>>
    BY <1>7 DEF Except, history
  <2> QED
    BY <1>7, <1>a, <2>1, ExceptType
<1>8. ASSUME NEW t \in Subs, Exchange(t) PROVE s \in pollers'[sub'[s].poller].bag
  <2>1. ~raced /\ sub[t].rest = pollers[sub[t].poller].bag \ {t}
    BY <1>8 DEF Exchange
  <2>2. s # t /\ sub'[s] = sub[s]
    BY <1>8, ExchangeType
  <2> QED
    BY <1>8, <1>a, <2>1, <2>2, ExchangeType
<1>9. ASSUME NEW l \in Loops, Poll(l) \/ PollTooEarly(l) PROVE s \in pollers'[sub'[s].poller].bag
  <2>1. UNCHANGED <<sub, raced>> /\ Step(l) /\ Cursor(l) < MaxItems
    <3>1. items \in 0..MaxItems /\ MaxItems \in Nat /\ Cursor(l) \in 0..MaxItems
      BY <1>9, TypeFacts DEF TypeInv, TypeParts, LoopType, PollerType, Cursor
    <3> QED
      BY <1>9, <3>1 DEF Poll, PollTooEarly, history
  <2> QED
    BY <1>c, <2>1, CursorStep
<1>10. ASSUME NEW l \in Loops, BroadcastAsync(l) PROVE s \in pollers'[sub'[s].poller].bag
  BY <1>10, <1>c DEF BroadcastAsync, history
<1>11. DOMAIN loops = Loops
  BY DEF TypeInv, TypeParts, Loops
<1> QED
  BY <1>1, <1>2, <1>3, <1>4, <1>5, <1>6, <1>7, <1>8, <1>9, <1>10, <1>11
     DEF Next, PollerLoop, BroadcastMessages

(* As long as no bag changed while a disposal was replacing it, every       *)
(* subscription that is neither disposed nor closed is in the bag of its    *)
(* poller, and Disconnect will find it there.                               *)
THEOREM BagsTrackSubscriptions == Spec => []SubscribedIsTracked
<1>1. Init => SubscribedIsTracked
  BY DEF Init, SubscribedIsTracked
<1> QED
  BY <1>1, TypeAlways, TrackedStep, PTL DEF Spec
-----------------------------------------------------------------------------
(* The receivers.  Nobody stands in the list twice, or after its disposal;  *)
(* and the receiver the dispatcher is awaiting does not stand further on,   *)
(* whatever is added to or removed from the list meanwhile.                 *)

Positions == 1..Len(receivers)

ReceiversDiffer == \A j, k \in Positions : receivers[j] = receivers[k] => j = k

ReceiversSubscribed == \A k \in Positions : sub[receivers[k]].pc \in {"registered", "subscribed"}

PassedForGood ==
    dispatch.pc = "receiving" =>
        /\ sub[dispatch.to].pc # "none"
        /\ \A k \in Positions : k > dispatch.idx => receivers[k] # dispatch.to

ReceiversInv == ReceiversDiffer /\ ReceiversSubscribed /\ PassedForGood

(* List.Remove drops one receiver, and the others keep their order; none    *)
(* comes to stand further on.                                               *)
LEMMA UnregisterStep ==
    ASSUME TypeInv, NEW s \in Subs, Unregister(s)
    PROVE  /\ receivers' \in Seq(Subs) /\ Len(receivers') \in Nat
           /\ \/ receivers' = receivers /\ \A k \in Positions : receivers[k] # s
              \/ \E i \in Positions :
                    /\ receivers[i] = s
                    /\ Len(receivers') = Len(receivers) - 1
                    /\ \A k \in 1..Len(receivers') :
                          receivers'[k] = IF k < i THEN receivers[k] ELSE receivers[k + 1]
<1>1. receivers \in Seq(Subs) /\ Len(receivers) \in Nat
  BY TypeFacts DEF TypeInv, TypeParts
<1>2. CASE Registered(s)
  <2>1. \E i \in DOMAIN receivers : receivers[i] = s
    BY <1>2 DEF Registered, ToSet
  <2> DEFINE i == CHOOSE j \in DOMAIN receivers : receivers[j] = s
  <2>2. i \in Positions /\ receivers[i] = s /\ receivers' = RemoveAt(receivers, i)
    BY <1>1, <1>2, <2>1 DEF Unregister, Positions
  <2> HIDE DEF i
  <2>3. /\ receivers' \in Seq(Subs) /\ Len(receivers') = Len(receivers) - 1
        /\ \A k \in 1..(Len(receivers) - 1) :
              receivers'[k] = IF k < i THEN receivers[k] ELSE receivers[k + 1]
    BY <1>1, <2>2, RemoveAtProperties DEF Positions
  <2>4. Len(receivers') \in Nat
    BY <2>3
  <2> QED
    BY <2>2, <2>3, <2>4
<1>3. CASE ~Registered(s)
  <2>1. \A k \in Positions : receivers[k] # s
    BY <1>1, <1>3 DEF Registered, ToSet, Positions
  <2> QED
    BY <1>1, <1>3, <2>1 DEF Unregister
<1> QED
  BY <1>2, <1>3

LEMMA UnregisterReceivers ==
    ASSUME TypeInv, ReceiversInv, NEW s \in Subs, Unregister(s), UNCHANGED dispatch,
           \A t \in Subs : t # s => sub'[t] = sub[t],
           sub[s].pc # "none" => sub'[s].pc # "none"
    PROVE  /\ ReceiversInv'
           /\ \A k \in Positions' : \/ k \in Positions /\ receivers'[k] = receivers[k]
                                    \/ k + 1 \in Positions /\ receivers'[k] = receivers[k + 1]
<1>1. receivers \in Seq(Subs) /\ Len(receivers) \in Nat /\ receivers' \in Seq(Subs) /\ Len(receivers') \in Nat
  BY TypeFacts, UnregisterStep DEF TypeInv, TypeParts
<1>2. /\ \A k \in Positions' : \/ k \in Positions /\ receivers'[k] = receivers[k]
                               \/ k + 1 \in Positions /\ receivers'[k] = receivers[k + 1]
      /\ \A k \in Positions' : receivers'[k] \in Subs /\ receivers'[k] # s
      /\ ReceiversDiffer'
  <2>1. CASE receivers' = receivers /\ \A k \in Positions : receivers[k] # s
    BY <1>1, <2>1 DEF ReceiversInv, ReceiversDiffer, Positions
  <2>2. CASE \E i \in Positions :
                /\ receivers[i] = s
                /\ Len(receivers') = Len(receivers) - 1
                /\ \A k \in 1..Len(receivers') :
                      receivers'[k] = IF k < i THEN receivers[k] ELSE receivers[k + 1]
    <3>1. PICK i \in Positions :
            /\ receivers[i] = s
            /\ Len(receivers') = Len(receivers) - 1
            /\ \A k \in 1..Len(receivers') :
                  receivers'[k] = IF k < i THEN receivers[k] ELSE receivers[k + 1]
      BY <2>2
    <3> DEFINE at(k) == IF k < i THEN k ELSE k + 1
    <3>2. \A k \in Positions' : /\ at(k) \in Positions /\ at(k) # i
                                /\ receivers'[k] = receivers[at(k)]
                                /\ at(k) = k \/ at(k) = k + 1
      BY <1>1, <3>1 DEF Positions
    <3>3. \A j, k \in Positions' : at(j) = at(k) => j = k
      BY <1>1 DEF Positions
    <3> HIDE DEF at
    <3>4. ReceiversDiffer'
      BY <3>2, <3>3 DEF ReceiversInv, ReceiversDiffer
    <3>5. \A k \in Positions' : receivers'[k] # s
      BY <3>1, <3>2 DEF ReceiversInv, ReceiversDiffer
    <3>6. \A k \in Positions' : receivers'[k] \in Subs
      BY <1>1 DEF Positions
    <3> QED
      BY <3>2, <3>4, <3>5, <3>6
  <2> QED
    BY <2>1, <2>2, UnregisterStep
<1>3. ReceiversSubscribed'
  BY <1>2 DEF ReceiversInv, ReceiversSubscribed
<1>4. PassedForGood'
  <2> SUFFICES ASSUME dispatch.pc = "receiving" PROVE PassedForGood'
    BY DEF PassedForGood
  <2>1. dispatch.to \in Subs /\ dispatch.idx \in Nat
    BY DEF TypeInv, TypeParts, DispatchType, Turns, DispatchInTurn
  <2>2. sub'[dispatch.to].pc # "none"
    BY <2>1 DEF ReceiversInv, PassedForGood
  <2>3. ASSUME NEW k \in Positions', k > dispatch.idx PROVE receivers'[k] # dispatch.to
    <3>1. k \in Nat /\ k + 1 > dispatch.idx
      BY <1>1, <2>1, <2>3 DEF Positions
    <3> QED
      BY <1>2, <2>3, <3>1 DEF ReceiversInv, PassedForGood
  <2> QED
    BY <2>2, <2>3 DEF PassedForGood
<1> QED
  BY <1>2, <1>3, <1>4 DEF ReceiversInv

(* A step that changes neither the list nor whom the dispatcher awaits.     *)
LEMMA ReceiversFrame ==
    ASSUME TypeInv, ReceiversInv, UNCHANGED receivers,
           dispatch'.pc = "receiving" => UNCHANGED dispatch,
           \A t \in Subs : \/ sub'[t] = sub[t]
                           \/ sub[t].pc = "registered" /\ sub'[t].pc = "subscribed"
                           \/ /\ sub[t].pc \in {"removed", "excepted"}
                              /\ sub'[t].pc \in {"excepted", "disposed"}
    PROVE  ReceiversInv'
<1>1. \A k \in Positions : receivers[k] \in Subs
  BY DEF Positions, TypeInv, TypeParts
<1>2. dispatch.pc = "receiving" => dispatch.to \in Subs
  BY DEF TypeInv, Turns, DispatchInTurn
<1>3. ReceiversDiffer' /\ ReceiversSubscribed'
  BY <1>1 DEF ReceiversInv, ReceiversDiffer, ReceiversSubscribed, Positions
<1>4. PassedForGood'
  BY <1>2 DEF ReceiversInv, PassedForGood, Positions
<1> QED
  BY <1>3, <1>4 DEF ReceiversInv

LEMMA ReceiversStep == TypeInv /\ ReceiversInv /\ [Next]_vars => ReceiversInv'
<1> SUFFICES ASSUME TypeInv, ReceiversInv, [Next]_vars PROVE ReceiversInv'
  OBVIOUS
<1>1. CASE StoreItem \/ Connect \/ Disconnect \/ UNCHANGED vars
  BY <1>1, ReceiversFrame DEF StoreItem, Connect, Disconnect, vars
<1>2. ASSUME NEW s \in Subs, DisposeNext(s) PROVE ReceiversInv'
  BY <1>2, UnregisterReceivers DEF DisposeNext
<1>3. ASSUME NEW s \in Subs, SubscribeToStream(s) PROVE ReceiversInv'
  <2>1. /\ receivers \in Seq(Subs) /\ receivers' = Append(receivers, s)
        /\ sub[s].pc = "none" /\ UNCHANGED dispatch
    BY <1>3 DEF SubscribeToStream, TypeInv, TypeParts
  <2>2. sub'[s].pc = "registered" /\ \A t \in Subs : t # s => sub'[t] = sub[t]
    BY <1>3, SubscribeToStreamStep
  <2>3. /\ Len(receivers) \in Nat /\ Len(receivers') = Len(receivers) + 1
        /\ receivers'[Len(receivers) + 1] = s
        /\ \A k \in Positions : receivers'[k] = receivers[k] /\ receivers[k] \in Subs
    BY <2>1 DEF Positions
  <2>4. \A k \in Positions' : k \in Positions \/ k = Len(receivers) + 1
    BY <2>3 DEF Positions
  <2>5. \A k \in Positions : receivers[k] # s
    BY <2>1 DEF ReceiversInv, ReceiversSubscribed
  <2>6. ReceiversDiffer'
    BY <2>3, <2>4, <2>5 DEF ReceiversInv, ReceiversDiffer
  <2>7. ReceiversSubscribed'
    BY <2>2, <2>3, <2>4, <2>5 DEF ReceiversInv, ReceiversSubscribed
  <2>8. PassedForGood'
    <3>1. dispatch.pc = "receiving" => dispatch.to \in Subs /\ dispatch.to # s
      BY <2>1 DEF TypeInv, Turns, DispatchInTurn, ReceiversInv, PassedForGood
    <3> QED
      BY <2>1, <2>2, <2>3, <2>4, <3>1 DEF ReceiversInv, PassedForGood
  <2> QED
    BY <2>6, <2>7, <2>8 DEF ReceiversInv
<1>4. ASSUME NEW s \in Subs, AddToBag(s) PROVE ReceiversInv'
  BY <1>4, AddToBagType, ReceiversFrame DEF AddToBag
<1>5. ASSUME NEW s \in Subs, Unsubscribe(s) PROVE ReceiversInv'
  BY <1>5, UnsubscribeType, UnregisterReceivers DEF Unsubscribe
<1>6. ASSUME NEW s \in Subs, Except(s) PROVE ReceiversInv'
  BY <1>6, ExceptType, ReceiversFrame DEF Except
<1>7. ASSUME NEW s \in Subs, Exchange(s) PROVE ReceiversInv'
  <2>1. sub[s].pc = "excepted" /\ UNCHANGED <<receivers, dispatch>>
    BY <1>7 DEF Exchange
  <2> QED
    BY <1>7, <2>1, ExchangeType, ReceiversFrame
<1>8. ASSUME NEW l \in Loops, PollerLoop(l) \/ PollTooEarly(l) PROVE ReceiversInv'
  BY <1>8, ReceiversFrame DEF PollerLoop, Poll, PollTooEarly, BroadcastAsync
<1>9. CASE TakeMessage
  BY <1>9, ReceiversFrame DEF TakeMessage
<1>10. CASE FetchReceiver
  <2>1. UNCHANGED <<receivers, sub>>
    BY <1>10 DEF FetchReceiver
  <2>2. /\ dispatch.idx \in Positions /\ dispatch'.to = receivers[dispatch.idx]
        /\ dispatch'.idx = dispatch.idx /\ dispatch.idx \in Nat
    BY <1>10, FetchReceiverType DEF Positions
  <2>3. PassedForGood'
    <3>1. sub[dispatch'.to].pc # "none"
      BY <2>2 DEF ReceiversInv, ReceiversSubscribed
    <3>2. \A k \in Positions : k > dispatch.idx => receivers[k] # receivers[dispatch.idx]
      <4>1. Positions \subseteq Nat
        BY TypeFacts DEF Positions
      <4> QED
        BY <2>2, <4>1 DEF ReceiversInv, ReceiversDiffer
    <3> QED
      BY <2>1, <2>2, <3>1, <3>2 DEF PassedForGood, Positions
  <2> QED
    BY <2>1, <2>3 DEF ReceiversInv, ReceiversDiffer, ReceiversSubscribed, Positions
<1>11. CASE Receive
  BY <1>11, ReceiveType, ReceiversFrame DEF Receive
<1>12. CASE SetResult
  BY <1>12, ReceiversFrame DEF SetResult, Idle
<1>13. DOMAIN loops = Loops
  BY DEF TypeInv, TypeParts, Loops
<1> QED
  BY <1>1, <1>2, <1>3, <1>4, <1>5, <1>6, <1>7, <1>8, <1>9, <1>10, <1>11, <1>12, <1>13
     DEF Next, BroadcastMessages

LEMMA ReceiversAlways == Spec => [](TypeInv /\ ReceiversInv)
<1>1. Init => ReceiversInv
  BY DEF Init, Idle, ReceiversInv, ReceiversDiffer, ReceiversSubscribed, PassedForGood, Positions
<1> QED
  BY <1>1, TypeAlways, ReceiversStep, PTL DEF Spec

SilentStep ==
    \A s \in Subs : sub[s].pc \in {"removed", "excepted", "disposed"} =>
        (dispatch'.to = s => dispatch.to = s)

LEMMA SilentNext == TypeInv /\ ReceiversInv /\ [Next]_vars => SilentStep
<1> SUFFICES ASSUME TypeInv, ReceiversInv, [Next]_vars, NEW s \in Subs,
                    sub[s].pc \in {"removed", "excepted", "disposed"}, dispatch'.to = s
             PROVE  dispatch.to = s
  BY DEF SilentStep
<1>1. s # 0
  BY SubscriptionsAssumption
<1>2. CASE UNCHANGED dispatch
  BY <1>2
<1>3. CASE FetchReceiver
  <2>1. dispatch.idx \in Positions /\ s = receivers[dispatch.idx]
    BY <1>3, FetchReceiverType DEF Positions
  <2> QED
    BY <2>1 DEF ReceiversInv, ReceiversSubscribed
<1>4. CASE TakeMessage \/ SetResult
  BY <1>1, <1>4 DEF TakeMessage, SetResult, Idle
<1>5. CASE Receive
  <2>1. dispatch' = [dispatch EXCEPT !.pc = "testing", !.to = 0, !.idx = @ + 1]
    BY <1>5 DEF Receive
  <2>2. dispatch \in DispatchType(Len(loops))
    BY DEF TypeInv, TypeParts
  <2>3. dispatch'.to = 0
    BY <2>1, <2>2 DEF DispatchType
  <2> QED
    BY <1>1, <2>3
<1> QED
  BY <1>2, <1>3, <1>4, <1>5
     DEF Next, PollerLoop, BroadcastMessages, StoreItem, Connect, Disconnect, DisposeNext,
         SubscribeToStream, AddToBag, Unsubscribe, Except, Exchange, Poll, PollTooEarly,
         BroadcastAsync, vars

(* Once its disposal has taken it out of the list, the dispatcher never     *)
(* turns to a subscription again: the index that moves under it never finds *)
(* it a second time.                                                        *)
THEOREM DisposedAreSilent == Spec => SilentOnceDisposed
<1>1. TypeInv /\ ReceiversInv /\ [Next]_vars => [SilentStep]_vars
  BY SilentNext
<1> QED
  BY <1>1, ReceiversAlways, PTL DEF Spec, SilentOnceDisposed, SilentStep
-----------------------------------------------------------------------------
(* Delivery.  Loops of one poller are never about the same item, since each *)
(* takes the next one of the reader they share; and a handler is yet to be  *)
(* given the message of every loop, except the one being broadcast, and of  *)
(* that one if the dispatcher has it ahead.                                 *)

Poller(l) == loops[l].poller
GivenTo(s) == 1..Len(got[s])

Ahead(s) ==
    \/ dispatch.pc = "receiving" /\ dispatch.to = s
    \/ \E k \in Positions :
          /\ receivers[k] = s
          /\ IF dispatch.pc = "receiving" THEN k > dispatch.idx ELSE k >= dispatch.idx

Undelivered(s, l) ==
    \A i \in GivenTo(s) : Poller(got[s][i].loop) = Poller(l) => got[s][i].item # loops[l].msg

MessagesPolled == \A l \in Loops : loops[l].msg <= Cursor(l)

MessagesDiffer ==
    \A l, m \in Loops :
        l # m /\ Active(l) /\ Active(m) /\ Poller(l) = Poller(m) => loops[l].msg # loops[m].msg

GivenWasPolled ==
    \A s \in Subs : \A i \in GivenTo(s) :
        /\ got[s][i].item <= Cursor(got[s][i].loop)
        /\ Active(got[s][i].loop) => got[s][i].item <= loops[got[s][i].loop].msg

NotYetGiven ==
    \A s \in Subs, l \in Loops :
        Active(l) /\ (dispatch.loop = l => Ahead(s)) => Undelivered(s, l)

NothingBefore == \A s \in Subs : sub[s].pc = "none" => got[s] = <<>>

DeliveryInv == /\ MessagesPolled /\ MessagesDiffer /\ GivenWasPolled
               /\ NotYetGiven /\ NothingBefore /\ DeliveredInOrderOnce

Inv == TypeInv /\ ReceiversInv /\ DeliveryInv

LEMMA DeliveryTypes ==
    ASSUME TypeInv
    PROVE  /\ \A l \in Loops : /\ Poller(l) \in 1..Len(pollers) /\ loops[l].msg \in Nat
                               /\ Cursor(l) \in Nat
           /\ \A s \in Subs : /\ Len(got[s]) \in Nat
                              /\ \A i \in GivenTo(s) : got[s][i].loop \in Loops /\ got[s][i].item \in Nat
           /\ \A k \in Positions : k \in Nat /\ receivers[k] \in Subs
           /\ dispatch.idx \in Nat
<1>1. \A l \in Loops : /\ Poller(l) \in 1..Len(pollers) /\ loops[l].msg \in Nat
                       /\ pollers[Poller(l)].cursor \in Nat
  <2>1. ASSUME NEW l \in Loops
        PROVE  Poller(l) \in 1..Len(pollers) /\ loops[l].msg \in 0..MaxItems
    BY TypeFacts DEF LoopType, Poller
  <2>2. \A q \in 1..Len(pollers) : pollers[q].cursor \in 0..MaxItems
    BY TypeFacts DEF PollerType
  <2> QED
    BY <2>1, <2>2, SubscriptionsAssumption
<1>2. ASSUME NEW s \in Subs
      PROVE  /\ Len(got[s]) \in Nat
             /\ \A i \in GivenTo(s) : got[s][i].loop \in Loops /\ got[s][i].item \in Nat
  <2>1. got[s] \in Seq(GotType(Len(loops)))
    BY DEF TypeInv, TypeParts
  <2>2. \A i \in GivenTo(s) : got[s][i] \in GotType(Len(loops))
    BY <2>1 DEF GivenTo
  <2>3. \A i \in GivenTo(s) : got[s][i].loop \in Loops /\ got[s][i].item \in 1..MaxItems
    BY <2>2 DEF GotType, Loops
  <2> QED
    BY <2>1, <2>3, SubscriptionsAssumption
<1>3. \A k \in Positions : k \in Nat /\ receivers[k] \in Subs
  BY TypeFacts DEF TypeInv, TypeParts, Positions
<1>4. dispatch.idx \in Nat
  BY DEF TypeInv, TypeParts, DispatchType
<1> QED
  BY <1>1, <1>2, <1>3, <1>4 DEF Cursor, Poller

LEMMA MessageTypes == TypeInv => \A l \in Loops : loops[l].msg \in Nat /\ Cursor(l) \in Nat
  BY DeliveryTypes

(* A step that gives nobody anything, and changes no message.               *)
LEMMA DeliveryFrame ==
    ASSUME Inv, TypeInv', UNCHANGED got, dispatch'.loop = dispatch.loop,
           \A l \in Loops : /\ loops'[l].poller = loops[l].poller /\ loops'[l].msg = loops[l].msg
                            /\ Active(l)' <=> Active(l)
                            /\ Cursor(l) <= Cursor(l)',
           Loops \subseteq Loops',
           \A l \in Loops' : l \in Loops \/ (~Active(l)' /\ loops'[l].msg = 0),
           \A s \in Subs : Ahead(s)' => Ahead(s) \/ got[s] = <<>>,
           \A s \in Subs : sub'[s].pc = "none" => sub[s].pc = "none"
    PROVE  DeliveryInv'
<1>1. /\ \A l \in Loops : loops[l].msg \in Nat /\ Cursor(l) \in Nat
      /\ \A s \in Subs : \A i \in GivenTo(s) : got[s][i].loop \in Loops /\ got[s][i].item \in Nat
  BY DeliveryTypes DEF Inv
<1>2. \A l \in Loops' : loops'[l].msg \in Nat /\ Cursor(l)' \in Nat
  <2>1. (\A l \in Loops : loops[l].msg \in Nat /\ Cursor(l) \in Nat)'
    BY MessageTypes, PTL
  <2> QED
    BY <2>1
<1>3. MessagesPolled'
  BY <1>1, <1>2 DEF Inv, DeliveryInv, MessagesPolled
<1>4. MessagesDiffer'
  BY DEF Inv, DeliveryInv, MessagesDiffer, Poller
<1>5. GivenWasPolled'
  BY <1>1, <1>2 DEF Inv, DeliveryInv, GivenWasPolled, GivenTo
<1>6. ASSUME NEW s \in Subs, NEW l \in Loops', Active(l)', dispatch'.loop = l => Ahead(s)'
      PROVE  Undelivered(s, l)'
  <2>1. l \in Loops /\ Active(l)
    BY <1>6
  <2>2. CASE got[s] = <<>>
    BY <2>2 DEF Undelivered, GivenTo
  <2>3. CASE got[s] # <<>>
    <3>1. Undelivered(s, l)
      BY <1>6, <2>1, <2>3 DEF Inv, DeliveryInv, NotYetGiven
    <3> QED
      BY <1>1, <2>1, <3>1 DEF Undelivered, GivenTo, Poller
  <2> QED
    BY <2>2, <2>3
<1>7. NotYetGiven'
  BY <1>6 DEF NotYetGiven
<1>8. NothingBefore'
  BY DEF Inv, DeliveryInv, NothingBefore
<1>9. DeliveredInOrderOnce'
  <2> SUFFICES ASSUME NEW s \in Subs, NEW i \in GivenTo(s), NEW j \in GivenTo(s), i < j
               PROVE  /\ got[s][i].loop = got[s][j].loop => got[s][i].item < got[s][j].item
                      /\ loops'[got[s][i].loop].poller = loops'[got[s][j].loop].poller
                         => got[s][i].item # got[s][j].item
    BY DEF DeliveredInOrderOnce, GivenTo
  <2>1. got[s][i].loop \in Loops /\ got[s][j].loop \in Loops
    BY <1>1
  <2>2. /\ got[s][i].loop = got[s][j].loop => got[s][i].item < got[s][j].item
        /\ loops[got[s][i].loop].poller = loops[got[s][j].loop].poller
           => got[s][i].item # got[s][j].item
    BY DEF Inv, DeliveryInv, DeliveredInOrderOnce, GivenTo
  <2> QED
    BY <2>1, <2>2
<1> QED
  BY <1>3, <1>4, <1>5, <1>7, <1>8, <1>9 DEF DeliveryInv

(* A step of the clients. *)
LEMMA ClientFrame ==
    ASSUME Inv, TypeInv', UNCHANGED <<got, dispatch, loops>>,
           \A q \in 1..Len(pollers) : pollers'[q].cursor = pollers[q].cursor,
           \A s \in Subs : Ahead(s)' => Ahead(s) \/ got[s] = <<>>,
           \A s \in Subs : sub'[s].pc = "none" => sub[s].pc = "none"
    PROVE  DeliveryInv'
<1>1. \A l \in Loops : /\ loops'[l].poller = loops[l].poller /\ loops'[l].msg = loops[l].msg
                       /\ Active(l)' <=> Active(l)
                       /\ Cursor(l) <= Cursor(l)'
  BY DeliveryTypes DEF Inv, Active, Cursor, Poller
<1>2. Loops' = Loops
  BY DEF Loops
<1> QED
  BY <1>1, <1>2, DeliveryFrame

LEMMA UnregisterAhead ==
    ASSUME Inv, NEW s \in Subs, Unregister(s), UNCHANGED dispatch,
           \A t \in Subs : t # s => sub'[t] = sub[t],
           sub[s].pc # "none" => sub'[s].pc # "none"
    PROVE  \A t \in Subs : Ahead(t)' => Ahead(t)
<1>1. \A k \in Positions' : \/ k \in Positions /\ receivers'[k] = receivers[k]
                            \/ k + 1 \in Positions /\ receivers'[k] = receivers[k + 1]
  BY UnregisterReceivers DEF Inv
<1>2. dispatch.idx \in Nat /\ Positions' \subseteq Nat
  BY DeliveryTypes, UnregisterStep DEF Inv, Positions
<1>3. \A k \in Positions' : /\ k > dispatch.idx => k + 1 > dispatch.idx
                            /\ k >= dispatch.idx => k + 1 >= dispatch.idx
  BY <1>2
<1> QED
  BY <1>1, <1>3 DEF Ahead

(* The steps of DeliveryInv. *)
LEMMA ConnectDelivery ==
    ASSUME Inv, TypeInv', Connect
    PROVE  DeliveryInv'
<1>1. /\ UNCHANGED <<queue, receivers, dispatch, sub, got>>
      /\ loops' = Append(loops, [poller |-> watcher', pc |-> "polling", msg |-> 0])
      /\ pollers' = pollers \/ pollers' = Append(pollers, [cursor |-> 0, bag |-> {}])
  BY DEF Connect
<1>2. loops \in Seq(LoopType(Len(pollers))) /\ pollers \in Seq(PollerType)
  BY DEF Inv, TypeInv, TypeParts
<1>3. /\ \A l \in Loops : loops'[l] = loops[l]
      /\ Len(loops) \in Nat /\ Len(loops') = Len(loops) + 1
      /\ loops'[Len(loops')].pc = "polling" /\ loops'[Len(loops')].msg = 0
  BY <1>1, <1>2 DEF Loops
<1>4. \A q \in 1..Len(pollers) : pollers'[q] = pollers[q]
  BY <1>1, <1>2
<1>5. \A l \in Loops : /\ loops'[l].poller = loops[l].poller /\ loops'[l].msg = loops[l].msg
                       /\ Active(l)' <=> Active(l)
                       /\ Cursor(l) <= Cursor(l)'
  BY <1>3, <1>4, DeliveryTypes DEF Inv, Active, Cursor, Poller
<1>6. Loops \subseteq Loops' /\ \A l \in Loops' : l \in Loops \/ (~Active(l)' /\ loops'[l].msg = 0)
  BY <1>3 DEF Loops, Active
<1>7. \A s \in Subs : Ahead(s)' => Ahead(s)
  BY <1>1 DEF Ahead, Positions
<1> QED
  BY <1>1, <1>5, <1>6, <1>7, DeliveryFrame

LEMMA SubscribeDelivery ==
    ASSUME Inv, TypeInv', NEW s \in Subs, SubscribeToStream(s)
    PROVE  DeliveryInv'
<1>1. /\ UNCHANGED <<pollers, loops, dispatch, got>>
      /\ sub[s].pc = "none" /\ receivers \in Seq(Subs) /\ receivers' = Append(receivers, s)
  BY DEF SubscribeToStream, Inv, TypeInv, TypeParts
<1>2. /\ Len(receivers) \in Nat /\ Len(receivers') = Len(receivers) + 1
      /\ receivers'[Len(receivers) + 1] = s
      /\ \A k \in Positions : receivers'[k] = receivers[k]
  BY <1>1 DEF Positions
<1>3. \A k \in Positions' : k \in Positions \/ k = Len(receivers) + 1
  BY <1>2 DEF Positions
<1>4. got[s] = <<>>
  BY <1>1 DEF Inv, DeliveryInv, NothingBefore
<1>5. \A t \in Subs : Ahead(t)' => Ahead(t) \/ got[t] = <<>>
  BY <1>1, <1>2, <1>3, <1>4 DEF Ahead
<1>6. sub'[s].pc = "registered" /\ \A t \in Subs : t # s => sub'[t] = sub[t]
  BY SubscribeToStreamStep DEF Inv
<1> QED
  BY <1>1, <1>5, <1>6, ClientFrame

(* Poll: the new message is behind everything the poller's loops sent, and  *)
(* everything they gave.                                                    *)
LEMMA PollDelivery ==
    ASSUME Inv, TypeInv', NEW l \in Loops, Poll(l)
    PROVE  DeliveryInv'
<1> DEFINE p == Poller(l)
           c == Cursor(l)
<1>1. /\ loops'[l].pc = "sending" /\ loops'[l].msg = c + 1 /\ Loops' = Loops
      /\ \A k \in Loops : /\ loops'[k].poller = loops[k].poller
                          /\ k # l => loops'[k] = loops[k]
  BY PollType DEF Inv, Loops
<1>2. /\ UNCHANGED <<receivers, dispatch, sub, got>> /\ loops[l].pc = "polling" /\ Step(l)
      /\ c < items
  BY DEF Poll
<1>3. c \in Nat /\ c < MaxItems
  BY <1>2, DeliveryTypes, SubscriptionsAssumption DEF Inv, TypeInv, TypeParts
<1>4. /\ \A k \in Loops : Poller(k) = p => Cursor(k) = c /\ Cursor(k)' = c + 1
      /\ \A k \in Loops : Poller(k) # p => Cursor(k)' = Cursor(k)
  <2>1. /\ pollers'[p].cursor = c + 1
        /\ \A q \in 1..Len(pollers) : q # p => pollers'[q] = pollers[q]
    BY <1>2, <1>3, CursorStep DEF Inv, Poller
  <2>2. \A k \in Loops : Poller(k) \in 1..Len(pollers)
    BY DeliveryTypes DEF Inv
  <2> QED
    BY <1>1, <2>1, <2>2 DEF Cursor, Poller
<1>5. /\ \A k \in Loops : loops[k].msg \in Nat /\ Cursor(k) \in Nat /\ loops[k].msg <= Cursor(k)
      /\ \A s \in Subs : \A i \in GivenTo(s) :
            /\ got[s][i].loop \in Loops /\ got[s][i].item \in Nat
            /\ got[s][i].item <= Cursor(got[s][i].loop)
            /\ Active(got[s][i].loop) => got[s][i].item <= loops[got[s][i].loop].msg
  BY DeliveryTypes DEF Inv, DeliveryInv, MessagesPolled, GivenWasPolled
<1>6. \A k \in Loops : /\ Poller(k)' = Poller(k)
                       /\ k # l => loops'[k] = loops[k] /\ (Active(k)' <=> Active(k))
  BY <1>1 DEF Poller, Active
<1> HIDE DEF p, c
<1>7. MessagesPolled'
  BY <1>1, <1>3, <1>4, <1>5 DEF MessagesPolled, p
<1>8. MessagesDiffer'
  <2>1. \A k \in Loops : k # l /\ Poller(k) = p => loops[k].msg # c + 1
    BY <1>3, <1>4, <1>5
  <2> QED
    BY <1>1, <1>6, <2>1 DEF Inv, DeliveryInv, MessagesDiffer, p
<1>9. GivenWasPolled'
  <2>1. ASSUME NEW k \in Loops, NEW item \in Nat, item <= Cursor(k),
               Active(k) => item <= loops[k].msg
        PROVE  item <= Cursor(k)' /\ (Active(k)' => item <= loops'[k].msg)
    <3>1. Cursor(k) \in Nat /\ c + 1 \in Nat
      BY <1>3, <1>5
    <3>2. item <= Cursor(k)'
      BY <1>3, <1>4, <2>1, <3>1
    <3>3. Active(k)' => item <= loops'[k].msg
      <4>1. CASE k = l
        BY <1>1, <1>3, <1>4, <2>1, <3>1, <4>1 DEF p
      <4>2. CASE k # l
        BY <1>6, <2>1, <4>2
      <4> QED
        BY <4>1, <4>2
    <3> QED
      BY <3>2, <3>3
  <2>2. ASSUME NEW s \in Subs, NEW i \in GivenTo(s)
        PROVE  LET g == got[s][i] IN
               /\ g.item <= pollers'[loops'[g.loop].poller].cursor
               /\ loops'[g.loop].pc # "polling" => g.item <= loops'[g.loop].msg
    <3> DEFINE k == got[s][i].loop
               item == got[s][i].item
    <3>1. /\ k \in Loops /\ item \in Nat /\ item <= Cursor(k)
          /\ Active(k) => item <= loops[k].msg
      BY <1>5
    <3> HIDE DEF k, item
    <3>2. /\ item <= pollers'[loops'[k].poller].cursor
          /\ loops'[k].pc # "polling" => item <= loops'[k].msg
      BY <2>1, <3>1 DEF Cursor, Active
    <3> QED
      BY <3>2 DEF k, item
  <2> QED
    BY <1>2, <2>2 DEF GivenWasPolled, GivenTo, Cursor, Active
<1>10. NotYetGiven'
  <2> SUFFICES ASSUME NEW s \in Subs, NEW k \in Loops, Active(k)', dispatch.loop = k => Ahead(s)'
               PROVE  Undelivered(s, k)'
    BY <1>1, <1>2 DEF NotYetGiven
  <2>1. Ahead(s)' <=> Ahead(s)
    BY <1>2 DEF Ahead, Positions
  <2>2. CASE k = l
    <3>1. \A i \in GivenTo(s) : Poller(got[s][i].loop) = p => got[s][i].item # c + 1
      BY <1>3, <1>4, <1>5
    <3> QED
      BY <1>1, <1>2, <1>5, <1>6, <2>2, <3>1 DEF Undelivered, GivenTo, p
  <2>3. CASE k # l
    <3>1. Undelivered(s, k)
      BY <1>6, <2>1, <2>3 DEF Inv, DeliveryInv, NotYetGiven
    <3> QED
      BY <1>2, <1>5, <1>6, <2>3, <3>1 DEF Undelivered, GivenTo
  <2> QED
    BY <2>2, <2>3
<1>11. NothingBefore'
  BY <1>2 DEF Inv, DeliveryInv, NothingBefore
<1>12. DeliveredInOrderOnce'
  <2> SUFFICES ASSUME NEW s \in Subs, NEW i \in GivenTo(s), NEW j \in GivenTo(s), i < j
               PROVE  /\ got[s][i].loop = got[s][j].loop => got[s][i].item < got[s][j].item
                      /\ loops'[got[s][i].loop].poller = loops'[got[s][j].loop].poller
                         => got[s][i].item # got[s][j].item
    BY <1>2 DEF DeliveredInOrderOnce, GivenTo
  <2>1. got[s][i].loop \in Loops /\ got[s][j].loop \in Loops
    BY <1>5
  <2>2. /\ got[s][i].loop = got[s][j].loop => got[s][i].item < got[s][j].item
        /\ loops[got[s][i].loop].poller = loops[got[s][j].loop].poller
           => got[s][i].item # got[s][j].item
    BY DEF Inv, DeliveryInv, DeliveredInOrderOnce, GivenTo
  <2> QED
    BY <1>1, <2>1, <2>2
<1> QED
  BY <1>7, <1>8, <1>9, <1>10, <1>11, <1>12 DEF DeliveryInv

LEMMA PollTooEarlyDelivery ==
    ASSUME Inv, TypeInv', NEW l \in Loops, PollTooEarly(l)
    PROVE  DeliveryInv'
<1>1. UNCHANGED <<loops, receivers, dispatch, sub, got>> /\ Step(l) /\ Cursor(l) = items /\ items < MaxItems
  BY DEF PollTooEarly
<1>2. \A k \in Loops : Cursor(k) <= Cursor(k)'
  <2>1. /\ pollers'[Poller(l)].cursor = Cursor(l) + 1
        /\ \A q \in 1..Len(pollers) : q # Poller(l) => pollers'[q] = pollers[q]
    BY <1>1, CursorStep DEF Inv, Poller
  <2>2. \A k \in Loops : Poller(k) \in 1..Len(pollers) /\ Cursor(k) \in Nat
    BY DeliveryTypes DEF Inv
  <2> QED
    BY <1>1, <2>1, <2>2 DEF Cursor, Poller
<1>3. \A s \in Subs : Ahead(s)' => Ahead(s)
  BY <1>1 DEF Ahead, Positions
<1>4. Loops' = Loops /\ \A k \in Loops : Active(k)' <=> Active(k)
  BY <1>1 DEF Loops, Active
<1> QED
  BY <1>1, <1>2, <1>3, <1>4, DeliveryFrame

LEMMA BroadcastAsyncDelivery ==
    ASSUME Inv, TypeInv', NEW l \in Loops, BroadcastAsync(l)
    PROVE  DeliveryInv'
<1>1. UNCHANGED <<pollers, receivers, dispatch, sub, got>> /\ loops[l].pc = "sending"
  BY DEF BroadcastAsync
<1>2. /\ loops'[l].pc = "awaiting" /\ loops'[l].msg = loops[l].msg /\ Loops' = Loops
      /\ \A k \in Loops : /\ loops'[k].poller = loops[k].poller
                          /\ k # l => loops'[k] = loops[k]
  BY BroadcastAsyncType DEF Inv, Loops
<1>3. \A k \in Loops : /\ loops'[k].poller = loops[k].poller /\ loops'[k].msg = loops[k].msg
                       /\ Active(k)' <=> Active(k)
                       /\ Cursor(k) <= Cursor(k)'
  BY <1>1, <1>2, DeliveryTypes DEF Inv, Active, Cursor
<1>4. \A s \in Subs : Ahead(s)' => Ahead(s)
  BY <1>1 DEF Ahead, Positions
<1> QED
  BY <1>1, <1>2, <1>3, <1>4, DeliveryFrame

(* TakeMessage: nobody was given the message that comes up.                 *)
LEMMA TakeMessageDelivery ==
    ASSUME Inv, TypeInv', TakeMessage
    PROVE  DeliveryInv'
<1>1. /\ UNCHANGED <<pollers, loops, receivers, sub, got>>
      /\ dispatch.pc = "waiting"
  BY DEF TakeMessage
<1>2. \A l \in Loops : dispatch.loop # l
  BY <1>1, TypeFacts DEF Inv, TypeInv, Turns, DispatchInTurn, Idle, Loops
<1>3. \A s \in Subs, l \in Loops : Active(l) => Undelivered(s, l)
  BY <1>2 DEF Inv, DeliveryInv, NotYetGiven
<1>4. NotYetGiven'
  BY <1>1, <1>3 DEF NotYetGiven, Loops, Active, Undelivered, GivenTo, Poller
<1> QED
  BY <1>1, <1>4 DEF Inv, DeliveryInv, MessagesPolled, MessagesDiffer, GivenWasPolled, NothingBefore,
                    DeliveredInOrderOnce, GivenTo, Loops, Active, Cursor, Poller

LEMMA FetchReceiverDelivery ==
    ASSUME Inv, TypeInv', FetchReceiver
    PROVE  DeliveryInv'
<1>1. UNCHANGED <<pollers, loops, receivers, sub, got>> /\ dispatch.pc = "testing"
  BY DEF FetchReceiver
<1>2. /\ dispatch.idx \in Positions /\ dispatch'.to = receivers[dispatch.idx]
      /\ dispatch'.pc = "receiving" /\ dispatch'.idx = dispatch.idx
      /\ dispatch'.loop = dispatch.loop
  BY FetchReceiverType DEF Inv, Positions
<1>3. \A k \in Positions : k \in Nat
  BY DeliveryTypes DEF Inv
<1>4. ASSUME NEW s \in Subs, Ahead(s)' PROVE Ahead(s)
  <2>1. CASE dispatch'.to = s
    <3>1. /\ dispatch.idx \in Positions /\ receivers[dispatch.idx] = s
          /\ dispatch.idx >= dispatch.idx /\ dispatch.pc # "receiving"
      BY <1>1, <1>2, <1>3, <2>1
    <3> QED
      BY <3>1 DEF Ahead
  <2>2. CASE \E k \in Positions : receivers[k] = s /\ k > dispatch.idx
    BY <1>1, <1>2, <1>3, <2>2 DEF Ahead
  <2> QED
    BY <1>1, <1>2, <1>4, <2>1, <2>2 DEF Ahead, Positions
<1>5. \A l \in Loops : Cursor(l) <= Cursor(l)'
  BY <1>1, DeliveryTypes DEF Inv, Cursor
<1> QED
  BY <1>1, <1>2, <1>4, <1>5, DeliveryFrame DEF Loops, Active

(* Receive: the one that is given the message was not given it before, nor  *)
(* anything of this loop that comes after it; and it is not ahead again.    *)
LEMMA ReceiveDelivery ==
    ASSUME Inv, TypeInv', Receive
    PROVE  DeliveryInv'
<1> DEFINE to == dispatch.to
           l  == dispatch.loop
           m  == loops[l].msg
           g  == [loop |-> l, item |-> m]
<1>1. /\ UNCHANGED <<pollers, loops, receivers, sub>> /\ dispatch.pc = "receiving"
  BY DEF Receive
<1>2. /\ to \in Subs /\ l \in Loops
      /\ dispatch'.pc = "testing" /\ dispatch'.idx = dispatch.idx + 1 /\ dispatch'.loop = l
      /\ \A s \in Subs : s # to => got'[s] = got[s]
      /\ got'[to] = got[to] \/ got'[to] = Append(got[to], g)
  BY ReceiveType DEF Inv
<1>3. Active(l)
  BY <1>1 DEF Inv, TypeInv, Turns, DispatchInTurn, Active
<1>4. /\ \A k \in Loops : loops[k].msg \in Nat /\ Cursor(k) \in Nat /\ loops[k].msg <= Cursor(k)
      /\ \A s \in Subs : \A i \in GivenTo(s) :
            /\ got[s][i].loop \in Loops /\ got[s][i].item \in Nat
            /\ got[s][i].item <= Cursor(got[s][i].loop)
            /\ Active(got[s][i].loop) => got[s][i].item <= loops[got[s][i].loop].msg
  BY DeliveryTypes DEF Inv, DeliveryInv, MessagesPolled, GivenWasPolled
<1>5. \A s \in Subs : Ahead(s)' => s # to /\ Ahead(s)
  <2>1. \A k \in Positions : k \in Nat /\ (k >= dispatch.idx + 1 <=> k > dispatch.idx)
    BY DeliveryTypes DEF Inv
  <2>2. \A k \in Positions : k > dispatch.idx => receivers[k] # to
    BY <1>1 DEF Inv, ReceiversInv, PassedForGood
  <2> QED
    BY <1>1, <1>2, <2>1, <2>2 DEF Ahead, Positions
<1>6. Undelivered(to, l)
  <2>1. Ahead(to)
    BY <1>1 DEF Ahead
  <2> QED
    BY <1>2, <1>3, <2>1 DEF Inv, DeliveryInv, NotYetGiven
<1>7. got[to] \in Seq(GotType(Len(loops)))
  BY <1>2 DEF Inv, TypeInv, TypeParts
<1> HIDE DEF to, l
(* Whatever a handler holds, it held before, or it is the message.          *)
<1>8. ASSUME NEW s \in Subs
      PROVE  \A i \in 1..Len(got'[s]) :
                \/ i \in GivenTo(s) /\ got'[s][i] = got[s][i]
                \/ /\ s = to /\ i = Len(got[s]) + 1
                   /\ got'[s][i].loop = l /\ got'[s][i].item = m
  <2>1. CASE got'[s] = got[s]
    BY <2>1 DEF GivenTo
  <2>2. CASE s = to /\ got'[s] = Append(got[s], g)
    <3>1. /\ Len(got'[s]) = Len(got[s]) + 1 /\ Len(got[s]) \in Nat
          /\ got'[s][Len(got[s]) + 1] = g
          /\ \A i \in 1..Len(got[s]) : got'[s][i] = got[s][i]
      <4> HIDE DEF g
      <4> QED
        BY <1>7, <2>2
    <3> QED
      BY <2>2, <3>1 DEF GivenTo
  <2> QED
    BY <1>2, <2>1, <2>2
<1> HIDE DEF m, g
<1>9. MessagesPolled' /\ MessagesDiffer'
  BY <1>1 DEF Inv, DeliveryInv, MessagesPolled, MessagesDiffer, Loops, Active, Cursor, Poller
<1>10. GivenWasPolled'
  <2>1. m \in Nat /\ m <= Cursor(l) /\ m <= m
    BY <1>2, <1>4 DEF m
  <2>2. ASSUME NEW s \in Subs, NEW i \in 1..Len(got'[s])
        PROVE  LET h == got'[s][i] IN
               /\ h.item <= pollers[loops[h.loop].poller].cursor
               /\ loops[h.loop].pc # "polling" => h.item <= loops[h.loop].msg
    <3>1. CASE i \in GivenTo(s) /\ got'[s][i] = got[s][i]
      BY <1>4, <3>1 DEF Cursor, Active
    <3>2. CASE got'[s][i].loop = l /\ got'[s][i].item = m
      BY <2>1, <3>2 DEF Cursor, m
    <3> QED
      BY <1>8, <3>1, <3>2
  <2> QED
    BY <1>1, <2>2 DEF GivenWasPolled, GivenTo, Cursor, Active
<1>11. NotYetGiven'
  <2> SUFFICES ASSUME NEW s \in Subs, NEW k \in Loops, Active(k), l = k => Ahead(s)',
                      NEW i \in 1..Len(got'[s]),
                      loops[got'[s][i].loop].poller = loops[k].poller
               PROVE  got'[s][i].item # loops[k].msg
    BY <1>1, <1>2 DEF NotYetGiven, Undelivered, GivenTo, Poller, Active, Loops, l
  <2>1. Undelivered(s, k)
    BY <1>5 DEF Inv, DeliveryInv, NotYetGiven, l
  <2>2. CASE i \in GivenTo(s) /\ got'[s][i] = got[s][i]
    BY <2>1, <2>2 DEF Undelivered, Poller
  <2>3. CASE s = to /\ got'[s][i].loop = l /\ got'[s][i].item = m
    <3>1. k # l
      BY <1>5, <2>3
    <3>2. m # loops[k].msg
      BY <1>2, <1>3, <2>3, <3>1 DEF Inv, DeliveryInv, MessagesDiffer, Poller, m
    <3> QED
      BY <2>3, <3>2
  <2> QED
    BY <1>8, <2>2, <2>3
<1>12. NothingBefore'
  <2>1. sub[to].pc # "none"
    BY <1>1 DEF Inv, ReceiversInv, PassedForGood, to
  <2> QED
    BY <1>1, <1>2, <2>1 DEF Inv, DeliveryInv, NothingBefore
<1>13. DeliveredInOrderOnce'
  <2> SUFFICES ASSUME NEW s \in Subs, NEW i \in 1..Len(got'[s]), NEW j \in 1..Len(got'[s]), i < j
               PROVE  /\ got'[s][i].loop = got'[s][j].loop => got'[s][i].item < got'[s][j].item
                      /\ loops[got'[s][i].loop].poller = loops[got'[s][j].loop].poller
                         => got'[s][i].item # got'[s][j].item
    BY <1>1 DEF DeliveredInOrderOnce
  <2>1. Len(got[s]) \in Nat
    BY DeliveryTypes DEF Inv
  <2>2. CASE j \in GivenTo(s) /\ got'[s][j] = got[s][j]
    <3>1. i \in GivenTo(s) /\ got'[s][i] = got[s][i]
      BY <1>8, <2>1, <2>2 DEF GivenTo
    <3> QED
      BY <2>2, <3>1 DEF Inv, DeliveryInv, DeliveredInOrderOnce, GivenTo
  <2>3. CASE s = to /\ j = Len(got[s]) + 1 /\ got'[s][j].loop = l /\ got'[s][j].item = m
    <3>1. i \in GivenTo(s) /\ got'[s][i] = got[s][i]
      BY <1>8, <2>1, <2>3 DEF GivenTo
    <3> DEFINE a == got[s][i].item
               k == got[s][i].loop
    <3>2. loops[k].poller = loops[l].poller => a # m
      BY <1>6, <2>3, <3>1 DEF Undelivered, Poller, m
    <3>3. k = l => a <= m
      BY <1>3, <1>4, <3>1 DEF m
    <3>4. a \in Nat /\ m \in Nat
      BY <1>2, <1>4, <3>1 DEF m
    <3> HIDE DEF a, k
    <3>5. (k = l => a < m) /\ (loops[k].poller = loops[l].poller => a # m)
      BY <3>2, <3>3, <3>4
    <3> QED
      BY <2>3, <3>1, <3>5 DEF a, k
  <2> QED
    BY <1>8, <2>2, <2>3
<1> QED
  BY <1>9, <1>10, <1>11, <1>12, <1>13 DEF DeliveryInv

LEMMA SetResultDelivery ==
    ASSUME Inv, TypeInv', SetResult
    PROVE  DeliveryInv'
<1> DEFINE l == dispatch.loop
<1>1. UNCHANGED <<pollers, receivers, sub, got>>
  BY DEF SetResult
<1>2. /\ l \in Loops /\ loops'[l].pc = "polling" /\ loops'[l].msg = 0 /\ Loops' = Loops
      /\ \A k \in Loops : /\ loops'[k].poller = loops[k].poller
                          /\ k # l => loops'[k] = loops[k]
  BY SetResultType DEF Inv, Loops
<1>3. /\ \A k \in Loops : loops[k].msg \in Nat /\ Cursor(k) \in Nat
      /\ \A s \in Subs : \A i \in GivenTo(s) : got[s][i].loop \in Loops
  BY DeliveryTypes DEF Inv
<1>4. \A k \in Loops : /\ Cursor(k)' = Cursor(k) /\ Poller(k)' = Poller(k)
                       /\ Active(k)' => k # l /\ Active(k) /\ loops'[k] = loops[k]
  BY <1>1, <1>2 DEF Cursor, Poller, Active
<1>5. MessagesPolled'
  BY <1>2, <1>3, <1>4 DEF Inv, DeliveryInv, MessagesPolled
<1>6. MessagesDiffer'
  BY <1>2, <1>4 DEF Inv, DeliveryInv, MessagesDiffer
<1>7. GivenWasPolled'
  BY <1>1, <1>3, <1>4 DEF Inv, DeliveryInv, GivenWasPolled, GivenTo
<1>8. NotYetGiven'
  <2> SUFFICES ASSUME NEW s \in Subs, NEW k \in Loops, Active(k)' PROVE Undelivered(s, k)'
    BY <1>2 DEF NotYetGiven
  <2>1. Undelivered(s, k)
    BY <1>4 DEF Inv, DeliveryInv, NotYetGiven
  <2> QED
    BY <1>1, <1>3, <1>4, <2>1 DEF Undelivered, GivenTo
<1>9. NothingBefore'
  BY <1>1 DEF Inv, DeliveryInv, NothingBefore
<1>10. DeliveredInOrderOnce'
  <2> SUFFICES ASSUME NEW s \in Subs, NEW i \in GivenTo(s), NEW j \in GivenTo(s), i < j
               PROVE  /\ got[s][i].loop = got[s][j].loop => got[s][i].item < got[s][j].item
                      /\ loops'[got[s][i].loop].poller = loops'[got[s][j].loop].poller
                         => got[s][i].item # got[s][j].item
    BY <1>1 DEF DeliveredInOrderOnce, GivenTo
  <2>1. /\ got[s][i].loop = got[s][j].loop => got[s][i].item < got[s][j].item
        /\ loops[got[s][i].loop].poller = loops[got[s][j].loop].poller
           => got[s][i].item # got[s][j].item
    BY DEF Inv, DeliveryInv, DeliveredInOrderOnce, GivenTo
  <2> QED
    BY <1>2, <1>3, <2>1
<1> QED
  BY <1>5, <1>6, <1>7, <1>8, <1>9, <1>10 DEF DeliveryInv

LEMMA InvStep == Inv /\ [Next]_vars => Inv'
<1> SUFFICES ASSUME Inv, [Next]_vars PROVE DeliveryInv'
  BY TypeStep, ReceiversStep DEF Inv
<1>0. TypeInv'
  BY TypeStep DEF Inv
(* The bags, the clients' state and the store play no part in delivery.     *)
<1>a. UNCHANGED receivers /\ UNCHANGED dispatch => \A s \in Subs : Ahead(s)' => Ahead(s)
  BY DEF Ahead, Positions
<1>1. CASE StoreItem \/ Disconnect \/ UNCHANGED vars
  BY <1>0, <1>1, <1>a, ClientFrame DEF StoreItem, Disconnect, vars
<1>2. CASE Connect
  BY <1>0, <1>2, ConnectDelivery
<1>3. ASSUME NEW s \in Subs, DisposeNext(s) PROVE DeliveryInv'
  BY <1>0, <1>3, UnregisterAhead, ClientFrame DEF DisposeNext
<1>4. ASSUME NEW s \in Subs, SubscribeToStream(s) PROVE DeliveryInv'
  BY <1>0, <1>4, SubscribeDelivery
<1>5. ASSUME NEW s \in Subs, AddToBag(s) PROVE DeliveryInv'
  <2>1. UNCHANGED <<got, dispatch, loops, receivers>>
    BY <1>5 DEF AddToBag
  <2>2. /\ sub'[s].pc = "subscribed" /\ \A t \in Subs : t # s => sub'[t] = sub[t]
        /\ \A q \in 1..Len(pollers) : pollers'[q].cursor = pollers[q].cursor
    BY <1>5, AddToBagType DEF Inv
  <2> QED
    BY <1>0, <1>a, <2>1, <2>2, ClientFrame
<1>6. ASSUME NEW s \in Subs, Unsubscribe(s) PROVE DeliveryInv'
  <2>1. UNCHANGED <<got, dispatch, loops, pollers>> /\ Unregister(s)
    BY <1>6 DEF Unsubscribe
  <2>2. sub'[s].pc = "removed" /\ \A t \in Subs : t # s => sub'[t] = sub[t]
    BY <1>6, UnsubscribeType DEF Inv
  <2> QED
    BY <1>0, <2>1, <2>2, UnregisterAhead, ClientFrame
<1>7. ASSUME NEW s \in Subs, Except(s) PROVE DeliveryInv'
  <2>1. UNCHANGED <<got, dispatch, loops, receivers, pollers>>
    BY <1>7 DEF Except
  <2>2. sub'[s].pc = "excepted" /\ \A t \in Subs : t # s => sub'[t] = sub[t]
    BY <1>7, ExceptType DEF Inv
  <2> QED
    BY <1>0, <1>a, <2>1, <2>2, ClientFrame
<1>8. ASSUME NEW s \in Subs, Exchange(s) PROVE DeliveryInv'
  <2>1. UNCHANGED <<got, dispatch, loops, receivers>>
    BY <1>8 DEF Exchange
  <2>2. /\ sub'[s].pc = "disposed" /\ \A t \in Subs : t # s => sub'[t] = sub[t]
        /\ \A q \in 1..Len(pollers) : pollers'[q].cursor = pollers[q].cursor
    BY <1>8, ExchangeType DEF Inv
  <2> QED
    BY <1>0, <1>a, <2>1, <2>2, ClientFrame
<1>9. ASSUME NEW l \in Loops, PollerLoop(l) \/ PollTooEarly(l) PROVE DeliveryInv'
  BY <1>0, <1>9, PollDelivery, PollTooEarlyDelivery, BroadcastAsyncDelivery DEF PollerLoop
<1>10. CASE BroadcastMessages
  BY <1>0, <1>10, TakeMessageDelivery, FetchReceiverDelivery, ReceiveDelivery, SetResultDelivery
     DEF BroadcastMessages
<1>11. DOMAIN loops = Loops
  BY DEF Inv, TypeInv, TypeParts, Loops
<1> QED
  BY <1>1, <1>2, <1>3, <1>4, <1>5, <1>6, <1>7, <1>8, <1>9, <1>10, <1>11 DEF Next

(* What a polling loop delivers to a handler comes in the store's order,    *)
(* and no poller delivers an item to it twice, however many loops share it, *)
(* and whoever subscribes, disposes or disconnects meanwhile.               *)
THEOREM DeliveryIsInOrderOnce == Spec => []DeliveredInOrderOnce
<1>1. Init => Inv
  <2> SUFFICES ASSUME Init PROVE Inv
    OBVIOUS
  <2>1. TypeInv
    BY TypeInit
  <2>2. ReceiversInv
    BY DEF Init, Idle, ReceiversInv, ReceiversDiffer, ReceiversSubscribed, PassedForGood, Positions
  <2>3. Loops = {} /\ \A s \in Subs : got[s] = <<>>
    BY DEF Init, Loops
  <2>4. DeliveryInv
    BY <2>3 DEF DeliveryInv, MessagesPolled, MessagesDiffer, GivenWasPolled, NotYetGiven,
                NothingBefore, DeliveredInOrderOnce, GivenTo
  <2> QED
    BY <2>1, <2>2, <2>4 DEF Inv
<1>2. Inv => DeliveredInOrderOnce
  BY DEF Inv, DeliveryInv
<1> QED
  BY <1>1, <1>2, InvStep, PTL DEF Spec
=============================================================================
