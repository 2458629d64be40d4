------------------------- MODULE StreamReadsProofs -------------------------
(***************************************************************************)
(* Proofs about StreamReads, for every log the writer can produce, every    *)
(* query and any number of reads.  While it goes on, a read has been given  *)
(* exactly what the items its reader has passed select; and no item that a  *)
(* request answered before the read was begun is behind where it began.     *)
(***************************************************************************)
EXTENDS StreamReads, SequenceTheorems, FiniteSetTheorems, TLAPS

Item == [kind : {"created", "recorded"}, stream : Ids, event : EventIds \cup {NoEvent},
         position : Int, by : Requests]

LogOK == log \in Seq(Item) /\ answered \subseteq Requests

LEMMA LogLength == LogOK => Len(log) \in Nat
  BY LenProperties DEF LogOK

(* What a step of the writer does, whatever it appends. *)
Appends ==
    /\ \E item \in Item : log' = Append(log, item) /\ item.by \notin answered
    /\ UNCHANGED answered

Answers ==
    /\ \E r \in Requests : answered' = answered \cup {r}
    /\ UNCHANGED log

LEMMA WriteSteps ==
    ASSUME LogOK, Write
    PROVE  (Appends \/ Answers) /\ UNCHANGED readVars
<1>0. Len(log) \in Nat
  BY LogLength
<1>1. PICK r \in Requests :
          \/ \E stream \in Ids : Writer!CreateStream(stream, r)
          \/ \E stream \in Ids, event \in EventIds : Writer!RecordEvent(stream, event, r)
          \/ Writer!Answer(r)
  BY DEF Write, Writer!Next
<1>2. ASSUME NEW kind \in {"created", "recorded"}, NEW stream \in Ids,
             NEW event \in EventIds \cup {NoEvent}, Writer!AppendItem(kind, stream, event, r)
      PROVE  Appends
  <2> DEFINE item == [kind |-> kind, stream |-> stream, event |-> event,
                      position |-> Len(log) + 1, by |-> r]
  <2>1. log' = Append(log, item) /\ r \notin answered /\ UNCHANGED answered
    BY <1>2 DEF Writer!AppendItem
  <2>2. item \in Item /\ item.by = r
    BY <1>0 DEF Item
  <2> HIDE DEF item
  <2> QED
    BY <2>1, <2>2 DEF Appends
<1>3. ASSUME NEW stream \in Ids, Writer!CreateStream(stream, r)
      PROVE  Appends
  <2>1. Writer!AppendItem("created", stream, NoEvent, r)
    BY <1>3 DEF Writer!CreateStream
  <2> QED
    BY <1>2, <2>1
<1>4. ASSUME NEW stream \in Ids, NEW event \in EventIds, Writer!RecordEvent(stream, event, r)
      PROVE  Appends
  <2>1. Writer!AppendItem("recorded", stream, event, r)
    BY <1>4 DEF Writer!RecordEvent
  <2>2. "recorded" \in {"created", "recorded"} /\ event \in EventIds \cup {NoEvent}
    OBVIOUS
  <2> QED
    BY <1>2, <2>1, <2>2
<1>5. Writer!Answer(r) => Answers
  BY DEF Writer!Answer, Answers
<1> QED
  BY <1>1, <1>3, <1>4, <1>5 DEF Write

LEMMA ReadsLeaveLog ==
    ASSUME NEW c \in Reads, (\E q \in Queries : ReadAsync(c, q)) \/ Check(c) \/ Read(c)
    PROVE  UNCHANGED <<log, answered>>
  BY DEF ReadAsync, Check, Read

LEMMA LogOKStep ==
    ASSUME LogOK, [Next]_vars
    PROVE  /\ LogOK'
           /\ Len(log) <= Len(log') /\ Len(log) \in Nat /\ Len(log') \in Nat
           /\ \A i \in 1..Len(log) : log'[i] = log[i]
           /\ answered \subseteq answered'
           /\ \A i \in 1..Len(log') : i \in 1..Len(log) \/ log'[i].by \notin answered
<1>0. Len(log) \in Nat
  BY LogLength
<1>1. CASE UNCHANGED <<log, answered>>
  BY <1>0, <1>1 DEF LogOK
<1>2. CASE Appends
  BY <1>0, <1>2 DEF Appends, LogOK
<1>3. CASE Answers
  BY <1>0, <1>3 DEF Answers, LogOK
<1> QED
  BY <1>1, <1>2, <1>3, WriteSteps, ReadsLeaveLog DEF Next, vars
-----------------------------------------------------------------------------
(* Type correctness. *)

LEMMA TypeInit == Init => TypeOK /\ LogOK
<1> SUFFICES ASSUME Init PROVE TypeOK /\ LogOK
  OBVIOUS
<1>1. log = <<>> /\ answered = {} /\ Len(log) = 0
  BY DEF Init, Writer!Init
<1>2. <<>> \in Seq(1..0)
  OBVIOUS
<1> QED
  BY <1>1, <1>2, StreamReadsAssumption DEF Init, TypeOK, LogOK

LEMMA SeqGrows ==
    ASSUME NEW S, NEW T, S \subseteq T, NEW s \in Seq(S)
    PROVE  s \in Seq(T)
  OBVIOUS

LEMMA SeqNarrows ==
    ASSUME NEW S, NEW T, NEW s \in Seq(S), \A k \in 1..Len(s) : s[k] \in T
    PROVE  s \in Seq(T)
  BY SeqDef, LenProperties

LEMMA TypeStep == TypeOK /\ LogOK /\ [Next]_vars => TypeOK' /\ LogOK'
<1> SUFFICES ASSUME TypeOK, LogOK, [Next]_vars
             PROVE  TypeOK' /\ LogOK'
  OBVIOUS
<1>0. /\ LogOK' /\ Len(log) <= Len(log') /\ Len(log) \in Nat /\ Len(log') \in Nat
  BY LogOKStep
<1>1. CASE UNCHANGED readVars
  <2>1. 0..Len(log) \subseteq 0..Len(log') /\ 1..Len(log) \subseteq 1..Len(log')
    BY <1>0
  <2>2. \A c \in Reads : yielded[c] \in Seq(1..Len(log'))
    BY <2>1, SeqGrows DEF TypeOK
  <2> QED
    BY <1>0, <1>1, <2>1, <2>2 DEF TypeOK, readVars
<1>2. ASSUME NEW c \in Reads, NEW q \in Queries, ReadAsync(c, q)
      PROVE  TypeOK'
  BY <1>0, <1>2, StreamReadsAssumption DEF TypeOK, ReadAsync, LogOK
<1>3. ASSUME NEW c \in Reads, Check(c)
      PROVE  TypeOK'
  <2>1. cursor[c] \in 0..Len(log) /\ (cursor[c] # Len(log) => cursor[c] + 1 \in 0..Len(log))
    BY <1>0 DEF TypeOK
  <2>2. /\ rpc[c] = "checking"
        /\ rpc' = rpc \/ \E step \in {"notFound", "reading"} : rpc' = [rpc EXCEPT ![c] = step]
        /\ \/ cursor' = cursor
           \/ \E n \in 0..Len(log) : cursor' = [cursor EXCEPT ![c] = n]
    BY <1>0, <1>3, <2>1 DEF Check, GoTo, Pass, AtEnd
  <2>3. UNCHANGED <<log, query, numberOfItemsRead, yielded, begun, answeredThen>>
    BY <1>3 DEF Check
  <2> QED
    BY <2>2, <2>3 DEF TypeOK
<1>4. ASSUME NEW c \in Reads, Read(c)
      PROVE  TypeOK'
  <2>1. /\ cursor[c] \in 0..Len(log)
        /\ cursor[c] # Len(log)
              => cursor[c] + 1 \in 0..Len(log) /\ cursor[c] + 1 \in 1..Len(log)
    BY <1>0 DEF TypeOK
  <2>2. /\ rpc[c] = "reading"
        /\ rpc' = rpc \/ rpc' = [rpc EXCEPT ![c] = "done"]
        /\ \/ cursor' = cursor
           \/ \E n \in 0..Len(log) : cursor' = [cursor EXCEPT ![c] = n]
        /\ \/ numberOfItemsRead' = numberOfItemsRead
           \/ numberOfItemsRead' = [numberOfItemsRead EXCEPT ![c] = @ + 1]
        /\ \/ yielded' = yielded
           \/ \E i \in 1..Len(log) : yielded' = [yielded EXCEPT ![c] = Append(@, i)]
    BY <1>0, <1>4, <2>1 DEF Read, GoTo, Pass, AtEnd
  <2>3. UNCHANGED <<log, query, begun, answeredThen>>
    BY <1>4 DEF Read
  <2>4. /\ rpc' \in [Reads -> {"idle", "checking", "reading", "done", "notFound"}]
        /\ \A d \in Reads : rpc'[d] = "idle" <=> rpc[d] = "idle"
    BY <2>2 DEF TypeOK
  <2>5. cursor' \in [Reads -> 0..Len(log)]
    BY <2>2 DEF TypeOK
  <2>6. numberOfItemsRead' \in [Reads -> Nat \ {0}]
    <3>1. numberOfItemsRead \in [Reads -> Nat \ {0}] /\ numberOfItemsRead[c] + 1 \in Nat \ {0}
      BY DEF TypeOK
    <3> QED
      BY <2>2, <3>1
  <2>7. yielded' \in [Reads -> Seq(1..Len(log))]
    <3>1. /\ yielded \in [Reads -> Seq(1..Len(log))]
          /\ \A i \in 1..Len(log) : Append(yielded[c], i) \in Seq(1..Len(log))
      BY DEF TypeOK
    <3> QED
      BY <2>2, <3>1
  <2> QED
    BY <2>3, <2>4, <2>5, <2>6, <2>7 DEF TypeOK
<1> QED
  BY <1>0, <1>1, <1>2, <1>3, <1>4, WriteSteps DEF Next, vars

(* The variables of the reads keep their types. *)
THEOREM TypeCorrect == Spec => []TypeOK
  BY TypeInit, TypeStep, PTL DEF Spec
-----------------------------------------------------------------------------
(* What a prefix of the log selects. *)

LEMMA MatchingFinite ==
    ASSUME NEW q, NEW n \in Nat
    PROVE  IsFiniteSet(Matching(q, n)) /\ Cardinality(Matching(q, n)) \in Nat
<1>1. IsFiniteSet(1..n)
  BY FS_Interval
<1>2. Matching(q, n) \in SUBSET (1..n)
  BY DEF Matching
<1> QED
  BY <1>1, <1>2, FS_Subset, FS_CardinalityType

LEMMA MatchingNext ==
    ASSUME NEW q, NEW n \in Nat
    PROVE  IF Recorded(n + 1) /\ Selects(q, log[n + 1].stream)
             THEN /\ Matching(q, n + 1) = Matching(q, n) \cup {n + 1}
                  /\ Cardinality(Matching(q, n + 1)) = Cardinality(Matching(q, n)) + 1
             ELSE Matching(q, n + 1) = Matching(q, n)
<1>1. CASE Recorded(n + 1) /\ Selects(q, log[n + 1].stream)
  <2>1. Matching(q, n + 1) = Matching(q, n) \cup {n + 1}
    BY <1>1 DEF Matching
  <2>2. n + 1 \notin Matching(q, n)
    BY DEF Matching
  <2> QED
    BY <1>1, <2>1, <2>2, MatchingFinite, FS_AddElement
<1>2. CASE ~(Recorded(n + 1) /\ Selects(q, log[n + 1].stream))
  BY <1>2 DEF Matching
<1> QED
  BY <1>1, <1>2

LEMMA FromRevisionNext ==
    ASSUME NEW q, NEW n \in Nat
    PROVE  FromRevision(q, n + 1) =
             IF /\ Recorded(n + 1) /\ Selects(q, log[n + 1].stream)
                /\ Cardinality(Matching(q, n)) + 1 > q.revision
               THEN FromRevision(q, n) \cup {n + 1}
               ELSE FromRevision(q, n)
  BY MatchingNext DEF FromRevision

(* The items a reader has passed do not change. *)
LEMMA PrefixStays ==
    ASSUME LogOK, [Next]_vars, NEW q, NEW n \in 0..Len(log)
    PROVE  /\ Matching(q, n)' = Matching(q, n)
           /\ FromRevision(q, n)' = FromRevision(q, n)
<1>0. \A i \in 1..n : i \in 1..Len(log)
  BY LogLength
<1>1. \A i \in 1..n : log'[i] = log[i]
  BY <1>0, LogOKStep
<1>2. ASSUME NEW k \in 0..n
      PROVE  Matching(q, k)' = Matching(q, k)
  <2>1. \A i \in 1..k : i \in 1..n
    BY LogLength
  <2> QED
    BY <1>1, <2>1 DEF Matching, Recorded
<1>3. \A i \in Matching(q, n) : i \in 0..n
  BY DEF Matching
<1> QED
  BY <1>2, <1>3, LogLength DEF FromRevision
-----------------------------------------------------------------------------
(* The inductive invariant, read by read. *)

(* A read is begun with a new reader. *)
IsFresh(c) ==
    /\ rpc[c] = "idle" => cursor[c] = 0
    /\ rpc[c] \in {"idle", "checking"} => yielded[c] = <<>> /\ numberOfItemsRead[c] = 1

(* The first pass ends at the first item of the stream. *)
HasMetNone(c) ==
    rpc[c] \in {"checking", "notFound"} =>
        \A i \in 1..cursor[c] : ~Selects(query[c], log[i].stream)

(* Events counted, until the revision is reached. *)
Counted(q, n) ==
    IF Cardinality(Matching(q, n)) <= q.revision THEN Cardinality(Matching(q, n)) ELSE q.revision

(* What has been given is what the items passed select. *)
IsExact(c) ==
    rpc[c] \in {"reading", "done"} =>
        /\ Ascending(yielded[c])
        /\ Yielded(c) = FromRevision(query[c], cursor[c])
        /\ numberOfItemsRead[c] = Counted(query[c], cursor[c]) + 1

(* A read ends no earlier than at the item that was the last when it began. *)
IsComplete(c) == rpc[c] \in {"done", "notFound"} => begun[c] <= cursor[c]

(* A request answered before has no item behind that one. *)
AnsweredBehind(c) ==
    /\ answeredThen[c] \subseteq answered
    /\ \A i \in 1..Len(log) : log[i].by \in answeredThen[c] => i <= begun[c]

ReadOK(c) ==
    IsFresh(c) /\ HasMetNone(c) /\ IsExact(c) /\ IsComplete(c) /\ AnsweredBehind(c)

ReadInv == \A c \in Reads : ReadOK(c)

LEMMA ReadInit == Init => ReadInv
<1> SUFFICES ASSUME Init, NEW c \in Reads PROVE ReadOK(c)
  BY DEF ReadInv
<1>1. Len(log) = 0
  BY DEF Init, Writer!Init
<1> QED
  BY <1>1 DEF Init, ReadOK, IsFresh, HasMetNone, IsExact, IsComplete, AnsweredBehind

StepContext == TypeOK /\ LogOK /\ [Next]_vars

LEMMA AnsweredStaysBehind ==
    ASSUME StepContext, NEW c \in Reads, AnsweredBehind(c),
           answeredThen'[c] = answeredThen[c], begun'[c] = begun[c]
    PROVE  AnsweredBehind(c)'
  BY LogOKStep DEF StepContext, AnsweredBehind

LEMMA Unmoved ==
    ASSUME StepContext, NEW c \in Reads, ReadOK(c),
           rpc'[c] = rpc[c], query'[c] = query[c], cursor'[c] = cursor[c],
           numberOfItemsRead'[c] = numberOfItemsRead[c], yielded'[c] = yielded[c],
           begun'[c] = begun[c], answeredThen'[c] = answeredThen[c]
    PROVE  ReadOK(c)'
<1>0. cursor[c] \in 0..Len(log) /\ Len(log) \in Nat
  BY LogLength DEF StepContext, TypeOK
<1>1. IsFresh(c)' /\ IsComplete(c)'
  BY DEF ReadOK, IsFresh, IsComplete
<1>2. AnsweredBehind(c)'
  BY AnsweredStaysBehind DEF ReadOK
<1>3. HasMetNone(c)'
  <2>1. \A i \in 1..cursor[c] : log'[i] = log[i]
    BY <1>0, LogOKStep DEF StepContext
  <2> QED
    BY <2>1 DEF ReadOK, HasMetNone
<1>4. IsExact(c)'
  BY <1>0, PrefixStays DEF StepContext, ReadOK, IsExact, Yielded, Counted, Ascending
<1> QED
  BY <1>1, <1>2, <1>3, <1>4 DEF ReadOK

LEMMA EmptyPrefix ==
    ASSUME NEW q \in Queries
    PROVE  Matching(q, 0) = {} /\ FromRevision(q, 0) = {} /\ Counted(q, 0) = 0
<1>1. Matching(q, 0) = {} /\ FromRevision(q, 0) = {}
  BY DEF Matching, FromRevision
<1>2. q.revision \in Nat
  BY StreamReadsAssumption
<1> QED
  BY <1>1, <1>2, FS_EmptySet DEF Counted

LEMMA BeginStep ==
    ASSUME StepContext, NEW c \in Reads, ReadOK(c), NEW q \in Queries, ReadAsync(c, q)
    PROVE  ReadOK(c)'
<1>0. /\ rpc[c] = "idle" /\ cursor[c] = 0 /\ yielded[c] = <<>> /\ numberOfItemsRead[c] = 1
      /\ UNCHANGED <<log, answered, cursor, numberOfItemsRead, yielded>>
      /\ query'[c] = q /\ begun'[c] = Len(log) /\ answeredThen'[c] = answered
      /\ rpc'[c] \in {"checking", "reading"}
      /\ Len(log) \in Nat
  BY LogLength DEF ReadAsync, ReadOK, IsFresh, StepContext, TypeOK
<1>1. IsFresh(c)' /\ HasMetNone(c)' /\ IsComplete(c)' /\ AnsweredBehind(c)'
  BY <1>0 DEF IsFresh, HasMetNone, IsComplete, AnsweredBehind
<1>2. IsExact(c)'
  <2>1. Ascending(<<>>)
    BY DEF Ascending
  <2>2. /\ Yielded(c)' = {} /\ FromRevision(q, 0)' = FromRevision(q, 0)
        /\ Counted(q, 0)' = Counted(q, 0)
    BY <1>0, PrefixStays DEF Yielded, Counted, StepContext
  <2> QED
    BY <1>0, <2>1, <2>2, EmptyPrefix DEF IsExact
<1> QED
  BY <1>1, <1>2 DEF ReadOK

LEMMA CheckStep ==
    ASSUME StepContext, NEW c \in Reads, ReadOK(c), Check(c)
    PROVE  ReadOK(c)'
<1>0. /\ rpc[c] = "checking" /\ yielded[c] = <<>> /\ numberOfItemsRead[c] = 1
      /\ UNCHANGED <<log, answered, query, numberOfItemsRead, yielded, begun, answeredThen>>
      /\ cursor[c] \in 0..Len(log) /\ begun[c] \in 0..Len(log) /\ Len(log) \in Nat
      /\ query[c] \in Queries
      /\ \A i \in 1..cursor[c] : ~Selects(query[c], log[i].stream)
  BY LogLength DEF Check, ReadOK, IsFresh, HasMetNone, StepContext, TypeOK
<1>1. AnsweredBehind(c)'
  BY <1>0, AnsweredStaysBehind DEF ReadOK
<1>2. CASE AtEnd(c)
  <2>1. rpc'[c] = "notFound" /\ cursor' = cursor /\ cursor[c] = Len(log)
    BY <1>2 DEF Check, GoTo, AtEnd, StepContext, TypeOK
  <2> QED
    BY <1>0, <1>1, <2>1 DEF ReadOK, IsFresh, HasMetNone, IsExact, IsComplete
<1>3. CASE ~AtEnd(c) /\ Selects(query[c], NextItem(c).stream)
  <2>1. rpc'[c] = "reading" /\ cursor'[c] = 0
    BY <1>3 DEF Check, GoTo, StepContext, TypeOK
  <2>2. Ascending(<<>>)
    BY DEF Ascending
  <2>3. PICK q \in Queries : query'[c] = q
    BY <1>0
  <2>4. /\ Yielded(c)' = {} /\ FromRevision(q, 0)' = FromRevision(q, 0)
        /\ Counted(q, 0)' = Counted(q, 0)
    BY <1>0, PrefixStays DEF Yielded, Counted, StepContext
  <2> QED
    BY <1>0, <1>1, <2>1, <2>2, <2>3, <2>4, EmptyPrefix
       DEF ReadOK, IsFresh, HasMetNone, IsExact, IsComplete
<1>4. CASE ~AtEnd(c) /\ ~Selects(query[c], NextItem(c).stream)
  <2>1. rpc'[c] = "checking" /\ cursor'[c] = cursor[c] + 1
    BY <1>0, <1>4 DEF Check, Pass, StepContext, TypeOK
  <2>2. \A i \in 1..(cursor[c] + 1) : i \in 1..cursor[c] \/ i = cursor[c] + 1
    BY <1>0
  <2> QED
    BY <1>0, <1>1, <1>4, <2>1, <2>2
       DEF ReadOK, IsFresh, HasMetNone, IsExact, IsComplete, NextItem
<1> QED
  BY <1>2, <1>3, <1>4

LEMMA AscendingAppend ==
    ASSUME NEW n \in Nat, NEW s \in Seq(1..n), Ascending(s)
    PROVE  /\ Ascending(Append(s, n + 1))
           /\ {Append(s, n + 1)[k] : k \in 1..Len(Append(s, n + 1))}
                  = {s[k] : k \in 1..Len(s)} \cup {n + 1}
<1> DEFINE t == Append(s, n + 1)
<1>1. /\ Len(s) \in Nat /\ Len(t) = Len(s) + 1 /\ t[Len(s) + 1] = n + 1
      /\ \A k \in 1..Len(s) : t[k] = s[k] /\ s[k] \in 1..n
  OBVIOUS
<1>2. \A k \in 1..Len(t) : k \in 1..Len(s) \/ k = Len(s) + 1
  BY <1>1
<1> HIDE DEF t
<1>3. Ascending(t)
  BY <1>1, <1>2 DEF Ascending
<1>4. {t[k] : k \in 1..Len(t)} = {s[k] : k \in 1..Len(s)} \cup {n + 1}
  <2>1. \A k \in 1..Len(s) : k \in 1..Len(t)
    BY <1>1
  <2>2. Len(s) + 1 \in 1..Len(t)
    BY <1>1
  <2> QED
    BY <1>1, <1>2, <2>1, <2>2
<1> QED
  BY <1>3, <1>4 DEF t

LEMMA ReadStep ==
    ASSUME StepContext, NEW c \in Reads, ReadOK(c), Read(c)
    PROVE  ReadOK(c)'
<1>0. /\ rpc[c] = "reading"
      /\ UNCHANGED <<log, answered, query, begun, answeredThen>>
      /\ begun[c] \in 0..Len(log) /\ Len(log) \in Nat
      /\ yielded[c] \in Seq(1..Len(log))
  BY LogLength DEF Read, StepContext, TypeOK
<1>q. PICK q \in Queries : query[c] = q /\ query'[c] = q /\ q.revision \in Nat
  BY <1>0, StreamReadsAssumption DEF ReadOK, IsFresh, StepContext, TypeOK
<1>n. PICK n \in 0..Len(log) : cursor[c] = n
  BY DEF StepContext, TypeOK
<1>1. AnsweredBehind(c)'
  BY <1>0, AnsweredStaysBehind DEF ReadOK
<1>2. /\ Ascending(yielded[c]) /\ Yielded(c) = FromRevision(q, n)
      /\ numberOfItemsRead[c] = Counted(q, n) + 1
  BY <1>0, <1>q, <1>n DEF ReadOK, IsExact
<1>3. ASSUME NEW m \in 0..Len(log)
      PROVE  FromRevision(q, m)' = FromRevision(q, m) /\ Counted(q, m)' = Counted(q, m)
  BY <1>0, PrefixStays DEF Counted, StepContext
<1>4. CASE AtEnd(c)
  <2>1. rpc'[c] = "done" /\ UNCHANGED <<cursor, numberOfItemsRead, yielded>> /\ n = Len(log)
    BY <1>0, <1>n, <1>4 DEF Read, GoTo, AtEnd, StepContext, TypeOK
  <2>2. Yielded(c)' = Yielded(c)
    BY <2>1 DEF Yielded
  <2> QED
    BY <1>0, <1>q, <1>n, <1>1, <1>2, <1>3, <2>1, <2>2
       DEF ReadOK, IsFresh, HasMetNone, IsExact, IsComplete
<1>5. CASE ~AtEnd(c)
  <2>1. /\ rpc'[c] = "reading" /\ cursor'[c] = n + 1 /\ n + 1 \in 0..Len(log)
        /\ NextItem(c) = log[n + 1]
    BY <1>0, <1>n, <1>5 DEF Read, Pass, AtEnd, NextItem, StepContext, TypeOK
  <2>2. ASSUME Ascending(yielded'[c]), Yielded(c)' = FromRevision(q, n + 1),
               numberOfItemsRead'[c] = Counted(q, n + 1) + 1
        PROVE  ReadOK(c)'
    BY <1>0, <1>q, <1>1, <1>3, <2>1, <2>2
       DEF ReadOK, IsFresh, HasMetNone, IsExact, IsComplete
  <2>3. n \in Nat /\ Cardinality(Matching(q, n)) \in Nat
    BY MatchingFinite
  <2>4. CASE ~(Recorded(n + 1) /\ Selects(q, log[n + 1].stream))
    <3>1. UNCHANGED <<numberOfItemsRead, yielded>>
      BY <1>q, <1>5, <2>1, <2>4 DEF Read, Recorded
    <3>2. Yielded(c)' = Yielded(c)
      BY <3>1 DEF Yielded
    <3> QED
      BY <1>2, <2>2, <2>3, <2>4, <3>1, <3>2, MatchingNext, FromRevisionNext DEF Counted
  <2>5. CASE Recorded(n + 1) /\ Selects(q, log[n + 1].stream) /\ IsSkipped(c)
    <3>1. /\ numberOfItemsRead'[c] = numberOfItemsRead[c] + 1 /\ UNCHANGED yielded
          /\ numberOfItemsRead[c] <= q.revision
      BY <1>q, <1>5, <2>1, <2>5 DEF Read, Recorded, IsSkipped, StepContext, TypeOK
    <3>2. Yielded(c)' = Yielded(c)
      BY <3>1 DEF Yielded
    <3>3. /\ Cardinality(Matching(q, n + 1)) = Cardinality(Matching(q, n)) + 1
          /\ ~(Cardinality(Matching(q, n)) + 1 > q.revision)
      BY <1>q, <1>2, <2>3, <2>5, <3>1, MatchingNext DEF Counted
    <3>4. FromRevision(q, n + 1) = FromRevision(q, n)
      BY <2>3, <3>3, FromRevisionNext
    <3> QED
      BY <1>q, <1>2, <2>2, <2>3, <3>1, <3>2, <3>3, <3>4 DEF Counted
  <2>6. CASE Recorded(n + 1) /\ Selects(q, log[n + 1].stream) /\ ~IsSkipped(c)
    <3>1. /\ UNCHANGED numberOfItemsRead /\ yielded'[c] = Append(yielded[c], n + 1)
          /\ numberOfItemsRead[c] > q.revision
      BY <1>q, <1>n, <1>2, <1>5, <2>1, <2>3, <2>6
         DEF Read, Recorded, IsSkipped, Counted, StepContext, TypeOK
    <3>2. yielded[c] \in Seq(1..n)
      <4>1. FromRevision(q, n) \subseteq 1..n
        BY DEF FromRevision, Matching
      <4>2. \A k \in 1..Len(yielded[c]) : yielded[c][k] \in Yielded(c)
        BY DEF Yielded
      <4>3. \A k \in 1..Len(yielded[c]) : yielded[c][k] \in 1..n
        BY <1>2, <4>1, <4>2
      <4> QED
        BY <1>0, <4>3, SeqNarrows
    <3>3. /\ Ascending(yielded'[c])
          /\ Yielded(c)' = Yielded(c) \cup {n + 1}
      <4> DEFINE s == yielded[c]
      <4>1. /\ Ascending(Append(s, n + 1))
            /\ {Append(s, n + 1)[k] : k \in 1..Len(Append(s, n + 1))}
                   = {s[k] : k \in 1..Len(s)} \cup {n + 1}
        BY <1>2, <2>3, <3>2, AscendingAppend
      <4> QED
        BY <3>1, <4>1 DEF Yielded
    <3>4. /\ Cardinality(Matching(q, n + 1)) = Cardinality(Matching(q, n)) + 1
          /\ Cardinality(Matching(q, n)) >= q.revision
          /\ Cardinality(Matching(q, n)) + 1 > q.revision
      BY <1>q, <1>2, <2>3, <2>6, <3>1, MatchingNext DEF Counted
    <3>5. FromRevision(q, n + 1) = FromRevision(q, n) \cup {n + 1}
      BY <2>3, <2>6, <3>4, FromRevisionNext
    <3> QED
      BY <1>q, <1>2, <2>2, <2>3, <3>1, <3>3, <3>4, <3>5 DEF Counted
  <2> QED
    BY <2>4, <2>5, <2>6
<1> QED
  BY <1>4, <1>5

LEMMA ReadInvStep == StepContext /\ ReadInv => ReadInv'
<1> SUFFICES ASSUME StepContext, ReadInv, NEW c \in Reads
             PROVE  ReadOK(c)'
  BY DEF ReadInv
<1>1. ReadOK(c)
  BY DEF ReadInv
<1>2. CASE UNCHANGED readVars
  BY <1>1, <1>2, Unmoved DEF readVars
<1>3. ASSUME NEW d \in Reads, d # c,
             (\E q \in Queries : ReadAsync(d, q)) \/ Check(d) \/ Read(d)
      PROVE  ReadOK(c)'
  <2>1. /\ rpc'[c] = rpc[c] /\ query'[c] = query[c] /\ cursor'[c] = cursor[c]
        /\ numberOfItemsRead'[c] = numberOfItemsRead[c] /\ yielded'[c] = yielded[c]
        /\ begun'[c] = begun[c] /\ answeredThen'[c] = answeredThen[c]
    BY <1>3 DEF ReadAsync, Check, Read, GoTo, Pass, StepContext, TypeOK
  <2> QED
    BY <1>1, <2>1, Unmoved
<1>4. CASE (\E q \in Queries : ReadAsync(c, q)) \/ Check(c) \/ Read(c)
  BY <1>1, <1>4, BeginStep, CheckStep, ReadStep
<1> QED
  BY <1>2, <1>3, <1>4, WriteSteps DEF StepContext, Next, vars
-----------------------------------------------------------------------------
LEMMA ReadInvHolds == Spec => [](TypeOK /\ LogOK /\ ReadInv)
<1>1. TypeOK /\ LogOK /\ [Next]_vars /\ ReadInv => ReadInv'
  BY ReadInvStep DEF StepContext
<1> QED
  BY <1>1, TypeInit, TypeStep, ReadInit, PTL DEF Spec

(* A finished read was given, in order, exactly the events its stream held  *)
(* at one moment of it, from its revision on.                               *)
THEOREM ReadsAreSnapshots == Spec => []ReadIsSnapshot
<1>1. TypeOK /\ LogOK /\ ReadInv => ReadIsSnapshot
  <2> SUFFICES ASSUME TypeOK, LogOK, ReadInv, NEW c \in Reads, rpc[c] = "done"
               PROVE  /\ Ascending(yielded[c])
                      /\ \E n \in begun[c]..Len(log) : Yielded(c) = FromRevision(query[c], n)
    BY DEF ReadIsSnapshot
  <2>1. begun[c] \in 0..Len(log) /\ cursor[c] \in 0..Len(log) /\ Len(log) \in Nat
    BY LogLength DEF TypeOK
  <2>2. cursor[c] \in begun[c]..Len(log)
    BY <2>1 DEF ReadInv, ReadOK, IsComplete
  <2> QED
    BY <2>2 DEF ReadInv, ReadOK, IsExact
<1> QED
  BY <1>1, ReadInvHolds, PTL

(* StreamDoesNotExistException means that the stream had no item when the   *)
(* read began.                                                              *)
THEOREM NotFoundIsAbsent == Spec => []NotFoundOnlyIfAbsent
<1>1. TypeOK /\ LogOK /\ ReadInv => NotFoundOnlyIfAbsent
  <2> SUFFICES ASSUME TypeOK, LogOK, ReadInv, NEW c \in Reads, rpc[c] = "notFound",
                      NEW i \in 1..begun[c]
               PROVE  ~Selects(query[c], log[i].stream)
    BY DEF NotFoundOnlyIfAbsent
  <2>1. begun[c] \in 0..Len(log) /\ cursor[c] \in 0..Len(log) /\ Len(log) \in Nat
    BY LogLength DEF TypeOK
  <2>2. i \in 1..cursor[c]
    BY <2>1 DEF ReadInv, ReadOK, IsComplete
  <2> QED
    BY <2>2 DEF ReadInv, ReadOK, HasMetNone
<1> QED
  BY <1>1, ReadInvHolds, PTL

(* A read begun after an append was answered is given all it recorded.      *)
THEOREM AnsweredWritesAreRead == Spec => []ReadsAnsweredWrites
<1>1. TypeOK /\ LogOK /\ ReadInv => ReadsAnsweredWrites
  <2> SUFFICES ASSUME TypeOK, LogOK, ReadInv, NEW c \in Reads, rpc[c] \in {"done", "notFound"},
                      query[c].revision = 0, NEW i \in Matching(query[c], Len(log)),
                      log[i].by \in answeredThen[c]
               PROVE  i \in Yielded(c)
    BY DEF ReadsAnsweredWrites
  <2>1. /\ i \in 1..Len(log) /\ Recorded(i) /\ Selects(query[c], log[i].stream)
        /\ begun[c] \in 0..Len(log) /\ cursor[c] \in 0..Len(log) /\ Len(log) \in Nat
    BY LogLength DEF TypeOK, Matching
  <2>2. i \in 1..cursor[c]
    BY <2>1 DEF ReadInv, ReadOK, IsComplete, AnsweredBehind
  <2>3. rpc[c] = "done"
    BY <2>1, <2>2 DEF ReadInv, ReadOK, HasMetNone
  <2>4. i \in Matching(query[c], cursor[c]) /\ i \in Matching(query[c], i)
    BY <2>1, <2>2 DEF Matching
  <2>5. Cardinality(Matching(query[c], i)) > 0
    BY <2>1, <2>4, MatchingFinite, FS_EmptySet
  <2>6. i \in FromRevision(query[c], cursor[c])
    BY <2>4, <2>5 DEF FromRevision
  <2> QED
    BY <2>3, <2>6 DEF ReadInv, ReadOK, IsExact
<1> QED
  BY <1>1, ReadInvHolds, PTL
=============================================================================
