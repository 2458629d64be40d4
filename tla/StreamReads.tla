---------------------------- MODULE StreamReads ----------------------------
(***************************************************************************)
(* The two enumerations EventStream.cs offers to clients, ReadAsync by      *)
(* StreamId and by StreamKey, over the log while the writer goes on         *)
(* appending to it item by item.                                            *)
(*                                                                         *)
(* The writer is the abstract log StreamLog, which EventStream implements.  *)
(* A step of a read is one MoveNext: the interleavings inside MoveNext are  *)
(* PagedList's, and make it return false no earlier than at the item being  *)
(* stored, which StreamLog has not appended yet.                            *)
(***************************************************************************)
EXTENDS StreamIds, Integers, FiniteSets

CONSTANTS
    Requests, Ids, EventIds, NoEvent,    \* the writer's
    Reads,       \* the calls of ReadAsync
    Queries,     \* what they ask for: by an id or a key, from a revision
    NoQuery,
    MaxItems     \* a bound on the log

ASSUME StreamReadsAssumption ==
    /\ Ids \subseteq StreamId
    /\ MaxItems \in Nat
    /\ \A q \in Queries :
           /\ q.by \in {"id", "key"}
           /\ q.target \in (IF q.by = "id" THEN StreamId ELSE StreamKey)
           /\ q.revision \in Nat
    /\ NoQuery \notin Queries

VARIABLES
    log, answered,
    rpc,         \* where each read is
    query,       \* what it was called with
    cursor,      \* how many items the reader it has open has passed
    numberOfItemsRead,
    yielded,     \* the positions of the events it has been given
    begun,       \* history: the length of the log when it began
    answeredThen \* history: the requests answered when it began

readVars == <<rpc, query, cursor, numberOfItemsRead, yielded, begun, answeredThen>>
vars == <<log, answered, readVars>>

Writer == INSTANCE StreamLog

Init ==
    /\ Writer!Init
    /\ rpc = [c \in Reads |-> "idle"]
    /\ query = [c \in Reads |-> NoQuery]
    /\ cursor = [c \in Reads |-> 0]
    /\ numberOfItemsRead = [c \in Reads |-> 1]
    /\ yielded = [c \in Reads |-> <<>>]
    /\ begun = [c \in Reads |-> 0]
    /\ answeredThen = [c \in Reads |-> {}]

(* streamId == item.StreamId, or streamKey == item.StreamId *)
Selects(q, stream) ==
    IF q.by = "id" THEN IdEquals(q.target, stream) ELSE KeyEqualsId(q.target, stream)

Recorded(i) == log[i].kind = "recorded"
-----------------------------------------------------------------------------
(* A read by id first looks for any item of the stream; one by key goes     *)
(* straight to the events.                                                  *)
ReadAsync(c, q) ==
    /\ rpc[c] = "idle"
    /\ query' = [query EXCEPT ![c] = q]
    /\ rpc' = [rpc EXCEPT ![c] = IF q.by = "id" THEN "checking" ELSE "reading"]
    /\ begun' = [begun EXCEPT ![c] = Len(log)]
    /\ answeredThen' = [answeredThen EXCEPT ![c] = answered]
    /\ UNCHANGED <<log, answered, cursor, numberOfItemsRead, yielded>>

AtEnd(c) == cursor[c] = Len(log)

NextItem(c) == log[cursor[c] + 1]

GoTo(c, step) == rpc' = [rpc EXCEPT ![c] = step]

Pass(c) == cursor' = [cursor EXCEPT ![c] = @ + 1]

CheckEventsOnly(c) ==                \* mutant: StreamCreated items are passed over
    /\ rpc[c] = "checking"
    /\ IF AtEnd(c) THEN GoTo(c, "notFound") /\ UNCHANGED cursor
       ELSE IF NextItem(c).kind = "recorded" /\ Selects(query[c], NextItem(c).stream)
         THEN GoTo(c, "reading") /\ cursor' = [cursor EXCEPT ![c] = 0]
         ELSE Pass(c) /\ UNCHANGED rpc
    /\ UNCHANGED <<log, answered, query, numberOfItemsRead, yielded, begun, answeredThen>>

CheckKeepsReader(c) ==               \* mutant: the second pass goes on with the first reader
    /\ rpc[c] = "checking"
    /\ IF AtEnd(c) THEN GoTo(c, "notFound") /\ UNCHANGED cursor
       ELSE IF Selects(query[c], NextItem(c).stream)
         THEN GoTo(c, "reading") /\ Pass(c)
         ELSE Pass(c) /\ UNCHANGED rpc
    /\ UNCHANGED <<log, answered, query, numberOfItemsRead, yielded, begun, answeredThen>>

CheckPastEnd(c) ==                   \* mutant: the end of the log is passed like an item
    /\ rpc[c] = "checking"
    /\ IF ~AtEnd(c) /\ Selects(query[c], NextItem(c).stream)
         THEN GoTo(c, "reading") /\ cursor' = [cursor EXCEPT ![c] = 0]
         ELSE Pass(c) /\ GoTo(c, IF AtEnd(c) THEN "notFound" ELSE "checking")
    /\ UNCHANGED <<log, answered, query, numberOfItemsRead, yielded, begun, answeredThen>>

(* AllAsync(item => streamId != item.StreamId): the first item of the       *)
(* stream ends it, and a second reader is opened; without one the read      *)
(* throws StreamDoesNotExistException.                                      *)
Check(c) ==
    /\ rpc[c] = "checking"
    /\ IF AtEnd(c) THEN GoTo(c, "notFound") /\ UNCHANGED cursor
       ELSE IF Selects(query[c], NextItem(c).stream)
         THEN GoTo(c, "reading") /\ cursor' = [cursor EXCEPT ![c] = 0]
         ELSE Pass(c) /\ UNCHANGED rpc
    /\ UNCHANGED <<log, answered, query, numberOfItemsRead, yielded, begun, answeredThen>>

IsSkippedStrictly(c) ==              \* mutant: one event too few is skipped
    numberOfItemsRead[c] < query[c].revision

(* A revision skips that many events of the stream; none skips nothing. *)
IsSkipped(c) == numberOfItemsRead[c] <= query[c].revision

Read(c) ==
    /\ rpc[c] = "reading"
    /\ IF AtEnd(c)
         THEN GoTo(c, "done") /\ UNCHANGED <<cursor, numberOfItemsRead, yielded>>
         ELSE /\ Pass(c)
              /\ UNCHANGED rpc
              /\ IF NextItem(c).kind # "recorded" \/ ~Selects(query[c], NextItem(c).stream)
                   THEN UNCHANGED <<numberOfItemsRead, yielded>>
                 ELSE IF IsSkipped(c)
                   THEN /\ numberOfItemsRead' = [numberOfItemsRead EXCEPT ![c] = @ + 1]
                        /\ UNCHANGED yielded
                 ELSE /\ yielded' = [yielded EXCEPT ![c] = Append(@, cursor[c] + 1)]
                      /\ UNCHANGED numberOfItemsRead
    /\ UNCHANGED <<log, answered, query, begun, answeredThen>>

Write == Len(log) < MaxItems /\ Writer!Next /\ UNCHANGED readVars
-----------------------------------------------------------------------------
Next ==
    \/ Write
    \/ \E c \in Reads : \/ \E q \in Queries : ReadAsync(c, q)
                        \/ Check(c)
                        \/ Read(c)

Spec == Init /\ [][Next]_vars
-----------------------------------------------------------------------------
(* Type correctness. *)
TypeOK ==
    /\ rpc \in [Reads -> {"idle", "checking", "reading", "done", "notFound"}]
    /\ query \in [Reads -> Queries \cup {NoQuery}]
    /\ cursor \in [Reads -> 0..Len(log)]
    /\ numberOfItemsRead \in [Reads -> Nat \ {0}]
    /\ yielded \in [Reads -> Seq(1..Len(log))]
    /\ begun \in [Reads -> 0..Len(log)]
    /\ answeredThen \in [Reads -> SUBSET Requests]
    /\ \A c \in Reads : rpc[c] = "idle" <=> query[c] = NoQuery

(* The events of the query among the first n items. *)
Matching(q, n) ==
    {i \in 1..n : Recorded(i) /\ Selects(q, log[i].stream)}

(* Those of them that a read from the query's revision is given. *)
FromRevision(q, n) ==
    {i \in Matching(q, n) : Cardinality(Matching(q, i)) > q.revision}

Ascending(s) == \A i, j \in 1..Len(s) : i < j => s[i] < s[j]

Yielded(c) == {yielded[c][k] : k \in 1..Len(yielded[c])}

(* A finished read was given, in order and once each, exactly the events    *)
(* its stream held at one moment of the read, but for the first ones its    *)
(* revision skips: what races it may cut it short, never leave a gap.       *)
ReadIsSnapshot ==
    \A c \in Reads : rpc[c] = "done" =>
        /\ Ascending(yielded[c])
        /\ \E n \in begun[c]..Len(log) : Yielded(c) = FromRevision(query[c], n)

(* StreamDoesNotExistException means that the stream had no item, not even  *)
(* its StreamCreated, when the read began.                                  *)
NotFoundOnlyIfAbsent ==
    \A c \in Reads : rpc[c] = "notFound" =>
        \A i \in 1..begun[c] : ~Selects(query[c], log[i].stream)

(* A read that begins after an append was answered is given all the events  *)
(* that append recorded in its stream, and not a part of its batch.         *)
ReadsAnsweredWrites ==
    \A c \in Reads : rpc[c] \in {"done", "notFound"} /\ query[c].revision = 0 =>
        \A i \in Matching(query[c], Len(log)) :
            log[i].by \in answeredThen[c] => i \in Yielded(c)
=============================================================================
