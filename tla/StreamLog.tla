----------------------------- MODULE StreamLog -----------------------------
(***************************************************************************)
(* What the event store promises, abstractly: one append-only log that      *)
(* append requests contribute items to, and an answer to each request after *)
(* which it contributes nothing more.                                       *)
(*                                                                         *)
(* An item is either the creation of a stream or an event recorded in one.  *)
(* The log numbers its items 1, 2, 3 ... without a gap; a stream is created *)
(* once and before its first event; a stream holds an event id once (a      *)
(* request may repeat an id within its own batch); and the items of one     *)
(* request are adjacent.  EventStream implements this module.               *)
(***************************************************************************)
EXTENDS StreamIds

CONSTANTS
    Requests,    \* the calls of AppendAsync
    Ids,         \* the StreamIds they append to
    EventIds,    \* the EventIds of the events they append
    NoEvent      \* the event id of an item that records no event

VARIABLES
    log,         \* the items, in order
    answered     \* the requests that have been answered

vars == <<log, answered>>

Created(l, i)  == l[i].kind = "created"
Recorded(l, i) == l[i].kind = "recorded"

Init ==
    /\ log = <<>>
    /\ answered = {}

(* The stream has no StreamCreated item yet. *)
IsNew(stream) ==
    \A i \in 1..Len(log) : Created(log, i) => ~IdEquals(log[i].stream, stream)

(* No other request has recorded the event in the stream. *)
IsFresh(stream, event, request) ==
    \A i \in 1..Len(log) :
        Recorded(log, i) /\ log[i].event = event /\ IdEquals(log[i].stream, stream)
        => log[i].by = request

(* Either the request has no item yet, or it wrote the last one. *)
IsAdjacent(request) ==
    \A i \in 1..Len(log) : log[i].by = request => log[Len(log)].by = request

AppendItem(kind, stream, event, request) ==
    /\ request \notin answered
    /\ IsAdjacent(request)
    /\ log' = Append(log, [kind |-> kind, stream |-> stream, event |-> event,
                          position |-> Len(log) + 1, by |-> request])
    /\ UNCHANGED answered

CreateStream(stream, request) ==
    /\ IsNew(stream)
    /\ AppendItem("created", stream, NoEvent, request)

RecordEvent(stream, event, request) ==
    /\ ~IsNew(stream)
    /\ IsFresh(stream, event, request)
    /\ AppendItem("recorded", stream, event, request)

Answer(request) ==
    /\ request \notin answered
    /\ answered' = answered \cup {request}
    /\ UNCHANGED log

Next == \E request \in Requests :
    \/ \E stream \in Ids : CreateStream(stream, request)
    \/ \E stream \in Ids, event \in EventIds : RecordEvent(stream, event, request)
    \/ Answer(request)

Spec == Init /\ [][Next]_vars
=============================================================================
