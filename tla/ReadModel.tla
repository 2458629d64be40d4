----------------------------- MODULE ReadModel -----------------------------
(***************************************************************************)
(* The whole application: the start of the host, the commands of Repository *)
(* and the read model WebHookRm.cs behind the poller.                       *)
(*                                                                         *)
(* The host starts the store and connects the client, which begins to poll; *)
(* only then is the read model constructed, and it subscribes to the stream *)
(* four times, once for each kind of event, before the handlers of commands *)
(* are registered.  The store may hold what an earlier run of the program   *)
(* left in it.  The poller hands each item to the receivers there are, and  *)
(* never comes back to it.                                                  *)
(*                                                                         *)
(* One MoveNext of the poller with the broadcast it awaits is one step: the *)
(* message has one receiver that acts on it, which is registered when the   *)
(* dispatcher comes to it, or not.  Subscriptions has the parts.            *)
(***************************************************************************)
EXTENDS Repository

CONSTANTS
    Earlier,     \* the request that wrote the items of the earlier run
    Stored       \* the items the store may start with

(* The events in front of the i-th item that are of the same subscription.  *)
Preceding(items, i) ==
    {j \in 1..(i - 1) : items[j].kind = "recorded" /\ items[j].event.id = items[i].event.id}

(* A subscription's creation is its first event, its enabling follows it.   *)
InPlace(items, i) ==
    /\ items[i].event.id \in Guid
    /\ items[i].stream = CreateStreamId(items[i].event.id)
    /\ \/ items[i].event.kind = "Subscribed" /\ Preceding(items, i) = {}
       \/ /\ items[i].event.kind = "Enabled"
          /\ \E j \in Preceding(items, i) : items[j].event.kind = "Subscribed"

(* What a run can leave in the store, be it ended between two items of one  *)
(* call: the version that Disable and Remove name is never the stream's, so *)
(* their events are not in it.                                              *)
WellStored(items) ==
    /\ items \in Seq(Item)
    /\ \A i \in 1..Len(items) :
           /\ items[i].position = i
           /\ items[i].kind = "recorded" => InPlace(items, i)

ASSUME ReadModelAssumption ==
    /\ Earlier \in Requests
    /\ <<>> \in Stored
    /\ \A items \in Stored : WellStored(items)

VARIABLES
    connected,   \* _isConnected: the poller polls
    registered,  \* how many of the SubscribeToStream calls have been made
    cursor,      \* how many items the poller's reader has passed
    missed,      \* those of them that no receiver was given
    shown        \* _subscriptions

pollVars == <<cursor, missed, shown>>
rmVars   == <<connected, registered, pollVars>>
appAndRmVars == <<allVars, rmVars>>

(* The order of the constructor. *)
Receivers == <<"Subscribed", "Enabled", "Disabled", "Removed">>

Ready == registered = Len(Receivers)

RmInit ==
    /\ log \in Stored
    /\ Constructed
    /\ NoneSent
    /\ connected = FALSE
    /\ registered = 0
    /\ cursor = 0
    /\ missed = {}
    /\ shown = <<>>
-----------------------------------------------------------------------------
(* The host: UseLvStreamStore, then InitializeApplicationToolkit. *)

Start == StartAsync /\ UNCHANGED <<appVars, rmVars>>

Connect ==
    /\ pc # "notStarted"
    /\ ~connected
    /\ connected' = TRUE
    /\ UNCHANGED <<allVars, registered, pollVars>>

SubscribeToStream ==
    /\ connected
    /\ ~disposed
    /\ ~Ready
    /\ registered' = registered + 1
    /\ UNCHANGED <<allVars, connected, pollVars>>

(* The client's Dispose takes the poller's receivers from the dispatcher    *)
(* and disposes the store.                                                  *)
Close ==
    /\ Ready
    /\ Dispose
    /\ registered' = 0
    /\ UNCHANGED <<appVars, connected, pollVars>>
-----------------------------------------------------------------------------
(* WebHookRm. *)

AddEnabled(rows, e) ==               \* mutant: a new row is shown enabled
    Append(rows, [id |-> e.id, by |-> e.by, enabled |-> TRUE])

AddRow(rows, e) ==
    Append(rows, [id |-> e.id, by |-> e.by, enabled |-> FALSE])

SetEnabledOfCopy(rows, id, enabled) ==    \* mutant: Where returns copies of the rows
    rows

SetEnabled(rows, id, enabled) ==
    [i \in 1..Len(rows) |->
        IF rows[i].id = id THEN [rows[i] EXCEPT !.enabled = enabled] ELSE rows[i]]

(* Receive, by the type of the event. *)
Receive(rows, e) ==
    CASE e.kind = "Subscribed" -> AddRow(rows, e)
      [] e.kind = "Enabled"    -> SetEnabled(rows, e.id, TRUE)
      [] e.kind = "Disabled"   -> SetEnabled(rows, e.id, FALSE)
      [] e.kind = "Removed"    -> SelectSeq(rows, LAMBDA row : row.id # e.id)
-----------------------------------------------------------------------------
(* The poller. *)

IsReceived(e) == \E n \in 1..registered : Receivers[n] = e.kind

PollAgain ==                         \* mutant: the reader may stay at the item it gave
    /\ connected
    /\ cursor < Len(log)
    /\ cursor' \in {cursor, cursor + 1}
    /\ IF ~Recorded(cursor + 1) THEN UNCHANGED <<missed, shown>>
       ELSE IF IsReceived(log[cursor + 1].event)
         THEN shown' = Receive(shown, log[cursor + 1].event) /\ UNCHANGED missed
         ELSE missed' = missed \cup {cursor + 1} /\ UNCHANGED shown
    /\ UNCHANGED <<allVars, connected, registered>>

(* The next item is broadcast.  The receivers take RecordedEvents only, and *)
(* each drops the events that are not of its type.                          *)
Poll ==
    /\ connected
    /\ cursor < Len(log)
    /\ cursor' = cursor + 1
    /\ IF ~Recorded(cursor + 1) THEN UNCHANGED <<missed, shown>>
       ELSE IF IsReceived(log[cursor + 1].event)
         THEN shown' = Receive(shown, log[cursor + 1].event) /\ UNCHANGED missed
         ELSE missed' = missed \cup {cursor + 1} /\ UNCHANGED shown
    /\ UNCHANGED <<allVars, connected, registered>>

(* A MoveNext that meets the item being stored passes it for good.          *)
PollTooEarly ==
    /\ connected
    /\ cursor = Len(log)
    /\ Len(log') > Len(log)
    /\ cursor' = cursor + 1
    /\ missed' = missed \cup {cursor + 1}
    /\ UNCHANGED <<connected, registered, shown>>

Loop == LoopStep /\ UNCHANGED appVars /\ (UNCHANGED rmVars \/ PollTooEarly)

(* The controllers serve requests once the host has started. *)
Send(r, c) == Ready /\ SendAsync(r, c) /\ UNCHANGED rmVars

Handle(r) == HandlerStep(r) /\ UNCHANGED rmVars

GiveUp(r) == TimeOut(r) /\ UNCHANGED rmVars
-----------------------------------------------------------------------------
(* What the program does by itself: the host starts, the thread pool        *)
(* resumes the loops and the handlers, and the poller's and senders' timers *)
(* end.                                                                     *)
Progress ==
    \/ Start \/ Connect \/ SubscribeToStream
    \/ Loop
    \/ Poll
    \/ \E r \in Requests \ {Earlier} : Handle(r) \/ GiveUp(r)

RmNext ==
    \/ Progress
    \/ \E r \in Requests \ {Earlier}, c \in Commands : Send(r, c)
    \/ Close

RmSpec == RmInit /\ [][RmNext]_appAndRmVars

(* Each thread and timer goes on; with finitely many sends it is enough     *)
(* that some of them does.                                                  *)
RmFairSpec == RmSpec /\ WF_appAndRmVars(Progress)
-----------------------------------------------------------------------------
(* Type correctness. *)
RmTypeOK ==
    /\ AppTypeOK
    /\ connected \in BOOLEAN
    /\ registered \in 0..Len(Receivers)
    /\ cursor \in 0..Len(log)
    /\ missed \subseteq 1..Len(log)
    /\ shown \in Seq([id : Guid, by : Requests, enabled : BOOLEAN])

(* The items of a subscription the poller has passed. *)
SeenOf(id) == {i \in EventsOf(CreateStreamId(id)) : i <= cursor}

RowsOf(id) == {n \in 1..Len(shown) : shown[n].id = id}

(* Of a subscription none of whose events it missed, the read model shows   *)
(* what the aggregate would be, restored from the same events: no row, or   *)
(* one, of the same creator and enabled like it.                            *)
ShownIsRestored ==
    \A id \in Guid :
        SeenOf(id) \cap missed = {} =>
            LET seen == SeenOf(id) IN
            IF HasId(seen) /\ ~HasBeenRemoved(seen)
              THEN /\ Cardinality(RowsOf(id)) = 1
                   /\ \A n \in RowsOf(id) :
                          /\ shown[n].enabled = IsEnabled(seen)
                          /\ \E i \in seen : log[i].event.by = shown[n].by
              ELSE RowsOf(id) = {}

(* Whatever it missed, the read model shows no subscription that the store  *)
(* does not hold, none twice, and none enabled that is not.                 *)
ShownIsStored ==
    \A id \in Guid :
        /\ Cardinality(RowsOf(id)) <= 1
        /\ \A n \in RowsOf(id) : /\ HasId(SeenOf(id))
                                 /\ shown[n].enabled => IsEnabled(SeenOf(id))

(* A subscriber told ok sees its subscription, or that of the request that  *)
(* came first, unless the application is closed or the read model missed    *)
(* an event of it.                                                          *)
SubscriberIsShown ==
    \A r \in Requests \ {Earlier}, id \in Guid :
        /\ sent[r] # NoCommand /\ sent[r].kind = "Subscribe" /\ sent[r].id = id
        /\ answer[r].status = "ok"
        ~> \/ \E n \in RowsOf(id) : shown[n].enabled
           \/ SeenOf(id) \cap missed # {}
           \/ disposed
=============================================================================
