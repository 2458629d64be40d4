---------------------------- MODULE Repository ----------------------------
(***************************************************************************)
(* Commands against stored aggregates, on top of the writer: SendAsync of   *)
(* AsyncDispatcher.cs, the handlers of Subscription.Service.cs, the         *)
(* Subscription aggregate of AggregateRoot.cs, and StreamStoreRepository.cs *)
(* which loads an aggregate from its stream and saves its changes to it.    *)
(*                                                                         *)
(* Each request of EventStream is one send: its handler appends at most     *)
(* once.  Handlers run concurrently with each other and with the loop, item *)
(* by item.  A sender may give a timeout; when it passes, the sender is     *)
(* told so and its handler goes on.  A retry is a further send.             *)
(*                                                                         *)
(* Reading a stream is one step here: StreamReads shows that an enumeration *)
(* returns what the stream held at one moment of it.                        *)
(***************************************************************************)
EXTENDS EventStream

CONSTANTS
    Guid,        \* the ids of subscriptions
    GuidEmpty,   \* Guid.Empty
    Tenant, Namespace,    \* of the stream ids of the aggregate's type
    Commands,    \* the commands sent
    NoCommand

(* The messages of Subscription.Events.cs. *)
Kinds == {"Subscribed", "Enabled", "Disabled", "Removed"}

ASSUME RepositoryAssumption ==
    /\ GuidEmpty \notin Guid
    /\ Tenant \in Name /\ Namespace \in Seq(Name)
    /\ EventIds = [kind : Kinds, id : Guid \cup {GuidEmpty}, by : Requests]
    /\ Commands \subseteq [kind : {"Subscribe", "Enable", "Disable", "Remove"}, id : Guid,
                           timed : BOOLEAN]
    /\ NoCommand \notin Commands

VARIABLES
    sent,        \* the command of each send, NoCommand before it
    handler,     \* where its handler is
    loaded,      \* the events the handler restored its aggregate from
    told         \* what the sender was told

appVars == <<sent, handler, loaded, told>>
allVars == <<vars, appVars>>

NoneSent ==
    /\ sent = [r \in Requests |-> NoCommand]
    /\ handler = [r \in Requests |-> "idle"]
    /\ loaded = [r \in Requests |-> {}]
    /\ told = [r \in Requests |-> "waiting"]

AppInit == Init /\ NoneSent
-----------------------------------------------------------------------------
(* The Subscription aggregate, given the items of the log that its events   *)
(* were restored from.                                                      *)

Kind(i) == log[i].event.kind

Has(events, kind) == \E i \in events : Kind(i) = kind

(* Id # Guid.Empty *)
HasId(events) == Has(events, "Subscribed")

(* _isEnabled *)
IsEnabled(events) ==
    \E i \in events :
        /\ Kind(i) = "Enabled"
        /\ \A j \in events : j > i => Kind(j) \notin {"Disabled", "Removed"}

(* _hasBeenRemoved *)
HasBeenRemoved(events) == Has(events, "Removed")

(* AggregateRoot.Version after RestoreFromMessages *)
Version(events) == Cardinality(events) - 1

(* What Disable and Remove raise. *)
Raised(kind, events) ==
    IF kind = "Disable" /\ IsEnabled(events) THEN <<"Disabled">>
    ELSE IF kind = "Remove" /\ ~HasBeenRemoved(events) THEN <<"Removed">>
    ELSE <<>>
-----------------------------------------------------------------------------
(* The sender. *)

(* The dispatcher finds the handler the service registered for the command. *)
SendAsync(r, c) ==
    /\ pc # "notStarted"
    /\ sent[r] = NoCommand
    /\ sent' = [sent EXCEPT ![r] = c]
    /\ handler' = [handler EXCEPT ![r] = "running"]
    /\ UNCHANGED <<vars, loaded, told>>

NeverTimesOut(r) ==                  \* mutant: SendAsync drops its timeout
    FALSE /\ UNCHANGED allVars

(* WithTimeout throws TimeoutException, and leaves the handler alone. *)
TimeOut(r) ==
    /\ sent[r] # NoCommand
    /\ sent[r].timed
    /\ told[r] = "waiting"
    /\ told' = [told EXCEPT ![r] = "timedOut"]
    /\ UNCHANGED <<vars, sent, handler, loaded>>

(* The handler's task completes.  HandleAsync awaits it and so hears what   *)
(* it threw; WithTimeout only compares it with the delay.                   *)
Finish(r, how) ==
    /\ handler' = [handler EXCEPT ![r] = how]
    /\ told' = IF told[r] # "waiting" THEN told
               ELSE [told EXCEPT ![r] =
                        IF how = "threw" /\ ~sent[r].timed THEN "failed" ELSE "ok"]
    /\ UNCHANGED sent
-----------------------------------------------------------------------------
(* StreamStoreRepository. *)

CreateStreamId(id) == [tenant |-> Tenant, hierarchy |-> Namespace, object |-> id]

(* Serialize: every event gets a new EventId. *)
Serialize(r, id, kinds) ==
    [i \in 1..Len(kinds) |-> [kind |-> kinds[i], id |-> id, by |-> r]]

ExpectAny(version) == AnyVersion     \* mutant: a save names no version

(* aggregate.Version == -1 ? ExpectedVersion.NoStream : aggregate.Version   *)
Expected(version) == IF version = -1 THEN NoStream ELSE version

(* The part of Save before its await.  Calls holds every call a handler     *)
(* makes, or bounds the versions of an instance.                            *)
Save(r, id, version, kinds) ==
    /\ \E call \in Calls :
          /\ call = [stream |-> CreateStreamId(id), expected |-> Expected(version),
                     events |-> Serialize(r, id, kinds)]
          /\ AppendAsync(r, call)
    /\ handler' = [handler EXCEPT ![r] = "saving"]

SaveForgets(r) ==                    \* mutant: the append is not awaited
    /\ handler[r] = "saving"
    /\ Finish(r, "returned")
    /\ UNCHANGED <<vars, loaded>>

(* The rest of Save: it reads no result, and turns an exception into FALSE, *)
(* which the handlers of the service do not read either.                    *)
SaveReturns(r) ==
    /\ handler[r] = "saving"
    /\ answer[r] # Pending
    /\ Finish(r, "returned")
    /\ UNCHANGED <<vars, loaded>>

(* What ReadStreamAsync(stream) is given. *)
EventsOf(stream) ==
    {i \in 1..Len(log) : Recorded(i) /\ IdEquals(stream, log[i].stream)}

HasItems(stream) == \E i \in 1..Len(log) : IdEquals(stream, log[i].stream)

(* The stream has an item, maybe only its StreamCreated. *)
TryGetById(r) ==
    /\ handler[r] = "running"
    /\ sent[r].kind # "Subscribe"
    /\ HasItems(CreateStreamId(sent[r].id))
    /\ loaded' = [loaded EXCEPT ![r] = EventsOf(CreateStreamId(sent[r].id))]
    /\ handler' = [handler EXCEPT ![r] = "loaded"]
    /\ UNCHANGED <<vars, sent, told>>

(* A reader of the store throws, and TryGetById rethrows. *)
ReadThrows(r) ==
    /\ r \in Faulty
    /\ handler[r] = "running"
    /\ sent[r].kind # "Subscribe"
    /\ Finish(r, "threw")
    /\ UNCHANGED <<vars, loaded>>

(* AggregateNotFoundException *)
NotFound(r) ==
    /\ handler[r] = "running"
    /\ sent[r].kind # "Subscribe"
    /\ ~HasItems(CreateStreamId(sent[r].id))
    /\ Finish(r, "threw")
    /\ UNCHANGED <<vars, loaded>>
-----------------------------------------------------------------------------
(* SubscriptionService. *)

(* new Subscription(...) raises both events. *)
HandleSubscribe(r) ==
    /\ handler[r] = "running"
    /\ sent[r].kind = "Subscribe"
    /\ Save(r, sent[r].id, -1, <<"Subscribed", "Enabled">>)
    /\ UNCHANGED <<sent, loaded, told>>

(* Enable changes the aggregate, and does not save it. *)
HandleEnable(r) ==
    /\ handler[r] = "loaded"
    /\ sent[r].kind = "Enable"
    /\ Finish(r, "returned")
    /\ UNCHANGED <<vars, loaded>>

HandleChange(r) ==
    /\ handler[r] = "loaded"
    /\ sent[r].kind \in {"Disable", "Remove"}
    /\ HasId(loaded[r])
    /\ Save(r, sent[r].id, Version(loaded[r]), Raised(sent[r].kind, loaded[r]))
    /\ UNCHANGED <<sent, loaded, told>>

(* An aggregate restored before its first event has no Id: TakeMessages     *)
(* throws, and Save returns FALSE.                                          *)
HandleUninitialized(r) ==
    /\ handler[r] = "loaded"
    /\ sent[r].kind \in {"Disable", "Remove"}
    /\ ~HasId(loaded[r])
    /\ Finish(r, "returned")
    /\ UNCHANGED <<vars, loaded>>
-----------------------------------------------------------------------------
HandlerStep(r) ==
    \/ HandleSubscribe(r)
    \/ TryGetById(r) \/ NotFound(r) \/ ReadThrows(r)
    \/ HandleEnable(r) \/ HandleChange(r) \/ HandleUninitialized(r)
    \/ SaveReturns(r)

StoreStep == (StartAsync \/ Dispose \/ LoopStep) /\ UNCHANGED appVars

AppNext ==
    \/ StoreStep
    \/ \E r \in Requests :
          \/ \E c \in Commands : SendAsync(r, c)
          \/ HandlerStep(r)
          \/ TimeOut(r)

AppSpec == AppInit /\ [][AppNext]_allVars
-----------------------------------------------------------------------------
(* Type correctness. *)
AppTypeOK ==
    /\ TypeOK
    /\ sent \in [Requests -> Commands \cup {NoCommand}]
    /\ handler \in [Requests -> {"idle", "running", "loaded", "saving", "returned", "threw"}]
    /\ loaded \in [Requests -> SUBSET (1..Len(log))]
    /\ told \in [Requests -> {"waiting", "ok", "failed", "timedOut"}]

(* However many Subscribe commands race, time out and are sent again, and   *)
(* whatever is loaded half saved: a stream begins with its creation, which  *)
(* is recorded in no other place.                                           *)
StreamBeginsWithCreation ==
    \A i \in 1..Len(log) :
        Recorded(i) => ( log[i].event.kind = "Subscribed"
                         <=> ~\E j \in 1..(i - 1) : /\ Recorded(j)
                                                    /\ IdEquals(log[j].stream, log[i].stream) )

(* A sender told that its Subscribe was handled will find the subscription  *)
(* whole, its own or the one of the request that came first, unless the     *)
(* store threw or was disposed: those results are not passed on.            *)
AnsweredSubscribeIsWhole ==
    \A r \in Requests :
        /\ sent[r] # NoCommand /\ sent[r].kind = "Subscribe"
        /\ told[r] = "ok"
        /\ answer[r].status \notin {"threw", "closed"}
        => LET events == EventsOf(CreateStreamId(sent[r].id))
           IN  Has(events, "Subscribed") /\ Has(events, "Enabled")

(* A sender hears something and its handler ends, also one it no longer     *)
(* waits for.  When the store is disposed, or never answers, the handler    *)
(* may wait for good, and with it a sender that gave no timeout.            *)
EverySendEnds ==
    \A r \in Requests :
        sent[r] # NoCommand
          ~> \/ told[r] # "waiting" /\ handler[r] \in {"returned", "threw"}
             \/ /\ sent[r] # NoCommand
                /\ disposed \/ r \in Faulty
                /\ sent[r].timed => told[r] # "waiting"
=============================================================================
