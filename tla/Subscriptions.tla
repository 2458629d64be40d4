--------------------------- MODULE Subscriptions ---------------------------
(***************************************************************************)
(* How the store's items reach subscribers: EmbeddedEventStreamClient.cs,   *)
(* EventStreamPoller.cs and AsyncDispatcher.cs.                             *)
(*                                                                         *)
(* Connect makes a poller, unless there is one, and starts a polling loop.  *)
(* A loop asks the poller's reader for the next item, hands it to the       *)
(* dispatcher's channel and awaits its broadcast.  The dispatcher's loop    *)
(* takes one message at a time and walks the list of receivers by index,    *)
(* awaiting each.  Meanwhile clients subscribe, dispose their subscriptions *)
(* and disconnect, which changes that list and the poller's bag.            *)
(*                                                                         *)
(* A MoveNext of the reader is one step here (PagedList has its parts), and *)
(* so is an Add to or a Remove from the unsynchronised list of receivers.   *)
(***************************************************************************)
EXTENDS Integers, Sequences, FiniteSets, SequencesExt

CONSTANTS
    Subs,        \* the subscriptions clients make, each with its own handler
    Leavers,     \* those whose owner may dispose them
    Selected,    \* the items each one's filter lets through
    MaxItems,    \* a bound on the items appended
    MaxLoops     \* a bound on the calls of Connect

ASSUME SubscriptionsAssumption ==
    /\ MaxItems \in Nat
    /\ MaxLoops \in Nat
    /\ Leavers \subseteq Subs
    /\ 0 \notin Subs                        \* no receiver
    /\ Selected \in [Subs -> SUBSET (1..MaxItems)]

VARIABLES
    items,       \* how many items the store holds
    connected,   \* _isConnected
    watcher,     \* _watcher, an index of pollers; 0 is null
    closing,     \* the subscriptions Disconnect has yet to dispose
    pollers,     \* each poller's reader and its _subscriptions
    loops,       \* the polling loops started
    queue,       \* _enqueueForBroadcast, of the loops that await their message
    receivers,   \* _receivers
    dispatch,    \* the dispatcher's loop: where it is, for which loop, at which index
    sub,         \* where each subscription is in its life
    got,         \* what each handler was given, and by which loop
    shifted,     \* history: a receiver was removed during a broadcast
    raced        \* history: a bag changed while it was being replaced

clientVars == <<connected, watcher, closing>>
history    == <<shifted, raced>>
vars == <<items, clientVars, pollers, loops, queue, receivers, dispatch, sub, got, history>>

Idle == [pc |-> "waiting", loop |-> 0, idx |-> 0, to |-> 0]

Init ==
    /\ items = 0
    /\ connected = FALSE /\ watcher = 0 /\ closing = {}
    /\ pollers = <<>> /\ loops = <<>> /\ queue = <<>> /\ receivers = <<>>
    /\ dispatch = Idle
    /\ sub = [s \in Subs |-> [pc |-> "none", poller |-> 0, rest |-> {}]]
    /\ got = [s \in Subs |-> <<>>]
    /\ shifted = FALSE
    /\ raced = FALSE
-----------------------------------------------------------------------------
(* The store. *)

StoreItem ==
    /\ items < MaxItems
    /\ items' = items + 1
    /\ UNCHANGED <<clientVars, pollers, loops, queue, receivers, dispatch, sub, got, history>>
-----------------------------------------------------------------------------
(* The client. *)

Registered(s) == s \in ToSet(receivers)

(* OnDisposal: _receivers.Remove. *)
Unregister(s) ==
    /\ receivers' = IF Registered(s)
                      THEN RemoveAt(receivers, CHOOSE i \in DOMAIN receivers : receivers[i] = s)
                      ELSE receivers
    /\ shifted' = (shifted \/ (Registered(s) /\ dispatch.pc # "waiting"))

Connect ==
    /\ closing = {}
    /\ Len(loops) < MaxLoops
    /\ IF watcher = 0
         THEN /\ pollers' = Append(pollers, [cursor |-> 0, bag |-> {}])
              /\ watcher' = Len(pollers) + 1
         ELSE UNCHANGED <<pollers, watcher>>
    /\ loops' = Append(loops, [poller |-> watcher', pc |-> "polling", msg |-> 0])
    /\ connected' = TRUE
    /\ UNCHANGED <<items, closing, queue, receivers, dispatch, sub, got, history>>

DisconnectStaysConnected ==          \* mutant: the client still counts as connected
    /\ connected
    /\ closing' = pollers[watcher].bag
    /\ watcher' = 0
    /\ UNCHANGED <<items, connected, pollers, loops, queue, receivers, dispatch, sub, got, history>>

(* Disconnect disposes the poller, subscription by subscription, and drops  *)
(* it; the poller's loops go on.                                            *)
Disconnect ==
    /\ connected
    /\ connected' = FALSE
    /\ closing' = pollers[watcher].bag
    /\ watcher' = 0
    /\ UNCHANGED <<items, pollers, loops, queue, receivers, dispatch, sub, got, history>>

DisposeNext(s) ==
    /\ s \in closing
    /\ closing' = closing \ {s}
    /\ Unregister(s)
    /\ UNCHANGED <<items, connected, watcher, pollers, loops, queue, dispatch, sub, got,
                   raced>>

SubscribeToStream(s) ==
    /\ connected
    /\ sub[s].pc = "none"
    /\ receivers' = Append(receivers, s)
    /\ sub' = [sub EXCEPT ![s] = [@ EXCEPT !.pc = "registered", !.poller = watcher]]
    /\ UNCHANGED <<items, clientVars, pollers, loops, queue, dispatch, got, history>>

AddToBag(s) ==
    /\ sub[s].pc = "registered"
    /\ pollers' = [pollers EXCEPT ![sub[s].poller].bag = @ \cup {s}]
    /\ sub' = [sub EXCEPT ![s].pc = "subscribed"]
    /\ UNCHANGED <<items, clientVars, loops, queue, receivers, dispatch, got, history>>

UnsubscribeFromBagOnly(s) ==         \* mutant: the receiver stays with the dispatcher
    /\ s \in Leavers
    /\ sub[s].pc = "subscribed"
    /\ sub' = [sub EXCEPT ![s].pc = "removed"]
    /\ UNCHANGED <<items, clientVars, pollers, loops, queue, receivers, dispatch, got, history>>

(* The Disposer SubscribeToStream returns: remove the receiver, ...         *)
Unsubscribe(s) ==
    /\ s \in Leavers
    /\ sub[s].pc = "subscribed"
    /\ Unregister(s)
    /\ sub' = [sub EXCEPT ![s].pc = "removed"]
    /\ UNCHANGED <<items, clientVars, pollers, loops, queue, dispatch, got, raced>>

(* ... compute the other subscriptions, ...                                 *)
Except(s) ==
    /\ sub[s].pc = "removed"
    /\ sub' = [sub EXCEPT ![s] = [@ EXCEPT !.pc = "excepted",
                                           !.rest = pollers[sub[s].poller].bag \ {s}]]
    /\ UNCHANGED <<items, clientVars, pollers, loops, queue, receivers, dispatch, got, history>>

ExchangeForEmpty(s) ==               \* mutant: the bag is emptied
    /\ sub[s].pc = "excepted"
    /\ pollers' = [pollers EXCEPT ![sub[s].poller].bag = {}]
    /\ raced' = (raced \/ sub[s].rest # pollers[sub[s].poller].bag \ {s})
    /\ sub' = [sub EXCEPT ![s] = [@ EXCEPT !.pc = "disposed", !.rest = {}]]
    /\ UNCHANGED <<items, clientVars, loops, queue, receivers, dispatch, got, shifted>>

(* ... and put a bag of them in the place of the old one.                   *)
Exchange(s) ==
    /\ sub[s].pc = "excepted"
    /\ pollers' = [pollers EXCEPT ![sub[s].poller].bag = sub[s].rest]
    /\ raced' = (raced \/ sub[s].rest # pollers[sub[s].poller].bag \ {s})
    /\ sub' = [sub EXCEPT ![s] = [@ EXCEPT !.pc = "disposed", !.rest = {}]]
    /\ UNCHANGED <<items, clientVars, loops, queue, receivers, dispatch, got, shifted>>
-----------------------------------------------------------------------------
(* The polling loops. *)

Cursor(l) == pollers[loops[l].poller].cursor

Step(l) == pollers' = [pollers EXCEPT ![loops[l].poller].cursor = @ + 1]

PollWithoutStep(l) ==                \* mutant: the reader is not advanced
    /\ loops[l].pc = "polling"
    /\ Cursor(l) < items
    /\ loops' = [loops EXCEPT ![l] = [@ EXCEPT !.pc = "sending", !.msg = Cursor(l) + 1]]
    /\ UNCHANGED <<items, clientVars, pollers, queue, receivers, dispatch, sub, got, history>>

(* MoveNext yields the next item. *)
Poll(l) ==
    /\ loops[l].pc = "polling"
    /\ Cursor(l) < items
    /\ Step(l)
    /\ loops' = [loops EXCEPT ![l] = [@ EXCEPT !.pc = "sending", !.msg = Cursor(l) + 1]]
    /\ UNCHANGED <<items, clientVars, queue, receivers, dispatch, sub, got, history>>

(* MoveNext reads the slot of an item that List.Add is storing and passes   *)
(* it for good.                                                             *)
PollTooEarly(l) ==
    /\ loops[l].pc = "polling"
    /\ Cursor(l) = items
    /\ items < MaxItems
    /\ items' = items + 1
    /\ Step(l)
    /\ UNCHANGED <<clientVars, loops, queue, receivers, dispatch, sub, got, history>>

BroadcastAsync(l) ==
    /\ loops[l].pc = "sending"
    /\ queue' = Append(queue, l)
    /\ loops' = [loops EXCEPT ![l].pc = "awaiting"]
    /\ UNCHANGED <<items, clientVars, pollers, receivers, dispatch, sub, got, history>>

PollerLoop(l) == Poll(l) \/ BroadcastAsync(l)
-----------------------------------------------------------------------------
(* The dispatcher's loop, BroadcastMessages. *)

TakeMessage ==
    /\ dispatch.pc = "waiting"
    /\ queue # <<>>
    /\ dispatch' = [pc |-> "testing", loop |-> Head(queue), idx |-> 1, to |-> 0]
    /\ queue' = Tail(queue)
    /\ UNCHANGED <<items, clientVars, pollers, loops, receivers, sub, got, history>>

FetchSecondFirst ==                  \* mutant: the walk begins at the second receiver
    /\ dispatch.pc = "testing"
    /\ dispatch.idx < Len(receivers)
    /\ dispatch' = [dispatch EXCEPT !.pc = "receiving", !.to = receivers[dispatch.idx + 1]]
    /\ UNCHANGED <<items, clientVars, pollers, loops, queue, receivers, sub, got, history>>

(* _receivers[idx], while idx < _receivers.Count *)
FetchReceiver ==
    /\ dispatch.pc = "testing"
    /\ dispatch.idx <= Len(receivers)
    /\ dispatch' = [dispatch EXCEPT !.pc = "receiving", !.to = receivers[dispatch.idx]]
    /\ UNCHANGED <<items, clientVars, pollers, loops, queue, receivers, sub, got, history>>

(* The filtered receiver is awaited; what it throws is caught and logged.   *)
Receive ==
    /\ dispatch.pc = "receiving"
    /\ LET msg == loops[dispatch.loop].msg IN
       got' = IF msg \in Selected[dispatch.to]
                THEN [got EXCEPT ![dispatch.to] = Append(@, [loop |-> dispatch.loop, item |-> msg])]
                ELSE got
    /\ dispatch' = [dispatch EXCEPT !.pc = "testing", !.to = 0, !.idx = @ + 1]
    /\ UNCHANGED <<items, clientVars, pollers, loops, queue, receivers, sub, history>>

(* The broadcast is over, and the polling loop goes on. *)
SetResult ==
    /\ dispatch.pc = "testing"
    /\ dispatch.idx > Len(receivers)
    /\ loops' = [loops EXCEPT ![dispatch.loop] = [@ EXCEPT !.pc = "polling", !.msg = 0]]
    /\ dispatch' = Idle
    /\ UNCHANGED <<items, clientVars, pollers, queue, receivers, sub, got, history>>

BroadcastMessages == TakeMessage \/ FetchReceiver \/ Receive \/ SetResult
-----------------------------------------------------------------------------
Next ==
    \/ StoreItem
    \/ Connect \/ Disconnect
    \/ \E s \in Subs :
          \/ DisposeNext(s)
          \/ SubscribeToStream(s) \/ AddToBag(s)
          \/ Unsubscribe(s) \/ Except(s) \/ Exchange(s)
    \/ \E l \in DOMAIN loops : PollerLoop(l) \/ PollTooEarly(l)
    \/ BroadcastMessages

Spec == Init /\ [][Next]_vars

(* The loops are resumed by the thread pool and by their timer; the thread  *)
(* that disposes the poller goes through its bag.                           *)
FairSpec ==
    /\ Spec
    /\ WF_vars(BroadcastMessages)
    /\ WF_vars(\E s \in Subs : DisposeNext(s))
    /\ \A l \in 1..MaxLoops : WF_vars(l \in DOMAIN loops /\ PollerLoop(l))
-----------------------------------------------------------------------------
(* Type correctness. *)
TypeOK ==
    /\ items \in 0..MaxItems
    /\ connected \in BOOLEAN
    /\ watcher \in 0..Len(pollers)
    /\ connected => watcher # 0
    /\ closing \subseteq Subs
    /\ pollers \in Seq([cursor : 0..MaxItems, bag : SUBSET Subs])
    /\ loops \in Seq([poller : 1..Len(pollers), pc : {"polling", "sending", "awaiting"},
                      msg : 0..MaxItems])
    /\ queue \in Seq(1..Len(loops))
    /\ Len(queue) <= Len(loops)
    /\ receivers \in Seq(Subs)
    /\ dispatch \in [pc : {"waiting", "testing", "receiving"}, loop : 0..Len(loops),
                     idx : Nat, to : Subs \cup {0}]
    /\ sub \in [Subs -> [pc : {"none", "registered", "subscribed", "removed", "excepted", "disposed"},
                         poller : 0..Len(pollers), rest : SUBSET Subs]]
    /\ got \in [Subs -> Seq([loop : 1..Len(loops), item : 1..MaxItems])]

(* What one polling loop delivers to a handler is in the store's order, and *)
(* a poller delivers an item to it once, even when several loops share it.  *)
DeliveredInOrderOnce ==
    \A s \in Subs : \A i, j \in 1..Len(got[s]) : i < j =>
        /\ got[s][i].loop = got[s][j].loop => got[s][i].item < got[s][j].item
        /\ loops[got[s][i].loop].poller = loops[got[s][j].loop].poller
           => got[s][i].item # got[s][j].item

(* Once its disposal returned, a subscription is given at most the message  *)
(* the dispatcher had already fetched it for.                               *)
SilentOnceDisposed ==
    [][\A s \in Subs : sub[s].pc \in {"removed", "excepted", "disposed"} =>
           (dispatch'.to = s => dispatch.to = s)]_vars

(* A subscription that has been neither disposed nor closed is in its       *)
(* poller's bag, where Disconnect will find it, unless a disposal replaced  *)
(* the bag while it was being added.                                        *)
SubscribedIsTracked ==
    raced \/ \A s \in Subs : sub[s].pc = "subscribed" => s \in pollers[sub[s].poller].bag

(* An item of the store that some poller's reader has yet to come to. *)
Due(s, item) == /\ Registered(s) /\ item \in Selected[s] /\ item <= items
                /\ \E p \in DOMAIN pollers : pollers[p].cursor < item

Given(s, item) == \E i \in 1..Len(got[s]) : got[s][i].item = item

(* Every item the reader has yet to come to reaches a registered handler,   *)
(* unless it is disposed first, or another receiver was removed during a    *)
(* broadcast.                                                               *)
EveryItemReachesSubscriber ==
    \A s \in Subs, item \in 1..MaxItems :
        Due(s, item) ~> Given(s, item) \/ ~Registered(s) \/ shifted

(* What the test of disposing one of two subscriptions says: while the     *)
(* client stays connected, the other is still given the events.             *)
RemainingSubscriberIsServed ==
    \A s \in Subs, item \in 1..MaxItems :
        connected /\ Due(s, item) ~> Given(s, item) \/ ~Registered(s) \/ ~connected
=============================================================================
