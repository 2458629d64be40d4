---------------------------- MODULE MCReadModel ----------------------------
(* Two sends in a run whose store is empty or holds a subscription.         *)
EXTENDS MCRepository, ReadModel

StoredItem(kind, event, at) ==
    [kind |-> kind, stream |-> CreateStreamId(g1), event |-> event, position |-> at,
     by |-> Earlier]

StoredEvent(kind) == [kind |-> kind, id |-> g1, by |-> Earlier]

StoredSubscription ==
    <<StoredItem("created", NoEvent, 1),
      StoredItem("recorded", StoredEvent("Subscribed"), 2),
      StoredItem("recorded", StoredEvent("Enabled"), 3)>>

TheStored == {<<>>, StoredSubscription}
=============================================================================
