---------------------------- MODULE MCRepository ----------------------------
(* A small instance of Repository for TLC. *)
EXTENDS Repository

CONSTANTS tenant, webhooks, g1, r1, r2, r3

TheCategories == {tenant, webhooks, g1, GuidEmpty}
TheNamespace  == <<webhooks>>
TheGuids      == {g1}
TheIds        == {CreateStreamId(id) : id \in {g1, GuidEmpty}}
TheEventIds   == [kind : Kinds, id : {g1, GuidEmpty}, by : Requests]

(* Every call of AppendAsync the handlers can make. *)
TheCalls ==
    {[stream |-> CreateStreamId(id), expected |-> v, events |-> Serialize(r, id, kinds)] :
        id \in {g1, GuidEmpty}, v \in -2..6, r \in Requests,
        kinds \in {<<"Subscribed", "Enabled">>, <<"Disabled">>, <<"Removed">>, <<>>}}

Command(kind, timed) == [kind |-> kind, id |-> g1, timed |-> timed]

TheCommands ==
    {Command(k, FALSE) : k \in {"Subscribe", "Enable", "Disable"}}
    \cup {Command(k, TRUE) : k \in {"Subscribe", "Remove"}}
=============================================================================
