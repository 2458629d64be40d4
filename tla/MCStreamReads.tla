--------------------------- MODULE MCStreamReads ---------------------------
(* Two appends of up to four items in all, to two streams one of whose ids  *)
(* covers the other; one read, by either id, by a third that no item has,   *)
(* or by a key, from the start or from revision 1.                          *)
EXTENDS StreamReads

CONSTANTS r1, r2, e1, c1, tenant, account, object

Top  == [tenant |-> tenant, hierarchy |-> <<>>, object |-> object]
Leaf == [tenant |-> tenant, hierarchy |-> <<account>>, object |-> object]
None == [tenant |-> tenant, hierarchy |-> <<account, account>>, object |-> object]

TheCategories == {tenant, account, object}
TheRequests   == {r1, r2}
TheReads      == {c1}
TheIds        == {Top, Leaf}
TheEventIds   == {e1}

TheQueries ==
    [by : {"id"}, target : {Top, Leaf, None}, revision : {0, 1}]
    \cup [by : {"key"}, target : {<<tenant>>, <<tenant, Wildcard>>, ToKey(Leaf)},
          revision : {0, 1}]
=============================================================================
