-------------------------- MODULE MCSubscriptions --------------------------
(* Two subscriptions, one to every item and one whose filter passes the     *)
(* second item only; two items; up to two polling loops, of one poller when *)
(* Connect is called twice, of two when the client reconnects.              *)
EXTENDS Subscriptions

CONSTANTS all, second

TheSubs == {all, second}

TheLeavers == {all}

TheSelected == [s \in TheSubs |-> IF s = all THEN 1..MaxItems ELSE {2}]
=============================================================================
