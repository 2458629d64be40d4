--------------------------- MODULE MCEventStream ---------------------------
(* A small instance of EventStream for TLC. *)
EXTENDS EventStream, TLC

CONSTANTS t, x, o, e1, e2

Root  == [tenant |-> t, hierarchy |-> <<>>,  object |-> o]
Child == [tenant |-> t, hierarchy |-> <<x>>, object |-> o]   \* Root == Child, not Child == Root

MCIds == {Root, Child}

MakeCall(stream, expected, events) ==
    [stream |-> stream, expected |-> expected, events |-> events]

(* Every expected version, on one stream, with new, repeated and no events. *)
OneStreamCalls ==
    {MakeCall(Root, v, <<e>>) : v \in {AnyVersion, NoStream, StreamExists, 1, 2}, e \in {e1, e2}}
    \cup {MakeCall(Root, v, <<e1, e2>>) : v \in {NoStream, 1, 2}}
    \cup {MakeCall(Root, AnyVersion, <<e1, e1>>), MakeCall(Root, NoStream, <<>>)}

(* The same event in two streams of which one id covers the other. *)
TwoStreamCalls ==
    {MakeCall(s, v, <<e1>>) : s \in MCIds, v \in {AnyVersion, 1}}
    \cup {MakeCall(Child, v, <<e2>>) : v \in {NoStream, StreamExists, 2}}

SafetyCalls == OneStreamCalls \cup TwoStreamCalls

LiveCalls ==
    {MakeCall(Root, v, <<e1>>) : v \in {AnyVersion, NoStream, 1}}
    \cup {MakeCall(Child, StreamExists, <<e2>>)}

Symmetry == Permutations(Requests)
=============================================================================
