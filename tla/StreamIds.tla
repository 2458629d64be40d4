----------------------------- MODULE StreamIds -----------------------------
(***************************************************************************)
(* Stream identifiers and stream keys, and the equalities the store        *)
(* compares them with (StreamId.cs, StreamKey.cs).                          *)
(*                                                                         *)
(* A StreamId is a tenant, a hierarchy of categories and an object; a       *)
(* StreamKey is a sequence of categories, used as a pattern.  Neither       *)
(* equality is symmetric: the left operand is the pattern, and it covers    *)
(* the right one when it is a prefix of it, "*" standing for any category.  *)
(***************************************************************************)
EXTENDS Naturals, Sequences

CONSTANTS
    Categories,   \* the plain strings that name tenants, categories, objects
    Wildcard      \* the string "*"

ASSUME WildcardAssumption == Wildcard \notin Categories

Name == Categories \cup {Wildcard}

StreamId  == [tenant : Name, hierarchy : Seq(Name), object : Name]
StreamKey == Seq(Name)

(* The loop both Equals methods run over their category arrays. *)
Covers(pattern, path) ==
    /\ Len(pattern) <= Len(path)
    /\ \A i \in 1..Len(pattern) : pattern[i] \in {Wildcard, path[i]}

(* id == other, for two StreamIds: tenant and object are compared as plain  *)
(* strings, and only the hierarchy of the left operand is a pattern.        *)
IdEquals(id, other) ==
    /\ id.tenant = other.tenant
    /\ id.object = other.object
    /\ Covers(id.hierarchy, other.hierarchy)

(* key == other, for two distinct StreamKey objects: an empty key (NULL)    *)
(* equals nothing.                                                          *)
KeyEquals(key, other) == key # <<>> /\ Covers(key, other)

(* The implicit conversion of a StreamId to a StreamKey. *)
ToKey(id) == <<id.tenant>> \o id.hierarchy \o <<id.object>>

(* key == id *)
KeyEqualsId(key, id) == KeyEquals(key, ToKey(id))

All == <<Wildcard>>

(* StreamKey.GetAncestors: every proper, non-empty prefix, the top first. *)
GetAncestors(key) == [i \in 1..(Len(key) - 1) |-> SubSeq(key, 1, i)]
=============================================================================
