-------------------------- MODULE StreamIdsProofs --------------------------
(* The equalities of StreamIds are preorders, for names of any kind. *)
EXTENDS StreamIds, SequenceTheorems, TLAPS

(* Covering is reflexive. *)
LEMMA CoversReflexive ==
    ASSUME NEW path \in Seq(Name)
    PROVE  Covers(path, path)
<1>1. Len(path) \in Nat
  BY LenProperties
<1> QED
  BY <1>1 DEF Covers

(* Covering is transitive: a wildcard on the left covers whatever the       *)
(* middle holds, and a plain name passes through.                           *)
LEMMA CoversTransitive ==
    ASSUME NEW x \in Seq(Name), NEW y \in Seq(Name), NEW z \in Seq(Name),
           Covers(x, y), Covers(y, z)
    PROVE  Covers(x, z)
<1>1. Len(x) \in Nat /\ Len(y) \in Nat /\ Len(z) \in Nat
  BY LenProperties
<1>2. Len(x) <= Len(z)
  BY <1>1 DEF Covers
<1>3. ASSUME NEW i \in 1..Len(x)
      PROVE  x[i] \in {Wildcard, z[i]}
  <2>1. i \in 1..Len(y)
    BY <1>1 DEF Covers
  <2>2. x[i] \in {Wildcard, y[i]} /\ y[i] \in {Wildcard, z[i]}
    BY <2>1 DEF Covers
  <2> QED
    BY <2>2
<1> QED
  BY <1>2, <1>3 DEF Covers

(* StreamId.Equals is reflexive and transitive (StreamId.cs:33-49).         *)
THEOREM IdEqualsPreorder ==
    ASSUME NEW a \in StreamId, NEW b \in StreamId, NEW c \in StreamId
    PROVE  /\ IdEquals(a, a)
           /\ IdEquals(a, b) /\ IdEquals(b, c) => IdEquals(a, c)
<1>1. a.hierarchy \in Seq(Name) /\ b.hierarchy \in Seq(Name) /\ c.hierarchy \in Seq(Name)
  BY DEF StreamId
<1> QED
  BY <1>1, CoversReflexive, CoversTransitive DEF IdEquals

(* StreamKey.Equals is transitive, and reflexive on all but the empty key   *)
(* (StreamKey.cs:39-59).                                                    *)
THEOREM KeyEqualsPreorder ==
    ASSUME NEW x \in StreamKey, NEW y \in StreamKey, NEW z \in StreamKey
    PROVE  /\ x # <<>> => KeyEquals(x, x)
           /\ KeyEquals(x, y) /\ KeyEquals(y, z) => KeyEquals(x, z)
  BY CoversReflexive, CoversTransitive DEF KeyEquals, StreamKey

(* A key selects whatever a longer key it covers selects: its ancestors     *)
(* select more, never less (StreamKey.cs:23-27).                            *)
THEOREM AncestorsCover ==
    ASSUME NEW key \in StreamKey, NEW id \in StreamId, KeyEqualsId(key, id),
           NEW i \in 1..(Len(key) - 1)
    PROVE  KeyEqualsId(GetAncestors(key)[i], id)
<1>1. Len(key) \in Nat
  BY LenProperties DEF StreamKey
<1>2. GetAncestors(key)[i] = SubSeq(key, 1, i)
  BY DEF GetAncestors
<1>3. /\ SubSeq(key, 1, i) \in Seq(Name)
      /\ Len(SubSeq(key, 1, i)) = i
      /\ \A k \in 1..i : SubSeq(key, 1, i)[k] = key[k]
  BY <1>1, SubSeqProperties DEF StreamKey
<1>4. SubSeq(key, 1, i) # <<>>
  BY <1>1, <1>3, EmptySeq
<1>5. Len(ToKey(id)) \in Nat
  <2>1. ToKey(id) \in Seq(Name)
    BY ConcatProperties DEF ToKey, StreamId
  <2> QED
    BY <2>1, LenProperties
<1>6. Covers(SubSeq(key, 1, i), ToKey(id))
  BY <1>1, <1>3, <1>5 DEF KeyEqualsId, KeyEquals, Covers
<1> QED
  BY <1>2, <1>4, <1>6 DEF KeyEqualsId, KeyEquals

(* A StreamId as a key: the tenant, the hierarchy, the object.              *)
LEMMA ToKeyIsPath ==
    ASSUME NEW id \in StreamId
    PROVE  /\ ToKey(id) \in StreamKey
           /\ Len(ToKey(id)) = Len(id.hierarchy) + 2
           /\ ToKey(id)[1] = id.tenant
           /\ ToKey(id)[Len(id.hierarchy) + 2] = id.object
           /\ \A i \in 1..Len(id.hierarchy) : ToKey(id)[i + 1] = id.hierarchy[i]
<1> DEFINE h == id.hierarchy
           top == <<id.tenant>> \o h
<1>1. h \in Seq(Name) /\ id.tenant \in Name /\ id.object \in Name
  BY DEF StreamId
<1>2. Len(h) \in Nat
  BY <1>1, LenProperties
<1>3. <<id.tenant>> \in Seq(Name) /\ <<id.object>> \in Seq(Name)
  BY <1>1
<1>4. /\ top \in Seq(Name)
      /\ Len(top) = Len(h) + 1
      /\ top[1] = id.tenant
      /\ \A i \in 1..Len(h) : top[i + 1] = h[i]
  BY <1>1, <1>2, <1>3, ConcatProperties
<1> HIDE DEF top
<1>5. ToKey(id) = top \o <<id.object>>
  BY DEF ToKey, top
<1> QED
  BY <1>2, <1>3, <1>4, <1>5, ConcatProperties DEF StreamKey

(* The key of an id covers those of the ids of the same depth it equals.    *)
LEMMA KeyOfCovered ==
    ASSUME NEW a \in StreamId, NEW b \in StreamId,
           Len(a.hierarchy) = Len(b.hierarchy), IdEquals(a, b)
    PROVE  Covers(ToKey(a), ToKey(b))
<1> DEFINE h == a.hierarchy
           g == b.hierarchy
<1>1. Len(h) \in Nat /\ Len(g) = Len(h)
  BY LenProperties DEF StreamId
<1>2. Len(ToKey(a)) = Len(h) + 2 /\ Len(ToKey(b)) = Len(h) + 2
  BY <1>1, ToKeyIsPath
<1>3. /\ a.tenant = b.tenant
      /\ a.object = b.object
      /\ \A i \in 1..Len(h) : h[i] \in {Wildcard, g[i]}
  BY DEF IdEquals, Covers
<1>4. ASSUME NEW i \in 1..(Len(h) + 2)
      PROVE  ToKey(a)[i] \in {Wildcard, ToKey(b)[i]}
  <2>1. CASE i = 1
    BY <1>3, <2>1, ToKeyIsPath
  <2>2. CASE i = Len(h) + 2
    BY <1>1, <1>3, <2>2, ToKeyIsPath
  <2>3. CASE i # 1 /\ i # Len(h) + 2
    <3>1. i - 1 \in 1..Len(h) /\ (i - 1) + 1 = i
      BY <1>1, <2>3
    <3>2. ToKey(a)[(i - 1) + 1] = h[i - 1] /\ ToKey(b)[(i - 1) + 1] = g[i - 1]
      BY <1>1, <3>1, ToKeyIsPath
    <3> QED
      BY <1>3, <3>1, <3>2
  <2> QED
    BY <2>1, <2>2, <2>3
<1> QED
  BY <1>1, <1>2, <1>4 DEF Covers

(* A key that selects an id selects every id of the same depth which that   *)
(* id covers, so a subscription to a category misses no stream that the     *)
(* log takes for one of its members (StreamKey.cs:13-16, StreamId.cs:33).   *)
THEOREM KeyFollowsCover ==
    ASSUME NEW key \in StreamKey, NEW a \in StreamId, NEW b \in StreamId,
           Len(a.hierarchy) = Len(b.hierarchy),
           KeyEqualsId(key, a), IdEquals(a, b)
    PROVE  KeyEqualsId(key, b)
<1>2. key # <<>> /\ Covers(key, ToKey(a))
  BY DEF KeyEqualsId, KeyEquals
<1>3. Covers(ToKey(a), ToKey(b))
  BY KeyOfCovered
<1> QED
  BY <1>2, <1>3, CoversTransitive, ToKeyIsPath DEF KeyEqualsId, KeyEquals, StreamKey

(* At one depth the key of an id selects exactly the streams that the id    *)
(* itself equals, when its tenant and object are plain names                *)
(* (StreamId.cs:19-26).                                                     *)
THEOREM KeyOfIdSelectsId ==
    ASSUME NEW a \in StreamId, NEW b \in StreamId,
           Len(a.hierarchy) = Len(b.hierarchy),
           a.tenant \in Categories, a.object \in Categories
    PROVE  KeyEqualsId(ToKey(a), b) <=> IdEquals(a, b)
<1> DEFINE h == a.hierarchy
           g == b.hierarchy
<1>1. Len(h) \in Nat /\ Len(g) = Len(h)
  BY LenProperties DEF StreamId
<1>2. a.tenant # Wildcard /\ a.object # Wildcard
  BY WildcardAssumption
<1>3. Len(ToKey(a)) = Len(h) + 2 /\ Len(ToKey(b)) = Len(h) + 2 /\ ToKey(a) # <<>>
  <2>1. Len(ToKey(a)) = Len(h) + 2 /\ Len(ToKey(b)) = Len(h) + 2 /\ ToKey(a) \in StreamKey
    BY <1>1, ToKeyIsPath
  <2> QED
    BY <1>1, <2>1, EmptySeq
<1>4. ASSUME KeyEqualsId(ToKey(a), b)
      PROVE  IdEquals(a, b)
  <2>1. \A i \in 1..(Len(h) + 2) : ToKey(a)[i] \in {Wildcard, ToKey(b)[i]}
    BY <1>3, <1>4 DEF KeyEqualsId, KeyEquals, Covers
  <2>2. a.tenant = b.tenant /\ a.object = b.object
    BY <1>1, <1>2, <2>1, ToKeyIsPath
  <2>3. ASSUME NEW i \in 1..Len(h)
        PROVE  h[i] \in {Wildcard, g[i]}
    <3>1. i + 1 \in 1..(Len(h) + 2)
      BY <1>1
    <3> QED
      BY <1>1, <2>1, <3>1, ToKeyIsPath
  <2> QED
    BY <1>1, <2>2, <2>3 DEF IdEquals, Covers
<1>5. ASSUME IdEquals(a, b)
      PROVE  KeyEqualsId(ToKey(a), b)
  BY <1>1, <1>3, <1>5, KeyOfCovered DEF KeyEqualsId, KeyEquals
<1> QED
  BY <1>4, <1>5
=============================================================================
