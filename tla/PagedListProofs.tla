-------------------------- MODULE PagedListProofs --------------------------
(***************************************************************************)
(* Proofs about PagedList, for every page size and any readers.  The pages  *)
(* hold the items 1, 2, 3 ... in order, all but the last page full; and a   *)
(* reader's page and index say which items it has passed: each was given to *)
(* it, in order, or its slot was read while it was being stored.            *)
(***************************************************************************)
EXTENDS PagedList, SequenceTheorems, TLAPS

(* How many items the pages before page p hold. *)
First(p) == (p - 1) * PageSize

LEMMA FirstProperties ==
    /\ First(1) = 0
    /\ \A p \in Nat \ {0} : First(p) \in Nat /\ First(p + 1) = First(p) + PageSize
<1>1. PageSize \in Nat \ {0}
  BY PagedListAssumption
<1>2. ASSUME NEW p \in Nat \ {0}
      PROVE  (p - 1) * PageSize \in Nat /\ (p + 1 - 1) * PageSize = (p - 1) * PageSize + PageSize
  BY <1>1
<1> QED
  BY <1>1, <1>2 DEF First

Page == [size : Nat, slots : Seq(Nat)]

LEMMA PagesType ==
    ASSUME TypeOK
    PROVE  /\ Len(pages) \in Nat
           /\ \A p \in 1..Len(pages) :
                 pages[p] \in Page /\ pages[p].size \in Nat /\ Len(pages[p].slots) \in Nat
<1>1. pages \in Seq(Page)
  BY DEF TypeOK, Page
<1>2. Len(pages) \in Nat /\ \A p \in 1..Len(pages) : pages[p] \in Page
  BY <1>1, LenProperties
<1>3. \A p \in 1..Len(pages) : pages[p].size \in Nat /\ pages[p].slots \in Seq(Nat)
  BY <1>2 DEF Page
<1> QED
  BY <1>2, <1>3, LenProperties
-----------------------------------------------------------------------------
(* Type correctness.  The list is never without a page, and every reader is *)
(* in one of its pages.                                                     *)

Inside(e) ==
    /\ cursor[e].page <= Len(pages)
    /\ rpc[e] \in {"testing", "fetching"} => cursor[e].index >= 0

TypeInv == TypeOK /\ pages # <<>> /\ \A e \in Readers : Inside(e)

LEMMA TypeInit == Init => TypeInv
<1> SUFFICES ASSUME Init PROVE TypeInv
  OBVIOUS
<1>1. NewNode \in Page
  BY DEF NewNode, Page
<1>2. pages \in Seq(Page) /\ pages # <<>>
  BY <1>1 DEF Init
<1>3. PageSize \in Nat \ {0}
  BY PagedListAssumption
<1> QED
  BY <1>2, <1>3 DEF Init, TypeInv, TypeOK, Page, Inside

LEMMA TailIsPage ==
    ASSUME TypeInv
    PROVE  /\ Len(pages) \in 1..Len(pages) /\ Len(pages) \in Nat \ {0}
           /\ pages[Len(pages)] \in Page
  BY PagesType, EmptySeq DEF TypeInv

LEMMA WriterType == TypeInv /\ WriterStep => TypeInv'
<1> SUFFICES ASSUME TypeInv, WriterStep PROVE TypeInv'
  OBVIOUS
<1>0. /\ pages \in Seq(Page) /\ count \in Nat /\ Tail_ \in 1..Len(pages) /\ Len(pages) \in Nat
      /\ pages[Tail_] \in Page /\ pages[Tail_].size \in Nat /\ pages[Tail_].slots \in Seq(Nat)
  BY TailIsPage DEF TypeInv, TypeOK, Page, Tail_
<1>1. ASSUME NEW page \in Page
      PROVE  [pages EXCEPT ![Tail_] = page] \in Seq(Page)
  BY <1>0, <1>1, ExceptSeq
<1>2. pages' \in Seq(Page) /\ count' \in Nat /\ wpc' \in {"ready", "adding", "storing"}
  <2>1. CASE EnsurePage
    <3>1. NewNode \in Page
      BY DEF NewNode, Page
    <3> QED
      BY <1>0, <2>1, <3>1 DEF EnsurePage
  <2>2. CASE RaiseSize
    <3> DEFINE size == pages[Tail_].size + 1
    <3>0. size \in Nat
      BY <1>0
    <3> HIDE DEF size
    <3>1. [pages[Tail_] EXCEPT !.size = size] \in Page
      BY <1>0, <3>0 DEF Page
    <3>2. pages' = [pages EXCEPT ![Tail_] = [pages[Tail_] EXCEPT !.size = size]]
      BY <2>2 DEF RaiseSize, size
    <3> QED
      BY <1>0, <1>1, <2>2, <3>1, <3>2 DEF RaiseSize
  <2>3. CASE StoreItem
    <3> DEFINE slots == Append(pages[Tail_].slots, count + 1)
    <3>0. slots \in Seq(Nat)
      BY <1>0
    <3> HIDE DEF slots
    <3>1. [pages[Tail_] EXCEPT !.slots = slots] \in Page
      BY <1>0, <3>0 DEF Page
    <3>2. pages' = [pages EXCEPT ![Tail_] = [pages[Tail_] EXCEPT !.slots = slots]]
      BY <2>3 DEF StoreItem, slots
    <3>3. pages' \in Seq(Page)
      BY <1>1, <3>1, <3>2
    <3> QED
      BY <1>0, <2>3, <3>3 DEF StoreItem
  <2> QED
    BY <2>1, <2>2, <2>3 DEF WriterStep
<1>3. Len(pages') >= Len(pages) /\ Len(pages') \in Nat
  BY <1>0, <1>2 DEF WriterStep, EnsurePage, RaiseSize, StoreItem
<1>4. pages' # <<>>
  BY <1>0, <1>3
<1>5. UNCHANGED readerVars
  BY DEF WriterStep, EnsurePage, RaiseSize, StoreItem
<1>6. \A e \in Readers : Inside(e)'
  <2>1. \A e \in Readers : cursor[e].page \in Nat /\ Inside(e)
    BY DEF TypeInv, TypeOK
  <2> QED
    BY <1>0, <1>3, <1>5, <2>1 DEF Inside, readerVars
<1> QED
  BY <1>2, <1>4, <1>5, <1>6 DEF TypeInv, TypeOK, Page, readerVars

Places == [page : Nat \ {0}, index : -1..(PageSize - 1)]
Steps  == {"closed", "resting", "testing", "fetching", "done"}

LEMMA ReaderType ==
    ASSUME TypeInv, NEW e \in Readers, Open(e) \/ MoveNext(e)
    PROVE  TypeInv'
<1>a. /\ rpc \in [Readers -> Steps] /\ cursor \in [Readers -> Places]
      /\ yielded \in [Readers -> Seq(Nat)] /\ torn \in [Readers -> SUBSET Nat]
      /\ PageSize \in Nat \ {0} /\ count \in Nat /\ Len(pages) \in Nat /\ Inside(e)
  BY PagedListAssumption, PagesType DEF TypeInv, TypeOK, Places, Steps
<1>b. cursor[e] \in Places
  BY <1>a
<1>0. /\ rpc \in [Readers -> Steps] /\ cursor \in [Readers -> Places]
      /\ yielded \in [Readers -> Seq(Nat)] /\ torn \in [Readers -> SUBSET Nat]
      /\ cursor[e].page \in Nat \ {0} /\ cursor[e].index \in -1..(PageSize - 1)
      /\ PageSize \in Nat \ {0} /\ count \in Nat
      /\ cursor[e].page \in 1..Len(pages) /\ Len(pages) \in Nat /\ Inside(e)
  BY <1>a, <1>b DEF Inside, Places
<1>1. ASSUME NEW page \in 1..Len(pages), NEW index \in -1..(PageSize - 1), NEW step \in Steps,
             Place(e, page, index), rpc' = [rpc EXCEPT ![e] = step],
             step \in {"testing", "fetching"} => index >= 0,
             yielded' \in [Readers -> Seq(Nat)], torn' \in [Readers -> SUBSET Nat],
             opened' \in [Readers -> Nat], UNCHANGED <<pages, count, wpc>>
      PROVE  TypeInv'
  <2>1. [page |-> page, index |-> index] \in Places
    BY <1>0 DEF Places
  <2>2. cursor' \in [Readers -> Places] /\ rpc' \in [Readers -> Steps]
    BY <1>0, <1>1, <2>1 DEF Place
  <2>3. ASSUME NEW d \in Readers
        PROVE  Inside(d)'
    BY <1>0, <1>1, <2>1 DEF Place, TypeInv, Inside
  <2> QED
    BY <1>0, <1>1, <2>2, <2>3 DEF TypeInv, TypeOK, Places, Steps
<1>2. ASSUME NEW step \in Steps, cursor' = cursor, rpc' = [rpc EXCEPT ![e] = step],
             step \in {"testing", "fetching"} => cursor[e].index >= 0,
             yielded' \in [Readers -> Seq(Nat)], torn' \in [Readers -> SUBSET Nat],
             opened' \in [Readers -> Nat], UNCHANGED <<pages, count, wpc>>
      PROVE  TypeInv'
  BY <1>0, <1>2 DEF TypeInv, TypeOK, Inside, Places, Steps
<1>3. \A step \in {"done", "resting"} : step \in Steps /\ step \notin {"testing", "fetching"}
  BY DEF Steps
<1>4. ReturnFalse(e) => \E step \in {"done", "resting"} : rpc' = [rpc EXCEPT ![e] = step]
  BY DEF ReturnFalse, GoTo
<1>5. CASE Open(e)
  <2>1. opened' \in [Readers -> Nat]
    BY <1>0, <1>5 DEF Open, TypeInv, TypeOK
  <2> QED
    BY <1>0, <1>2, <1>3, <1>5, <2>1 DEF Open
<1>6. CASE Advance(e)
  <2>1. UNCHANGED <<pages, count, wpc, yielded, torn, opened>> /\ opened \in [Readers -> Nat]
    BY <1>6 DEF Advance, TypeInv, TypeOK
  <2>2. CASE ~AtPageEnd(e)
    <3>1. Place(e, cursor[e].page, cursor[e].index + 1) /\ GoTo(e, "testing")
      BY <1>6, <2>2 DEF Advance
    <3>2. cursor[e].index + 1 \in -1..(PageSize - 1) /\ cursor[e].index + 1 >= 0
      BY <1>0, <2>2 DEF AtPageEnd
    <3> QED
      BY <1>0, <1>1, <2>1, <3>1, <3>2 DEF GoTo, Steps
  <2>3. CASE AtPageEnd(e) /\ cursor[e].page < Len(pages)
    <3>1. Place(e, cursor[e].page + 1, 0) /\ GoTo(e, "testing")
      BY <1>6, <2>3 DEF Advance
    <3>2. cursor[e].page + 1 \in 1..Len(pages) /\ 0 \in -1..(PageSize - 1) /\ 0 >= 0
      BY <1>0, <2>3
    <3> QED
      BY <1>0, <1>1, <2>1, <3>1, <3>2 DEF GoTo, Steps
  <2>4. CASE AtPageEnd(e) /\ ~(cursor[e].page < Len(pages))
    <3>1. UNCHANGED cursor /\ ReturnFalse(e)
      BY <1>6, <2>4 DEF Advance
    <3> QED
      BY <1>0, <1>2, <1>3, <1>4, <2>1, <3>1
  <2> QED
    BY <2>2, <2>3, <2>4
<1>7. CASE TestCount(e)
  <2>1. /\ UNCHANGED <<pages, count, wpc, yielded, torn, opened>> /\ opened \in [Readers -> Nat]
        /\ cursor[e].index >= 0
    BY <1>0, <1>7 DEF TestCount, TypeInv, TypeOK, Inside
  <2>2. CASE GoTo(e, "fetching") /\ UNCHANGED cursor
    BY <1>0, <1>2, <2>1, <2>2 DEF GoTo, Steps
  <2>3. CASE Place(e, cursor[e].page, cursor[e].index - 1) /\ ReturnFalse(e)
    <3>1. cursor[e].index - 1 \in -1..(PageSize - 1)
      BY <1>0, <2>1
    <3> QED
      BY <1>0, <1>1, <1>3, <1>4, <2>1, <2>3, <3>1
  <2> QED
    BY <1>7, <2>2, <2>3 DEF TestCount
<1>8. CASE Fetch(e)
  <2>1. UNCHANGED <<pages, count, wpc, cursor, opened>> /\ opened \in [Readers -> Nat]
    BY <1>8 DEF Fetch, TypeInv, TypeOK
  <2>2. /\ yielded' \in [Readers -> Seq(Nat)] /\ torn' \in [Readers -> SUBSET Nat]
        /\ \E step \in {"done", "resting"} : rpc' = [rpc EXCEPT ![e] = step]
    <3> DEFINE slots == pages[cursor[e].page].slots
               slot  == cursor[e].index + 1
    <3>1. slots \in Seq(Nat) /\ Len(slots) \in Nat
      BY <1>0, PagesType DEF TypeInv, Page
    <3>2. slot >= 1 /\ slot \in Int
      BY <1>0, <1>8 DEF Fetch, Inside
    <3>3. CASE slot <= Len(slots)
      <4>1. slots[slot] \in Nat
        BY <3>1, <3>2, <3>3
      <4>2. /\ yielded' = [yielded EXCEPT ![e] = Append(@, slots[slot])]
            /\ rpc' = [rpc EXCEPT ![e] = "resting"] /\ torn' = torn
        BY <1>8, <3>3 DEF Fetch, GoTo
      <4> QED
        BY <1>0, <4>1, <4>2
    <3>4. CASE ~(slot <= Len(slots))
      <4>1. /\ torn' = [torn EXCEPT ![e] = @ \cup {count + 1}] /\ yielded' = yielded
            /\ ReturnFalse(e)
        BY <1>8, <3>4 DEF Fetch
      <4> QED
        BY <1>0, <1>4, <4>1
    <3> QED
      BY <3>3, <3>4
  <2> QED
    BY <1>2, <1>3, <2>1, <2>2
<1> QED
  BY <1>5, <1>6, <1>7, <1>8 DEF MoveNext

LEMMA TypeStep == TypeInv /\ [Next]_vars => TypeInv'
<1>1. TypeInv /\ UNCHANGED vars => TypeInv'
  BY DEF vars, readerVars, TypeInv, TypeOK, Inside
<1> QED
  BY <1>1, WriterType, ReaderType DEF Next

(* The variables of the list and its readers keep their types. *)
THEOREM TypeCorrect == Spec => []TypeOK
<1>1. TypeInv => TypeOK
  BY DEF TypeInv
<1> QED
  BY <1>1, TypeInit, TypeStep, PTL DEF Spec
-----------------------------------------------------------------------------
(* The pages.  They hold the items in order, all but the last are full, and *)
(* the size of the last is ahead of its slots only inside List.Add.         *)

Numbered(p) == \A k \in 1..Len(pages[p].slots) : pages[p].slots[k] = First(p) + k

Full(p) == pages[p].size = PageSize /\ Len(pages[p].slots) = PageSize

TailInv ==
    /\ pages[Tail_].size = Len(pages[Tail_].slots) + (IF wpc = "storing" THEN 1 ELSE 0)
    /\ pages[Tail_].size <= PageSize
    /\ wpc = "adding" => pages[Tail_].size < PageSize
    /\ count = First(Tail_) + Len(pages[Tail_].slots)

PagesInv ==
    /\ \A p \in 1..Len(pages) : Numbered(p) /\ (p < Len(pages) => Full(p))
    /\ TailInv

(* What a step of the writer means to the readers: nothing shrinks. *)
Grows ==
    /\ count <= count' /\ Len(pages) <= Len(pages')
    /\ \A p \in 1..Len(pages) : pages[p].size <= pages'[p].size

LEMMA PagesInit == Init => PagesInv
<1> SUFFICES ASSUME Init PROVE PagesInv
  OBVIOUS
<1>1. /\ Len(pages) = 1 /\ pages[1].size = 0 /\ pages[1].slots = <<>>
      /\ count = 0 /\ wpc = "ready" /\ PageSize \in Nat \ {0}
  BY PagedListAssumption DEF Init, NewNode
<1>2. Len(pages[1].slots) = 0 /\ First(1) = 0
  BY <1>1, FirstProperties
<1>3. TailInv
  BY <1>1, <1>2 DEF TailInv, Tail_
<1>4. \A p \in 1..Len(pages) : Numbered(p) /\ (p < Len(pages) => Full(p))
  BY <1>1, <1>2 DEF Numbered
<1> QED
  BY <1>3, <1>4 DEF PagesInv

LEMMA EnsurePagePages == TypeInv /\ PagesInv /\ EnsurePage => PagesInv' /\ Grows
<1> SUFFICES ASSUME TypeInv, PagesInv, EnsurePage PROVE PagesInv' /\ Grows
  OBVIOUS
<1>0. /\ pages \in Seq(Page) /\ count \in Nat /\ Len(pages) \in Nat \ {0} /\ PageSize \in Nat \ {0}
      /\ \A p \in 1..Len(pages) : pages[p].size \in Nat /\ Len(pages[p].slots) \in Nat
      /\ wpc = "ready" /\ wpc' = "adding" /\ count' = count
  BY PagesType, TailIsPage, PagedListAssumption DEF TypeInv, TypeOK, Page, EnsurePage
<1>1. CASE pages[Len(pages)].size = PageSize
  <2>1. pages' = Append(pages, NewNode) /\ NewNode.size = 0 /\ NewNode.slots = <<>> /\ NewNode \in Page
    BY <1>1 DEF EnsurePage, Tail_, NewNode, Page
  <2>2. /\ Len(pages') = Len(pages) + 1 /\ \A p \in 1..Len(pages) : pages'[p] = pages[p]
        /\ pages'[Len(pages')] = NewNode
    BY <1>0, <2>1
  <2>3. First(Len(pages) + 1) = First(Len(pages)) + PageSize /\ First(Len(pages)) \in Nat
    BY <1>0, FirstProperties
  <2>4. Len(pages[Len(pages)].slots) = PageSize /\ count = First(Len(pages)) + PageSize
    BY <1>0, <1>1, <2>3 DEF PagesInv, TailInv, Tail_
  <2>5. TailInv'
    BY <1>0, <2>1, <2>2, <2>3, <2>4 DEF TailInv, Tail_
  <2>6. ASSUME NEW p \in 1..Len(pages')
        PROVE  Numbered(p)' /\ (p < Len(pages') => Full(p)')
    <3>1. CASE p = Len(pages')
      BY <2>1, <2>2, <3>1 DEF Numbered
    <3>2. CASE p \in 1..Len(pages)
      BY <1>0, <1>1, <2>2, <2>4, <3>2 DEF Numbered, Full, PagesInv
    <3> QED
      BY <1>0, <2>2, <3>1, <3>2
  <2>7. Grows
    BY <1>0, <2>2 DEF Grows
  <2> QED
    BY <2>5, <2>6, <2>7 DEF PagesInv
<1>2. CASE pages[Len(pages)].size # PageSize
  <2>1. pages' = pages
    BY <1>2 DEF EnsurePage, Tail_
  <2>2. TailInv'
    BY <1>0, <1>2, <2>1 DEF PagesInv, TailInv, Tail_
  <2>3. \A p \in 1..Len(pages') : Numbered(p)' /\ (p < Len(pages') => Full(p)')
    BY <2>1 DEF PagesInv, Numbered, Full
  <2> QED
    BY <1>0, <2>1, <2>2, <2>3 DEF PagesInv, Grows
<1> QED
  BY <1>1, <1>2

LEMMA RaiseSizePages == TypeInv /\ PagesInv /\ RaiseSize => PagesInv' /\ Grows
<1> SUFFICES ASSUME TypeInv, PagesInv, RaiseSize PROVE PagesInv' /\ Grows
  OBVIOUS
<1>0. /\ pages \in Seq(Page) /\ count \in Nat /\ Len(pages) \in Nat \ {0} /\ PageSize \in Nat \ {0}
      /\ \A p \in 1..Len(pages) : /\ pages[p] \in Page /\ pages[p].size \in Nat
                                  /\ Len(pages[p].slots) \in Nat
      /\ wpc = "adding" /\ wpc' = "storing" /\ count' = count
  BY PagesType, TailIsPage, PagedListAssumption DEF TypeInv, TypeOK, Page, RaiseSize
<1>1. pages' = [pages EXCEPT ![Len(pages)].size = @ + 1]
  BY DEF RaiseSize, Tail_
<1>2. /\ Len(pages') = Len(pages)
      /\ \A p \in 1..Len(pages) : /\ pages'[p].slots = pages[p].slots
                                  /\ p < Len(pages) => pages'[p] = pages[p]
      /\ pages'[Len(pages)].size = pages[Len(pages)].size + 1
  BY <1>0, <1>1 DEF Page
<1>3. TailInv'
  BY <1>0, <1>2 DEF PagesInv, TailInv, Tail_
<1>4. \A p \in 1..Len(pages') : Numbered(p)' /\ (p < Len(pages') => Full(p)')
  BY <1>0, <1>2 DEF PagesInv, Numbered, Full
<1>5. Grows
  BY <1>0, <1>2 DEF Grows
<1> QED
  BY <1>3, <1>4, <1>5 DEF PagesInv

LEMMA StoreItemPages == TypeInv /\ PagesInv /\ StoreItem => PagesInv' /\ Grows
<1> SUFFICES ASSUME TypeInv, PagesInv, StoreItem PROVE PagesInv' /\ Grows
  OBVIOUS
<1>0. /\ pages \in Seq(Page) /\ count \in Nat /\ Len(pages) \in Nat \ {0} /\ PageSize \in Nat \ {0}
      /\ \A p \in 1..Len(pages) : /\ pages[p] \in Page /\ pages[p].size \in Nat
                                  /\ pages[p].slots \in Seq(Nat) /\ Len(pages[p].slots) \in Nat
      /\ wpc = "storing" /\ wpc' = "ready" /\ count' = count + 1
      /\ First(Len(pages)) \in Nat
  BY PagesType, TailIsPage, FirstProperties, PagedListAssumption
     DEF TypeInv, TypeOK, Page, StoreItem
<1> DEFINE slots == Append(pages[Len(pages)].slots, count + 1)
<1>1. pages' = [pages EXCEPT ![Len(pages)].slots = slots]
  BY DEF StoreItem, Tail_
<1>2. /\ Len(slots) = Len(pages[Len(pages)].slots) + 1
      /\ \A k \in 1..Len(slots) : slots[k] = First(Len(pages)) + k
  <2> DEFINE old == pages[Len(pages)].slots
  <2>1. old \in Seq(Nat) /\ Len(old) \in Nat /\ count = First(Len(pages)) + Len(old)
    BY <1>0 DEF PagesInv, TailInv, Tail_
  <2>2. \A k \in 1..Len(old) : old[k] = First(Len(pages)) + k
    BY <1>0 DEF PagesInv, Numbered
  <2> HIDE DEF old
  <2>3. /\ Len(Append(old, count + 1)) = Len(old) + 1
        /\ \A k \in 1..Len(old) : Append(old, count + 1)[k] = old[k]
        /\ Append(old, count + 1)[Len(old) + 1] = count + 1
    <3>1. count + 1 \in Nat
      BY <1>0
    <3> QED
      BY <2>1, <3>1, AppendProperties
  <2>4. ASSUME NEW k \in 1..Len(old) + 1
        PROVE  Append(old, count + 1)[k] = First(Len(pages)) + k
    <3>1. CASE k \in 1..Len(old)
      BY <2>2, <2>3, <3>1
    <3>2. CASE k = Len(old) + 1
      BY <1>0, <2>1, <2>3, <3>2
    <3> QED
      BY <2>1, <3>1, <3>2
  <2> QED
    BY <2>3, <2>4 DEF old
<1> HIDE DEF slots
<1>3. /\ Len(pages') = Len(pages)
      /\ \A p \in 1..Len(pages) : /\ pages'[p].size = pages[p].size
                                  /\ p < Len(pages) => pages'[p] = pages[p]
      /\ pages'[Len(pages)].slots = slots
  <2>1. pages' = [pages EXCEPT ![Len(pages)] = [pages[Len(pages)] EXCEPT !.slots = slots]]
    BY <1>1
  <2>2. /\ Len(pages') = Len(pages)
        /\ \A p \in 1..Len(pages) : p < Len(pages) => pages'[p] = pages[p]
        /\ pages'[Len(pages)] = [pages[Len(pages)] EXCEPT !.slots = slots]
    BY <1>0, <2>1
  <2>3. ASSUME NEW node \in Page
        PROVE  /\ [node EXCEPT !.slots = slots].size = node.size
               /\ [node EXCEPT !.slots = slots].slots = slots
    BY DEF Page
  <2>4. pages[Len(pages)] \in Page
    BY <1>0
  <2>5. pages'[Len(pages)].size = pages[Len(pages)].size /\ pages'[Len(pages)].slots = slots
    BY <2>2, <2>3, <2>4
  <2>6. ASSUME NEW p \in 1..Len(pages)
        PROVE  pages'[p].size = pages[p].size /\ (p < Len(pages) => pages'[p] = pages[p])
    <3>1. CASE p < Len(pages)
      BY <2>2, <3>1
    <3>2. CASE p = Len(pages)
      BY <1>0, <2>5, <3>2
    <3> QED
      BY <1>0, <3>1, <3>2
  <2>7. Len(pages') = Len(pages)
    BY <2>2
  <2> QED
    BY <2>5, <2>6, <2>7
<1>4. TailInv'
  <2>1. /\ pages[Len(pages)].size = Len(pages[Len(pages)].slots) + 1
        /\ pages[Len(pages)].size <= PageSize
        /\ count = First(Len(pages)) + Len(pages[Len(pages)].slots)
    BY <1>0 DEF PagesInv, TailInv, Tail_
  <2>2. /\ pages'[Len(pages)].size = pages[Len(pages)].size
        /\ pages'[Len(pages)].slots = slots
    BY <1>0, <1>3
  <2>3. /\ pages'[Len(pages)].size = Len(pages'[Len(pages)].slots)
        /\ pages'[Len(pages)].size <= PageSize
    BY <1>2, <2>1, <2>2
  <2>4. count' = First(Len(pages)) + Len(pages'[Len(pages)].slots)
    <3> DEFINE first  == First(Len(pages))
               before == Len(pages[Len(pages)].slots)
               after  == Len(pages'[Len(pages)].slots)
    <3>1. /\ count = first + before /\ count' = count + 1 /\ after = before + 1
          /\ first \in Nat /\ before \in Nat
      BY <1>0, <1>2, <2>1, <2>2
    <3> HIDE DEF first, before, after
    <3>2. count' = first + after
      BY <3>1
    <3> QED
      BY <3>2 DEF first, after
  <2>5. Len(pages') = Len(pages) /\ wpc' = "ready" /\ Len(slots) \in Nat
    BY <1>0, <1>2, <1>3
  <2> QED
    BY <2>2, <2>3, <2>4, <2>5 DEF TailInv, Tail_
<1>5. \A p \in 1..Len(pages') : Numbered(p)' /\ (p < Len(pages') => Full(p)')
  BY <1>0, <1>2, <1>3 DEF PagesInv, Numbered, Full
<1>6. Grows
  BY <1>0, <1>3 DEF Grows
<1> QED
  BY <1>4, <1>5, <1>6 DEF PagesInv

LEMMA PagesStep == TypeInv /\ PagesInv /\ [Next]_vars => PagesInv'
<1> SUFFICES ASSUME TypeInv, PagesInv, [Next]_vars PROVE PagesInv'
  OBVIOUS
<1>1. CASE UNCHANGED <<pages, count, wpc>>
  BY <1>1 DEF PagesInv, TailInv, Tail_, Numbered, Full
<1>2. CASE WriterStep
  BY <1>2, EnsurePagePages, RaiseSizePages, StoreItemPages DEF WriterStep
<1>3. ASSUME NEW e \in Readers, Open(e) \/ MoveNext(e)
      PROVE  UNCHANGED <<pages, count, wpc>>
  BY <1>3 DEF Open, MoveNext, Advance, TestCount, Fetch
<1> QED
  BY <1>1, <1>2, <1>3 DEF Next, vars
-----------------------------------------------------------------------------
(* The readers.  A reader's page and index say which items it has passed.   *)

Passed(e) ==
    First(cursor[e].page) + cursor[e].index + (IF rpc[e] \in {"testing", "fetching"} THEN 0 ELSE 1)

InOrder(e) ==
    \A i, j \in 1..Len(yielded[e]) : i < j => yielded[e][i] < yielded[e][j]

Behind(e) == \A i \in 1..Len(yielded[e]) : yielded[e][i] <= Passed(e)

Covered(e) == \A item \in 1..Passed(e) : WasYielded(e, item) \/ item \in torn[e]

Ahead(e) ==
    /\ opened[e] <= count
    /\ rpc[e] = "fetching" => cursor[e].index < pages[cursor[e].page].size

(* A scan that has not ended has missed nothing; one that has ended was     *)
(* given whatever was in the list when it began.                            *)
ScanInv(e) ==
    e \in Scans => IF rpc[e] = "done" THEN \A item \in 1..opened[e] : WasYielded(e, item)
                                     ELSE torn[e] = {}

ReaderInv(e) == InOrder(e) /\ Behind(e) /\ Covered(e) /\ Ahead(e) /\ ScanInv(e)

ListInv == TypeInv /\ PagesInv /\ \A e \in Readers : ReaderInv(e)

LEMMA ReaderFacts ==
    ASSUME TypeInv, NEW e \in Readers
    PROVE  /\ PageSize \in Nat \ {0} /\ Len(pages) \in Nat /\ count \in Nat
           /\ cursor[e].page \in 1..Len(pages) /\ cursor[e].index \in -1..(PageSize - 1)
           /\ pages[cursor[e].page].size \in Nat /\ Len(pages[cursor[e].page].slots) \in Nat
           /\ First(cursor[e].page) \in Nat /\ Passed(e) \in Nat
           /\ opened[e] \in Nat /\ yielded[e] \in Seq(Nat) /\ Len(yielded[e]) \in Nat
<1>1. /\ PageSize \in Nat \ {0} /\ Len(pages) \in Nat /\ count \in Nat /\ Inside(e)
      /\ cursor[e] \in Places /\ opened[e] \in Nat /\ yielded[e] \in Seq(Nat)
  BY PagedListAssumption, PagesType DEF TypeInv, TypeOK, Places
<1>2. cursor[e].page \in 1..Len(pages) /\ cursor[e].index \in -1..(PageSize - 1)
  <2>1. cursor[e].page \in Nat \ {0} /\ cursor[e].index \in -1..(PageSize - 1)
    BY <1>1 DEF Places
  <2>2. cursor[e].page <= Len(pages) /\ Len(pages) \in Nat
    BY <1>1 DEF Inside
  <2> QED
    BY <2>1, <2>2
<1>3. First(cursor[e].page) \in Nat
  <2>1. cursor[e].page \in Nat \ {0}
    BY <1>1 DEF Places
  <2> QED
    BY <2>1, FirstProperties
<1>4. Passed(e) \in Nat
  BY <1>1, <1>2, <1>3 DEF Passed, Inside
<1>5. pages[cursor[e].page].size \in Nat /\ Len(pages[cursor[e].page].slots) \in Nat
  <2>1. \A p \in 1..Len(pages) : pages[p].size \in Nat /\ Len(pages[p].slots) \in Nat
    BY PagesType, Zenon DEF TypeInv
  <2> QED
    BY <1>2, <2>1
<1>6. Len(yielded[e]) \in Nat
  BY <1>1, LenProperties
<1> QED
  BY <1>1, <1>2, <1>3, <1>4, <1>5, <1>6

LEMMA ReadersInit == Init => \A e \in Readers : ReaderInv(e)
<1> SUFFICES ASSUME Init, NEW e \in Readers PROVE ReaderInv(e)
  OBVIOUS
<1>1. /\ rpc[e] = "closed" /\ cursor[e].page = 1 /\ cursor[e].index = -1
      /\ yielded[e] = <<>> /\ torn[e] = {} /\ opened[e] = 0 /\ count = 0
  BY DEF Init
<1>2. Len(yielded[e]) = 0
  BY <1>1
<1>3. Passed(e) = 0
  BY <1>1, FirstProperties DEF Passed
<1> QED
  BY <1>1, <1>2, <1>3 DEF ReaderInv, InOrder, Behind, Covered, Ahead, ScanInv

(* What others do disturbs no reader. *)
LEMMA ReaderFrame ==
    ASSUME TypeInv, NEW e \in Readers, ReaderInv(e), Grows, count' \in Nat,
           \A p \in 1..Len(pages) : pages'[p].size \in Nat,
           rpc'[e] = rpc[e], cursor'[e] = cursor[e], yielded'[e] = yielded[e],
           torn'[e] = torn[e], opened'[e] = opened[e]
    PROVE  ReaderInv(e)'
<1>1. Passed(e)' = Passed(e)
  BY DEF Passed
<1>2. Ahead(e)'
  <2>1. opened[e] <= count /\ count <= count' /\ opened[e] \in Nat /\ count \in Nat
    BY ReaderFacts DEF Ahead, ReaderInv, Grows
  <2>2. opened[e] <= count'
    BY <2>1
  <2> DEFINE page == cursor[e].page
  <2>3. /\ pages[page].size <= pages'[page].size /\ pages[page].size \in Nat
        /\ pages'[page].size \in Nat /\ cursor[e].index \in Int
    <3>1. page \in 1..Len(pages) /\ pages[page].size \in Nat /\ cursor[e].index \in Int
      BY ReaderFacts
    <3> QED
      BY <3>1 DEF Grows
  <2>4. rpc[e] = "fetching" => cursor[e].index < pages[page].size
    BY DEF Ahead, ReaderInv
  <2>5. rpc[e] = "fetching" => cursor[e].index < pages'[page].size
    BY <2>3, <2>4
  <2> QED
    BY <2>2, <2>5 DEF Ahead
<1> QED
  BY <1>1, <1>2 DEF ReaderInv, InOrder, Behind, Covered, ScanInv, WasYielded

(* A reader that steps on without being given an item. *)
LEMMA ReaderMoves ==
    ASSUME TypeInv, NEW e \in Readers, ReaderInv(e),
           UNCHANGED <<pages, count, yielded, torn, opened>>,
           Passed(e)' = Passed(e),
           rpc'[e] = "fetching" => cursor'[e].index < pages[cursor'[e].page].size,
           rpc[e] # "done",
           rpc'[e] = "done" => count <= Passed(e)
    PROVE  ReaderInv(e)'
<1>1. ScanInv(e)'
  <2> SUFFICES ASSUME e \in Scans, rpc'[e] = "done"
               PROVE  \A item \in 1..opened[e] : WasYielded(e, item)'
    BY DEF ReaderInv, ScanInv
  <2>1. torn[e] = {} /\ \A item \in 1..opened[e] : item \in 1..Passed(e)
    BY ReaderFacts DEF ReaderInv, ScanInv, Ahead
  <2> QED
    BY <2>1 DEF ReaderInv, Covered, WasYielded
<1> QED
  BY <1>1 DEF ReaderInv, InOrder, Behind, Covered, Ahead, WasYielded

(* The end of what the list holds.  A reader that finds nothing more has    *)
(* passed every item.                                                       *)
LEMMA EndOfList ==
    ASSUME TypeInv, PagesInv, NEW e \in Readers
    PROVE  /\ rpc[e] = "resting" /\ AtPageEnd(e) /\ ~(cursor[e].page < Len(pages))
                => count <= Passed(e)
           /\ rpc[e] = "testing" /\ ~(pages[cursor[e].page].size > cursor[e].index)
                => count <= Passed(e)
           /\ rpc[e] = "fetching" /\ cursor[e].index < pages[cursor[e].page].size
              /\ ~(cursor[e].index + 1 <= Len(pages[cursor[e].page].slots))
                => count = Passed(e)
<1> DEFINE page  == cursor[e].page
           index == cursor[e].index
           size  == pages[page].size
           held  == Len(pages[page].slots)
           first == First(page)
<1>1. /\ PageSize \in Nat \ {0} /\ page \in 1..Len(pages) /\ index \in -1..(PageSize - 1)
      /\ size \in Nat /\ held \in Nat /\ first \in Nat /\ Len(pages) \in Nat /\ count \in Nat
  BY ReaderFacts
<1>2. page < Len(pages) => size = PageSize /\ held = PageSize
  BY <1>1 DEF PagesInv, Full
<1>3. page = Len(pages) => /\ held <= size /\ size <= held + 1 /\ size <= PageSize
                           /\ count = first + held
  <2> SUFFICES ASSUME page = Len(pages)
               PROVE  /\ held <= size /\ size <= held + 1 /\ size <= PageSize
                      /\ count = first + held
    OBVIOUS
  <2>1. /\ size = held + (IF wpc = "storing" THEN 1 ELSE 0) /\ size <= PageSize
        /\ count = first + held
    <3>1. Tail_ = page
      BY DEF Tail_
    <3> QED
      BY <3>1 DEF PagesInv, TailInv
  <2> HIDE DEF page, index, size, held, first
  <2> QED
    BY <1>1, <2>1
<1>4. /\ rpc[e] = "resting" => Passed(e) = first + index + 1
      /\ rpc[e] \in {"testing", "fetching"} => Passed(e) = first + index
  BY <1>1 DEF Passed
<1>5. AtPageEnd(e) <=> index + 1 = PageSize
  BY DEF AtPageEnd
<1> HIDE DEF page, index, size, held, first
<1>6. ASSUME rpc[e] = "resting", index + 1 = PageSize, ~(page < Len(pages))
      PROVE  count <= Passed(e)
  BY <1>1, <1>3, <1>4, <1>6
<1>7. ASSUME rpc[e] = "testing", ~(size > index)
      PROVE  count <= Passed(e)
  BY <1>1, <1>2, <1>3, <1>4, <1>7
<1>8. ASSUME rpc[e] = "fetching", index < size, ~(index + 1 <= held)
      PROVE  count = Passed(e)
  <2>1. page = Len(pages) /\ index = held
    BY <1>1, <1>2, <1>3, <1>8
  <2> QED
    BY <1>1, <1>3, <1>4, <1>8, <2>1
<1> QED
  BY <1>5, <1>6, <1>7, <1>8 DEF page, index, size, held
LEMMA OpenKeeps ==
    ASSUME TypeInv, NEW e \in Readers, ReaderInv(e), Open(e)
    PROVE  ReaderInv(e)'
<1>1. /\ rpc[e] = "closed" /\ rpc'[e] = "resting" /\ opened'[e] = count
      /\ UNCHANGED <<pages, count, cursor, yielded, torn>>
  BY DEF Open, TypeInv, TypeOK
<1>2. Passed(e)' = Passed(e)
  BY <1>1 DEF Passed
<1>3. Ahead(e)' /\ ScanInv(e)'
  BY <1>1, ReaderFacts DEF ReaderInv, Ahead, ScanInv
<1> QED
  BY <1>1, <1>2, <1>3 DEF ReaderInv, InOrder, Behind, Covered, WasYielded

LEMMA AdvanceKeeps ==
    ASSUME TypeInv, PagesInv, NEW e \in Readers, ReaderInv(e), Advance(e)
    PROVE  ReaderInv(e)'
<1> DEFINE page  == cursor[e].page
           index == cursor[e].index
<1>1. /\ rpc[e] = "resting" /\ UNCHANGED <<pages, count, yielded, torn, opened>>
      /\ Passed(e) = First(page) + index + 1
      /\ PageSize \in Nat \ {0} /\ page \in 1..Len(pages) /\ index \in -1..(PageSize - 1)
      /\ First(page) \in Nat /\ Len(pages) \in Nat
  BY ReaderFacts DEF Advance, Passed
<1>2. rpc \in [Readers -> Steps] /\ cursor \in [Readers -> Places]
  BY DEF TypeInv, TypeOK, Steps, Places
<1>3. CASE ~AtPageEnd(e)
  <2>1. /\ cursor'[e].page = page /\ cursor'[e].index = index + 1 /\ rpc'[e] = "testing"
    BY <1>2, <1>3 DEF Advance, Place, GoTo
  <2>2. Passed(e)' = First(page) + (index + 1) + 0
    BY <2>1 DEF Passed
  <2> HIDE DEF page, index
  <2>3. Passed(e)' = Passed(e)
    BY <1>1, <2>2
  <2> QED
    BY <1>1, <2>1, <2>3, ReaderMoves
<1>4. CASE AtPageEnd(e) /\ page < Len(pages)
  <2>1. /\ cursor'[e].page = page + 1 /\ cursor'[e].index = 0 /\ rpc'[e] = "testing"
    BY <1>2, <1>4 DEF Advance, Place, GoTo
  <2>2. Passed(e)' = First(page + 1) + 0 + 0 /\ index + 1 = PageSize
    BY <1>4, <2>1 DEF Passed, AtPageEnd
  <2> HIDE DEF page, index
  <2>3. First(page + 1) = First(page) + PageSize
    BY <1>1, FirstProperties
  <2>4. Passed(e)' = Passed(e)
    BY <1>1, <2>2, <2>3
  <2> QED
    BY <1>1, <2>1, <2>4, ReaderMoves
<1>5. CASE AtPageEnd(e) /\ ~(page < Len(pages))
  <2>1. cursor' = cursor /\ rpc'[e] \in {"done", "resting"}
    BY <1>2, <1>5 DEF Advance, ReturnFalse, GoTo
  <2>2. Passed(e)' = Passed(e)
    BY <1>1, <2>1 DEF Passed
  <2>3. count <= Passed(e)
    BY <1>1, <1>5, EndOfList
  <2> QED
    BY <1>1, <2>1, <2>2, <2>3, ReaderMoves
<1> QED
  BY <1>3, <1>4, <1>5

LEMMA TestCountKeeps ==
    ASSUME TypeInv, PagesInv, NEW e \in Readers, ReaderInv(e), TestCount(e)
    PROVE  ReaderInv(e)'
<1> DEFINE page  == cursor[e].page
           index == cursor[e].index
<1>1. /\ rpc[e] = "testing" /\ UNCHANGED <<pages, count, yielded, torn, opened>>
      /\ Passed(e) = First(page) + index + 0
      /\ index \in Int /\ First(page) \in Nat
  BY ReaderFacts DEF TestCount, Passed
<1>2. rpc \in [Readers -> Steps] /\ cursor \in [Readers -> Places]
  BY DEF TypeInv, TypeOK, Steps, Places
<1>3. CASE pages[page].size > index
  <2>1. cursor' = cursor /\ rpc'[e] = "fetching"
    BY <1>2, <1>3 DEF TestCount, GoTo
  <2>2. Passed(e)' = Passed(e)
    BY <1>1, <2>1 DEF Passed
  <2>3. index < pages[page].size
    BY <1>3, ReaderFacts
  <2> QED
    BY <1>1, <2>1, <2>2, <2>3, ReaderMoves
<1>4. CASE ~(pages[page].size > index)
  <2>1. /\ cursor'[e].page = page /\ cursor'[e].index = index - 1
        /\ rpc'[e] \in {"done", "resting"}
    BY <1>2, <1>4 DEF TestCount, Place, ReturnFalse, GoTo
  <2>2. Passed(e)' = First(page) + (index - 1) + 1
    BY <2>1 DEF Passed
  <2>3. count <= Passed(e)
    BY <1>1, <1>4, EndOfList
  <2> HIDE DEF page, index
  <2>4. Passed(e)' = Passed(e)
    BY <1>1, <2>2
  <2> QED
    BY <1>1, <2>1, <2>3, <2>4, ReaderMoves
<1> QED
  BY <1>3, <1>4

(* The slot holds its item: the reader is given the one after those it has  *)
(* passed.                                                                  *)
LEMMA FetchYields ==
    ASSUME TypeInv, PagesInv, NEW e \in Readers, ReaderInv(e), Fetch(e),
           cursor[e].index + 1 <= Len(pages[cursor[e].page].slots)
    PROVE  ReaderInv(e)'
<1> DEFINE page == cursor[e].page
           slot == cursor[e].index + 1
           old  == yielded[e]
<1>0. cursor[e].index \in Nat
  BY ReaderFacts DEF Fetch, TypeInv, Inside
<1>1. /\ rpc[e] = "fetching" /\ UNCHANGED <<pages, count, cursor, torn, opened>>
      /\ cursor[e].index \in Nat /\ Passed(e) = First(page) + cursor[e].index + 0
      /\ First(page) \in Nat /\ Passed(e) \in Nat /\ page \in 1..Len(pages)
      /\ old \in Seq(Nat) /\ Len(old) \in Nat
  BY <1>0, ReaderFacts DEF Fetch, Passed
<1>2. PICK item \in Nat : item = pages[page].slots[slot] /\ item = First(page) + slot
  <2>1. slot \in 1..Len(pages[page].slots)
    BY <1>0, ReaderFacts
  <2>2. pages[page].slots[slot] = First(page) + slot
    BY <1>1, <2>1 DEF PagesInv, Numbered
  <2> QED
    BY <1>0, <1>1, <2>2
<1>3. yielded' = [yielded EXCEPT ![e] = Append(old, item)] /\ rpc' = [rpc EXCEPT ![e] = "resting"]
  BY <1>2 DEF Fetch, GoTo
<1>4. yielded'[e] = Append(old, item) /\ rpc'[e] = "resting"
  BY <1>3 DEF TypeInv, TypeOK
<1>5. item \in Nat /\ item = Passed(e) + 1
  <2> HIDE DEF page
  <2> QED
    BY <1>1, <1>2
<1>6. Passed(e)' = item
  <2>1. Passed(e)' = First(page) + cursor[e].index + 1
    BY <1>1, <1>4 DEF Passed
  <2> HIDE DEF page
  <2> QED
    BY <1>1, <1>2, <2>1
<1> HIDE DEF page, slot, old
<1>7. /\ Len(yielded'[e]) = Len(old) + 1 /\ yielded'[e][Len(old) + 1] = item
      /\ \A i \in 1..Len(old) : yielded'[e][i] = old[i]
  BY <1>1, <1>4, <1>5, AppendProperties
<1>8. \A i \in 1..Len(old) : old[i] \in Nat /\ old[i] <= Passed(e)
  <2>1. \A i \in 1..Len(old) : old[i] \in Nat
    BY <1>1
  <2>2. \A i \in 1..Len(old) : old[i] <= Passed(e)
    BY DEF ReaderInv, Behind, old
  <2> QED
    BY <2>1, <2>2
<1>8a. ASSUME NEW i \in 1..Len(old)
       PROVE  old[i] < item
  <2>1. old[i] \in Nat /\ old[i] <= Passed(e)
    BY <1>8
  <2>2. Passed(e) \in Nat /\ item = Passed(e) + 1
    BY <1>1, <1>5
  <2> QED
    BY <2>1, <2>2
<1>9. \A i \in 1..Len(old) + 1 : i \in 1..Len(old) \/ i = Len(old) + 1
  BY <1>1
<1>10. Behind(e)'
  <2>1. \A i \in 1..Len(old) : old[i] <= item
    BY <1>5, <1>8, <1>8a
  <2>2. \A i \in 1..Len(old) + 1 : yielded'[e][i] <= item
    BY <1>5, <1>7, <1>9, <2>1
  <2> QED
    BY <1>6, <1>7, <2>2 DEF Behind
<1>11. InOrder(e)'
  <2> SUFFICES ASSUME NEW i \in 1..Len(old) + 1, NEW j \in 1..Len(old) + 1, i < j
               PROVE  yielded'[e][i] < yielded'[e][j]
    BY <1>7 DEF InOrder
  <2>1. i \in 1..Len(old)
    BY <1>1
  <2>2. CASE j \in 1..Len(old)
    <3>1. old[i] < old[j]
      BY <2>1, <2>2 DEF ReaderInv, InOrder, old
    <3> QED
      BY <1>7, <2>1, <2>2, <3>1
  <2>3. CASE j = Len(old) + 1
    BY <1>7, <1>8a, <2>1, <2>3
  <2> QED
    BY <1>9, <2>2, <2>3
<1>12. ASSUME NEW x, WasYielded(e, x)
       PROVE  WasYielded(e, x)'
  <2>1. PICK i \in 1..Len(old) : old[i] = x
    BY <1>12 DEF WasYielded, old
  <2>2. i \in 1..Len(yielded'[e]) /\ yielded'[e][i] = x
    <3>1. Len(old) \in Nat /\ Len(yielded'[e]) = Len(old) + 1
      BY <1>1, <1>7
    <3>2. i \in 1..(Len(old) + 1)
      BY <3>1
    <3> QED
      BY <1>7, <2>1, <3>1, <3>2
  <2> QED
    BY <2>2 DEF WasYielded
<1>13. WasYielded(e, item)'
  <2>1. Len(old) + 1 \in 1..Len(yielded'[e])
    BY <1>1, <1>7
  <2> QED
    BY <1>7, <2>1 DEF WasYielded
<1>14. Covered(e)'
  <2> SUFFICES ASSUME NEW x \in 1..item
               PROVE  WasYielded(e, x)' \/ x \in torn[e]
    BY <1>1, <1>6 DEF Covered
  <2>1. x \in 1..Passed(e) \/ x = item
    BY <1>1, <1>5
  <2> QED
    BY <1>12, <1>13, <2>1 DEF ReaderInv, Covered
<1>15. Ahead(e)' /\ ScanInv(e)'
  BY <1>1, <1>4 DEF ReaderInv, Ahead, ScanInv
<1> QED
  BY <1>10, <1>11, <1>14, <1>15 DEF ReaderInv

(* The slot is still empty: the reader passes the item over.  A scan ends,  *)
(* and has been given every item before it.                                 *)
LEMMA FetchTears ==
    ASSUME TypeInv, PagesInv, NEW e \in Readers, ReaderInv(e), Fetch(e),
           ~(cursor[e].index + 1 <= Len(pages[cursor[e].page].slots))
    PROVE  ReaderInv(e)'
<1>1. /\ rpc[e] = "fetching" /\ UNCHANGED <<pages, count, cursor, yielded, opened>>
      /\ cursor[e].index \in Int /\ Passed(e) = First(cursor[e].page) + cursor[e].index + 0
      /\ First(cursor[e].page) \in Nat /\ Passed(e) \in Nat /\ count \in Nat
      /\ opened[e] \in Nat /\ yielded[e] \in Seq(Nat)
  <2>1. rpc[e] = "fetching" /\ UNCHANGED <<pages, count, cursor, yielded, opened>>
    BY DEF Fetch
  <2>2. /\ cursor[e].index \in -1..(PageSize - 1) /\ PageSize \in Nat
        /\ First(cursor[e].page) \in Nat /\ Passed(e) \in Nat /\ count \in Nat
        /\ opened[e] \in Nat /\ yielded[e] \in Seq(Nat)
    BY ReaderFacts
  <2>3. Passed(e) = First(cursor[e].page) + cursor[e].index + 0
    BY <2>1 DEF Passed
  <2> QED
    BY <2>1, <2>2, <2>3
<1>2. /\ torn' = [torn EXCEPT ![e] = @ \cup {count + 1}]
      /\ rpc' = [rpc EXCEPT ![e] = IF e \in Scans THEN "done" ELSE "resting"]
  BY DEF Fetch, ReturnFalse, GoTo
<1>3. /\ torn'[e] = torn[e] \cup {count + 1} /\ rpc'[e] = IF e \in Scans THEN "done" ELSE "resting"
  BY <1>2 DEF TypeInv, TypeOK
<1>4. count = Passed(e)
  BY <1>1, EndOfList DEF ReaderInv, Ahead
<1>5. Passed(e)' = count + 1
  <2>1. Passed(e)' = First(cursor[e].page) + cursor[e].index + 1
    BY <1>1, <1>3 DEF Passed
  <2> QED
    BY <1>1, <1>4, <2>1
<1>6. Behind(e)'
  <2>1. \A i \in 1..Len(yielded[e]) : yielded[e][i] \in Nat /\ yielded[e][i] <= count
    BY <1>1, <1>4 DEF ReaderInv, Behind
  <2>2. \A i \in 1..Len(yielded[e]) : yielded[e][i] <= count + 1
    BY <1>1, <2>1
  <2> QED
    BY <1>1, <1>5, <2>2 DEF Behind
<1>7. \A x \in 1..count : WasYielded(e, x) \/ x \in torn[e]
  BY <1>4 DEF ReaderInv, Covered
<1>8. Covered(e)'
  <2> SUFFICES ASSUME NEW x \in 1..(count + 1)
               PROVE  WasYielded(e, x) \/ x \in torn[e] \/ x = count + 1
    BY <1>1, <1>3, <1>5 DEF Covered, WasYielded
  <2>1. x \in 1..count \/ x = count + 1
    BY <1>1
  <2> QED
    BY <1>7, <2>1
<1>9. ScanInv(e)'
  <2> SUFFICES ASSUME e \in Scans
               PROVE  \A x \in 1..opened[e] : WasYielded(e, x)
    BY <1>1, <1>3 DEF ScanInv, WasYielded
  <2>1. torn[e] = {}
    BY <1>1 DEF ReaderInv, ScanInv
  <2>2. \A x \in 1..opened[e] : x \in 1..count
    BY <1>1 DEF ReaderInv, Ahead
  <2> QED
    BY <1>7, <2>1, <2>2
<1>10. Ahead(e)' /\ InOrder(e)'
  BY <1>1, <1>3 DEF ReaderInv, Ahead, InOrder
<1> QED
  BY <1>6, <1>8, <1>9, <1>10 DEF ReaderInv

LEMMA ReaderStep ==
    ASSUME ListInv, NEW e \in Readers, Open(e) \/ MoveNext(e)
    PROVE  \A d \in Readers : ReaderInv(d)'
<1>1. TypeInv /\ PagesInv /\ \A d \in Readers : ReaderInv(d)
  BY DEF ListInv
<1>2. ReaderInv(e)'
  BY <1>1, OpenKeeps, AdvanceKeeps, TestCountKeeps, FetchYields, FetchTears DEF MoveNext
<1>3. ASSUME NEW d \in Readers, d # e
      PROVE  ReaderInv(d)'
  <2>1. UNCHANGED <<pages, count>>
    BY DEF Open, MoveNext, Advance, TestCount, Fetch
  <2>2. /\ rpc'[d] = rpc[d] /\ cursor'[d] = cursor[d] /\ yielded'[d] = yielded[d]
        /\ torn'[d] = torn[d] /\ opened'[d] = opened[d]
    BY <1>1, <1>3
       DEF TypeInv, TypeOK, Open, MoveNext, Advance, TestCount, Fetch, Place, GoTo, ReturnFalse
  <2>3. Grows /\ count' \in Nat /\ \A p \in 1..Len(pages) : pages'[p].size \in Nat
    <3>1. count \in Nat /\ Len(pages) \in Nat
      BY <1>1, PagesType DEF TypeInv, TypeOK
    <3>2. \A p \in 1..Len(pages) : pages[p].size \in Nat
      BY <1>1, PagesType, Zenon DEF TypeInv
    <3>3. Grows
      BY <2>1, <3>1, <3>2 DEF Grows
    <3> QED
      BY <2>1, <3>1, <3>2, <3>3
  <2> QED
    BY <1>1, <2>2, <2>3, ReaderFrame
<1> QED
  BY <1>2, <1>3

LEMMA WriterKeepsReaders == ListInv /\ WriterStep => \A d \in Readers : ReaderInv(d)'
<1> SUFFICES ASSUME ListInv, WriterStep, NEW d \in Readers PROVE ReaderInv(d)'
  OBVIOUS
<1>1. TypeInv /\ PagesInv /\ ReaderInv(d)
  BY DEF ListInv
<1>2. Grows
  BY <1>1, EnsurePagePages, RaiseSizePages, StoreItemPages DEF WriterStep
<1>3. TypeInv'
  BY <1>1, WriterType
<1>4. count' \in Nat /\ \A p \in 1..Len(pages') : pages'[p].size \in Nat
  <2>1. pages' \in Seq(Page) /\ count' \in Nat
    BY <1>3 DEF TypeInv, TypeOK, Page
  <2>2. \A p \in 1..Len(pages') : pages'[p] \in Page
    BY <2>1
  <2> QED
    BY <2>1, <2>2 DEF Page
<1>5. \A p \in 1..Len(pages) : p \in 1..Len(pages')
  <2>1. Len(pages) \in Nat /\ Len(pages') \in Nat /\ Len(pages) <= Len(pages')
    <3>1. Len(pages) \in Nat
      BY <1>1, PagesType DEF TypeInv
    <3>2. pages' \in Seq(Page)
      BY <1>3 DEF TypeInv, TypeOK, Page
    <3>3. Len(pages') \in Nat
      BY <3>2, LenProperties
    <3> QED
      BY <1>2, <3>1, <3>3 DEF Grows
  <2> QED
    BY <2>1
<1>6. UNCHANGED readerVars
  BY DEF WriterStep, EnsurePage, RaiseSize, StoreItem
<1> QED
  BY <1>1, <1>2, <1>4, <1>5, <1>6, ReaderFrame DEF readerVars

LEMMA ListInit == Init => ListInv
  BY TypeInit, PagesInit, ReadersInit DEF ListInv

LEMMA ListStep == ListInv /\ [Next]_vars => ListInv'
<1> SUFFICES ASSUME ListInv, [Next]_vars PROVE ListInv'
  OBVIOUS
<1>1. TypeInv' /\ PagesInv'
  BY TypeStep, PagesStep DEF ListInv
<1>2. CASE UNCHANGED vars
  BY <1>1, <1>2
     DEF ListInv, vars, readerVars, ReaderInv, Passed, InOrder, Behind, Covered, Ahead, ScanInv, WasYielded
<1>3. CASE WriterStep
  BY <1>1, <1>3, WriterKeepsReaders DEF ListInv
<1>4. CASE \E e \in Readers : Open(e) \/ MoveNext(e)
  BY <1>1, <1>4, ReaderStep DEF ListInv
<1> QED
  BY <1>2, <1>3, <1>4 DEF Next

LEMMA ListInvariant == Spec => []ListInv
  BY ListInit, ListStep, PTL DEF Spec

(* However readers and the writer interleave, no reader is given an item    *)
(* twice or after a later one.                                              *)
THEOREM ReadersAreInOrder == Spec => []YieldsInOrder
<1>1. ListInv => YieldsInOrder
  BY DEF ListInv, ReaderInv, InOrder, YieldsInOrder
<1> QED
  BY <1>1, ListInvariant, PTL

(* A reader passes over nothing but items whose slot it read before they    *)
(* were stored in it.                                                       *)
THEOREM OnlyTornItemsAreMissed == Spec => []GapsAreTorn
<1>1. ASSUME ListInv
      PROVE  GapsAreTorn
  <2> SUFFICES ASSUME NEW e \in Readers, NEW i \in 1..Len(yielded[e]), NEW item \in 1..yielded[e][i]
               PROVE  WasYielded(e, item) \/ item \in torn[e]
    BY DEF GapsAreTorn
  <2>1. ReaderInv(e) /\ Passed(e) \in Nat /\ yielded[e] \in Seq(Nat)
    BY <1>1, ReaderFacts DEF ListInv
  <2>2. yielded[e][i] \in Nat /\ yielded[e][i] <= Passed(e)
    BY <2>1 DEF ReaderInv, Behind
  <2>3. item \in 1..Passed(e)
    BY <2>1, <2>2
  <2> QED
    BY <2>1, <2>3 DEF ReaderInv, Covered
<1> QED
  BY <1>1, ListInvariant, PTL

(* A scan that has ended was given every item that was in the list when it  *)
(* began, also when it ended at a slot that was still empty.                *)
THEOREM ScansAreComplete == Spec => []ScanIsComplete
<1>1. ListInv => ScanIsComplete
  BY DEF ListInv, ReaderInv, ScanInv, ScanIsComplete, Readers
<1> QED
  BY <1>1, ListInvariant, PTL
=============================================================================
