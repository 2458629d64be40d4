----------------------------- MODULE PagedList -----------------------------
(***************************************************************************)
(* The items of the in-memory store (SinglyLinkedList.cs): a linked list of *)
(* pages, each a List of at most PageSize items.                            *)
(*                                                                         *)
(* The writer loop is the only one that appends.  Readers enumerate the     *)
(* list on other threads, with no lock: a scan (EventStream.ReadAsync) runs *)
(* until MoveNext returns false, and the poller's reader is asked again     *)
(* after that.  List.Add, a library method, raises the list's size before   *)
(* it stores the item, so MoveNext may find a slot that holds null.  Every  *)
(* access to state the two sides share is a step of its own.                *)
(*                                                                         *)
(* The items are numbered in the order they are appended, as the store's    *)
(* positions number them.                                                   *)
(***************************************************************************)
EXTENDS Integers, Sequences

CONSTANTS
    PageSize,    \* _pageSize
    Scans,       \* enumerators read until MoveNext returns false
    Pollers,     \* enumerators asked again after that
    MaxItems     \* a bound on the items appended

ASSUME PagedListAssumption ==
    /\ PageSize \in Nat \ {0}
    /\ MaxItems \in Nat
    /\ Scans \cap Pollers = {}

Readers == Scans \cup Pollers

VARIABLES
    pages,       \* the nodes from _head on: the size of Items and its stored slots
    count,       \* Count
    wpc,         \* where the writer is in Append
    rpc,         \* where each reader is in MoveNext
    cursor,      \* its _page and _itemIndex
    yielded,     \* the items it has been given
    torn,        \* history: the items whose slot it read before they were stored
    opened       \* history: Count when it was made

readerVars == <<rpc, cursor, yielded, torn, opened>>
vars == <<pages, count, wpc, readerVars>>

NewNode == [size |-> 0, slots |-> <<>>]

Tail_ == Len(pages)      \* _tail is the last page

Init ==
    /\ pages = <<NewNode>>
    /\ count = 0
    /\ wpc = "ready"
    /\ rpc = [e \in Readers |-> "closed"]
    /\ cursor = [e \in Readers |-> [page |-> 1, index |-> -1]]
    /\ yielded = [e \in Readers |-> <<>>]
    /\ torn = [e \in Readers |-> {}]
    /\ opened = [e \in Readers |-> 0]

-----------------------------------------------------------------------------
(* Append, in the writer loop. *)

(* A full last page gets a successor. *)
EnsurePage ==
    /\ wpc = "ready"
    /\ count < MaxItems
    /\ pages' = IF pages[Tail_].size = PageSize THEN Append(pages, NewNode) ELSE pages
    /\ wpc' = "adding"
    /\ UNCHANGED <<count, readerVars>>

(* List.Add raises the size ... *)
RaiseSize ==
    /\ wpc = "adding"
    /\ pages' = [pages EXCEPT ![Tail_].size = @ + 1]
    /\ wpc' = "storing"
    /\ UNCHANGED <<count, readerVars>>

(* ... and stores the item. *)
StoreItem ==
    /\ wpc = "storing"
    /\ pages' = [pages EXCEPT ![Tail_].slots = Append(@, count + 1)]
    /\ count' = count + 1
    /\ wpc' = "ready"
    /\ UNCHANGED readerVars

WriterStep == EnsurePage \/ RaiseSize \/ StoreItem
-----------------------------------------------------------------------------
(* The readers. *)

(* GetEnumerator: before the first item of the head. *)
Open(e) ==
    /\ rpc[e] = "closed"
    /\ rpc' = [rpc EXCEPT ![e] = "resting"]
    /\ opened' = [opened EXCEPT ![e] = count]
    /\ UNCHANGED <<pages, count, wpc, cursor, yielded, torn>>

GoTo(e, step) == rpc' = [rpc EXCEPT ![e] = step]

Place(e, page, index) ==
    cursor' = [cursor EXCEPT ![e] = [page |-> page, index |-> index]]

(* MoveNext returns false: the end of a scan, a pause of the poller. *)
ReturnFalse(e) == GoTo(e, IF e \in Scans THEN "done" ELSE "resting")

AtPageEnd(e) == cursor[e].index + 1 = PageSize

AdvanceRestartsPage(e) ==            \* mutant: the index is reset before Next is tested
    /\ rpc[e] = "resting"
    /\ LET page == cursor[e].page IN
       IF ~AtPageEnd(e)
         THEN Place(e, page, cursor[e].index + 1) /\ GoTo(e, "testing")
       ELSE IF page < Len(pages)
         THEN Place(e, page + 1, 0) /\ GoTo(e, "testing")
       ELSE Place(e, page, -1) /\ ReturnFalse(e)
    /\ UNCHANGED <<pages, count, wpc, yielded, torn, opened>>

AdvanceLosesPlace(e) ==              \* mutant: the index is not stepped back at the end
    /\ rpc[e] = "resting"
    /\ LET page == cursor[e].page IN
       IF ~AtPageEnd(e)
         THEN Place(e, page, cursor[e].index + 1) /\ GoTo(e, "testing")
       ELSE IF page < Len(pages)
         THEN Place(e, page + 1, 0) /\ GoTo(e, "testing")
       ELSE Place(e, page, cursor[e].index + 1) /\ ReturnFalse(e)
    /\ UNCHANGED <<pages, count, wpc, yielded, torn, opened>>

AdvanceEntersAtOne(e) ==             \* mutant: the first item of a next page is passed over
    /\ rpc[e] = "resting"
    /\ LET page == cursor[e].page IN
       IF ~AtPageEnd(e)
         THEN Place(e, page, cursor[e].index + 1) /\ GoTo(e, "testing")
       ELSE IF page < Len(pages)
         THEN Place(e, page + 1, 1) /\ GoTo(e, "testing")
       ELSE UNCHANGED cursor /\ ReturnFalse(e)
    /\ UNCHANGED <<pages, count, wpc, yielded, torn, opened>>

(* Step to the next slot, in the next page once there is one. *)
Advance(e) ==
    /\ rpc[e] = "resting"
    /\ LET page == cursor[e].page IN
       IF ~AtPageEnd(e)
         THEN Place(e, page, cursor[e].index + 1) /\ GoTo(e, "testing")
       ELSE IF page < Len(pages)
         THEN Place(e, page + 1, 0) /\ GoTo(e, "testing")
       ELSE UNCHANGED cursor /\ ReturnFalse(e)
    /\ UNCHANGED <<pages, count, wpc, yielded, torn, opened>>

TestCountKeepsIndex(e) ==            \* mutant: the index is not stepped back
    /\ rpc[e] = "testing"
    /\ IF pages[cursor[e].page].size > cursor[e].index THEN GoTo(e, "fetching")
                                                      ELSE ReturnFalse(e)
    /\ UNCHANGED <<pages, count, wpc, cursor, yielded, torn, opened>>

(* Step back when the page holds no such item yet. *)
TestCount(e) ==
    /\ rpc[e] = "testing"
    /\ IF pages[cursor[e].page].size > cursor[e].index
         THEN GoTo(e, "fetching") /\ UNCHANGED cursor
         ELSE Place(e, cursor[e].page, cursor[e].index - 1) /\ ReturnFalse(e)
    /\ UNCHANGED <<pages, count, wpc, yielded, torn, opened>>

(* Read the slot.  A null item also makes MoveNext return false, and the    *)
(* index stays past it.                                                     *)
Fetch(e) ==
    /\ rpc[e] = "fetching"
    /\ LET slots == pages[cursor[e].page].slots
           slot  == cursor[e].index + 1
       IN IF slot <= Len(slots)
            THEN /\ yielded' = [yielded EXCEPT ![e] = Append(@, slots[slot])]
                 /\ GoTo(e, "resting")
                 /\ UNCHANGED torn
            ELSE /\ torn' = [torn EXCEPT ![e] = @ \cup {count + 1}]
                 /\ ReturnFalse(e)
                 /\ UNCHANGED yielded
    /\ UNCHANGED <<pages, count, wpc, cursor, opened>>

MoveNext(e) == Advance(e) \/ TestCount(e) \/ Fetch(e)
-----------------------------------------------------------------------------
Next ==
    \/ WriterStep
    \/ \E e \in Readers : Open(e) \/ MoveNext(e)

Spec == Init /\ [][Next]_vars

(* A thread that has begun an Append or an enumeration goes on with it; the *)
(* poller asks again every polling interval.                                *)
FairSpec ==
    /\ Spec
    /\ WF_vars(RaiseSize \/ StoreItem)
    /\ \A e \in Readers : WF_vars(MoveNext(e))
-----------------------------------------------------------------------------
(* Type correctness. *)
TypeOK ==
    /\ pages \in Seq([size : Nat, slots : Seq(Nat)])
    /\ count \in Nat
    /\ wpc \in {"ready", "adding", "storing"}
    /\ rpc \in [Readers -> {"closed", "resting", "testing", "fetching", "done"}]
    /\ cursor \in [Readers -> [page : Nat \ {0}, index : -1..(PageSize - 1)]]
    /\ yielded \in [Readers -> Seq(Nat)]
    /\ torn \in [Readers -> SUBSET Nat]
    /\ opened \in [Readers -> Nat]

(* No reader is given an item twice, or after a later one, also when it is  *)
(* resumed at the end of the list or of a page.                             *)
YieldsInOrder ==
    \A e \in Readers : \A i, j \in 1..Len(yielded[e]) :
        i < j => yielded[e][i] < yielded[e][j]

WasYielded(e, item) == \E i \in 1..Len(yielded[e]) : yielded[e][i] = item

(* The only items a reader passes over are those whose slot it read while   *)
(* List.Add was storing them.                                               *)
GapsAreTorn ==
    \A e \in Readers : \A i \in 1..Len(yielded[e]) :
        \A item \in 1..yielded[e][i] : WasYielded(e, item) \/ item \in torn[e]

(* A scan is given every item that was in the list when it began: what an   *)
(* answered append wrote is read by any later ReadAsync.                    *)
ScanIsComplete ==
    \A e \in Scans : rpc[e] = "done" =>
        \A item \in 1..opened[e] : WasYielded(e, item)

(* The poller's reader comes to every item, or read its slot too early: at  *)
(* no page boundary does it get stuck.                                      *)
PollerCatchesUp ==
    \A e \in Pollers : \A item \in 1..MaxItems :
        rpc[e] # "closed" /\ item <= count ~> WasYielded(e, item) \/ item \in torn[e]

(* What the tests of the list and of subscriptions take for granted: who    *)
(* enumerates the list is given every item of it.                           *)
PollerMissesNothing ==
    \A e \in Pollers : \A i \in 1..Len(yielded[e]) : yielded[e][i] = i
=============================================================================
