------------------------- MODULE LocalStorageProofs -------------------------
(***************************************************************************)
(* Proofs about LocalStorage, for headers, blocks and messages of any size, *)
(* and any number of items and failures.                                    *)
(*                                                                         *)
(* A checkpoint, in the metadata file or in the writer's hands, is never    *)
(* inside a record that still has its header.  So the next write either     *)
(* leaves a record as it is, or destroys its header too.  What was answered *)
(* lies before the checkpoint, one record after the other.                  *)
(*                                                                         *)
(* A reader follows such a chain of records, and two that begin at one      *)
(* place follow the same.  Behind the place the writer writes at there is   *)
(* no record, or one, if no failure left two; so the last position a reader *)
(* finds is beyond all others, and positions grow with the offset.          *)
(***************************************************************************)
EXTENDS LocalStorage, SequenceTheorems, WellFoundedInduction, TLAPS

CellType(n) == [item : 1..n, at : Nat]

(* The checkpoint the next call of WriteAsync finds. *)
Committed == IF metadata \in {Absent, Empty} THEN 0 ELSE metadata

WriterType ==
    /\ file \in Seq(CellType(Len(items)))
    /\ metadata \in {Absent, Empty} \cup 0..Len(file)
    /\ \E P : items \in Seq([size : Sizes, position : P])
    /\ todo \in Seq(1..Len(items))
    /\ checkpoint \in 0..Len(file)

(* The items of this call are yet to be written, each once. *)
TodoIsNew ==
    /\ \A j \in 1..Len(todo), i \in 1..Len(file) : file[i].item # todo[j]
    /\ \A j, k \in 1..Len(todo) : todo[j] = todo[k] => j = k

(* No record that begins before an offset ends behind it. *)
IsBoundary(offset) ==
    \A from \in Nat :
        IsHeader(from) /\ from < offset => from + Total(Cell(from + 1).item) <= offset

HeadersAreWhole == \A from \in Nat : IsHeader(from) => IsWholeAt(Cell(from + 1).item, from)

Writing == wpc \in {"writing", "deleted", "created"}

Inv == /\ WriterType
       /\ TodoIsNew
       /\ HeadersAreWhole
       /\ IsBoundary(Committed)
       /\ Writing => IsBoundary(checkpoint) /\ Committed <= checkpoint

LEMMA CommittedType ==
    ASSUME WriterType
    PROVE  /\ Committed \in 0..Len(file) /\ Len(file) \in Nat /\ Len(items) \in Nat
           /\ Len(todo) \in Nat
<1>1. Len(file) \in Nat /\ Len(items) \in Nat /\ Len(todo) \in Nat
  BY DEF WriterType
<1>2. 0 \in 0..Len(file)
  BY <1>1
<1> QED
  BY <1>1, <1>2 DEF WriterType, Committed

LEMMA TotalType ==
    ASSUME WriterType, NEW n \in 1..Len(items)
    PROVE  Total(n) \in Nat /\ HeaderSize < Total(n)
<1>1. PICK P : items \in Seq([size : Sizes, position : P])
  BY DEF WriterType
<1>2. items[n] \in [size : Sizes, position : P]
  <2> DEFINE S == [size : Sizes, position : P]
  <2>1. items \in Seq(S)
    BY <1>1
  <2> HIDE DEF S
  <2>2. items[n] \in S
    BY <2>1
  <2> QED
    BY <2>2 DEF S
<1>3. items[n].size \in Nat /\ items[n].size # 0
  BY <1>2, LocalStorageAssumption
<1> QED
  BY <1>3, LocalStorageAssumption DEF Total

LEMMA CellsTyped ==
    ASSUME WriterType
    PROVE  \A i \in 1..Len(file) : file[i].item \in 1..Len(items)
<1>1. \A i \in 1..Len(file) : file[i] \in CellType(Len(items))
  BY DEF WriterType
<1> QED
  BY <1>1 DEF CellType

LEMMA SeqGrows ==
    ASSUME NEW S, NEW T, S \subseteq T, NEW s \in Seq(S)
    PROVE  s \in Seq(T)
  OBVIOUS

(* What a reader takes for a header is in the file, and of one item. *)
LEMMA HeaderCells ==
    ASSUME WriterType, NEW from \in Nat, IsHeader(from)
    PROVE  /\ Cell(from + 1).item \in 1..Len(items)
           /\ \A k \in 1..HeaderSize : /\ from + k \in 1..Len(file)
                                       /\ file[from + k] = [item |-> Cell(from + 1).item, at |-> k]
<1>1. HeaderSize \in Nat /\ 1 \in 1..HeaderSize
  BY LocalStorageAssumption
<1>2. DOMAIN file = 1..Len(file)
  BY DEF WriterType
<1>3. ASSUME NEW k \in 1..HeaderSize
      PROVE  from + k \in 1..Len(file) /\ file[from + k] = [item |-> Cell(from + 1).item, at |-> k]
  <2>1. Cell(from + k) = [item |-> Cell(from + 1).item, at |-> k]
    BY DEF IsHeader
  <2>2. Cell(from + k).at = k /\ k # 0
    BY <1>1, <2>1
  <2>3. Cell(from + k) # Zero
    BY <2>2 DEF Zero
  <2> QED
    BY <1>2, <2>1, <2>3 DEF Cell
<1>4. Cell(from + 1) = file[from + 1] /\ from + 1 \in 1..Len(file)
  <2>1. from + 1 \in 1..Len(file)
    BY <1>1, <1>3
  <2> QED
    BY <1>2, <2>1 DEF Cell
<1>5. file[from + 1].item \in 1..Len(items)
  BY <1>4, CellsTyped
<1> QED
  BY <1>3, <1>4, <1>5

LEMMA InvIsNoTorn == Inv => NoTornMessage
<1> SUFFICES ASSUME Inv PROVE NoTornMessage
  OBVIOUS
<1>1. 0..Len(file) \subseteq Nat
  BY CommittedType DEF Inv
<1> QED
  BY <1>1 DEF Inv, HeadersAreWhole, NoTornMessage

LEMMA InitInv == Init => Inv
<1> SUFFICES ASSUME Init PROVE Inv
  OBVIOUS
<1>1. file = <<>> /\ items = <<>> /\ todo = <<>> /\ metadata = Absent /\ checkpoint = 0 /\ wpc = "idle"
  BY DEF Init
<1>2. WriterType
  <2>1. file \in Seq(CellType(Len(items))) /\ todo \in Seq(1..Len(items))
    BY <1>1
  <2>2. items \in Seq([size : Sizes, position : {}])
    BY <1>1
  <2>3. checkpoint \in 0..Len(file)
    BY <1>1
  <2> QED
    BY <1>1, <2>1, <2>2, <2>3 DEF WriterType
<1>3. \A from \in Nat : ~IsHeader(from)
  <2> SUFFICES ASSUME NEW from \in Nat, IsHeader(from) PROVE FALSE
    OBVIOUS
  <2>1. 1 \in 1..HeaderSize /\ Len(file) = 0
    BY <1>1, LocalStorageAssumption
  <2> QED
    BY <1>2, <2>1, HeaderCells
<1> QED
  BY <1>1, <1>2, <1>3 DEF Inv, TodoIsNew, HeadersAreWhole, IsBoundary, Writing
-----------------------------------------------------------------------------
(* The steps that leave the data file alone. *)
LEMMA CellsUnchanged ==
    ASSUME UNCHANGED file
    PROVE  \A i : Cell(i)' = Cell(i)
  BY DEF Cell

(* Its records stay what they are as items are begun. *)
LEMMA FileUnchanged ==
    ASSUME Inv, UNCHANGED file,
           \A n \in 1..Len(items) : items'[n].size = items[n].size
    PROVE  /\ HeadersAreWhole'
           /\ \A offset \in Nat : IsBoundary(offset) => IsBoundary(offset)'
<1>1. ASSUME NEW from \in Nat
      PROVE  /\ IsHeader(from)' <=> IsHeader(from)
             /\ Cell(from + 1)' = Cell(from + 1)
  BY DEF IsHeader, Cell
<1>2. ASSUME NEW from \in Nat, IsHeader(from)
      PROVE  /\ Total(Cell(from + 1).item)' = Total(Cell(from + 1).item)
             /\ IsWholeAt(Cell(from + 1).item, from)'
  <2>1. Cell(from + 1).item \in 1..Len(items)
    BY <1>2, HeaderCells DEF Inv
  <2>2. Total(Cell(from + 1).item)' = Total(Cell(from + 1).item)
    BY <1>1, <2>1 DEF Total
  <2>3. IsWholeAt(Cell(from + 1).item, from)
    BY <1>2 DEF Inv, HeadersAreWhole
  <2> QED
    BY <1>1, <2>2, <2>3 DEF IsWholeAt, Cell
<1>3. HeadersAreWhole'
  BY <1>1, <1>2 DEF HeadersAreWhole
<1>4. ASSUME NEW offset \in Nat, IsBoundary(offset) PROVE IsBoundary(offset)'
  BY <1>1, <1>2, <1>4 DEF IsBoundary
<1> QED
  BY <1>3, <1>4

(* A step of the metadata or of the poller. *)
LEMMA OtherStep ==
    ASSUME Inv, UNCHANGED <<file, items>>,
           todo' = todo \/ todo' = <<>>,
           checkpoint' \in 0..Len(file),
           metadata' \in {Absent, Empty} \cup 0..Len(file),
           IsBoundary(Committed'),
           Writing' => IsBoundary(checkpoint') /\ Committed' <= checkpoint'
    PROVE  Inv'
<1>1. WriterType'
  <2>1. todo' \in Seq(1..Len(items))
    <3>1. todo \in Seq(1..Len(items)) /\ <<>> \in Seq(1..Len(items))
      BY DEF Inv, WriterType
    <3> QED
      BY <3>1
  <2>2. PICK P : items \in Seq([size : Sizes, position : P])
    BY DEF Inv, WriterType
  <2>3. items' \in Seq([size : Sizes, position : P])
    BY <2>2
  <2>4. file' \in Seq(CellType(Len(items')))
    BY DEF Inv, WriterType
  <2>5. Len(items') = Len(items) /\ Len(file') = Len(file)
    OBVIOUS
  <2> QED
    BY <2>1, <2>3, <2>4, <2>5 DEF WriterType
<1>2. TodoIsNew'
  BY DEF Inv, TodoIsNew
<1>3. /\ HeadersAreWhole'
      /\ \A offset : IsBoundary(offset) /\ offset \in Nat => IsBoundary(offset)'
  BY FileUnchanged
<1>4. Committed' \in Nat /\ checkpoint' \in Nat
  BY CommittedType DEF Inv, Committed
<1> QED
  BY <1>1, <1>2, <1>3, <1>4 DEF Inv, IsBoundary, IsHeader, Cell, Total

LEMMA BeginInv ==
    ASSUME Inv, NEW sizes \in Batches, AppendItems(sizes)
    PROVE  Inv'
<1> DEFINE n == Len(items)
           m == Len(sizes)
           p == LastPosition
           new == [k \in DOMAIN sizes |-> [size |-> sizes[k], position |-> p + k]]
<1>1. /\ UNCHANGED <<file, metadata, checkpoint>> /\ wpc' = "opening"
      /\ items' = items \o new
      /\ todo' = [k \in DOMAIN sizes |-> n + k]
  BY DEF AppendItems, Begin, n, new
<1>2. m \in Nat /\ DOMAIN sizes = 1..m /\ \A k \in 1..m : sizes[k] \in Sizes
  <2>1. PICK b \in 0..MaxBatch : sizes \in [1..b -> Sizes]
    BY DEF Batches
  <2>2. b \in Nat
    BY LocalStorageAssumption
  <2> QED
    BY <2>1, <2>2
<1>3. n \in Nat
  BY CommittedType DEF Inv
<1> HIDE DEF p, m, n
<1>4. PICK P : items \in Seq([size : Sizes, position : P])
  BY DEF Inv, WriterType
<1> DEFINE Q == P \cup {p + k : k \in 1..m}
           S == [size : Sizes, position : Q]
<1>5. /\ items' \in Seq(S) /\ Len(items') = n + m
      /\ \A i \in 1..n : items'[i] = items[i]
  <2>1. items \in Seq(S)
    <3>1. [size : Sizes, position : P] \subseteq S
      OBVIOUS
    <3> QED
      BY <1>4, <3>1, SeqGrows
  <2>2. new \in Seq(S) /\ Len(new) = m
    <3>1. new = [k \in 1..m |-> [size |-> sizes[k], position |-> p + k]]
      BY <1>2
    <3>2. \A k \in 1..m : [size |-> sizes[k], position |-> p + k] \in S
      BY <1>2
    <3> HIDE DEF S
    <3> QED
      BY <1>2, <3>1, <3>2
  <2> HIDE DEF S, new
  <2>3. /\ items \o new \in Seq(S) /\ Len(items \o new) = Len(items) + Len(new)
        /\ \A i \in 1..Len(items) : (items \o new)[i] = items[i]
    BY <2>1, <2>2, ConcatProperties
  <2> QED
    BY <1>1, <2>2, <2>3 DEF n
<1>6. todo' \in Seq(1..Len(items')) /\ Len(todo') = m /\ \A j \in 1..m : todo'[j] = n + j
  <2>1. todo' = [k \in 1..m |-> n + k]
    BY <1>1, <1>2
  <2>2. \A k \in 1..m : n + k \in 1..Len(items')
    BY <1>2, <1>3, <1>5
  <2> QED
    BY <1>2, <2>1, <2>2
<1>7. WriterType'
  <2>1. file \in Seq(CellType(Len(items')))
    <3>1. CellType(Len(items)) \subseteq CellType(Len(items'))
      BY <1>2, <1>3, <1>5 DEF CellType, n
    <3> QED
      BY <3>1 DEF Inv, WriterType
  <2>2. \E R : items' \in Seq([size : Sizes, position : R])
    BY <1>5
  <2> QED
    BY <1>1, <1>6, <2>1, <2>2 DEF Inv, WriterType
<1>8. TodoIsNew'
  <2>1. \A i \in 1..Len(file) : file[i].item \in 1..n
    BY CellsTyped DEF Inv, n
  <2>2. \A i \in 1..Len(file), j \in 1..m : file[i].item # n + j
    BY <1>2, <1>3, <2>1
  <2>3. \A j, k \in 1..m : n + j = n + k => j = k
    BY <1>2, <1>3
  <2> QED
    BY <1>1, <1>6, <2>2, <2>3 DEF TodoIsNew
<1>9. /\ HeadersAreWhole'
      /\ \A offset \in Nat : IsBoundary(offset) => IsBoundary(offset)'
  BY <1>1, <1>5, FileUnchanged DEF n
<1>10. IsBoundary(Committed)'
  <2>1. Committed' = Committed /\ Committed \in Nat
    BY <1>1, CommittedType DEF Inv, Committed
  <2>2. IsBoundary(Committed)
    BY DEF Inv
  <2> QED
    BY <1>9, <2>1, <2>2 DEF IsBoundary
<1> QED
  BY <1>1, <1>7, <1>8, <1>9, <1>10 DEF Inv, Writing
-----------------------------------------------------------------------------
(* Writing a record at a boundary. *)

(* The file before and behind the new record is what it was. *)
LEMMA OverwriteProperties ==
    ASSUME NEW S, file \in Seq(S), NEW at \in 0..Len(file), NEW T \in Nat,
           NEW cells \in Seq(S), Len(cells) = T
    PROVE  /\ Overwrite(cells, at) \in Seq(S)
           /\ Len(file) <= Len(Overwrite(cells, at)) /\ at + T <= Len(Overwrite(cells, at))
           /\ \A i \in 1..Len(Overwrite(cells, at)) :
                 IF i \in (at + 1)..(at + T)
                   THEN i - at \in 1..T /\ Overwrite(cells, at)[i] = cells[i - at]
                   ELSE i \in 1..Len(file) /\ Overwrite(cells, at)[i] = file[i]
<1> DEFINE end == at + T
           len == IF Len(file) < end THEN end ELSE Len(file)
           new == [i \in 1..len |-> IF i \in (at + 1)..end THEN cells[i - at] ELSE file[i]]
<1>1. Overwrite(cells, at) = new
  BY DEF Overwrite
<1>2. Len(file) \in Nat /\ at \in Nat /\ at <= Len(file)
  OBVIOUS
<1>3. len \in Nat /\ Len(file) <= len /\ end <= len /\ (len = end \/ len = Len(file))
  BY <1>2
<1>4. \A i \in 1..len : IF i \in (at + 1)..end THEN i - at \in 1..T ELSE i \in 1..Len(file)
  BY <1>2, <1>3
<1>5. \A j \in 1..T : cells[j] \in S
  OBVIOUS
<1>6. \A i \in 1..Len(file) : file[i] \in S
  OBVIOUS
<1> HIDE DEF len, end
<1>7. \A i \in 1..len : (IF i \in (at + 1)..end THEN cells[i - at] ELSE file[i]) \in S
  BY <1>4, <1>5, <1>6
<1>8. new \in Seq(S) /\ Len(new) = len
  BY <1>3, <1>7
<1> QED
  BY <1>1, <1>3, <1>4, <1>8 DEF end

LEMMA WrittenFile ==
    ASSUME Inv, WriteRecord, NEW n, n = Head(todo), NEW T, T = Total(n), NEW cp, cp = checkpoint
    PROVE  /\ n \in 1..Len(items) /\ T \in Nat /\ HeaderSize < T
           /\ cp \in Nat /\ cp <= Len(file) /\ Len(file) \in Nat
           /\ file' \in Seq(CellType(Len(items))) /\ Len(file') \in Nat
           /\ Len(file) <= Len(file') /\ cp + T <= Len(file')
           /\ \A i \in 1..Len(file') :
                 /\ i \in (cp + 1)..(cp + T) => file'[i] = [item |-> n, at |-> i - cp]
                 /\ i \notin (cp + 1)..(cp + T) => i \in 1..Len(file) /\ file'[i] = file[i]
           /\ \A i \in (cp + 1)..(cp + T) : Cell(i)' = file'[i]
           /\ \A i \in 1..Len(file) : i \notin (cp + 1)..(cp + T) => Cell(i)' = Cell(i)
<1>1. /\ UNCHANGED <<metadata, items, wpc>> /\ wpc = "writing" /\ todo # <<>>
      /\ file' = Overwrite(Record(n), cp) /\ checkpoint' = cp + T /\ todo' = Tail(todo)
  BY DEF WriteRecord, Write
<1>2. /\ Len(file) \in Nat /\ Len(items) \in Nat /\ Len(todo) \in Nat
      /\ Committed \in Nat /\ Committed <= Len(file)
  BY CommittedType DEF Inv
<1>3. todo \in Seq(1..Len(items)) /\ file \in Seq(CellType(Len(items))) /\ cp \in 0..Len(file)
  BY DEF Inv, WriterType
<1>4. n \in 1..Len(items) /\ n = todo[1] /\ 1 \in 1..Len(todo)
  BY <1>1, <1>2, <1>3
<1>5. T \in Nat /\ HeaderSize < T /\ HeaderSize \in Nat /\ HeaderSize # 0
  BY <1>4, TotalType, LocalStorageAssumption DEF Inv
<1>6. cp \in Nat /\ cp <= Len(file) /\ IsBoundary(cp) /\ IsBoundary(Committed) /\ Committed <= cp
  BY <1>1, <1>2, <1>3 DEF Inv, Writing
<1>7. /\ Record(n) \in Seq(CellType(Len(items))) /\ Len(Record(n)) = T
      /\ \A k \in 1..T : Record(n)[k] = [item |-> n, at |-> k]
  <2>1. \A k \in 1..T : [item |-> n, at |-> k] \in CellType(Len(items))
    BY <1>4, <1>5 DEF CellType
  <2> DEFINE R == [k \in 1..T |-> [item |-> n, at |-> k]]
             S == CellType(Len(items))
  <2>2. Record(n) = R
    BY DEF Record
  <2>3. \A k \in 1..T : R[k] \in S
    BY <2>1
  <2> HIDE DEF S
  <2>4. R \in Seq(S) /\ Len(R) = T
    BY <1>5, <2>3
  <2> QED
    BY <2>2, <2>4 DEF S
<1>8. /\ file' \in Seq(CellType(Len(items))) /\ Len(file) <= Len(file') /\ cp + T <= Len(file')
      /\ Len(file') \in Nat
      /\ \A i \in 1..Len(file') :
            /\ i \in (cp + 1)..(cp + T) => file'[i] = [item |-> n, at |-> i - cp]
            /\ i \notin (cp + 1)..(cp + T) => i \in 1..Len(file) /\ file'[i] = file[i]
  <2>1. /\ file' \in Seq(CellType(Len(items)))
        /\ Len(file) <= Len(file') /\ cp + T <= Len(file')
        /\ \A i \in 1..Len(file') :
              IF i \in (cp + 1)..(cp + T)
                THEN i - cp \in 1..T /\ file'[i] = Record(n)[i - cp]
                ELSE i \in 1..Len(file) /\ file'[i] = file[i]
    <3> DEFINE S == CellType(Len(items))
               R == Record(n)
    <3>1. file \in Seq(S) /\ cp \in 0..Len(file) /\ T \in Nat /\ R \in Seq(S) /\ Len(R) = T
      BY <1>3, <1>5, <1>7
    <3>2. file' = Overwrite(R, cp)
      BY <1>1
    <3> HIDE DEF S, R
    <3>3. /\ Overwrite(R, cp) \in Seq(S)
          /\ Len(file) <= Len(Overwrite(R, cp)) /\ cp + T <= Len(Overwrite(R, cp))
          /\ \A i \in 1..Len(Overwrite(R, cp)) :
                IF i \in (cp + 1)..(cp + T)
                  THEN i - cp \in 1..T /\ Overwrite(R, cp)[i] = R[i - cp]
                  ELSE i \in 1..Len(file) /\ Overwrite(R, cp)[i] = file[i]
      BY <3>1, OverwriteProperties
    <3> QED
      BY <3>2, <3>3 DEF S, R
  <2> QED
    BY <1>7, <2>1
<1>9. /\ \A i \in (cp + 1)..(cp + T) : Cell(i)' = file'[i]
      /\ \A i \in 1..Len(file) : i \notin (cp + 1)..(cp + T) => Cell(i)' = Cell(i)
  <2>1. DOMAIN file = 1..Len(file) /\ DOMAIN file' = 1..Len(file')
    BY <1>3, <1>8
  <2>2. 1..Len(file) \subseteq 1..Len(file') /\ (cp + 1)..(cp + T) \subseteq 1..Len(file')
    BY <1>2, <1>5, <1>6, <1>8
  <2> QED
    BY <1>8, <2>1, <2>2 DEF Cell
<1> QED
  BY <1>2, <1>4, <1>5, <1>6, <1>8, <1>9

(* A header of the new file is the new record's, or lies outside of it and  *)
(* was a header before.                                                     *)
LEMMA HeaderWritten ==
    ASSUME Inv, WriteRecord, WriterType',
           NEW n, n = Head(todo), NEW cp, cp = checkpoint, NEW T, T = Total(n),
           NEW from \in Nat, IsHeader(from)'
    PROVE  \/ Cell(from + 1)'.item = n /\ from = cp
           \/ /\ Cell(from + 1)'.item # n /\ Cell(from + 1).item = Cell(from + 1)'.item
              /\ IsHeader(from)
              /\ from + HeaderSize <= cp \/ cp + T <= from
<1>1. /\ n \in 1..Len(items) /\ T \in Nat /\ HeaderSize < T
      /\ HeaderSize \in Nat /\ HeaderSize # 0 /\ cp \in Nat
      /\ \A i \in 1..Len(file') :
            /\ i \in (cp + 1)..(cp + T) => file'[i] = [item |-> n, at |-> i - cp]
            /\ i \notin (cp + 1)..(cp + T) => i \in 1..Len(file) /\ file'[i] = file[i]
  BY WrittenFile, LocalStorageAssumption
<1>2. \A i \in 1..Len(file') : i \in (cp + 1)..(cp + T) => file'[i].item = n /\ file'[i].at = i - cp
  <2> SUFFICES ASSUME NEW i \in 1..Len(file'), i \in (cp + 1)..(cp + T)
               PROVE  file'[i].item = n /\ file'[i].at = i - cp
    OBVIOUS
  <2> DEFINE k == i - cp
  <2>1. file'[i] = [item |-> n, at |-> k]
    BY <1>1
  <2> HIDE DEF k
  <2>2. file'[i].item = n /\ file'[i].at = k
    BY <2>1
  <2> QED
    BY <2>2 DEF k
(* The new item is nowhere else in the file. *)
<1>3. \A i \in 1..Len(file) : file[i].item # n
  <2>1. todo \in Seq(1..Len(items)) /\ todo # <<>>
    BY DEF Inv, WriterType, WriteRecord
  <2>2. n = todo[1] /\ 1 \in 1..Len(todo)
    BY <2>1
  <2> QED
    BY <2>2 DEF Inv, TodoIsNew
<1> DEFINE m == Cell(from + 1)'.item
<1>4. \A k \in 1..HeaderSize : /\ from + k \in 1..Len(file')
                               /\ file'[from + k] = [item |-> m, at |-> k]
  <2>1. (WriterType /\ IsHeader(from) => \A k \in 1..HeaderSize :
            /\ from + k \in 1..Len(file)
            /\ file[from + k] = [item |-> Cell(from + 1).item, at |-> k])'
    BY HeaderCells, PTL
  <2> QED
    BY <2>1
<1> HIDE DEF m
<1>5. CASE m = n
  <2>1. from + 1 \in 1..Len(file') /\ file'[from + 1].item = n /\ file'[from + 1].at = 1
    <3>1. 1 \in 1..HeaderSize
      BY <1>1
    <3>2. from + 1 \in 1..Len(file') /\ file'[from + 1] = [item |-> m, at |-> 1]
      BY <1>4, <3>1
    <3> QED
      BY <1>5, <3>2
  <2>2. from + 1 \in (cp + 1)..(cp + T)
    <3> SUFFICES ASSUME from + 1 \notin (cp + 1)..(cp + T) PROVE FALSE
      OBVIOUS
    <3>1. from + 1 \in 1..Len(file) /\ file'[from + 1] = file[from + 1]
      BY <1>1, <2>1
    <3> QED
      BY <1>3, <2>1, <3>1
  <2>3. from + 1 - cp = 1
    <3>1. file'[from + 1].at = from + 1 - cp
      BY <1>1, <1>2, <2>1, <2>2
    <3> QED
      BY <2>1, <3>1
  <2> QED
    BY <1>1, <1>5, <2>3 DEF m
<1>6. CASE m # n
  <2>1. \A k \in 1..HeaderSize : /\ from + k \notin (cp + 1)..(cp + T)
                                 /\ from + k \in 1..Len(file)
                                 /\ file[from + k] = [item |-> m, at |-> k]
    <3> SUFFICES ASSUME NEW k \in 1..HeaderSize
                 PROVE  /\ from + k \notin (cp + 1)..(cp + T)
                        /\ from + k \in 1..Len(file)
                        /\ file[from + k] = [item |-> m, at |-> k]
      OBVIOUS
    <3>1. from + k \in 1..Len(file') /\ file'[from + k] = [item |-> m, at |-> k]
      BY <1>4
    <3>2. file'[from + k].item = m
      BY <3>1
    <3>3. from + k \notin (cp + 1)..(cp + T)
      BY <1>2, <1>6, <3>1, <3>2
    <3> QED
      BY <1>1, <3>1, <3>3
  <2>2. from + HeaderSize <= cp \/ cp + T <= from
    <3> SUFFICES ASSUME ~(from + HeaderSize <= cp), ~(cp + T <= from) PROVE FALSE
      OBVIOUS
    <3>1. CASE from < cp
      <4>1. cp + 1 - from \in 1..HeaderSize /\ from + (cp + 1 - from) \in (cp + 1)..(cp + T)
        BY <1>1, <3>1
      <4> QED
        BY <2>1, <4>1
    <3>2. CASE cp <= from
      <4>1. 1 \in 1..HeaderSize /\ from + 1 \in (cp + 1)..(cp + T)
        BY <1>1, <3>2
      <4> QED
        BY <2>1, <4>1
    <3> QED
      BY <1>1, <3>1, <3>2
  <2>3. \A k \in 1..HeaderSize : Cell(from + k) = [item |-> m, at |-> k]
    <3>1. DOMAIN file = 1..Len(file)
      BY DEF Inv, WriterType
    <3> QED
      BY <2>1, <3>1 DEF Cell
  <2>4. Cell(from + 1).item = m /\ IsHeader(from)
    <3>1. Cell(from + 1) = [item |-> m, at |-> 1]
      BY <1>1, <2>3
    <3>2. Cell(from + 1).item = m
      BY <3>1
    <3> QED
      BY <2>3, <3>2 DEF IsHeader
  <2> QED
    BY <1>6, <2>2, <2>4 DEF m
<1> QED
  BY <1>5, <1>6

LEMMA WriteInv ==
    ASSUME Inv, WriteRecord
    PROVE  Inv'
<1> DEFINE n  == Head(todo)
           T  == Total(n)
           cp == checkpoint
<1>1. /\ UNCHANGED <<metadata, items, wpc>> /\ wpc = "writing" /\ todo # <<>>
      /\ file' = Overwrite(Record(n), cp) /\ checkpoint' = cp + T /\ todo' = Tail(todo)
  BY DEF WriteRecord, Write
<1>2. /\ Len(file) \in Nat /\ Len(items) \in Nat /\ Len(todo) \in Nat
      /\ Committed \in Nat /\ Committed <= Len(file)
  BY CommittedType DEF Inv
<1>3. todo \in Seq(1..Len(items)) /\ file \in Seq(CellType(Len(items))) /\ cp \in 0..Len(file)
  BY DEF Inv, WriterType
<1>4. n \in 1..Len(items) /\ n = todo[1] /\ 1 \in 1..Len(todo)
  BY <1>1, <1>2, <1>3
<1>5. T \in Nat /\ HeaderSize < T /\ HeaderSize \in Nat /\ HeaderSize # 0
  BY <1>4, TotalType, LocalStorageAssumption DEF Inv
<1>6. cp \in Nat /\ cp <= Len(file) /\ IsBoundary(cp) /\ IsBoundary(Committed) /\ Committed <= cp
  BY <1>1, <1>2, <1>3 DEF Inv, Writing
<1> HIDE DEF n, T, cp
<1>7. /\ file' \in Seq(CellType(Len(items))) /\ Len(file) <= Len(file') /\ cp + T <= Len(file')
      /\ Len(file') \in Nat
      /\ \A i \in 1..Len(file') :
            /\ i \in (cp + 1)..(cp + T) => file'[i] = [item |-> n, at |-> i - cp]
            /\ i \notin (cp + 1)..(cp + T) => i \in 1..Len(file) /\ file'[i] = file[i]
  BY <1>1, WrittenFile DEF n, T, cp
<1>8. \A i \in 1..Len(file') : i \in (cp + 1)..(cp + T) => file'[i].item = n /\ file'[i].at = i - cp
  <2> SUFFICES ASSUME NEW i \in 1..Len(file'), i \in (cp + 1)..(cp + T)
               PROVE  file'[i].item = n /\ file'[i].at = i - cp
    OBVIOUS
  <2> DEFINE k == i - cp
  <2>1. file'[i] = [item |-> n, at |-> k]
    BY <1>7
  <2> HIDE DEF k
  <2>2. file'[i].item = n /\ file'[i].at = k
    BY <2>1
  <2> QED
    BY <2>2 DEF k
<1>9. WriterType'
  <2>1. todo' \in Seq(1..Len(items)) /\ checkpoint' \in 0..Len(file')
    BY <1>1, <1>3, <1>5, <1>6, <1>7
  <2>2. metadata' \in {Absent, Empty} \cup 0..Len(file')
    <3>1. 0..Len(file) \subseteq 0..Len(file')
      BY <1>2, <1>7
    <3>2. metadata \in {Absent, Empty} \cup 0..Len(file)
      BY DEF Inv, WriterType
    <3> QED
      BY <1>1, <3>1, <3>2
  <2>3. PICK P : items \in Seq([size : Sizes, position : P])
    BY DEF Inv, WriterType
  <2> QED
    BY <1>1, <1>7, <2>1, <2>2, <2>3 DEF WriterType
<1>10. TodoIsNew'
  <2>1. Len(todo') = Len(todo) - 1 /\ \A j \in 1..Len(todo') : todo'[j] = todo[j + 1] /\ j + 1 \in 1..Len(todo)
    BY <1>1, <1>2, <1>3
  <2>2. \A j \in 1..Len(todo') : todo'[j] # n
    BY <1>2, <1>4, <2>1 DEF Inv, TodoIsNew
  <2>3. \A j, k \in 1..Len(todo') : todo'[j] = todo'[k] => j = k
    BY <1>2, <2>1 DEF Inv, TodoIsNew
  <2>4. \A i \in 1..Len(file') : file'[i].item = n \/ (i \in 1..Len(file) /\ file'[i] = file[i])
    BY <1>7, <1>8
  <2>5. \A j \in 1..Len(todo'), i \in 1..Len(file') : file'[i].item # todo'[j]
    BY <2>1, <2>2, <2>4 DEF Inv, TodoIsNew
  <2> QED
    BY <2>3, <2>5 DEF TodoIsNew
<1>11. ASSUME NEW from \in Nat, IsHeader(from)'
       PROVE  LET m == Cell(from + 1)'.item IN
              \/ m = n /\ from = cp
              \/ /\ from + HeaderSize <= cp \/ cp + T <= from
                 /\ IsHeader(from) /\ Cell(from + 1).item = m
  BY <1>9, <1>11, HeaderWritten DEF n, cp, T
<1>12. /\ \A i \in (cp + 1)..(cp + T) : Cell(i)' = file'[i]
       /\ \A i \in 1..Len(file) : i \notin (cp + 1)..(cp + T) => Cell(i)' = Cell(i)
  BY <1>1, WrittenFile DEF n, T, cp
<1>13. ASSUME NEW from \in Nat, IsHeader(from)'
       PROVE  LET m == Cell(from + 1)'.item IN
              /\ \A k \in 1..Total(m) : Cell(from + k)' = [item |-> m, at |-> k]
              /\ from < Committed => from + Total(m) <= Committed
              /\ from < cp + T => from + Total(m) <= cp + T
  <2> DEFINE m == Cell(from + 1)'.item
  <2>1. CASE m = n /\ from = cp
    <3>1. \A k \in 1..T : from + k \in (cp + 1)..(cp + T) /\ from + k - cp = k
      <4> SUFFICES ASSUME NEW k \in 1..T
                   PROVE  from + k \in (cp + 1)..(cp + T) /\ from + k - cp = k
        OBVIOUS
      <4>1. from = cp
        BY <2>1
      <4>2. cp + k \in (cp + 1)..(cp + T) /\ cp + k - cp = k
        BY <1>5, <1>6
      <4> QED
        BY <4>1, <4>2
    <3>2. \A k \in 1..T : Cell(from + k)' = [item |-> n, at |-> k]
      <4> SUFFICES ASSUME NEW k \in 1..T PROVE Cell(from + k)' = [item |-> n, at |-> k]
        OBVIOUS
      <4>1. Cell(from + k)' = file'[from + k]
        BY <1>12, <3>1
      <4>2. from + k \in 1..Len(file') /\ from + k \in (cp + 1)..(cp + T)
        BY <1>2, <1>5, <1>6, <1>7, <3>1
      <4>3. file'[from + k] \in CellType(Len(items))
        BY <1>7, <4>2
      <4>4. file'[from + k].item = n /\ file'[from + k].at = k
        BY <1>6, <1>8, <3>1, <4>2
      <4> QED
        BY <4>1, <4>3, <4>4 DEF CellType
    <3>3. ~(from < Committed)
      BY <1>2, <1>6, <2>1
    <3>4. Total(m) = T /\ from + T <= cp + T
      BY <1>5, <1>6, <2>1 DEF T
    <3> HIDE DEF m
    <3> QED
      BY <2>1, <3>2, <3>3, <3>4 DEF m
  <2>2. CASE /\ from + HeaderSize <= cp \/ cp + T <= from
             /\ IsHeader(from) /\ Cell(from + 1).item = m
    <3> HIDE DEF m
    <3>1. m \in 1..Len(items) /\ \A k \in 1..Total(m) : Cell(from + k) = [item |-> m, at |-> k]
      BY <2>2, HeaderCells DEF Inv, HeadersAreWhole, IsWholeAt
    <3>2. Total(m) \in Nat
      BY <3>1, TotalType DEF Inv
    <3>3. /\ from < cp => from + Total(m) <= cp
          /\ from < Committed => from + Total(m) <= Committed
      BY <1>6, <2>2 DEF IsBoundary
    <3>4. \A k \in 1..Total(m) : from + k \in 1..Len(file)
      <4>1. \A k \in 1..Total(m) : Cell(from + k) # Zero
        <5> SUFFICES ASSUME NEW k \in 1..Total(m), Cell(from + k) = Zero PROVE FALSE
          OBVIOUS
        <5>1. Cell(from + k) = [item |-> m, at |-> k] /\ k # 0
          BY <3>1, <3>2
        <5>2. Cell(from + k).at = k
          BY <5>1
        <5>3. Zero.at = 0
          BY DEF Zero
        <5> QED
          BY <5>1, <5>2, <5>3
      <4> QED
        BY <1>3, <4>1 DEF Cell
    <3>5. from < cp \/ cp + T <= from
      BY <1>5, <1>6, <2>2
    <3>6. \A k \in 1..Total(m) : from + k \notin (cp + 1)..(cp + T)
      BY <1>5, <1>6, <3>2, <3>3, <3>5
    <3>7. \A k \in 1..Total(m) : Cell(from + k)' = [item |-> m, at |-> k]
      BY <1>12, <3>1, <3>4, <3>6
    <3>8. from < cp + T => from + Total(m) <= cp + T
      BY <1>5, <1>6, <3>2, <3>3, <3>5
    <3> QED
      BY <3>3, <3>7, <3>8 DEF m
  <2> QED
    BY <1>11, <1>13, <2>1, <2>2
<1>14. Committed' = Committed /\ \A m : Total(m)' = Total(m)
  BY <1>1 DEF Committed, Total
<1>15. HeadersAreWhole'
  BY <1>13, <1>14 DEF HeadersAreWhole, IsWholeAt
<1>16. IsBoundary(Committed)' /\ IsBoundary(checkpoint)'
  BY <1>1, <1>13, <1>14 DEF IsBoundary, cp
<1>17. Committed' <= checkpoint'
  BY <1>1, <1>2, <1>5, <1>6, <1>14
<1> QED
  BY <1>9, <1>10, <1>15, <1>16, <1>17 DEF Inv
-----------------------------------------------------------------------------
LEMMA InvStep == Inv /\ [Next]_vars => Inv'
<1> SUFFICES ASSUME Inv, [Next]_vars PROVE Inv'
  OBVIOUS
<1>1. /\ metadata \in {Absent, Empty} \cup 0..Len(file) /\ checkpoint \in 0..Len(file)
      /\ Committed \in 0..Len(file) /\ Len(file) \in Nat
      /\ IsBoundary(Committed) /\ IsBoundary(0)
      /\ Writing => IsBoundary(checkpoint) /\ Committed <= checkpoint
  <2>1. metadata \in {Absent, Empty} \cup 0..Len(file) /\ checkpoint \in 0..Len(file)
    BY DEF Inv, WriterType
  <2>2. IsBoundary(0)
    BY DEF IsBoundary
  <2>3. Committed \in 0..Len(file) /\ Len(file) \in Nat
    BY CommittedType DEF Inv
  <2> QED
    BY <2>1, <2>2, <2>3 DEF Inv
<1>2. CASE UNCHANGED vars \/ Deliver \/ ReadBlock
  <2>1. UNCHANGED writerVars
    BY <1>2 DEF vars, Deliver, ReadBlock
  <2>2. UNCHANGED <<file, items, todo, checkpoint, metadata, wpc>>
    BY <2>1 DEF writerVars
  <2>3. Committed' = Committed /\ (Writing' <=> Writing)
    BY <2>2 DEF Committed, Writing
  <2> QED
    BY <1>1, <2>2, <2>3, OtherStep
<1>3. ASSUME NEW sizes \in Batches, AppendItems(sizes) PROVE Inv'
  BY <1>3, BeginInv
<1>4. CASE OpenCheckpoint
  <2>1. /\ UNCHANGED <<file, items, metadata>>
        /\ todo' = todo \/ todo' = <<>>
        /\ checkpoint' = Committed
    <3>1. UNCHANGED <<file, items, metadata>>
      BY <1>4 DEF OpenCheckpoint
    <3>2. checkpoint' = Committed
      BY <1>4 DEF OpenCheckpoint, Committed
    <3>3. todo' = todo \/ todo' = <<>>
      BY <1>4, Zenon DEF OpenCheckpoint
    <3> QED
      BY <3>1, <3>2, <3>3
  <2>2. Committed' = Committed
    BY <2>1 DEF Committed
  <2>3. /\ IsBoundary(Committed') /\ IsBoundary(checkpoint') /\ Committed' <= checkpoint'
        /\ checkpoint' \in 0..Len(file)
    BY <1>1, <2>1, <2>2
  <2> QED
    BY <1>1, <2>1, <2>3, OtherStep
<1>5. CASE WriteRecord
  BY <1>5, WriteInv
<1>6. CASE DeleteMetadata \/ CreateMetadata
  <2>1. /\ UNCHANGED <<file, items, todo, checkpoint>> /\ metadata' \in {Absent, Empty} /\ Writing
    BY <1>6 DEF DeleteMetadata, CreateMetadata, Writing
  <2>2. Committed' = 0
    BY <2>1 DEF Committed
  <2> QED
    BY <1>1, <2>1, <2>2, OtherStep
<1>7. CASE WriteMetadata
  <2>1. /\ UNCHANGED <<file, items, todo, checkpoint>> /\ metadata' = checkpoint
        /\ wpc = "created" /\ wpc' = "idle"
    BY <1>7 DEF WriteMetadata, Return
  <2>2. Committed' = checkpoint /\ ~Writing' /\ Writing
    BY <1>1, <2>1 DEF Committed, Writing, Absent, Empty
  <2> QED
    BY <1>1, <2>1, <2>2, OtherStep
<1>8. CASE IoException \/ Crash \/ PollerThrows
  <2>1. /\ UNCHANGED <<file, items, metadata>> /\ todo' = <<>> /\ wpc' = "idle"
        /\ checkpoint' = checkpoint \/ checkpoint' = 0
    BY <1>8 DEF IoException, Crash, PollerThrows, Restart, Interrupted
  <2>2. Committed' = Committed /\ ~Writing'
    BY <2>1 DEF Committed, Writing
  <2> QED
    BY <1>1, <2>1, <2>2, OtherStep
<1> QED
  BY <1>2, <1>3, <1>4, <1>5, <1>6, <1>7, <1>8 DEF Next, WriteAsync

(* Whatever fails between two steps of WriteAsync, even the replacement of  *)
(* the checkpoint, and wherever the next call writes then: a header is      *)
(* followed by the whole of its message.                                    *)
THEOREM NothingIsTorn == Spec => []NoTornMessage
  BY InitInv, InvStep, InvIsNoTorn, PTL DEF Spec
-----------------------------------------------------------------------------
(* What the writer answered lies in the file, from its beginning to the     *)
(* checkpoint; what it has written since lies behind it.                    *)

(* Where the records of the items of s begin, and where the last one ends. *)
Laid(s, start) ==
    /\ start \in [1..(Len(s) + 1) -> 0..Len(file)]
    /\ start[1] = 0
    /\ \A j, k \in 1..(Len(s) + 1) : j <= k => start[j] <= start[k]
    /\ \A k \in 1..Len(s) : /\ start[k + 1] = start[k] + Total(s[k])
                            /\ IsWholeAt(s[k], start[k])

LessThan == {pair \in Nat \X Nat : pair[1] < pair[2]}

LEMMA LessThanWellFounded == IsWellFoundedOn(LessThan, Nat)
  BY NatLessThanWellFounded DEF OpToRel, LessThan

(* Where two things differ that agree at first, there is a first place they *)
(* differ at.                                                               *)
LEMMA FirstMember ==
    ASSUME NEW T, T \subseteq Nat, T # {}
    PROVE  \E m \in T : \A k \in T : ~(k < m)
<1>1. PICK m \in T : \A k \in T : ~(<<k, m>> \in LessThan)
  BY LessThanWellFounded, WFMin
<1>2. ASSUME NEW k \in T, k < m PROVE FALSE
  <2>1. <<k, m>> \in Nat \X Nat /\ <<k, m>>[1] = k /\ <<k, m>>[2] = m
    OBVIOUS
  <2> QED
    BY <1>1, <1>2, <2>1 DEF LessThan
<1> QED
  BY <1>2

(* StartOf is the only such function. *)
LEMMA LaidIsStartOf ==
    ASSUME answered \in Seq(1..Len(items)), NEW start, Laid(answered, start)
    PROVE  start = StartOf
<1> DEFINE S == 1..(Len(answered) + 1)
           F(f) == [k \in S |-> IF k = 1 THEN 0 ELSE f[k - 1] + Total(answered[k - 1])]
<1>1. Len(answered) \in Nat
  OBVIOUS
<1>2. start = F(start)
  <2>1. \A k \in S : start[k] = IF k = 1 THEN 0 ELSE start[k - 1] + Total(answered[k - 1])
    <3> SUFFICES ASSUME NEW k \in S, k # 1 PROVE start[k] = start[k - 1] + Total(answered[k - 1])
      BY DEF Laid
    <3>1. k - 1 \in 1..Len(answered) /\ (k - 1) + 1 = k
      BY <1>1
    <3> DEFINE j == k - 1
    <3>2. j \in 1..Len(answered) /\ j + 1 = k
      BY <3>1
    <3> HIDE DEF j
    <3>3. start[j + 1] = start[j] + Total(answered[j])
      BY <3>2 DEF Laid
    <3> QED
      BY <3>2, <3>3 DEF j
  <2> QED
    BY <2>1 DEF Laid
<1>3. StartOf = F(StartOf)
  <2>1. StartOf = CHOOSE f : f = F(f)
    BY DEF StartOf
  <2> QED
    BY <1>2, <2>1
<1> DEFINE differ == {k \in S : start[k] # StartOf[k]}
<1>4. differ = {}
  <2> SUFFICES ASSUME differ # {} PROVE FALSE
    OBVIOUS
  <2>1. differ \subseteq Nat
    BY <1>1
  <2>2. PICK k \in differ : \A j \in differ : ~(j < k)
    <3> HIDE DEF differ
    <3> QED
      BY <2>1, FirstMember
  <2>3. start[k] = F(start)[k] /\ StartOf[k] = F(StartOf)[k]
    BY <1>2, <1>3
  <2>4. CASE k = 1
    BY <2>3, <2>4
  <2>5. CASE k # 1
    <3>1. k - 1 \in S /\ k - 1 < k
      BY <1>1, <2>5
    <3>2. start[k - 1] = StartOf[k - 1]
      BY <2>2, <3>1
    <3> QED
      BY <2>3, <2>5, <3>2
  <2> QED
    BY <2>4, <2>5
<1>5. DOMAIN StartOf = S /\ StartOf = [k \in S |-> StartOf[k]]
  BY <1>3
<1>6. start = [k \in S |-> start[k]]
  BY DEF Laid
<1> QED
  BY <1>4, <1>5, <1>6

AnsweredInv ==
    /\ answered \in Seq(1..Len(items))
    /\ done \in Seq(1..Len(items))
    /\ wpc \in {"idle", "opening", "writing", "deleted", "created"}
    /\ wpc \in {"idle", "opening"} => done = <<>>
    /\ exposed \/ \E s, start :
          /\ s = answered \o done
          /\ Laid(s, start)
          /\ Writing => start[Len(s) + 1] = checkpoint
          /\ wpc \notin {"deleted", "created"} =>
                /\ metadata # Empty
                /\ Committed = start[Len(answered) + 1]

(* What is laid begins with what was laid first. *)
LEMMA LaidPrefix ==
    ASSUME NEW a \in Seq(1..Len(items)), NEW d \in Seq(1..Len(items)), NEW start, Laid(a \o d, start)
    PROVE  \E first : Laid(a, first) /\ first[Len(a) + 1] = start[Len(a) + 1]
<1> DEFINE n == Len(a)
           m == Len(a \o d)
           first == [k \in 1..(n + 1) |-> start[k]]
<1>1. n \in Nat /\ m \in Nat /\ n <= m /\ \A k \in 1..n : (a \o d)[k] = a[k]
  BY ConcatProperties
<1>2. 1..(n + 1) \subseteq 1..(m + 1) /\ 1..n \subseteq 1..m /\ 1 \in 1..(n + 1) /\ n + 1 \in 1..(n + 1)
  BY <1>1
<1>3. \A k \in 1..n : k \in 1..(n + 1) /\ k + 1 \in 1..(n + 1)
  BY <1>1
<1>4. /\ start \in [1..(m + 1) -> 0..Len(file)] /\ start[1] = 0
      /\ \A j, k \in 1..(m + 1) : j <= k => start[j] <= start[k]
      /\ \A k \in 1..m : /\ start[k + 1] = start[k] + Total((a \o d)[k])
                         /\ IsWholeAt((a \o d)[k], start[k])
  BY DEF Laid
<1> HIDE DEF m
<1>5. /\ first \in [1..(n + 1) -> 0..Len(file)] /\ first[1] = 0
      /\ \A j, k \in 1..(n + 1) : j <= k => first[j] <= first[k]
  BY <1>2, <1>4
<1>6. ASSUME NEW k \in 1..n
      PROVE  first[k + 1] = first[k] + Total(a[k]) /\ IsWholeAt(a[k], first[k])
  <2>1. first[k + 1] = start[k + 1] /\ first[k] = start[k] /\ k \in 1..m /\ (a \o d)[k] = a[k]
    BY <1>1, <1>2, <1>3
  <2> HIDE DEF first
  <2>2. /\ start[k + 1] = start[k] + Total((a \o d)[k])
        /\ IsWholeAt((a \o d)[k], start[k])
    BY <1>4, <2>1
  <2> QED
    BY <2>1, <2>2
<1>7. first[n + 1] = start[n + 1]
  BY <1>2
<1> HIDE DEF first
<1> QED
  BY <1>5, <1>6, <1>7 DEF Laid

LEMMA AnsweredInvSurvives ==
    ASSUME AnsweredInv
    PROVE  AnsweredSurvives
<1> SUFFICES ASSUME ~exposed PROVE AnsweredSurvives
  BY DEF AnsweredSurvives
<1>1. answered \in Seq(1..Len(items)) /\ done \in Seq(1..Len(items))
  BY DEF AnsweredInv
<1>2. PICK start :
        /\ Laid(answered \o done, start)
        /\ wpc \notin {"deleted", "created"} =>
              /\ metadata # Empty
              /\ Committed = start[Len(answered) + 1]
  BY DEF AnsweredInv
<1>3. PICK first : Laid(answered, first) /\ first[Len(answered) + 1] = start[Len(answered) + 1]
  BY <1>1, <1>2, LaidPrefix
<1>4. first = StartOf
  BY <1>1, <1>3, LaidIsStartOf
<1>5. \A k \in 1..Len(answered) : IsWholeAt(answered[k], StartOf[k])
  BY <1>3, <1>4 DEF Laid
<1>6. wpc \notin {"deleted", "created"} =>
        (IF metadata = Absent THEN 0 ELSE metadata) = StartOf[Len(answered) + 1]
  BY <1>2, <1>3, <1>4 DEF Committed
<1> QED
  BY <1>5, <1>6 DEF AnsweredSurvives

LEMMA AnsweredInit == Init => AnsweredInv
<1> SUFFICES ASSUME Init PROVE AnsweredInv
  OBVIOUS
<1>1. /\ file = <<>> /\ metadata = Absent /\ answered = <<>> /\ done = <<>> /\ wpc = "idle"
  BY DEF Init
<1> DEFINE start == [k \in 1..1 |-> 0]
<1>2. /\ answered \o done = <<>> /\ Len(answered \o done) = 0 /\ Len(answered) = 0 /\ Len(file) = 0
  BY <1>1
<1>3. start \in [1..1 -> 0..Len(file)] /\ start[1] = 0 /\ \A k \in 1..1 : start[k] = 0 /\ k = 1
  BY <1>2
<1> HIDE DEF start
<1>4. Laid(<<>>, start)
  <2>1. Len(<<>>) = 0 /\ 1..Len(<<>>) = {} /\ Len(<<>>) + 1 = 1
    OBVIOUS
  <2>2. \A j, k \in 1..1 : start[j] <= start[k]
    BY <1>3
  <2> QED
    BY <1>3, <2>1, <2>2 DEF Laid
<1>5. Committed = 0 /\ metadata # Empty
  BY <1>1 DEF Committed, Absent, Empty
<1> QED
  BY <1>1, <1>2, <1>3, <1>4, <1>5 DEF AnsweredInv, Writing

(* Writing behind what is laid, or beginning items, leaves it as it is. *)
LEMMA LaidStays ==
    ASSUME Inv, NEW s \in Seq(1..Len(items)), NEW start, Laid(s, start),
           Len(file) \in Nat, Len(file') \in Nat, Len(file) <= Len(file'),
           \A n \in 1..Len(items) : items'[n].size = items[n].size,
           \A i \in 1..start[Len(s) + 1] : Cell(i)' = Cell(i)
    PROVE  Laid(s, start)'
<1>1. Len(s) \in Nat /\ \A k \in 1..Len(s) : s[k] \in 1..Len(items)
  OBVIOUS
<1> DEFINE m == Len(s)
<1>2. /\ start \in [1..(m + 1) -> 0..Len(file)] /\ start[1] = 0
      /\ \A j, k \in 1..(m + 1) : j <= k => start[j] <= start[k]
      /\ \A k \in 1..m : /\ start[k + 1] = start[k] + Total(s[k])
                         /\ IsWholeAt(s[k], start[k])
  BY DEF Laid
<1>3. start \in [1..(m + 1) -> 0..Len(file')]
  <2>1. 0..Len(file) \subseteq 0..Len(file')
    OBVIOUS
  <2> QED
    BY <1>2, <2>1
<1>4. ASSUME NEW k \in 1..m
      PROVE  start[k + 1] = start[k] + Total(s[k])' /\ IsWholeAt(s[k], start[k])'
  <2> DEFINE a == start[k]
             T == Total(s[k])
  <2>1. /\ start[k + 1] = a + T /\ IsWholeAt(s[k], a)
        /\ a \in Nat /\ T \in Nat /\ a + T <= start[m + 1] /\ start[m + 1] \in Nat
    <3>1. T \in Nat
      BY <1>1, TotalType DEF Inv
    <3>2. k \in 1..(m + 1) /\ k + 1 \in 1..(m + 1) /\ m + 1 \in 1..(m + 1) /\ k + 1 <= m + 1
      BY <1>1
    <3>3. a \in Nat /\ start[m + 1] \in Nat
      <4>1. \A j \in 1..(m + 1) : start[j] \in 0..Len(file)
        BY <1>2
      <4>2. 0..Len(file) \subseteq Nat
        OBVIOUS
      <4> QED
        BY <3>2, <4>1, <4>2
    <3>4. start[k + 1] <= start[m + 1]
      BY <1>2, <3>2
    <3>5. start[k + 1] = a + T /\ IsWholeAt(s[k], a)
      BY <1>2
    <3> QED
      BY <3>1, <3>3, <3>4, <3>5
  <2>2. Total(s[k])' = T
    BY <1>1 DEF Total
  <2> HIDE DEF a, T
  <2>3. \A j \in 1..T : a + j \in 1..start[m + 1]
    <3> PICK e : e = start[m + 1]
      OBVIOUS
    <3>1. a \in Nat /\ T \in Nat /\ e \in Nat /\ a + T <= e
      BY <2>1
    <3>2. \A j \in 1..T : a + j \in 1..e
      BY <3>1
    <3> QED
      BY <3>2
  <2>4. \A j \in 1..T : Cell(a + j)' = Cell(a + j)
    BY <2>3
  <2>5. \A j \in 1..T : Cell(a + j) = [item |-> s[k], at |-> j]
    BY <2>1 DEF IsWholeAt, T
  <2>6. IsWholeAt(s[k], a)'
    BY <2>2, <2>4, <2>5 DEF IsWholeAt
  <2> QED
    BY <2>1, <2>2, <2>6 DEF a
<1> QED
  BY <1>2, <1>3, <1>4 DEF Laid

(* The steps that write no record, and answer nothing. *)
LEMMA AnsweredStays ==
    ASSUME Inv, AnsweredInv, UNCHANGED <<file, answered, done>>, exposed' = exposed,
           1..Len(items) \subseteq 1..Len(items'),
           \A n \in 1..Len(items) : items'[n].size = items[n].size,
           wpc' \in {"idle", "opening", "writing", "deleted", "created"},
           wpc' \in {"idle", "opening"} => done = <<>>,
           ~exposed =>
              /\ Writing' => \/ Writing /\ checkpoint' = checkpoint
                             \/ done = <<>> /\ metadata # Empty /\ checkpoint' = Committed
                                /\ wpc \notin {"deleted", "created"}
              /\ wpc' \notin {"deleted", "created"} =>
                    wpc \notin {"deleted", "created"} /\ metadata' = metadata
    PROVE  AnsweredInv'
<1>1. answered' \in Seq(1..Len(items')) /\ done' \in Seq(1..Len(items'))
  <2>1. answered \in Seq(1..Len(items)) /\ done \in Seq(1..Len(items))
    BY DEF AnsweredInv
  <2>2. answered \in Seq(1..Len(items')) /\ done \in Seq(1..Len(items'))
    BY <2>1, SeqGrows
  <2> QED
    BY <2>2
<1>2. ASSUME ~exposed
      PROVE  \E s, start :
                /\ s = answered' \o done'
                /\ Laid(s, start)'
                /\ Writing' => start[Len(s) + 1] = checkpoint'
                /\ wpc' \notin {"deleted", "created"} =>
                      /\ metadata' # Empty
                      /\ Committed' = start[Len(answered') + 1]
  <2>1. PICK s, start :
          /\ s = answered \o done
          /\ Laid(s, start)
          /\ Writing => start[Len(s) + 1] = checkpoint
          /\ wpc \notin {"deleted", "created"} =>
                /\ metadata # Empty
                /\ Committed = start[Len(answered) + 1]
    BY <1>2 DEF AnsweredInv
  <2>2. s \in Seq(1..Len(items))
    <3>1. answered \in Seq(1..Len(items)) /\ done \in Seq(1..Len(items))
      BY DEF AnsweredInv
    <3> QED
      BY <2>1, <3>1, ConcatProperties
  <2>3. Laid(s, start)'
    <3>1. Len(file) \in Nat /\ Len(file') \in Nat /\ Len(file) <= Len(file')
      BY CommittedType DEF Inv
    <3>2. \A i \in 1..start[Len(s) + 1] : Cell(i)' = Cell(i)
      BY CellsUnchanged
    <3>3. Laid(s, start)
      BY <2>1
    <3> QED
      BY <2>2, <3>1, <3>2, <3>3, LaidStays
  <2>4. Writing' => start[Len(s) + 1] = checkpoint'
    <3>1. done = <<>> => s = answered
      BY <2>1 DEF AnsweredInv
    <3> QED
      BY <1>2, <2>1, <3>1
  <2>5. wpc' \notin {"deleted", "created"} =>
          metadata' # Empty /\ Committed' = start[Len(answered') + 1]
    BY <1>2, <2>1 DEF Committed
  <2> QED
    BY <2>1, <2>3, <2>4, <2>5
<1> QED
  BY <1>1, <1>2 DEF AnsweredInv

(* The new record is laid behind the others. *)
LEMMA LaidLonger ==
    ASSUME Inv, WriteRecord, NEW s \in Seq(1..Len(items)), NEW start, Laid(s, start),
           NEW cp, cp = checkpoint, start[Len(s) + 1] = cp,
           NEW n, n = Head(todo), NEW r, r = Append(s, n),
           NEW longer, longer = [k \in 1..(Len(s) + 2) |->
                                     IF k = Len(s) + 2 THEN cp + Total(n) ELSE start[k]]
    PROVE  Laid(r, longer)'
<1> DEFINE m == Len(s)
           T == Total(n)
<1>1. /\ n \in 1..Len(items) /\ T \in Nat
      /\ cp \in Nat /\ cp <= Len(file) /\ Len(file) \in Nat
      /\ file' \in Seq(CellType(Len(items))) /\ Len(file') \in Nat
      /\ Len(file) <= Len(file') /\ cp + T <= Len(file')
      /\ \A i \in 1..Len(file') :
            i \in (cp + 1)..(cp + T) => file'[i] = [item |-> n, at |-> i - cp]
      /\ \A i \in (cp + 1)..(cp + T) : Cell(i)' = file'[i]
      /\ \A i \in 1..Len(file) : i \notin (cp + 1)..(cp + T) => Cell(i)' = Cell(i)
  BY WrittenFile
<1>2. items' = items /\ checkpoint' = cp + T /\ \A i : Total(i)' = Total(i)
  BY DEF WriteRecord, Write, Total
<1>3. m \in Nat /\ Len(r) = m + 1 /\ r[m + 1] = n /\ \A k \in 1..m : r[k] = s[k]
  BY <1>1
<1>4. Laid(s, start)'
  <2>1. \A i \in 1..cp : Cell(i)' = Cell(i)
    BY <1>1
  <2> QED
    BY <1>1, <1>2, <2>1, LaidStays
<1>5. /\ start \in [1..(m + 1) -> 0..Len(file')] /\ start[1] = 0 /\ start[m + 1] = cp
      /\ \A j, k \in 1..(m + 1) : j <= k => start[j] <= start[k]
      /\ \A k \in 1..m : /\ start[k + 1] = start[k] + Total(s[k])'
                         /\ IsWholeAt(s[k], start[k])'
  BY <1>4 DEF Laid
<1>6. IsWholeAt(n, cp)'
  <2> SUFFICES ASSUME NEW k \in 1..T PROVE Cell(cp + k)' = [item |-> n, at |-> k]
    BY <1>2 DEF IsWholeAt
  <2>1. cp + k \in (cp + 1)..(cp + T) /\ cp + k \in 1..Len(file') /\ cp + k - cp = k
    BY <1>1
  <2>2. file'[cp + k] = [item |-> n, at |-> k]
    <3> DEFINE i == cp + k
    <3>1. i \in 1..Len(file') /\ i \in (cp + 1)..(cp + T) /\ i - cp = k
      <4>1. i = cp + k
        OBVIOUS
      <4> HIDE DEF i
      <4> QED
        BY <1>1, <2>1, <4>1
    <3> HIDE DEF i
    <3>2. file'[i] = [item |-> n, at |-> i - cp]
      BY <1>1, <3>1
    <3> QED
      BY <3>1, <3>2 DEF i
  <2> QED
    BY <1>1, <2>1, <2>2
<1>7. longer = [k \in 1..(m + 2) |-> IF k = m + 2 THEN cp + T ELSE start[k]]
  BY DEF m, T
<1> HIDE DEF T, m
<1>8. /\ \A k \in 1..(m + 1) : longer[k] = start[k] /\ k \in 1..(m + 2)
      /\ longer[m + 2] = cp + T /\ 1 \in 1..(m + 1) /\ m + 2 \in 1..(m + 2)
      /\ \A k \in 1..(m + 2) : k = m + 2 \/ k \in 1..(m + 1)
  BY <1>3, <1>7
<1>9. \A k \in 1..(m + 1) : start[k] \in Nat /\ start[k] <= cp /\ start[k] \in 0..Len(file')
  <2> SUFFICES ASSUME NEW k \in 1..(m + 1)
               PROVE  start[k] \in Nat /\ start[k] <= cp /\ start[k] \in 0..Len(file')
    OBVIOUS
  <2>1. start[k] \in 0..Len(file')
    BY <1>5
  <2>2. m + 1 \in 1..(m + 1) /\ k <= m + 1
    BY <1>3
  <2> QED
    BY <1>1, <1>5, <2>1, <2>2
<1>10. longer \in [1..(m + 2) -> 0..Len(file')]
  <2>1. cp + T \in 0..Len(file')
    BY <1>1
  <2> QED
    BY <1>7, <1>8, <1>9, <2>1
<1>11. \A j, k \in 1..(m + 2) : j <= k => longer[j] <= longer[k]
  <2> SUFFICES ASSUME NEW j \in 1..(m + 2), NEW k \in 1..(m + 2), j <= k
               PROVE  longer[j] <= longer[k]
    OBVIOUS
  <2>1. CASE k \in 1..(m + 1)
    <3>1. j \in 1..(m + 1)
      BY <1>3, <2>1
    <3> QED
      BY <1>5, <1>8, <2>1, <3>1
  <2>2. CASE k = m + 2 /\ j \in 1..(m + 1)
    <3>1. longer[j] = start[j] /\ start[j] \in Nat /\ start[j] <= cp
      BY <1>8, <1>9, <2>2
    <3>2. longer[k] = cp + T /\ cp \in Nat /\ T \in Nat
      BY <1>1, <1>8, <2>2 DEF T
    <3> QED
      BY <3>1, <3>2
  <2>3. CASE k = m + 2 /\ j = m + 2
    BY <1>1, <1>8, <2>3
  <2> QED
    BY <1>8, <2>1, <2>2, <2>3
<1>12. ASSUME NEW k \in 1..(m + 1)
       PROVE  longer[k + 1] = longer[k] + Total(r[k])' /\ IsWholeAt(r[k], longer[k])'
  <2>1. CASE k = m + 1
    <3>1. k + 1 = m + 2 /\ r[k] = n /\ longer[k] = cp
      BY <1>3, <1>5, <1>8, <2>1
    <3>2. longer[k + 1] = cp + T /\ Total(n)' = T
      BY <1>2, <1>8, <3>1 DEF T
    <3> QED
      BY <1>6, <3>1, <3>2
  <2>2. CASE k # m + 1
    <3>1. k \in 1..m /\ k + 1 \in 1..(m + 1)
      BY <1>3, <2>2
    <3>2. r[k] = s[k] /\ longer[k] = start[k] /\ longer[k + 1] = start[k + 1]
      BY <1>3, <1>8, <3>1
    <3> QED
      BY <1>5, <3>1, <3>2
  <2> QED
    BY <2>1, <2>2
<1>13. Laid(r, longer)'
  <2>1. Len(r) + 1 = m + 2 /\ 1..Len(r) = 1..(m + 1)
    BY <1>3
  <2>2. longer[1] = 0
    BY <1>5, <1>8
  <2> QED
    BY <1>10, <1>11, <1>12, <2>1, <2>2 DEF Laid
<1> QED
  BY <1>13

LEMMA AnsweredWrites ==
    ASSUME Inv, AnsweredInv, WriteRecord
    PROVE  AnsweredInv'
<1>1. /\ UNCHANGED <<metadata, items, wpc, answered, exposed>> /\ wpc = "writing"
      /\ done' = Append(done, Head(todo)) /\ Head(todo) \in 1..Len(items)
  BY WrittenFile DEF WriteRecord, Write, history
<1>2. answered \in Seq(1..Len(items)) /\ done \in Seq(1..Len(items))
  BY DEF AnsweredInv
<1>3. answered' \in Seq(1..Len(items')) /\ done' \in Seq(1..Len(items'))
  BY <1>1, <1>2
<1>4. ASSUME ~exposed
      PROVE  \E s, start :
                /\ s = answered' \o done'
                /\ Laid(s, start)'
                /\ start[Len(s) + 1] = checkpoint'
                /\ metadata' # Empty
                /\ Committed' = start[Len(answered') + 1]
  <2>1. PICK s, start :
          /\ s = answered \o done
          /\ Laid(s, start)
          /\ start[Len(s) + 1] = checkpoint
          /\ metadata # Empty
          /\ Committed = start[Len(answered) + 1]
    BY <1>1, <1>4 DEF AnsweredInv, Writing
  <2>2. s \in Seq(1..Len(items)) /\ Len(s) = Len(answered) + Len(done)
    BY <1>2, <2>1, ConcatProperties
  <2> PICK n : n = Head(todo)
    OBVIOUS
  <2> PICK r : r = Append(s, n)
    OBVIOUS
  <2> PICK cp : cp = checkpoint
    OBVIOUS
  <2> PICK longer : longer = [k \in 1..(Len(s) + 2) |->
                                  IF k = Len(s) + 2 THEN cp + Total(n) ELSE start[k]]
    OBVIOUS
  <2>3. Laid(r, longer)'
    <3>1. s \in Seq(1..Len(items)) /\ Laid(s, start) /\ start[Len(s) + 1] = cp
      BY <2>1, <2>2
    <3> QED
      BY <3>1, LaidLonger
  <2>3a. /\ longer[Len(s) + 2] = checkpoint'
         /\ \A k \in 1..(Len(s) + 1) : longer[k] = start[k]
    <3>1. checkpoint' = cp + Total(n)
      BY DEF WriteRecord, Write
    <3>2. Len(s) \in Nat
      BY <2>2
    <3>3. \A k \in 1..(Len(s) + 1) : k \in 1..(Len(s) + 2) /\ k # Len(s) + 2
      BY <3>2
    <3>4. Len(s) + 2 \in 1..(Len(s) + 2)
      BY <3>2
    <3> QED
      BY <3>1, <3>3, <3>4
  <2>4. r = answered' \o done' /\ Len(r) + 1 = Len(s) + 2
    <3>1. Append(done, n) = done \o <<n>> /\ Append(s, n) = s \o <<n>>
      BY <1>1, <1>2, <2>2, AppendIsConcat
    <3>2. answered \o (done \o <<n>>) = (answered \o done) \o <<n>>
      <4>1. <<n>> \in Seq(1..Len(items))
        BY <1>1
      <4> QED
        BY <1>2, <4>1, ConcatAssociative
    <3>3. Len(r) = Len(s) + 1 /\ Len(s) \in Nat
      BY <1>1, <2>2
    <3>4. answered' = answered /\ done' = Append(done, n)
      BY <1>1
    <3>5. r = answered' \o done'
      BY <2>1, <3>1, <3>2, <3>4
    <3>6. Len(r) + 1 = Len(s) + 2
      BY <3>3
    <3> QED
      BY <3>5, <3>6
  <2>5. Len(answered) + 1 \in 1..(Len(s) + 1)
    BY <1>2, <2>2
  <2>6. Committed' = Committed
    BY <1>1 DEF Committed
  <2> QED
    BY <1>1, <2>1, <2>3, <2>3a, <2>4, <2>5, <2>6
<1> QED
  BY <1>1, <1>3, <1>4 DEF AnsweredInv

LEMMA AnsweredReturns ==
    ASSUME Inv, AnsweredInv, WriteMetadata
    PROVE  AnsweredInv'
<1>1. /\ UNCHANGED <<file, items, exposed>> /\ wpc = "created" /\ wpc' = "idle"
      /\ metadata' = checkpoint /\ answered' = answered \o done /\ done' = <<>>
  BY DEF WriteMetadata, Return, history
<1>2. /\ answered \in Seq(1..Len(items)) /\ done \in Seq(1..Len(items))
      /\ answered \o done \in Seq(1..Len(items))
  BY ConcatProperties DEF AnsweredInv
<1>3. answered' \in Seq(1..Len(items')) /\ done' \in Seq(1..Len(items'))
  BY <1>1, <1>2
<1>4. ASSUME ~exposed
      PROVE  \E s, start :
                /\ s = answered' \o done'
                /\ Laid(s, start)'
                /\ metadata' # Empty
                /\ Committed' = start[Len(answered') + 1]
  <2>1. PICK s, start :
          /\ s = answered \o done
          /\ Laid(s, start)
          /\ start[Len(s) + 1] = checkpoint
    BY <1>1, <1>4 DEF AnsweredInv, Writing
  <2>2. Laid(s, start)'
    <3>1. Len(file) \in Nat /\ Len(file') \in Nat /\ Len(file) <= Len(file')
      BY <1>1, CommittedType DEF Inv
    <3>2. \A i \in 1..start[Len(s) + 1] : Cell(i)' = Cell(i)
      BY <1>1, CellsUnchanged
    <3>3. Laid(s, start) /\ s \in Seq(1..Len(items))
      BY <1>2, <2>1
    <3> QED
      BY <1>1, <3>1, <3>2, <3>3, LaidStays
  <2>3. s = answered' \o done'
    BY <1>1, <1>2, <2>1
  <2>4. metadata' # Empty /\ Committed' = checkpoint
    <3>1. checkpoint \in Nat
      BY CommittedType DEF Inv, WriterType
    <3> QED
      BY <1>1, <3>1 DEF Committed, Absent, Empty
  <2> QED
    BY <1>1, <2>1, <2>2, <2>3, <2>4
<1> QED
  BY <1>1, <1>3, <1>4 DEF AnsweredInv, Writing

LEMMA AnsweredFails ==
    ASSUME Inv, AnsweredInv, IoException \/ Crash \/ PollerThrows
    PROVE  AnsweredInv'
<1>1. /\ UNCHANGED <<file, items, metadata, answered>> /\ done' = <<>> /\ wpc' = "idle"
      /\ exposed' = (exposed \/ wpc \in {"deleted", "created"})
  BY DEF IoException, Crash, PollerThrows, Restart, Interrupted
<1>2. answered \in Seq(1..Len(items)) /\ done \in Seq(1..Len(items))
  BY DEF AnsweredInv
<1>3. answered' \in Seq(1..Len(items')) /\ done' \in Seq(1..Len(items'))
  BY <1>1, <1>2
<1>4. ASSUME ~exposed'
      PROVE  \E s, start :
                /\ s = answered' \o done'
                /\ Laid(s, start)'
                /\ metadata' # Empty
                /\ Committed' = start[Len(answered') + 1]
  <2>1. ~exposed /\ wpc \notin {"deleted", "created"}
    BY <1>1, <1>4
  <2>2. PICK start :
          /\ Laid(answered \o done, start)
          /\ metadata # Empty
          /\ Committed = start[Len(answered) + 1]
    BY <2>1 DEF AnsweredInv
  <2>3. PICK s : s = answered
    OBVIOUS
  <2>4. PICK first : Laid(s, first) /\ first[Len(s) + 1] = start[Len(s) + 1]
    BY <1>2, <2>2, <2>3, LaidPrefix
  <2>5. Laid(s, first)'
    <3>1. Len(file) \in Nat /\ Len(file') \in Nat /\ Len(file) <= Len(file')
      BY <1>1, CommittedType DEF Inv
    <3>2. \A i \in 1..first[Len(s) + 1] : Cell(i)' = Cell(i)
      BY <1>1, CellsUnchanged
    <3>3. Laid(s, first) /\ s \in Seq(1..Len(items))
      BY <1>2, <2>3, <2>4
    <3> QED
      BY <1>1, <3>1, <3>2, <3>3, LaidStays
  <2>6. s = answered' \o done' /\ Committed' = Committed
    BY <1>1, <1>2, <2>3 DEF Committed
  <2> QED
    BY <1>1, <2>2, <2>3, <2>4, <2>5, <2>6
<1> QED
  BY <1>1, <1>3, <1>4 DEF AnsweredInv, Writing

LEMMA AnsweredStep == Inv /\ AnsweredInv /\ [Next]_vars => AnsweredInv'
<1> SUFFICES ASSUME Inv, AnsweredInv, [Next]_vars PROVE AnsweredInv'
  OBVIOUS
<1>1. /\ wpc \in {"idle", "opening", "writing", "deleted", "created"}
      /\ wpc \in {"idle", "opening"} => done = <<>>
      /\ ~exposed /\ wpc \notin {"deleted", "created"} => metadata # Empty
  BY DEF AnsweredInv
<1>2. CASE UNCHANGED vars \/ Deliver \/ ReadBlock
  <2>1. UNCHANGED <<writerVars, history>>
    BY <1>2 DEF vars, Deliver, ReadBlock
  <2>2. UNCHANGED <<file, items, answered, done, exposed, wpc, checkpoint, metadata>>
    BY <2>1 DEF writerVars, history
  <2> QED
    BY <1>1, <2>2, AnsweredStays DEF Writing
<1>3. ASSUME NEW sizes \in Batches, AppendItems(sizes) PROVE AnsweredInv'
  <2> DEFINE new == [k \in DOMAIN sizes |-> [size |-> sizes[k], position |-> LastPosition + k]]
  <2>1. /\ UNCHANGED <<file, metadata, done, checkpoint, answered, exposed>>
        /\ wpc = "idle" /\ wpc' = "opening" /\ items' = items \o new
    BY <1>3 DEF AppendItems, Begin, history
  <2>2. /\ 1..Len(items) \subseteq 1..Len(items')
        /\ \A n \in 1..Len(items) : items'[n].size = items[n].size
    <3>1. DOMAIN sizes = 1..Len(sizes) /\ Len(sizes) \in Nat
      <4>1. PICK b \in 0..MaxBatch : sizes \in [1..b -> Sizes]
        BY DEF Batches
      <4>2. b \in Nat
        BY LocalStorageAssumption
      <4> QED
        BY <4>1, <4>2
    <3>2. PICK P : items \in Seq([size : Sizes, position : P])
      BY DEF Inv, WriterType
    <3> DEFINE V == {items[n] : n \in 1..Len(items)} \cup {new[k] : k \in 1..Len(sizes)}
    <3>3. items \in Seq(V) /\ new \in Seq(V) /\ Len(new) = Len(sizes)
      BY <3>1, <3>2
    <3> HIDE DEF V, new
    <3>4. /\ Len(items \o new) = Len(items) + Len(new)
          /\ \A n \in 1..Len(items) : (items \o new)[n] = items[n]
      BY <3>3, ConcatProperties
    <3>5. Len(items) \in Nat
      BY CommittedType DEF Inv
    <3> QED
      BY <2>1, <3>1, <3>3, <3>4, <3>5
  <2> HIDE DEF new
  <2> QED
    BY <1>1, <2>1, <2>2, AnsweredStays DEF Writing
<1>4. CASE OpenCheckpoint
  <2>1. /\ UNCHANGED <<file, items, metadata, answered, done, exposed>>
        /\ wpc = "opening" /\ checkpoint' = Committed
        /\ wpc' \in {"idle", "writing"}
    <3>1. UNCHANGED <<file, items, metadata, answered, done, exposed>> /\ wpc = "opening"
      BY <1>4 DEF OpenCheckpoint, history
    <3>2. checkpoint' = Committed
      BY <1>4 DEF OpenCheckpoint, Committed
    <3>3. wpc' = "idle" \/ wpc' = "writing"
      BY <1>4, Zenon DEF OpenCheckpoint
    <3> QED
      BY <3>1, <3>2, <3>3
  <2> QED
    BY <1>1, <2>1, AnsweredStays DEF Writing
<1>5. CASE WriteRecord
  BY <1>5, AnsweredWrites
<1>6. CASE DeleteMetadata \/ CreateMetadata
  <2>1. /\ UNCHANGED <<file, items, answered, done, exposed, checkpoint>>
        /\ Writing /\ wpc' \in {"deleted", "created"}
    BY <1>6 DEF DeleteMetadata, CreateMetadata, Writing, history
  <2> QED
    BY <1>1, <2>1, AnsweredStays DEF Writing
<1>7. CASE WriteMetadata
  BY <1>7, AnsweredReturns
<1>8. CASE IoException \/ Crash \/ PollerThrows
  BY <1>8, AnsweredFails
<1> QED
  BY <1>2, <1>3, <1>4, <1>5, <1>6, <1>7, <1>8 DEF Next, WriteAsync

(* What the writer answered survives whatever fails, before or after any of *)
(* its steps but those that replace the checkpoint: its records lie in the  *)
(* file in order, and the next record is written behind the last of them.   *)
THEOREM AnswersSurvive == Spec => []AnsweredSurvives
  BY InitInv, InvStep, AnsweredInit, AnsweredStep, AnsweredInvSurvives, PTL DEF Spec
-----------------------------------------------------------------------------
(* What a reader of the file meets: records that lie one behind the other.  *)

(* The item of the header at an offset. *)
ItemAt(offset) == Cell(offset + 1).item

(* What a reader returns.  SplitMessagesFromStream and the enumeration made *)
(* of its calls have the same form: at an offset either stop or put what is *)
(* there in front of what follows.                                          *)
Prefixed(messages, rest) == [rest EXCEPT !.messages = messages \o @]

IsReading(f, N, stops, stopped, next, first) ==
    f = [p \in 0..N |-> IF p \in stops THEN stopped[p] ELSE Prefixed(first[p], f[next[p]])]

(* What is not so at every offset of a range is last not so at one.         *)
LEMMA LastMember ==
    ASSUME NEW N \in Nat, NEW T, T \subseteq 0..N, T # {}
    PROVE  \E m \in T : \A k \in T : k <= m
<1> DEFINE U == {u \in 0..N : N - u \in T}
<1>1. U \subseteq Nat /\ U # {}
  <2>1. PICK k \in T : TRUE
    OBVIOUS
  <2>2. k \in 0..N
    OBVIOUS
  <2> PICK u : u = N - k
    OBVIOUS
  <2>3. u \in 0..N /\ N - u = k
    BY <2>2
  <2>4. u \in U
    BY <2>1, <2>3
  <2>5. U \subseteq Nat
    OBVIOUS
  <2> QED
    BY <2>4, <2>5
<1>2. PICK u \in U : \A v \in U : ~(v < u)
  <2> HIDE DEF U
  <2> QED
    BY <1>1, FirstMember
<1>3. ASSUME NEW k \in T PROVE k <= N - u
  <2>1. k \in 0..N /\ u \in 0..N
    OBVIOUS
  <2>2. N - k \in U
    <3>1. N - k \in 0..N /\ N - (N - k) = k
      BY <2>1
    <3> QED
      BY <3>1
  <2>3. ~(N - k < u)
    BY <1>2, <2>2
  <2> QED
    BY <2>1, <2>3
<1>4. N - u \in T
  OBVIOUS
<1> QED
  BY <1>3, <1>4

(* There is such a function when each offset leads to a later one.          *)
LEMMA ReadingExists ==
    ASSUME NEW N \in Nat, NEW stops, NEW stopped, NEW next, NEW first,
           \A p \in 0..N : p \notin stops => next[p] \in (p + 1)..N
    PROVE  \E f : IsReading(f, N, stops, stopped, next, first)
<1> DEFINE Eq(q, f) == f = [p \in q..N |-> IF p \in stops THEN stopped[p]
                                           ELSE Prefixed(first[p], f[next[p]])]
           missing == {q \in 0..N : \A f : ~Eq(q, f)}
<1>1. missing = {}
  <2> SUFFICES ASSUME missing # {} PROVE FALSE
    OBVIOUS
  <2>1. PICK q \in missing : \A p \in missing : p <= q
    <3>1. missing \subseteq 0..N
      OBVIOUS
    <3> HIDE DEF missing
    <3> QED
      BY <3>1, LastMember
  <2>2. q \in Nat /\ q <= N
    OBVIOUS
  <2>3. \E g : Eq(q + 1, g)
    <3>1. CASE q = N
      <4> DEFINE g == [p \in (q + 1)..N |-> 0]
      <4>1. (q + 1)..N = {}
        BY <2>2, <3>1
      <4>2. Eq(q + 1, g)
        BY <4>1
      <4> QED
        BY <4>2
    <3>2. CASE q # N
      <4>1. q + 1 \in 0..N /\ ~(q + 1 <= q)
        BY <2>2, <3>2
      <4>2. q + 1 \notin missing
        BY <2>1, <4>1
      <4> QED
        BY <4>1, <4>2
    <3> QED
      BY <3>1, <3>2
  <2>4. PICK g : Eq(q + 1, g)
    BY <2>3
  <2> DEFINE f == [p \in q..N |-> IF p \in stops THEN stopped[p]
                                  ELSE Prefixed(first[p], g[next[p]])]
  <2>5. \A p \in (q + 1)..N : f[p] = g[p]
    <3>1. \A p \in (q + 1)..N : p \in q..N
      BY <2>2
    <3> QED
      BY <2>4, <3>1
  <2>6. \A p \in q..N : p \notin stops => f[next[p]] = g[next[p]]
    <3> SUFFICES ASSUME NEW p \in q..N, p \notin stops PROVE f[next[p]] = g[next[p]]
      OBVIOUS
    <3>1. p \in 0..N
      BY <2>2
    <3>2. next[p] \in (p + 1)..N
      BY <3>1
    <3>3. next[p] \in (q + 1)..N
      BY <2>2, <3>1, <3>2
    <3> QED
      BY <2>5, <3>3
  <2>7. Eq(q, f)
    <3> HIDE DEF f
    <3>1. f = [p \in q..N |-> IF p \in stops THEN stopped[p]
                              ELSE Prefixed(first[p], g[next[p]])]
      BY DEF f
    <3> QED
      BY <2>6, <3>1
  <2> QED
    BY <2>7
<1>2. 0 \in 0..N
  OBVIOUS
<1>3. PICK f : Eq(0, f)
  BY <1>1, <1>2
<1> QED
  BY <1>3 DEF IsReading

(* Records in the file one behind the other, as a reader meets them. *)
Chain(s, start) ==
    /\ s \in Seq(1..Len(items))
    /\ start \in [1..(Len(s) + 1) -> Nat]
    /\ \A k \in 1..Len(s) : /\ IsHeader(start[k]) /\ ItemAt(start[k]) = s[k]
                            /\ start[k + 1] = start[k] + Total(s[k])

Chained(s, from, to) ==
    \E start : Chain(s, start) /\ start[1] = from /\ start[Len(s) + 1] = to

LEMMA ChainEmpty ==
    ASSUME NEW from \in Nat
    PROVE  Chained(<<>>, from, from)
<1> DEFINE start == [k \in 1..1 |-> from]
<1>1. start \in [1..1 -> Nat] /\ start[1] = from
  OBVIOUS
<1>2. Len(<<>>) = 0 /\ 1..Len(<<>>) = {} /\ Len(<<>>) + 1 = 1 /\ <<>> \in Seq(1..Len(items))
  OBVIOUS
<1> HIDE DEF start
<1>3. Chain(<<>>, start)
  BY <1>1, <1>2 DEF Chain
<1> QED
  BY <1>1, <1>2, <1>3 DEF Chained

LEMMA ChainOne ==
    ASSUME WriterType, NEW from \in Nat, IsHeader(from)
    PROVE  Chained(<<ItemAt(from)>>, from, from + Total(ItemAt(from)))
<1> DEFINE n == ItemAt(from)
           s == <<n>>
           start == [k \in 1..2 |-> IF k = 1 THEN from ELSE from + Total(n)]
<1>1. n \in 1..Len(items) /\ Total(n) \in Nat
  BY HeaderCells, TotalType DEF ItemAt
<1> HIDE DEF n
<1>2. Len(s) = 1 /\ s[1] = n /\ s \in Seq(1..Len(items))
  BY <1>1
<1>3. start \in [1..2 -> Nat] /\ start[1] = from /\ start[2] = from + Total(n)
  BY <1>1
<1> HIDE DEF start, s
<1>4. Chain(s, start)
  <2>1. Len(s) + 1 = 2 /\ \A k \in 1..Len(s) : k = 1
    BY <1>2
  <2>2. ItemAt(from) = n
    BY DEF n
  <2> QED
    BY <1>2, <1>3, <2>1, <2>2 DEF Chain
<1>5. Len(s) + 1 = 2
  BY <1>2
<1>6. Chained(s, from, from + Total(n))
  BY <1>3, <1>4, <1>5 DEF Chained
<1> QED
  BY <1>6 DEF s, n

LEMMA ChainConcat ==
    ASSUME NEW s, NEW t, NEW from, NEW mid, NEW to, Chained(s, from, mid), Chained(t, mid, to)
    PROVE  Chained(s \o t, from, to)
<1>1. PICK f : Chain(s, f) /\ f[1] = from /\ f[Len(s) + 1] = mid
  BY DEF Chained
<1>2. PICK g : Chain(t, g) /\ g[1] = mid /\ g[Len(t) + 1] = to
  BY DEF Chained
<1> DEFINE m == Len(s)
           n == Len(t)
           h == [k \in 1..(m + n + 1) |-> IF k <= m THEN f[k] ELSE g[k - m]]
<1>3. s \in Seq(1..Len(items)) /\ t \in Seq(1..Len(items)) /\ m \in Nat /\ n \in Nat
  BY <1>1, <1>2 DEF Chain
<1>4. /\ s \o t \in Seq(1..Len(items)) /\ Len(s \o t) = m + n
      /\ \A k \in 1..(m + n) : (s \o t)[k] = IF k <= m THEN s[k] ELSE t[k - m]
  BY <1>3, ConcatProperties
<1>5. /\ f \in [1..(m + 1) -> Nat] /\ g \in [1..(n + 1) -> Nat] /\ f[m + 1] = g[1]
      /\ \A k \in 1..m : /\ IsHeader(f[k]) /\ ItemAt(f[k]) = s[k]
                         /\ f[k + 1] = f[k] + Total(s[k])
      /\ \A k \in 1..n : /\ IsHeader(g[k]) /\ ItemAt(g[k]) = t[k]
                         /\ g[k + 1] = g[k] + Total(t[k])
  BY <1>1, <1>2 DEF Chain
<1> HIDE DEF m, n
<1>6. h \in [1..(m + n + 1) -> Nat]
  <2> SUFFICES ASSUME NEW k \in 1..(m + n + 1)
               PROVE  (IF k <= m THEN f[k] ELSE g[k - m]) \in Nat
    OBVIOUS
  <2>1. CASE k <= m
    <3>1. k \in 1..(m + 1)
      BY <1>3, <2>1
    <3> QED
      BY <1>5, <2>1, <3>1
  <2>2. CASE ~(k <= m)
    <3>1. k - m \in 1..(n + 1)
      BY <1>3, <2>2
    <3> QED
      BY <1>5, <2>2, <3>1
  <2> QED
    BY <2>1, <2>2
<1>7. /\ \A k \in 1..(m + 1) : h[k] = f[k]
      /\ \A k \in 1..(n + 1) : h[m + k] = g[k]
  <2>1. ASSUME NEW k \in 1..(m + 1) PROVE h[k] = f[k]
    <3>1. k \in 1..(m + n + 1) /\ (k <= m \/ (~(k <= m) /\ k = m + 1 /\ k - m = 1))
      BY <1>3
    <3> QED
      BY <1>5, <3>1
  <2>2. ASSUME NEW k \in 1..(n + 1) PROVE h[m + k] = g[k]
    <3> PICK i : i = m + k
      OBVIOUS
    <3>1. i \in 1..(m + n + 1) /\ ~(i <= m) /\ i - m = k
      BY <1>3
    <3>2. h[i] = g[i - m]
      BY <3>1
    <3> QED
      BY <3>1, <3>2
  <2> QED
    BY <2>1, <2>2
<1> HIDE DEF h
<1>8. ASSUME NEW k \in 1..(m + n)
      PROVE  /\ IsHeader(h[k]) /\ ItemAt(h[k]) = (s \o t)[k]
             /\ h[k + 1] = h[k] + Total((s \o t)[k])
  <2>1. CASE k <= m
    <3>1. k \in 1..m /\ k \in 1..(m + 1) /\ k + 1 \in 1..(m + 1)
      BY <1>3, <2>1
    <3>2. h[k] = f[k] /\ h[k + 1] = f[k + 1] /\ (s \o t)[k] = s[k]
      BY <1>4, <1>7, <2>1, <3>1
    <3> QED
      BY <1>5, <3>1, <3>2
  <2>2. CASE ~(k <= m)
    <3> PICK j : j = k - m
      OBVIOUS
    <3>1. j \in 1..n /\ j \in 1..(n + 1) /\ j + 1 \in 1..(n + 1) /\ k = m + j /\ k + 1 = m + (j + 1)
      BY <1>3, <2>2
    <3>2. h[m + j] = g[j] /\ h[m + (j + 1)] = g[j + 1]
      BY <1>7, <3>1
    <3>3. (s \o t)[k] = t[j]
      BY <1>4, <2>2
    <3>4. h[k] = g[j] /\ h[k + 1] = g[j + 1]
      BY <3>1, <3>2
    <3>5. /\ IsHeader(g[j]) /\ ItemAt(g[j]) = t[j]
          /\ g[j + 1] = g[j] + Total(t[j])
      BY <1>5, <3>1
    <3> QED
      BY <3>3, <3>4, <3>5
  <2> QED
    BY <2>1, <2>2
<1>9. Chain(s \o t, h)
  <2>1. Len(s \o t) + 1 = m + n + 1 /\ 1..Len(s \o t) = 1..(m + n)
    BY <1>4
  <2> QED
    BY <1>4, <1>6, <1>8, <2>1 DEF Chain
<1>10. h[1] = from /\ h[Len(s \o t) + 1] = to
  <2>1. 1 \in 1..(m + 1) /\ n + 1 \in 1..(n + 1) /\ Len(s \o t) + 1 = m + (n + 1)
    BY <1>3, <1>4
  <2>2. h[1] = f[1] /\ h[m + (n + 1)] = g[n + 1]
    BY <1>7, <2>1
  <2> QED
    BY <1>1, <1>2, <2>1, <2>2 DEF n
<1> QED
  BY <1>9, <1>10 DEF Chained

ReadsTo(f, stops, stopped, base, p, q) ==
    /\ q \in stops
    /\ Chained(f[p].messages, base + p, base + q)
    /\ DOMAIN f[p] = DOMAIN stopped[q]
    /\ \A x \in DOMAIN stopped[q] : x # "messages" => f[p][x] = stopped[q][x]

(* Such a function returns what lies between where it begins and some later *)
(* offset where it stops.                                                   *)
LEMMA ReadingIsChained ==
    ASSUME NEW N \in Nat, NEW base \in Nat, NEW stops, NEW stopped, NEW next, NEW first, NEW f,
           IsReading(f, N, stops, stopped, next, first),
           \A p \in 0..N : p \in stops =>
              "messages" \in DOMAIN stopped[p] /\ stopped[p].messages = <<>>,
           \A p \in 0..N : p \notin stops =>
              next[p] \in (p + 1)..N /\ Chained(first[p], base + p, base + next[p]),
           NEW start \in 0..N
    PROVE  \E q \in start..N : ReadsTo(f, stops, stopped, base, start, q)
<1> DEFINE Good(p, q) == ReadsTo(f, stops, stopped, base, p, q)
           bad == {p \in 0..N : \A q \in p..N : ~Good(p, q)}
<1>1. f = [p \in 0..N |-> IF p \in stops THEN stopped[p] ELSE Prefixed(first[p], f[next[p]])]
  BY DEF IsReading
<1>2. bad = {}
  <2> SUFFICES ASSUME bad # {} PROVE FALSE
    OBVIOUS
  <2>1. PICK p \in bad : \A r \in bad : r <= p
    <3>1. bad \subseteq 0..N
      OBVIOUS
    <3> HIDE DEF bad
    <3> QED
      BY <3>1, LastMember
  <2>2. p \in 0..N /\ p \in Nat
    OBVIOUS
  <2>3. \A q \in p..N : ~Good(p, q)
    OBVIOUS
  <2>4. CASE p \in stops
    <3>1. f[p] = stopped[p] /\ stopped[p].messages = <<>>
      BY <1>1, <2>2, <2>4
    <3>2. Chained(f[p].messages, base + p, base + p)
      BY <2>2, <3>1, ChainEmpty
    <3>3. Good(p, p) /\ p \in p..N
      BY <2>2, <2>4, <3>1, <3>2 DEF ReadsTo
    <3> QED
      BY <2>3, <3>3
  <2>5. CASE p \notin stops
    <3> PICK r : r = next[p]
      OBVIOUS
    <3>1. /\ r \in (p + 1)..N /\ Chained(first[p], base + p, base + r)
          /\ f[p] = Prefixed(first[p], f[r])
      BY <1>1, <2>2, <2>5
    <3>2. PICK q \in r..N : Good(r, q)
      <4>1. r \in 0..N /\ ~(r <= p)
        BY <2>2, <3>1
      <4>2. r \notin bad
        BY <2>1, <4>1
      <4> QED
        BY <4>1, <4>2
    <3>3. "messages" \in DOMAIN f[r]
      <4>1. q \in 0..N
        BY <2>2, <3>1, <3>2
      <4>2. "messages" \in DOMAIN stopped[q]
        BY <3>2, <4>1 DEF ReadsTo
      <4> QED
        BY <3>2, <4>2 DEF ReadsTo
    <3>4. /\ f[p].messages = first[p] \o f[r].messages
          /\ DOMAIN f[p] = DOMAIN f[r]
          /\ \A x \in DOMAIN f[r] : x # "messages" => f[p][x] = f[r][x]
      BY <3>1, <3>3 DEF Prefixed
    <3>5. Chained(f[p].messages, base + p, base + q)
      <4>1. Chained(first[p], base + p, base + r) /\ Chained(f[r].messages, base + r, base + q)
        BY <3>1, <3>2 DEF ReadsTo
      <4>2. Chained(first[p] \o f[r].messages, base + p, base + q)
        BY <4>1, ChainConcat
      <4> QED
        BY <3>4, <4>2
    <3>6. q \in p..N
      BY <2>2, <3>1, <3>2
    <3>7. Good(p, q)
      BY <3>2, <3>4, <3>5 DEF ReadsTo
    <3> QED
      BY <2>3, <3>6, <3>7
  <2> QED
    BY <2>4, <2>5
<1> QED
  BY <1>2

(* Where the reader of a block stops, and what it returns there. *)
Ends(from, pos) ==
    \/ BlockSize <= pos \/ BlockSize < pos + HeaderSize
    \/ IsBlank(from + pos) \/ ~IsHeader(from + pos)
    \/ BlockSize <= pos + Total(ItemAt(from + pos))

EndOfBlock(from, pos) ==
    IF BlockSize <= pos THEN Stop(pos, "stopped")
    ELSE IF BlockSize < pos + HeaderSize THEN Stop(pos, "threw")
    ELSE IF IsBlank(from + pos) THEN Stop(pos, "stopped")
    ELSE IF ~IsHeader(from + pos)
      THEN Stop(pos, IF MayBeSmall(from + pos) THEN "garbled" ELSE "stopped")
    ELSE Stop(pos, "stopped")

LEMMA EndOfBlockProperties ==
    ASSUME NEW from, NEW pos, Ends(from, pos)
    PROVE  /\ DOMAIN EndOfBlock(from, pos) = {"messages", "next", "end"}
           /\ EndOfBlock(from, pos).messages = <<>>
           /\ EndOfBlock(from, pos).next = pos
           /\ EndOfBlock(from, pos).end \in {"stopped", "threw", "garbled"}
           /\ EndOfBlock(from, pos).end # "threw" =>
                 \/ BlockSize <= pos \/ IsBlank(from + pos) \/ ~IsHeader(from + pos)
                 \/ BlockSize <= pos + Total(ItemAt(from + pos))
<1>1. PICK e \in {"stopped", "threw", "garbled"} :
        /\ EndOfBlock(from, pos) = Stop(pos, e)
        /\ e # "threw" => \/ BlockSize <= pos \/ IsBlank(from + pos) \/ ~IsHeader(from + pos)
                          \/ BlockSize <= pos + Total(ItemAt(from + pos))
  BY Zenon DEF EndOfBlock, Ends
<1> QED
  BY <1>1 DEF Stop

(* What SplitMessagesFromStream returns of the block at an offset. *)
LEMMA SplitReads ==
    ASSUME WriterType, NEW from \in Nat
    PROVE  \E q \in 0..BlockSize :
              /\ Split(from).next = q
              /\ Chained(Split(from).messages, from, from + q)
              /\ Split(from).end \in {"stopped", "threw", "garbled"}
              /\ Split(from).end # "threw" =>
                    \/ BlockSize <= q \/ IsBlank(from + q) \/ ~IsHeader(from + q)
                    \/ BlockSize <= q + Total(ItemAt(from + q))
<1> DEFINE N == BlockSize
           F(f) == [pos \in 0..BlockSize |->
                      IF BlockSize <= pos THEN Stop(pos, "stopped")
                      ELSE IF BlockSize < pos + HeaderSize THEN Stop(pos, "threw")
                      ELSE IF IsBlank(from + pos) THEN Stop(pos, "stopped")
                      ELSE IF ~IsHeader(from + pos)
                        THEN Stop(pos, IF MayBeSmall(from + pos) THEN "garbled" ELSE "stopped")
                      ELSE IF BlockSize <= pos + Total(Cell(from + pos + 1).item)
                        THEN Stop(pos, "stopped")
                      ELSE [f[pos + Total(Cell(from + pos + 1).item)]
                              EXCEPT !.messages = <<Cell(from + pos + 1).item>> \o @]]
           stops == {p \in 0..N : Ends(from, p)}
           stopped == [p \in 0..N |-> EndOfBlock(from, p)]
           next == [p \in 0..N |-> p + Total(ItemAt(from + p))]
           first == [p \in 0..N |-> <<ItemAt(from + p)>>]
           G(f) == [p \in 0..N |-> IF p \in stops THEN stopped[p]
                                   ELSE Prefixed(first[p], f[next[p]])]
<1>1. Split(from) = (CHOOSE f : f = F(f))[0]
  BY DEF Split
<1>2. ASSUME NEW f PROVE F(f) = G(f)
  <2>1. ASSUME NEW p \in 0..N PROVE F(f)[p] = G(f)[p]
    <3>1. CASE Ends(from, p)
      <4>1. F(f)[p] = EndOfBlock(from, p)
        BY <3>1, Zenon DEF Ends, EndOfBlock, ItemAt
      <4> QED
        BY <3>1, <4>1
    <3>2. CASE ~Ends(from, p)
      <4>1. F(f)[p] = [f[p + Total(ItemAt(from + p))]
                         EXCEPT !.messages = <<ItemAt(from + p)>> \o @]
        BY <3>2, Zenon DEF Ends, ItemAt
      <4>2. F(f)[p] = Prefixed(<<ItemAt(from + p)>>, f[p + Total(ItemAt(from + p))])
        BY <4>1 DEF Prefixed
      <4> QED
        BY <3>2, <4>2
    <3> QED
      BY <3>1, <3>2
  <2> QED
    BY <2>1, Zenon
<1>3. ASSUME NEW p \in 0..N, p \notin stops
      PROVE  next[p] \in (p + 1)..N /\ Chained(first[p], from + p, from + next[p])
  <2>1. ~Ends(from, p)
    BY <1>3
  <2>2. IsHeader(from + p) /\ ~(BlockSize <= p + Total(ItemAt(from + p))) /\ from + p \in Nat
    BY <2>1, LocalStorageAssumption DEF Ends
  <2>3. Total(ItemAt(from + p)) \in Nat /\ 0 < Total(ItemAt(from + p))
    BY <2>2, HeaderCells, TotalType, LocalStorageAssumption DEF ItemAt
  <2>4. next[p] \in (p + 1)..N
    BY <2>2, <2>3, LocalStorageAssumption
  <2>5. Chained(<<ItemAt(from + p)>>, from + p, (from + p) + Total(ItemAt(from + p)))
    BY <2>2, ChainOne
  <2>6. (from + p) + Total(ItemAt(from + p)) = from + next[p]
    BY <2>3, LocalStorageAssumption
  <2> QED
    BY <2>4, <2>5, <2>6
<1>4. ASSUME NEW p \in stops
      PROVE  stopped[p] = EndOfBlock(from, p) /\ Ends(from, p) /\ p \in 0..N
  OBVIOUS
<1>5. N \in Nat
  BY LocalStorageAssumption
<1> HIDE DEF F, stops, stopped, next, first, N
<1>6. \E f : IsReading(f, N, stops, stopped, next, first)
  <2>1. \A p \in 0..N : p \notin stops => next[p] \in (p + 1)..N
    BY <1>3
  <2> QED
    BY <1>5, <2>1, ReadingExists
<1>7. PICK f : IsReading(f, N, stops, stopped, next, first) /\ Split(from) = f[0]
  <2>1. \A f : f = F(f) <=> IsReading(f, N, stops, stopped, next, first)
    BY <1>2, Zenon DEF IsReading
  <2> HIDE DEF G
  <2>2. \E f : f = F(f)
    BY <1>6, <2>1
  <2> QED
    BY <1>1, <2>1, <2>2
<1>8. PICK q \in 0..N : ReadsTo(f, stops, stopped, from, 0, q)
  <2>1. \A p \in 0..N : p \in stops =>
           "messages" \in DOMAIN stopped[p] /\ stopped[p].messages = <<>>
    BY <1>4, EndOfBlockProperties
  <2>2. \A p \in 0..N : p \notin stops =>
           next[p] \in (p + 1)..N /\ Chained(first[p], from + p, from + next[p])
    BY <1>3
  <2>3. 0 \in 0..N
    BY <1>5
  <2>4. IsReading(f, N, stops, stopped, next, first)
    BY <1>7
  <2> QED
    BY <1>5, <2>1, <2>2, <2>3, <2>4, ReadingIsChained
<1>9. f[0].next = EndOfBlock(from, q).next /\ f[0].end = EndOfBlock(from, q).end
  <2>1. stopped[q] = EndOfBlock(from, q) /\ DOMAIN EndOfBlock(from, q) = {"messages", "next", "end"}
    BY <1>4, <1>8, EndOfBlockProperties DEF ReadsTo
  <2> QED
    BY <1>8, <2>1 DEF ReadsTo
<1>10. from + 0 = from
  OBVIOUS
<1>11. Ends(from, q) /\ q \in 0..BlockSize
  BY <1>4, <1>8 DEF N, ReadsTo
<1>12. /\ Split(from).next = q
       /\ Split(from).end = EndOfBlock(from, q).end
       /\ Chained(Split(from).messages, from, from + q)
  BY <1>7, <1>8, <1>9, <1>10, <1>11, EndOfBlockProperties DEF ReadsTo
<1> QED
  BY <1>11, <1>12, EndOfBlockProperties

LEMMA ChainIncreases ==
    ASSUME WriterType, NEW s, NEW start, Chain(s, start),
           NEW j \in 1..(Len(s) + 1), NEW k \in 1..(Len(s) + 1), j < k
    PROVE  start[j] < start[k]
<1> DEFINE m == Len(s)
           T == {i \in 1..(m + 1) : j < i /\ ~(start[j] < start[i])}
<1>1. /\ m \in Nat /\ \A i \in 1..m : s[i] \in 1..Len(items)
      /\ \A i \in 1..(m + 1) : start[i] \in Nat
      /\ \A i \in 1..m : start[i + 1] = start[i] + Total(s[i])
  <2>1. s \in Seq(1..Len(items)) /\ start \in [1..(m + 1) -> Nat]
    BY DEF Chain
  <2>2. \A i \in 1..m : start[i + 1] = start[i] + Total(s[i])
    BY DEF Chain
  <2>3. m \in Nat /\ \A i \in 1..m : s[i] \in 1..Len(items)
    BY <2>1
  <2> HIDE DEF m
  <2> QED
    BY <2>1, <2>2, <2>3
<1>2. \A i \in 1..m : start[i] < start[i + 1]
  <2> SUFFICES ASSUME NEW i \in 1..m PROVE start[i] < start[i + 1]
    OBVIOUS
  <2>1. Total(s[i]) \in Nat /\ 0 < Total(s[i])
    BY <1>1, TotalType, LocalStorageAssumption
  <2>2. start[i] \in Nat
    BY <1>1
  <2> QED
    BY <1>1, <2>1, <2>2
<1>3. SUFFICES ASSUME T # {} PROVE FALSE
  OBVIOUS
<1> HIDE DEF m
<1>4. PICK i \in T : \A h \in T : ~(h < i)
  <2>1. T \subseteq Nat
    BY <1>1
  <2> HIDE DEF T
  <2> QED
    BY <1>3, <2>1, FirstMember
<1>5. i \in 1..(m + 1) /\ j < i /\ ~(start[j] < start[i]) /\ j \in 1..m /\ j \in 1..(m + 1)
  BY <1>1, <1>4 DEF m
<1>6. CASE i = j + 1
  BY <1>2, <1>5, <1>6
<1>7. CASE i # j + 1
  <2> PICK h : h = i - 1
    OBVIOUS
  <2>1. h \in 1..m /\ h \in 1..(m + 1) /\ h + 1 = i /\ j < h /\ h < i
    BY <1>1, <1>5, <1>7
  <2>2. start[j] < start[h]
    BY <1>4, <2>1
  <2>3. start[h] < start[i]
    BY <1>2, <2>1
  <2> QED
    BY <1>1, <1>5, <2>1, <2>2, <2>3
<1> QED
  BY <1>6, <1>7

(* The record behind a header is in the file to its end. *)
LEMMA RecordInFile ==
    ASSUME WriterType, HeadersAreWhole, NEW from \in Nat, IsHeader(from)
    PROVE  /\ ItemAt(from) \in 1..Len(items) /\ Total(ItemAt(from)) \in Nat
           /\ HeaderSize < Total(ItemAt(from))
           /\ from + Total(ItemAt(from)) <= Len(file)
<1> DEFINE n == ItemAt(from)
           T == Total(n)
<1>1. n \in 1..Len(items) /\ T \in Nat /\ HeaderSize < T /\ HeaderSize \in Nat
  BY HeaderCells, TotalType, LocalStorageAssumption DEF ItemAt
<1>2. IsWholeAt(n, from)
  BY DEF HeadersAreWhole, ItemAt
<1> HIDE DEF n
<1>3. Cell(from + T) = [item |-> n, at |-> T]
  <2>1. T \in 1..T
    BY <1>1
  <2> QED
    BY <1>2, <2>1 DEF IsWholeAt
<1>4. Cell(from + T).at = T /\ T # 0 /\ Zero.at = 0
  BY <1>1, <1>3 DEF Zero
<1>5. from + T \in DOMAIN file
  BY <1>4 DEF Cell
<1>6. DOMAIN file = 1..Len(file)
  BY DEF WriterType
<1> QED
  BY <1>1, <1>5, <1>6 DEF n

LEMMA ChainEnds ==
    ASSUME WriterType, HeadersAreWhole, NEW s, NEW from \in Nat, NEW to, Chained(s, from, to)
    PROVE  /\ s \in Seq(1..Len(items)) /\ to \in Nat
           /\ s = <<>> => to = from
           /\ s # <<>> => from < to /\ to <= Len(file)
<1>1. PICK start : Chain(s, start) /\ start[1] = from /\ start[Len(s) + 1] = to
  BY DEF Chained
<1>2. /\ s \in Seq(1..Len(items)) /\ Len(s) \in Nat
      /\ start \in [1..(Len(s) + 1) -> Nat]
  BY <1>1 DEF Chain
<1>3. 1 \in 1..(Len(s) + 1) /\ Len(s) + 1 \in 1..(Len(s) + 1) /\ to \in Nat
  BY <1>1, <1>2
<1>4. CASE s = <<>>
  BY <1>1, <1>2, <1>3, <1>4
<1>5. CASE s # <<>>
  <2>1. Len(s) \in 1..Len(s) /\ 1 < Len(s) + 1 /\ Len(s) \in 1..(Len(s) + 1)
    BY <1>2, <1>5
  <2>2. from < to
    BY <1>1, <1>3, <2>1, ChainIncreases
  <2>3. /\ IsHeader(start[Len(s)]) /\ ItemAt(start[Len(s)]) = s[Len(s)]
        /\ to = start[Len(s)] + Total(s[Len(s)]) /\ start[Len(s)] \in Nat
    BY <1>1, <1>2, <2>1 DEF Chain
  <2>4. to <= Len(file)
    BY <2>3, RecordInFile
  <2> QED
    BY <1>2, <1>3, <1>5, <2>2, <2>4
<1> QED
  BY <1>4, <1>5

(* What an enumeration returns: the records from the beginning to where no  *)
(* header is.                                                               *)
LEMMA ScanReads ==
    ASSUME WriterType, HeadersAreWhole
    PROVE  \E to \in 0..Len(file) :
              /\ Chained(Scan.messages, 0, to)
              /\ Fits /\ Scan.end # "threw" => ~IsHeader(to)
<1> DEFINE N == Len(file)
           F(f) == [from \in 0..Len(file) |->
                      IF Split(from).end = "threw" \/ Split(from).messages = <<>>
                        THEN [messages |-> <<>>, end |-> Split(from).end]
                        ELSE [f[from + Split(from).next]
                                EXCEPT !.messages = Split(from).messages \o @]]
           stops == {p \in 0..N : Split(p).end = "threw" \/ Split(p).messages = <<>>}
           stopped == [p \in 0..N |-> [messages |-> <<>>, end |-> Split(p).end]]
           next == [p \in 0..N |-> p + Split(p).next]
           first == [p \in 0..N |-> Split(p).messages]
<1>1. Scan = (CHOOSE f : f = F(f))[0]
  BY DEF Scan
<1>2. ASSUME NEW f PROVE f = F(f) <=> IsReading(f, N, stops, stopped, next, first)
  <2> DEFINE G == [p \in 0..N |-> IF p \in stops THEN stopped[p]
                                  ELSE Prefixed(first[p], f[next[p]])]
  <2>1. ASSUME NEW p \in 0..N PROVE F(f)[p] = G[p]
    <3>1. CASE p \in stops
      BY <3>1
    <3>2. CASE p \notin stops
      <4>1. F(f)[p] = Prefixed(Split(p).messages, f[p + Split(p).next])
        BY <3>2 DEF Prefixed
      <4> QED
        BY <3>2, <4>1
    <3> QED
      BY <3>1, <3>2
  <2>2. F(f) = G
    BY <2>1, Zenon
  <2> QED
    BY <2>2, Zenon DEF IsReading
<1>3. Len(file) \in Nat
  BY CommittedType
<1>4. ASSUME NEW p \in 0..N, p \notin stops
      PROVE  next[p] \in (p + 1)..N /\ Chained(first[p], 0 + p, 0 + next[p])
  <2>1. p \in Nat /\ Split(p).messages # <<>>
    BY <1>3, <1>4
  <2>2. PICK q \in 0..BlockSize : Split(p).next = q /\ Chained(Split(p).messages, p, p + q)
    BY <2>1, SplitReads
  <2>3. p + q \in Nat /\ p < p + q /\ p + q <= Len(file)
    BY <2>1, <2>2, ChainEnds
  <2>4. next[p] = p + q /\ first[p] = Split(p).messages
    BY <2>2
  <2>5. p + q \in (p + 1)..N /\ 0 + p = p /\ 0 + next[p] = p + q
    BY <1>3, <2>1, <2>3, <2>4
  <2> QED
    BY <2>2, <2>4, <2>5
<1>5. ASSUME NEW p \in stops
      PROVE  /\ p \in 0..N
             /\ stopped[p] = [messages |-> <<>>, end |-> Split(p).end]
             /\ Fits /\ Split(p).end # "threw" => ~IsHeader(p)
  <2>1. p \in 0..N /\ p \in Nat /\ stopped[p] = [messages |-> <<>>, end |-> Split(p).end]
    BY <1>3
  <2> SUFFICES ASSUME Fits, Split(p).end # "threw", IsHeader(p) PROVE FALSE
    BY <2>1
  <2>2. Split(p).messages = <<>>
    OBVIOUS
  <2>3. PICK q \in 0..BlockSize :
          /\ Chained(<<>>, p, p + q)
          /\ \/ BlockSize <= q \/ IsBlank(p + q) \/ ~IsHeader(p + q)
             \/ BlockSize <= q + Total(ItemAt(p + q))
    BY <2>1, <2>2, SplitReads
  <2>4. p + q = p
    BY <2>1, <2>3, ChainEnds
  <2>5. q = 0 /\ q \in Nat
    BY <2>1, <2>3, <2>4, LocalStorageAssumption
  <2>6. ~(BlockSize <= q)
    BY <2>5, LocalStorageAssumption
  <2>7. ~IsBlank(p)
    <3>1. 1 \in 1..HeaderSize
      BY LocalStorageAssumption
    <3>2. Cell(p + 1) = [item |-> Cell(p + 1).item, at |-> 1]
      BY <3>1 DEF IsHeader
    <3>3. Cell(p + 1) # Zero
      <4>1. Cell(p + 1).at = 1
        BY <3>2
      <4> QED
        BY <4>1 DEF Zero
    <3> QED
      BY <3>1, <3>3 DEF IsBlank
  <2>8. ItemAt(p) \in 1..Len(items) /\ Total(ItemAt(p)) < BlockSize
    <3>1. ItemAt(p) \in 1..Len(items)
      BY <2>1, RecordInFile
    <3>2. items[ItemAt(p)].size \in Sizes
      <4>1. PICK P : items \in Seq([size : Sizes, position : P])
        BY DEF WriterType
      <4> DEFINE S == [size : Sizes, position : P]
      <4>2. items \in Seq(S)
        BY <4>1
      <4> HIDE DEF S
      <4>3. items[ItemAt(p)] \in S
        BY <3>1, <4>2
      <4> QED
        BY <4>3 DEF S
    <3> QED
      BY <3>1, <3>2 DEF Fits, Total
  <2>9. BlockSize <= q + Total(ItemAt(p))
    <3>1. \/ BlockSize <= q \/ IsBlank(p) \/ ~IsHeader(p)
          \/ BlockSize <= q + Total(ItemAt(p))
      BY <2>3, <2>4
    <3> QED
      BY <2>6, <2>7, <3>1
  <2>10. Total(ItemAt(p)) \in Nat /\ BlockSize \in Nat
    BY <2>1, RecordInFile, LocalStorageAssumption
  <2> QED
    BY <2>5, <2>8, <2>9, <2>10
<1> HIDE DEF F, stops, stopped, next, first, N
<1>6. PICK f : IsReading(f, N, stops, stopped, next, first) /\ Scan = f[0]
  <2>1. \A p \in 0..N : p \notin stops => next[p] \in (p + 1)..N
    BY <1>4
  <2>2. N \in Nat
    BY <1>3 DEF N
  <2>3. \E f : IsReading(f, N, stops, stopped, next, first)
    BY <2>1, <2>2, ReadingExists
  <2>4. \E f : f = F(f)
    BY <1>2, <2>3
  <2> QED
    BY <1>1, <1>2, <2>4
<1>7. PICK q \in 0..N : ReadsTo(f, stops, stopped, 0, 0, q)
  <2>1. \A p \in 0..N : p \in stops =>
           "messages" \in DOMAIN stopped[p] /\ stopped[p].messages = <<>>
    <3> SUFFICES ASSUME NEW p \in 0..N, p \in stops
                 PROVE  "messages" \in DOMAIN stopped[p] /\ stopped[p].messages = <<>>
      OBVIOUS
    <3>1. stopped[p] = [messages |-> <<>>, end |-> Split(p).end]
      BY <1>5
    <3> QED
      BY <3>1
  <2>2. \A p \in 0..N : p \notin stops =>
           next[p] \in (p + 1)..N /\ Chained(first[p], 0 + p, 0 + next[p])
    BY <1>4
  <2>3. N \in Nat /\ 0 \in 0..N
    BY <1>3 DEF N
  <2>4. IsReading(f, N, stops, stopped, next, first)
    BY <1>6
  <2> QED
    BY <2>1, <2>2, <2>3, <2>4, ReadingIsChained
<1>8. q \in stops /\ Chained(Scan.messages, 0, q) /\ Scan.end = Split(q).end
  <2>1. 0 + 0 = 0 /\ 0 + q = q
    BY <1>3 DEF N
  <2>2. /\ q \in stops /\ Chained(f[0].messages, 0 + 0, 0 + q)
        /\ \A x \in DOMAIN stopped[q] : x # "messages" => f[0][x] = stopped[q][x]
    BY <1>7 DEF ReadsTo
  <2>3. stopped[q] = [messages |-> <<>>, end |-> Split(q).end]
    BY <1>5, <2>2
  <2>4. f[0].end = Split(q).end
    BY <2>2, <2>3
  <2> QED
    BY <1>6, <2>1, <2>2, <2>4
<1>9. Fits /\ Scan.end # "threw" => ~IsHeader(q)
  BY <1>5, <1>8
<1> QED
  BY <1>8, <1>9 DEF N

(* A whole record begins with its header, and no other header is inside it. *)
LEMMA HeaderOfWhole ==
    ASSUME WriterType, NEW n \in 1..Len(items), NEW from \in Nat, IsWholeAt(n, from)
    PROVE  IsHeader(from) /\ ItemAt(from) = n
<1>1. /\ Total(n) \in Nat /\ HeaderSize < Total(n)
      /\ HeaderSize \in Nat /\ 1 \in 1..HeaderSize
  BY TotalType, LocalStorageAssumption
<1>2. \A k \in 1..HeaderSize : k \in 1..Total(n)
  BY <1>1
<1>3. \A k \in 1..HeaderSize : Cell(from + k) = [item |-> n, at |-> k]
  BY <1>2 DEF IsWholeAt
<1>4. Cell(from + 1).item = n
  <2>1. Cell(from + 1) = [item |-> n, at |-> 1]
    BY <1>1, <1>3
  <2> QED
    BY <2>1
<1> QED
  BY <1>3, <1>4 DEF IsHeader, ItemAt

LEMMA NoHeaderInside ==
    ASSUME WriterType, HeadersAreWhole, NEW a \in Nat, NEW b \in Nat,
           IsHeader(a), IsHeader(b), a <= b, b < a + Total(ItemAt(a))
    PROVE  a = b
<1>1. IsWholeAt(ItemAt(a), a) /\ Total(ItemAt(a)) \in Nat
  BY RecordInFile DEF HeadersAreWhole, ItemAt
<1> PICK k : k = b - a + 1
  OBVIOUS
<1>2. k \in 1..Total(ItemAt(a)) /\ a + k = b + 1 /\ k \in Nat
  BY <1>1
<1>3. Cell(b + 1) = [item |-> ItemAt(a), at |-> k]
  BY <1>1, <1>2 DEF IsWholeAt
<1>4. Cell(b + 1) = [item |-> Cell(b + 1).item, at |-> 1]
  <2>1. 1 \in 1..HeaderSize
    BY LocalStorageAssumption
  <2> QED
    BY <2>1 DEF IsHeader
<1>5. Cell(b + 1).at = k /\ Cell(b + 1).at = 1
  <2>1. Cell(b + 1).at = k
    BY <1>3
  <2>2. Cell(b + 1).at = 1
    BY <1>4
  <2> QED
    BY <2>1, <2>2
<1> QED
  BY <1>2, <1>5

LEMMA ChainFacts ==
    ASSUME NEW s, NEW start, Chain(s, start)
    PROVE  /\ s \in Seq(1..Len(items)) /\ Len(s) \in Nat
           /\ \A k \in 1..(Len(s) + 1) : start[k] \in Nat
           /\ \A k \in 1..Len(s) :
                 /\ s[k] \in 1..Len(items) /\ IsHeader(start[k]) /\ ItemAt(start[k]) = s[k]
                 /\ start[k] \in Nat /\ start[k + 1] = start[k] + Total(s[k])
<1> DEFINE m == Len(s)
<1>1. s \in Seq(1..Len(items)) /\ start \in [1..(m + 1) -> Nat]
  BY DEF Chain
<1>2. \A k \in 1..m : /\ IsHeader(start[k]) /\ ItemAt(start[k]) = s[k]
                      /\ start[k + 1] = start[k] + Total(s[k])
  BY DEF Chain
<1>3. m \in Nat /\ \A k \in 1..m : s[k] \in 1..Len(items)
  BY <1>1
<1> HIDE DEF m
<1>4. \A k \in 1..m : k \in 1..(m + 1)
  BY <1>3
<1>5. \A k \in 1..(m + 1) : start[k] \in Nat
  BY <1>1
<1> QED
  BY <1>1, <1>2, <1>3, <1>4, <1>5 DEF m

(* Two readers that begin at one place meet the same records. *)
LEMMA ChainsAgree ==
    ASSUME WriterType, NEW s, NEW f, Chain(s, f), NEW t, NEW g, Chain(t, g), f[1] = g[1],
           NEW k \in 1..(Len(s) + 1), k <= Len(t) + 1
    PROVE  f[k] = g[k]
<1> DEFINE T == {i \in 1..(Len(s) + 1) : i <= Len(t) + 1 /\ f[i] # g[i]}
<1>1. Len(s) \in Nat /\ Len(t) \in Nat
  BY ChainFacts
<1>2. SUFFICES ASSUME T # {} PROVE FALSE
  OBVIOUS
<1>3. PICK i \in T : \A j \in T : ~(j < i)
  <2>1. T \subseteq Nat
    BY <1>1
  <2> HIDE DEF T
  <2> QED
    BY <1>2, <2>1, FirstMember
<1>4. i \in 1..(Len(s) + 1) /\ i <= Len(t) + 1 /\ f[i] # g[i] /\ i # 1
  BY <1>3
<1> PICK h : h = i - 1
  OBVIOUS
<1>5. /\ h \in 1..Len(s) /\ h \in 1..Len(t) /\ h + 1 = i /\ h < i
      /\ h \in 1..(Len(s) + 1) /\ h <= Len(t) + 1
  BY <1>1, <1>4
<1>6. f[h] = g[h]
  BY <1>3, <1>5
<1>7. f[h + 1] = f[h] + Total(ItemAt(f[h])) /\ g[h + 1] = g[h] + Total(ItemAt(g[h]))
  <2>1. ItemAt(f[h]) = s[h] /\ f[h + 1] = f[h] + Total(s[h])
    BY <1>5, ChainFacts
  <2>2. ItemAt(g[h]) = t[h] /\ g[h + 1] = g[h] + Total(t[h])
    BY <1>5, ChainFacts
  <2> QED
    BY <2>1, <2>2
<1> QED
  BY <1>4, <1>5, <1>6, <1>7

BeginsWith(t, g, s, f) ==
    /\ Len(s) <= Len(t)
    /\ \A k \in 1..Len(s) : t[k] = s[k]
    /\ \A k \in 1..(Len(s) + 1) : g[k] = f[k]

(* One that ends where no header is has met all of them. *)
LEMMA ChainIsPrefix ==
    ASSUME WriterType, NEW s, NEW f, Chain(s, f), NEW t, NEW g, Chain(t, g), f[1] = g[1],
           ~IsHeader(g[Len(t) + 1])
    PROVE  BeginsWith(t, g, s, f)
<1>1. Len(s) \in Nat /\ Len(t) \in Nat
  BY ChainFacts
<1>2. Len(s) <= Len(t)
  <2> SUFFICES ASSUME ~(Len(s) <= Len(t)) PROVE FALSE
    OBVIOUS
  <2> PICK k : k = Len(t) + 1
    OBVIOUS
  <2>1. k \in 1..Len(s) /\ k \in 1..(Len(s) + 1) /\ k <= Len(t) + 1
    BY <1>1
  <2>2. f[k] = g[k]
    BY <2>1, ChainsAgree
  <2>3. IsHeader(f[k])
    BY <2>1, ChainFacts
  <2> QED
    BY <2>2, <2>3
<1>3. ASSUME NEW k \in 1..(Len(s) + 1) PROVE g[k] = f[k]
  <2>1. k <= Len(t) + 1
    BY <1>1, <1>2
  <2> QED
    BY <2>1, ChainsAgree
<1>4. ASSUME NEW k \in 1..Len(s) PROVE t[k] = s[k]
  <2>1. k \in 1..(Len(s) + 1) /\ k \in 1..Len(t)
    BY <1>1, <1>2
  <2>2. g[k] = f[k]
    BY <1>3, <2>1
  <2>3. ItemAt(f[k]) = s[k] /\ ItemAt(g[k]) = t[k]
    BY <2>1, ChainFacts
  <2> QED
    BY <2>2, <2>3
<1> QED
  BY <1>2, <1>3, <1>4 DEF BeginsWith

LEMMA LaidIsChain ==
    ASSUME WriterType, NEW s \in Seq(1..Len(items)), NEW start, Laid(s, start)
    PROVE  Chain(s, start) /\ start[1] = 0 /\ start[Len(s) + 1] \in 0..Len(file)
<1> DEFINE m == Len(s)
<1>1. m \in Nat /\ \A k \in 1..m : s[k] \in 1..Len(items)
  OBVIOUS
<1>2. /\ start \in [1..(m + 1) -> 0..Len(file)] /\ start[1] = 0
      /\ \A k \in 1..m : start[k + 1] = start[k] + Total(s[k]) /\ IsWholeAt(s[k], start[k])
  BY DEF Laid
<1>3. Len(file) \in Nat
  BY CommittedType
<1> HIDE DEF m
<1>4. /\ start \in [1..(m + 1) -> Nat] /\ start[m + 1] \in 0..Len(file)
      /\ \A k \in 1..m : start[k] \in Nat
  <2>1. 0..Len(file) \subseteq Nat
    OBVIOUS
  <2>2. m + 1 \in 1..(m + 1) /\ \A k \in 1..m : k \in 1..(m + 1)
    BY <1>1
  <2> QED
    BY <1>2, <2>1, <2>2
<1>5. ASSUME NEW k \in 1..m PROVE IsHeader(start[k]) /\ ItemAt(start[k]) = s[k]
  BY <1>1, <1>2, <1>4, HeaderOfWhole
<1> QED
  BY <1>2, <1>4, <1>5 DEF Chain, m
-----------------------------------------------------------------------------
(* The end of the file. *)

(* An item has one record. *)
HeadersOnce ==
    \A a, b \in Nat : IsHeader(a) /\ IsHeader(b) /\ ItemAt(a) = ItemAt(b) => a = b

(* Where the writer writes next. *)
NextWrite == IF Writing THEN checkpoint ELSE Committed

(* No failure lost the checkpoint or left two records behind it. *)
Orderly == ~exposed /\ orphans < 2

(* Only a failure leaves a record there, and then no more than one. *)
OneOrphan == \A a \in Nat : IsHeader(a) /\ NextWrite <= a => a = NextWrite /\ done = <<>>

TailInv ==
    /\ HeadersOnce
    /\ 0 < Len(items) => 0 < MaxBatch
    /\ Len(done) + Len(todo) <= MaxBatch
    /\ orphans \in 0..MaxBatch
    /\ Orderly => OneOrphan

(* What is laid ends where the writer writes next. *)
LEMMA LaidToNextWrite ==
    ASSUME WriterType, AnsweredInv, ~exposed
    PROVE  \E s, start :
              /\ s = answered \o done /\ Chain(s, start) /\ start[1] = 0
              /\ start[Len(s) + 1] = NextWrite
<1>1. PICK s, start :
        /\ s = answered \o done
        /\ Laid(s, start)
        /\ Writing => start[Len(s) + 1] = checkpoint
        /\ wpc \notin {"deleted", "created"} => Committed = start[Len(answered) + 1]
  BY DEF AnsweredInv
<1>2. answered \in Seq(1..Len(items)) /\ done \in Seq(1..Len(items))
  BY DEF AnsweredInv
<1>3. s \in Seq(1..Len(items))
  BY <1>1, <1>2, ConcatProperties
<1>4. start[Len(s) + 1] = NextWrite
  <2>1. CASE Writing
    BY <1>1, <2>1 DEF NextWrite
  <2>2. CASE ~Writing
    <3>1. done = <<>> /\ wpc \notin {"deleted", "created"}
      BY <2>2 DEF AnsweredInv, Writing
    <3>2. s = answered
      BY <1>1, <1>2, <3>1
    <3> QED
      BY <1>1, <2>2, <3>1, <3>2 DEF NextWrite
  <2> QED
    BY <2>1, <2>2
<1>5. Chain(s, start) /\ start[1] = 0
  BY <1>1, <1>3, LaidIsChain
<1> QED
  BY <1>1, <1>4, <1>5

LEMMA ScanIsAnswered ==
    ASSUME Inv, AnsweredInv, TailInv
    PROVE  ScanReadsAnswered
<1> SUFFICES ASSUME ~exposed, Fits, Scan.end # "threw" PROVE ScanReadsAnswered
  BY DEF ScanReadsAnswered
<1>1. WriterType /\ HeadersAreWhole
  BY DEF Inv
<1> PICK read : read = Scan.messages
  OBVIOUS
<1>2. PICK s, f : /\ s = answered \o done /\ Chain(s, f) /\ f[1] = 0
                  /\ f[Len(s) + 1] = NextWrite
  BY <1>1, LaidToNextWrite
<1>3. PICK g : Chain(read, g) /\ g[1] = 0 /\ ~IsHeader(g[Len(read) + 1])
  <2>1. PICK to : Chained(read, 0, to) /\ ~IsHeader(to)
    BY <1>1, ScanReads
  <2> QED
    BY <2>1 DEF Chained
<1>4. /\ answered \in Seq(1..Len(items)) /\ done \in Seq(1..Len(items))
      /\ Len(answered) \in Nat /\ Len(done) \in Nat
  BY DEF AnsweredInv
<1>5. Len(s) = Len(answered) + Len(done) /\ \A k \in 1..Len(answered) : s[k] = answered[k]
  BY <1>2, <1>4, ConcatProperties
<1>6. Len(read) \in Nat /\ Len(s) \in Nat
  BY <1>2, <1>3, ChainFacts
<1>7. /\ Len(s) <= Len(read)
      /\ \A k \in 1..Len(s) : read[k] = s[k]
      /\ \A k \in 1..(Len(s) + 1) : g[k] = f[k]
  <2>1. f[1] = g[1]
    BY <1>2, <1>3
  <2>2. Chain(s, f)
    BY <1>2
  <2>3. Chain(read, g) /\ ~IsHeader(g[Len(read) + 1])
    BY <1>3
  <2> QED
    BY <1>1, <2>1, <2>2, <2>3, ChainIsPrefix DEF BeginsWith
<1>8. Len(answered) <= Len(read)
  BY <1>4, <1>5, <1>6, <1>7
<1>9. ASSUME NEW k \in 1..Len(answered) PROVE read[k] = answered[k]
  <2>1. k \in 1..Len(s)
    BY <1>4, <1>5
  <2> QED
    BY <1>5, <1>7, <2>1
<1>10. ASSUME NEW j \in 1..Len(read), NEW k \in 1..Len(read), read[j] = read[k] PROVE j = k
  <2>1. g[j] \in Nat /\ g[k] \in Nat
    BY <1>3, ChainFacts
  <2>2. IsHeader(g[j]) /\ IsHeader(g[k]) /\ ItemAt(g[j]) = read[j] /\ ItemAt(g[k]) = read[k]
    BY <1>3, ChainFacts
  <2>3. g[j] = g[k]
    BY <1>10, <2>1, <2>2 DEF TailInv, HeadersOnce
  <2>4. j \in 1..(Len(read) + 1) /\ k \in 1..(Len(read) + 1) /\ j \in Nat /\ k \in Nat
    BY <1>6
  <2>5. j < k => g[j] < g[k]
    BY <1>1, <1>3, <2>4, ChainIncreases
  <2>6. k < j => g[k] < g[j]
    BY <1>1, <1>3, <2>4, ChainIncreases
  <2> QED
    BY <2>1, <2>3, <2>4, <2>5, <2>6
<1>11. ASSUME orphans < 2 PROVE Len(read) <= Len(answered) + MaxBatch
  <2>1. OneOrphan
    BY <1>11 DEF TailInv, Orderly
  <2>2. MaxBatch \in Nat /\ Len(todo) \in Nat /\ Len(items) \in Nat
    BY <1>1, CommittedType, LocalStorageAssumption
  <2>3. Len(done) <= MaxBatch
    BY <1>4, <2>2 DEF TailInv
  <2>4. CASE Len(read) <= Len(s)
    BY <1>4, <1>5, <1>6, <2>2, <2>3, <2>4
  <2>5. CASE ~(Len(read) <= Len(s))
    <3> PICK k : k = Len(s) + 1
      OBVIOUS
    <3>1. k \in 1..(Len(s) + 1) /\ k \in 1..Len(read) /\ k \in 1..(Len(read) + 1)
      BY <1>6, <2>5
    <3>2. g[k] = NextWrite /\ g[k] \in Nat /\ IsHeader(g[k]) /\ ItemAt(g[k]) \in 1..Len(items)
      <4>1. g[k] = NextWrite
        BY <1>2, <1>7, <3>1
      <4>2. g[k] \in Nat /\ IsHeader(g[k]) /\ ItemAt(g[k]) = read[k] /\ read[k] \in 1..Len(items)
        BY <1>3, <3>1, ChainFacts
      <4> QED
        BY <4>1, <4>2
    <3>3. done = <<>>
      <4>1. NextWrite <= g[k]
        BY <3>2
      <4> QED
        BY <2>1, <3>2, <4>1 DEF OneOrphan
    <3>4. Len(read) = k
      <4> SUFFICES ASSUME Len(read) # k PROVE FALSE
        OBVIOUS
      <4> PICK h : h = k + 1
        OBVIOUS
      <4>1. h \in 1..Len(read) /\ h \in 1..(Len(read) + 1) /\ k < h
        BY <1>6, <2>5, <3>1
      <4>2. g[k] < g[h]
        BY <1>1, <1>3, <3>1, <4>1, ChainIncreases
      <4>3. g[h] \in Nat /\ IsHeader(g[h])
        BY <1>3, <4>1, ChainFacts
      <4>4. NextWrite <= g[h] /\ g[h] # NextWrite
        BY <3>2, <4>2, <4>3
      <4> QED
        BY <2>1, <4>3, <4>4 DEF OneOrphan
    <3>5. 0 < MaxBatch
      <4>1. 0 < Len(items)
        BY <2>2, <3>2
      <4> QED
        BY <4>1 DEF TailInv
    <3>6. Len(done) = 0
      BY <3>3
    <3> QED
      BY <1>4, <1>5, <2>2, <3>4, <3>5, <3>6
  <2> QED
    BY <2>4, <2>5
<1> QED
  BY <1>8, <1>9, <1>10, <1>11 DEF ScanReadsAnswered

LEMMA TailInit == Init => TailInv
<1> SUFFICES ASSUME Init PROVE TailInv
  OBVIOUS
<1>1. /\ file = <<>> /\ items = <<>> /\ done = <<>> /\ todo = <<>> /\ Len(file) = 0
      /\ Len(done) = 0 /\ Len(todo) = 0 /\ Len(items) = 0
      /\ orphans = 0
  BY DEF Init
<1>2. ASSUME NEW a \in Nat, IsHeader(a) PROVE FALSE
  <2>1. WriterType
    BY InitInv DEF Inv
  <2>2. 1 \in 1..HeaderSize
    BY LocalStorageAssumption
  <2> QED
    BY <1>1, <1>2, <2>1, <2>2, HeaderCells
<1>3. 0 <= MaxBatch /\ 0 \in 0..MaxBatch
  BY LocalStorageAssumption
<1> QED
  BY <1>1, <1>2, <1>3 DEF TailInv, HeadersOnce, OneOrphan

LEMMA HeadersUnchanged ==
    ASSUME UNCHANGED file, NEW a
    PROVE  (IsHeader(a)' <=> IsHeader(a)) /\ ItemAt(a)' = ItemAt(a)
  BY DEF IsHeader, Cell, ItemAt

(* The steps that write no record. *)
LEMMA TailStays ==
    ASSUME TailInv, UNCHANGED file,
           0 < Len(items') => 0 < MaxBatch,
           Len(done') + Len(todo') <= MaxBatch, orphans' \in 0..MaxBatch,
           Orderly' => Orderly /\ (OneOrphan => OneOrphan')
    PROVE  TailInv'
<1>1. HeadersOnce'
  <2> SUFFICES ASSUME NEW a \in Nat, NEW b \in Nat, IsHeader(a)', IsHeader(b)', ItemAt(a)' = ItemAt(b)'
               PROVE  a = b
    BY DEF HeadersOnce
  <2>1. IsHeader(a) /\ IsHeader(b) /\ ItemAt(a) = ItemAt(b)
    BY HeadersUnchanged
  <2> QED
    BY <2>1 DEF TailInv, HeadersOnce
<1> QED
  BY <1>1 DEF TailInv

LEMMA OrphanStays ==
    ASSUME OneOrphan, UNCHANGED file, NextWrite' = NextWrite, done = <<>> => done' = <<>>
    PROVE  OneOrphan'
<1> SUFFICES ASSUME NEW a \in Nat, IsHeader(a)', NextWrite' <= a
             PROVE  a = NextWrite' /\ done' = <<>>
  BY DEF OneOrphan
<1>1. IsHeader(a) /\ NextWrite <= a
  BY HeadersUnchanged
<1> QED
  BY <1>1 DEF OneOrphan

LEMMA BatchType ==
    ASSUME NEW sizes \in Batches
    PROVE  /\ DOMAIN sizes = 1..Len(sizes) /\ Len(sizes) \in Nat /\ Len(sizes) <= MaxBatch
           /\ \A k \in 1..Len(sizes) : sizes[k] \in Sizes
<1>1. PICK b \in 0..MaxBatch : sizes \in [1..b -> Sizes]
  BY DEF Batches
<1>2. b \in Nat /\ b <= MaxBatch
  BY LocalStorageAssumption
<1> QED
  BY <1>1, <1>2

(* The m items that a call begins, behind the n there were. *)
Begun(n, m, p) ==
    /\ n \in Nat /\ m \in Nat /\ m <= MaxBatch
    /\ Len(items') = n + m
    /\ \A i \in 1..n : items'[i] = items[i]
    /\ \A k \in 1..m : items'[n + k].position = p + k
    /\ Len(todo') = m /\ \A k \in 1..m : todo'[k] = n + k

LEMMA ItemsBegun ==
    ASSUME WriterType, NEW sizes \in Batches, AppendItems(sizes),
           NEW n, n = Len(items), NEW m, m = Len(sizes), NEW p, p = LastPosition
    PROVE  Begun(n, m, p)
<1> DEFINE new == [k \in DOMAIN sizes |-> [size |-> sizes[k], position |-> p + k]]
<1>1. items' = items \o new /\ todo' = [k \in DOMAIN sizes |-> n + k]
  BY DEF AppendItems, Begin
<1>2. /\ m \in Nat /\ m <= MaxBatch /\ DOMAIN sizes = 1..m /\ n \in Nat
      /\ \A k \in 1..m : sizes[k] \in Sizes
  BY BatchType, CommittedType
<1>3. PICK P : items \in Seq([size : Sizes, position : P])
  BY DEF WriterType
<1> DEFINE Q == P \cup {p + k : k \in 1..m}
           S == [size : Sizes, position : Q]
<1>4. items \in Seq(S)
  <2> DEFINE R == [size : Sizes, position : P]
  <2>1. R \subseteq S /\ items \in Seq(R)
    BY <1>3
  <2> HIDE DEF R, S
  <2> QED
    BY <2>1, SeqGrows
<1>5. new \in Seq(S) /\ Len(new) = m /\ \A k \in 1..m : new[k] = [size |-> sizes[k], position |-> p + k]
  <2>1. new = [k \in 1..m |-> [size |-> sizes[k], position |-> p + k]]
    BY <1>2
  <2>2. \A k \in 1..m : [size |-> sizes[k], position |-> p + k] \in S
    BY <1>2
  <2> HIDE DEF S
  <2>3. new \in [1..m -> S]
    BY <2>1, <2>2
  <2>4. \A k \in 1..m : new[k] = [size |-> sizes[k], position |-> p + k]
    BY <2>1
  <2> HIDE DEF new
  <2> QED
    BY <1>2, <2>3, <2>4
<1> HIDE DEF S, new
<1>6. /\ Len(items \o new) = n + m
      /\ \A i \in 1..n : (items \o new)[i] = items[i]
      /\ \A i \in 1..(n + m) : n < i => (items \o new)[i] = new[i - n]
  BY <1>2, <1>4, <1>5, ConcatProperties
<1>7. ASSUME NEW k \in 1..m PROVE n + k \in 1..(n + m) /\ items'[n + k].position = p + k
  <2> PICK i : i = n + k
    OBVIOUS
  <2>1. i \in 1..(n + m) /\ n < i /\ i - n = k
    BY <1>2
  <2>2. items'[i] = new[k]
    BY <1>1, <1>6, <2>1
  <2>3. new[k].position = p + k
    <3>1. new[k] = [size |-> sizes[k], position |-> p + k]
      BY <1>5
    <3> QED
      BY <3>1
  <2> QED
    BY <2>1, <2>2, <2>3
<1>8. todo' \in Seq(1..(n + m)) /\ Len(todo') = m /\ \A k \in 1..m : todo'[k] = n + k
  <2>1. todo' = [k \in 1..m |-> n + k]
    BY <1>1, <1>2
  <2>2. \A k \in 1..m : n + k \in 1..(n + m)
    BY <1>7
  <2> QED
    BY <1>2, <2>1, <2>2
<1>9. Len(items') = n + m /\ \A i \in 1..n : items'[i] = items[i]
  BY <1>1, <1>6
<1> QED
  BY <1>2, <1>7, <1>8, <1>9 DEF Begun

LEMMA TailBegins ==
    ASSUME Inv, AnsweredInv, TailInv, NEW sizes \in Batches, AppendItems(sizes)
    PROVE  TailInv'
<1>1. /\ UNCHANGED <<file, metadata, done, checkpoint, orphans, exposed>>
      /\ wpc = "idle" /\ wpc' = "opening"
  BY DEF AppendItems, Begin, history
<1>2. done = <<>> /\ Len(done') = 0
  BY <1>1 DEF AnsweredInv
<1> PICK n, m, p : n = Len(items) /\ m = Len(sizes) /\ p = LastPosition
  OBVIOUS
<1>3. n \in Nat /\ m \in Nat /\ m <= MaxBatch /\ Len(items') = n + m /\ Len(todo') = m
  BY ItemsBegun DEF Inv, Begun
<1>4. Len(done') + Len(todo') <= MaxBatch
  BY <1>2, <1>3
<1>5. 0 < Len(items') => 0 < MaxBatch
  <2>1. MaxBatch \in Nat
    BY LocalStorageAssumption
  <2> QED
    BY <1>3, <2>1 DEF TailInv
<1>6. NextWrite' = NextWrite /\ (Orderly' => Orderly)
  BY <1>1 DEF NextWrite, Committed, Writing, Orderly
<1> QED
  BY <1>1, <1>2, <1>4, <1>5, <1>6, OrphanStays, TailStays DEF TailInv

LEMMA TailWrites ==
    ASSUME Inv, AnsweredInv, TailInv, WriteRecord
    PROVE  TailInv'
<1> PICK n, cp, T : n = Head(todo) /\ cp = checkpoint /\ T = Total(n)
  OBVIOUS
<1>1. /\ UNCHANGED <<items, wpc, exposed, orphans>> /\ wpc = "writing" /\ todo # <<>>
      /\ checkpoint' = cp + T /\ todo' = Tail(todo) /\ done' = Append(done, n)
  BY DEF WriteRecord, Write, history
<1>2. cp \in Nat /\ T \in Nat /\ HeaderSize < T /\ HeaderSize \in Nat
  BY WrittenFile, LocalStorageAssumption
<1>3. /\ todo \in Seq(1..Len(items)) /\ done \in Seq(1..Len(items)) /\ n \in 1..Len(items)
  BY <1>1 DEF Inv, WriterType, AnsweredInv
<1>4. Len(done') + Len(todo') <= MaxBatch /\ done' # <<>>
  <2>1. Len(done') = Len(done) + 1 /\ Len(todo') = Len(todo) - 1
    BY <1>1, <1>3
  <2>2. Len(done) \in Nat /\ Len(todo) \in Nat /\ MaxBatch \in Nat
    BY <1>3, LocalStorageAssumption
  <2>3. Len(done') # 0
    BY <2>1, <2>2
  <2> QED
    BY <2>1, <2>2, <2>3 DEF TailInv
<1>5. WriterType'
  BY WriteInv DEF Inv
<1>6. ASSUME NEW a \in Nat, IsHeader(a)'
      PROVE  \/ ItemAt(a)' = n /\ a = cp
             \/ /\ ItemAt(a)' # n /\ ItemAt(a) = ItemAt(a)' /\ IsHeader(a)
                /\ a + HeaderSize <= cp \/ cp + T <= a
  BY <1>5, <1>6, HeaderWritten DEF ItemAt
<1>7. HeadersOnce'
  <2> SUFFICES ASSUME NEW a \in Nat, NEW b \in Nat, IsHeader(a)', IsHeader(b)', ItemAt(a)' = ItemAt(b)'
               PROVE  a = b
    BY DEF HeadersOnce
  <2>1. CASE ItemAt(a)' = n
    BY <1>6, <2>1
  <2>2. CASE ItemAt(a)' # n
    <3>1. IsHeader(a) /\ IsHeader(b) /\ ItemAt(a) = ItemAt(b)
      BY <1>6, <2>2
    <3> QED
      BY <3>1 DEF TailInv, HeadersOnce
  <2> QED
    BY <2>1, <2>2
<1>8. Orderly' => OneOrphan'
  <2> SUFFICES ASSUME Orderly', NEW a \in Nat, IsHeader(a)', NextWrite' <= a PROVE FALSE
    BY DEF OneOrphan
  <2>1. NextWrite = cp /\ NextWrite' = cp + T /\ OneOrphan
    BY <1>1 DEF NextWrite, Writing, TailInv, Orderly
  <2>2. cp + T <= a
    BY <2>1
  <2>3. a # cp
    BY <1>2, <2>2
  <2>4. IsHeader(a)
    BY <1>6, <2>3
  <2>5. cp <= a
    BY <1>2, <2>2
  <2> QED
    BY <2>1, <2>3, <2>4, <2>5 DEF OneOrphan
<1>9. (0 < Len(items') => 0 < MaxBatch) /\ orphans' \in 0..MaxBatch
  BY <1>1 DEF TailInv
<1> QED
  BY <1>4, <1>7, <1>8, <1>9 DEF TailInv

(* The first record that is not accounted for stays, and is written over.   *)
LEMMA TailFails ==
    ASSUME Inv, AnsweredInv, TailInv, Interrupted
    PROVE  TailInv'
<1>1. /\ UNCHANGED <<file, metadata, items>>
      /\ wpc' = "idle" /\ todo' = <<>> /\ done' = <<>>
      /\ orphans' = IF wpc = "writing" /\ orphans < Len(done) THEN Len(done) ELSE orphans
      /\ exposed' = (exposed \/ wpc \in {"deleted", "created"})
  BY DEF Interrupted
<1>2. answered \in Seq(1..Len(items)) /\ done \in Seq(1..Len(items))
  BY DEF AnsweredInv
<1>3. Len(done) \in Nat /\ Len(todo) \in Nat /\ Len(answered) \in Nat /\ MaxBatch \in Nat
  BY <1>2, CommittedType, LocalStorageAssumption DEF Inv
<1>4. Len(done') + Len(todo') <= MaxBatch
  BY <1>1, <1>3
<1>5. 0 < Len(items') => 0 < MaxBatch
  BY <1>1 DEF TailInv
<1>6. orphans \in Nat /\ orphans' \in 0..MaxBatch
  BY <1>1, <1>3 DEF TailInv
<1>7. ASSUME Orderly' PROVE Orderly
  <2>1. ~exposed
    <3>1. ~exposed'
      BY <1>7 DEF Orderly
    <3> QED
      BY <1>1, <3>1
  <2>2. orphans' < 2
    BY <1>7 DEF Orderly
  <2>3. orphans' = orphans \/ (orphans' = Len(done) /\ orphans < Len(done))
    BY <1>1
  <2>4. orphans < 2
    BY <1>3, <1>6, <2>2, <2>3
  <2> QED
    BY <2>1, <2>4 DEF Orderly
<1>8. ASSUME Orderly', OneOrphan PROVE OneOrphan'
  <2>1. NextWrite' = Committed /\ Committed \in Nat /\ done' = <<>>
    BY <1>1, CommittedType DEF NextWrite, Writing, Committed, Inv
  <2> SUFFICES ASSUME NEW a \in Nat, IsHeader(a), Committed <= a PROVE a = Committed
    BY <2>1, HeadersUnchanged, <1>1 DEF OneOrphan
  <2>2. ~exposed /\ wpc \notin {"deleted", "created"}
    BY <1>1, <1>8 DEF Orderly
  <2>3. CASE ~Writing
    BY <1>8, <2>3 DEF NextWrite, OneOrphan
  <2>4. CASE Writing
    <3>1. wpc = "writing" /\ NextWrite = checkpoint
      BY <2>2, <2>4 DEF Writing, NextWrite
    <3>2. Len(done) < 2
      BY <1>1, <1>3, <1>6, <1>8, <3>1 DEF Orderly
    <3>3. PICK s, start :
            /\ s = answered \o done
            /\ Laid(s, start)
            /\ start[Len(s) + 1] = checkpoint
            /\ Committed = start[Len(answered) + 1]
      BY <2>2, <2>4 DEF AnsweredInv
    <3>4. s \in Seq(1..Len(items)) /\ Len(s) = Len(answered) + Len(done)
      BY <1>2, <3>3, ConcatProperties
    <3>5. CASE Len(done) = 0
      <4>1. Committed = NextWrite
        BY <1>3, <3>1, <3>3, <3>4, <3>5
      <4> QED
        BY <1>8, <4>1 DEF OneOrphan
    <3>6. CASE Len(done) # 0
      <4> PICK k : k = Len(s)
        OBVIOUS
      <4>1. k \in 1..Len(s) /\ k = Len(answered) + 1
        BY <1>3, <3>2, <3>4, <3>6
      <4>2. Chain(s, start)
        BY <3>3, <3>4, LaidIsChain DEF Inv
      <4>3. /\ IsHeader(start[k]) /\ ItemAt(start[k]) = s[k]
            /\ start[k + 1] = start[k] + Total(s[k]) /\ start[k] \in Nat
        BY <4>1, <4>2, ChainFacts
      <4>4. start[k] = Committed /\ start[k + 1] = NextWrite
        BY <3>1, <3>3, <4>1
      <4>5. done # <<>>
        BY <3>6
      <4>6. ~(NextWrite <= a)
        BY <1>8, <4>5 DEF OneOrphan
      <4>7. Total(s[k]) \in Nat
        BY <4>3, RecordInFile DEF Inv
      <4>8. a < Committed + Total(ItemAt(Committed))
        BY <2>1, <4>3, <4>4, <4>6, <4>7
      <4> QED
        BY <2>1, <4>3, <4>4, <4>8, NoHeaderInside DEF Inv
    <3> QED
      BY <3>5, <3>6
  <2> QED
    BY <2>3, <2>4
<1> QED
  BY <1>1, <1>4, <1>5, <1>6, <1>7, <1>8, TailStays

LEMMA TailStep == Inv /\ AnsweredInv /\ TailInv /\ [Next]_vars => TailInv'
<1> SUFFICES ASSUME Inv, AnsweredInv, TailInv, [Next]_vars PROVE TailInv'
  OBVIOUS
<1>1. /\ 0 < Len(items) => 0 < MaxBatch
      /\ Len(done) + Len(todo) <= MaxBatch /\ Len(todo) \in Nat /\ Len(done) \in Nat
      /\ orphans \in 0..MaxBatch
      /\ MaxBatch \in Nat
  BY CommittedType, LocalStorageAssumption DEF TailInv, Inv, AnsweredInv
<1>2. CASE UNCHANGED vars \/ Deliver \/ ReadBlock
  <2>1. UNCHANGED <<writerVars, history>>
    BY <1>2 DEF vars, Deliver, ReadBlock
  <2>2. UNCHANGED <<file, items, todo, done, exposed, orphans, wpc, checkpoint, metadata>>
    BY <2>1 DEF writerVars, history
  <2>3. NextWrite' = NextWrite
    BY <2>2 DEF NextWrite, Writing, Committed
  <2> QED
    BY <1>1, <2>2, <2>3, OrphanStays, TailStays DEF Orderly
<1>3. ASSUME NEW sizes \in Batches, AppendItems(sizes) PROVE TailInv'
  BY <1>3, TailBegins
<1>4. CASE OpenCheckpoint
  <2>1. /\ UNCHANGED <<file, items, metadata, done, exposed, orphans>> /\ wpc = "opening"
    BY <1>4 DEF OpenCheckpoint, history
  <2>2. checkpoint' = Committed
    BY <1>4 DEF OpenCheckpoint, Committed
  <2>3. (wpc' = "idle" \/ wpc' = "writing") /\ (todo' = todo \/ todo' = <<>>)
    BY <1>4, Zenon DEF OpenCheckpoint
  <2>4. NextWrite' = NextWrite
    BY <2>1, <2>2, <2>3 DEF NextWrite, Writing, Committed
  <2>5. Len(done') + Len(todo') <= MaxBatch
    <3>1. Len(<<>>) = 0
      OBVIOUS
    <3> QED
      BY <1>1, <2>1, <2>3, <3>1
  <2> QED
    BY <1>1, <2>1, <2>4, <2>5, OrphanStays, TailStays DEF Orderly
<1>5. CASE WriteRecord
  BY <1>5, TailWrites
<1>6. CASE DeleteMetadata \/ CreateMetadata
  <2>1. /\ UNCHANGED <<file, items, todo, done, exposed, orphans, checkpoint>>
        /\ Writing /\ wpc' \in {"deleted", "created"}
    BY <1>6 DEF DeleteMetadata, CreateMetadata, Writing, history
  <2>2. NextWrite' = NextWrite
    BY <2>1 DEF NextWrite, Writing
  <2> QED
    BY <1>1, <2>1, <2>2, OrphanStays, TailStays DEF Orderly
<1>7. CASE WriteMetadata
  <2>1. /\ UNCHANGED <<file, items, todo, exposed, orphans>> /\ wpc = "created" /\ wpc' = "idle"
        /\ metadata' = checkpoint /\ done' = <<>>
    BY <1>7 DEF WriteMetadata, Return, history
  <2>2. Writing /\ checkpoint \in Nat
    BY <2>1, CommittedType DEF Writing, Inv, WriterType
  <2>3. NextWrite' = NextWrite
    BY <2>1, <2>2 DEF NextWrite, Writing, Committed, Absent, Empty
  <2>4. Len(done') + Len(todo') <= MaxBatch
    BY <1>1, <2>1
  <2> QED
    BY <1>1, <2>1, <2>3, <2>4, OrphanStays, TailStays DEF Orderly
<1>8. CASE IoException \/ Crash \/ PollerThrows
  <2>1. Interrupted
    BY <1>8 DEF IoException, Crash, PollerThrows, Restart
  <2> QED
    BY <2>1, TailFails
<1> QED
  BY <1>2, <1>3, <1>4, <1>5, <1>6, <1>7, <1>8 DEF Next, WriteAsync

(* A reader of the whole file finds what was answered, whatever failed; as  *)
(* long as no failure left two records behind the checkpoint, it finds at   *)
(* most as many more as a call has items.                                   *)
THEOREM ScansReadAnswered == Spec => []ScanReadsAnswered
<1>1. Init => Inv /\ AnsweredInv /\ TailInv
  BY InitInv, AnsweredInit, TailInit
<1>2. Inv /\ AnsweredInv /\ TailInv /\ [Next]_vars => (Inv /\ AnsweredInv /\ TailInv)'
  BY InvStep, AnsweredStep, TailStep
<1>3. Inv /\ AnsweredInv /\ TailInv => ScanReadsAnswered
  BY ScanIsAnswered
<1> QED
  BY <1>1, <1>2, <1>3, PTL DEF Spec

-----------------------------------------------------------------------------
(* What the poller has, and the position of every item.                     *)
ReaderType ==
    /\ items \in Seq([size : Sizes, position : Nat])
    /\ rpos \in 0..Len(file)
    /\ queue \in Seq(1..Len(items)) /\ given \in Seq(1..Len(items))
    /\ failures \in 0..MaxFailures
    /\ exposed \in BOOLEAN

LEMMA TypesGiveTypeOK ==
    ASSUME Inv, AnsweredInv, TailInv, ReaderType
    PROVE  TypeOK
<1>1. file \in Seq([item : 0..Len(items), at : Nat])
  <2> DEFINE S == CellType(Len(items))
             T == [item : 0..Len(items), at : Nat]
  <2>1. S \subseteq T
    <3>1. 1..Len(items) \subseteq 0..Len(items)
      BY CommittedType DEF Inv
    <3> QED
      BY <3>1 DEF CellType
  <2>2. file \in Seq(S)
    BY DEF Inv, WriterType
  <2> HIDE DEF S, T
  <2>3. file \in Seq(T)
    BY <2>1, <2>2, SeqGrows
  <2> QED
    BY <2>3 DEF T
<1>2. {todo, done, queue, given, answered} \subseteq Seq(1..Len(items))
  BY DEF Inv, WriterType, AnsweredInv, ReaderType
<1> QED
  BY <1>1, <1>2 DEF TypeOK, Inv, WriterType, AnsweredInv, TailInv, ReaderType

LEMMA ItemPosition ==
    ASSUME ReaderType, NEW n \in 1..Len(items)
    PROVE  Position(n) \in Nat
<1> DEFINE S == [size : Sizes, position : Nat]
<1>1. items \in Seq(S)
  BY DEF ReaderType
<1> HIDE DEF S
<1>2. items[n] \in S
  BY <1>1
<1> QED
  BY <1>2 DEF S, Position

LEMMA LastPositionType ==
    ASSUME WriterType, HeadersAreWhole, ReaderType
    PROVE  LastPosition \in Nat
<1> PICK read : read = Scan.messages
  OBVIOUS
<1>1. PICK to : Chained(read, 0, to)
  BY ScanReads
<1>2. read \in Seq(1..Len(items))
  BY <1>1, ChainEnds
<1>3. LastPosition = IF read = <<>> THEN 0 ELSE Position(read[Len(read)])
  BY DEF LastPosition, Position
<1>4. CASE read # <<>>
  <2>1. read[Len(read)] \in 1..Len(items)
    BY <1>2, <1>4
  <2> QED
    BY <1>3, <1>4, <2>1, ItemPosition
<1> QED
  BY <1>3, <1>4

(* The poller's block, and where it stands then. *)
LEMMA BlockRead ==
    ASSUME WriterType, HeadersAreWhole, ReaderType, ReadBlock
    PROVE  /\ queue = <<>> /\ queue' \in Seq(1..Len(items)) /\ Chained(queue', rpos, rpos')
           /\ rpos' \in 0..Len(file) /\ rpos < rpos'
<1> PICK read, from : read = Split(rpos).messages /\ from = rpos
  OBVIOUS
<1>1. queue = <<>> /\ read # <<>> /\ queue' = read /\ rpos' = from + Split(from).next
  BY DEF ReadBlock
<1>2. from \in Nat /\ Len(file) \in Nat
  BY CommittedType DEF ReaderType
<1>3. PICK q \in 0..BlockSize : Split(from).next = q /\ Chained(read, from, from + q)
  BY <1>2, SplitReads
<1>4. /\ read \in Seq(1..Len(items)) /\ from + q \in Nat /\ from < from + q
      /\ from + q <= Len(file)
  BY <1>1, <1>2, <1>3, ChainEnds
<1> QED
  BY <1>1, <1>2, <1>3, <1>4

LEMMA ReaderInit == Init => ReaderType
<1> SUFFICES ASSUME Init PROVE ReaderType
  OBVIOUS
<1>1. /\ file = <<>> /\ items = <<>> /\ rpos = 0 /\ queue = <<>> /\ given = <<>>
      /\ failures = 0 /\ exposed = FALSE
  BY DEF Init
<1>2. 0 \in 0..MaxFailures /\ 0 \in 0..Len(file)
  BY <1>1, LocalStorageAssumption
<1>3. <<>> \in Seq(1..Len(items)) /\ <<>> \in Seq([size : Sizes, position : Nat])
  OBVIOUS
<1> QED
  BY <1>1, <1>2, <1>3 DEF ReaderType

LEMMA ReaderStays ==
    ASSUME ReaderType, items' = items, failures' \in 0..MaxFailures, exposed' \in BOOLEAN,
           Len(file) \in Nat, Len(file') \in Nat, Len(file) <= Len(file'),
           rpos' = rpos \/ rpos' = 0,
           UNCHANGED <<queue, given>> \/ (queue' = <<>> /\ given' = <<>>)
    PROVE  ReaderType'
<1>1. rpos' \in 0..Len(file')
  BY DEF ReaderType
<1>2. queue' \in Seq(1..Len(items)) /\ given' \in Seq(1..Len(items))
  <2>1. <<>> \in Seq(1..Len(items))
    OBVIOUS
  <2> QED
    BY <2>1 DEF ReaderType
<1>3. items \in Seq([size : Sizes, position : Nat])
  BY DEF ReaderType
<1> QED
  BY <1>1, <1>2, <1>3 DEF ReaderType

LEMMA ReaderBegins ==
    ASSUME Inv, ReaderType, NEW sizes \in Batches, AppendItems(sizes)
    PROVE  ReaderType'
<1> DEFINE new == [k \in DOMAIN sizes |-> [size |-> sizes[k], position |-> LastPosition + k]]
           S == [size : Sizes, position : Nat]
<1>1. /\ UNCHANGED <<file, rpos, queue, given, failures, exposed>>
      /\ items' = items \o new
  BY DEF AppendItems, Begin, readerVars, history
<1>2. LastPosition \in Nat
  BY LastPositionType DEF Inv
<1>3. new \in Seq(S)
  <2>1. /\ DOMAIN sizes = 1..Len(sizes) /\ Len(sizes) \in Nat
        /\ \A k \in 1..Len(sizes) : sizes[k] \in Sizes
    BY BatchType
  <2>2. \A k \in 1..Len(sizes) : [size |-> sizes[k], position |-> LastPosition + k] \in S
    BY <1>2, <2>1
  <2>3. new = [k \in 1..Len(sizes) |-> [size |-> sizes[k], position |-> LastPosition + k]]
    BY <2>1
  <2> HIDE DEF S
  <2> QED
    BY <2>1, <2>2, <2>3
<1>4. items \in Seq(S)
  BY DEF ReaderType
<1> HIDE DEF S, new
<1>5. /\ items' \in Seq(S) /\ Len(items) \in Nat /\ Len(items') \in Nat
      /\ Len(items) <= Len(items')
  BY <1>1, <1>3, <1>4, ConcatProperties
<1>6. queue \in Seq(1..Len(items')) /\ given \in Seq(1..Len(items'))
  <2>1. 1..Len(items) \subseteq 1..Len(items')
    BY <1>5
  <2> QED
    BY <2>1, SeqGrows DEF ReaderType
<1> QED
  BY <1>1, <1>5, <1>6 DEF ReaderType, S

LEMMA ReaderStep == Inv /\ ReaderType /\ [Next]_vars => ReaderType'
<1> SUFFICES ASSUME Inv, ReaderType, [Next]_vars PROVE ReaderType'
  OBVIOUS
<1>1. /\ Len(file) \in Nat /\ failures \in 0..MaxFailures /\ failures \in Nat
      /\ MaxFailures \in Nat /\ exposed \in BOOLEAN
  BY CommittedType, LocalStorageAssumption DEF Inv, ReaderType
<1>2. CASE UNCHANGED vars
  <2>1. UNCHANGED <<file, items, rpos, queue, given, failures, exposed>>
    BY <1>2 DEF vars, writerVars, readerVars, history
  <2> QED
    BY <1>1, <2>1, ReaderStays
<1>3. ASSUME NEW sizes \in Batches, AppendItems(sizes) PROVE ReaderType'
  BY <1>3, ReaderBegins
<1>4. CASE OpenCheckpoint \/ DeleteMetadata \/ CreateMetadata \/ WriteMetadata
  <2>1. UNCHANGED <<file, items, rpos, queue, given, failures, exposed>>
    BY <1>4 DEF OpenCheckpoint, DeleteMetadata, CreateMetadata, WriteMetadata, readerVars, history
  <2> QED
    BY <1>1, <2>1, ReaderStays
<1>5. CASE WriteRecord
  <2>1. UNCHANGED <<items, rpos, queue, given, failures, exposed>>
    BY <1>5 DEF WriteRecord, Write, readerVars, history
  <2>2. Len(file') \in Nat /\ Len(file) <= Len(file')
    BY <1>5, WrittenFile
  <2> QED
    BY <1>1, <2>1, <2>2, ReaderStays
<1>6. CASE IoException
  <2>1. UNCHANGED <<file, items, rpos, queue, given>> /\ failures < MaxFailures /\ failures' = failures + 1
    BY <1>6 DEF IoException, Interrupted, readerVars
  <2>2. exposed' \in BOOLEAN
    BY <1>6 DEF IoException, Interrupted
  <2>3. failures' \in 0..MaxFailures
    BY <1>1, <2>1
  <2> QED
    BY <1>1, <2>1, <2>2, <2>3, ReaderStays
<1>7. CASE Crash
  <2>1. /\ UNCHANGED <<file, items>> /\ rpos' = 0 /\ queue' = <<>> /\ given' = <<>>
        /\ failures < MaxFailures /\ failures' = failures + 1
    BY <1>7 DEF Crash, Restart, Interrupted
  <2>2. exposed' \in BOOLEAN
    BY <1>7 DEF Crash, Restart, Interrupted
  <2>3. failures' \in 0..MaxFailures
    BY <1>1, <2>1
  <2> QED
    BY <1>1, <2>1, <2>2, <2>3, ReaderStays
<1>8. CASE PollerThrows
  <2>1. /\ UNCHANGED <<file, items, failures>> /\ rpos' = 0 /\ queue' = <<>> /\ given' = <<>>
    BY <1>8 DEF PollerThrows, Restart, Interrupted
  <2>2. exposed' \in BOOLEAN
    BY <1>8 DEF PollerThrows, Restart, Interrupted
  <2> QED
    BY <1>1, <2>1, <2>2, ReaderStays
<1>9. CASE Deliver
  <2>1. /\ UNCHANGED <<file, items, rpos, failures, exposed>>
        /\ queue # <<>> /\ given' = Append(given, Head(queue)) /\ queue' = Tail(queue)
    BY <1>9 DEF Deliver, writerVars, history
  <2>2. queue \in Seq(1..Len(items)) /\ given \in Seq(1..Len(items))
    BY DEF ReaderType
  <2>3. queue' \in Seq(1..Len(items)) /\ given' \in Seq(1..Len(items))
    BY <2>1, <2>2
  <2> QED
    BY <2>1, <2>3 DEF ReaderType
<1>10. CASE ReadBlock
  <2>1. UNCHANGED <<file, items, given, failures, exposed>>
    BY <1>10 DEF ReadBlock, writerVars, history
  <2>2. queue' \in Seq(1..Len(items)) /\ rpos' \in 0..Len(file)
    BY <1>10, BlockRead DEF Inv
  <2> QED
    BY <2>1, <2>2 DEF ReaderType
<1> QED
  BY <1>2, <1>3, <1>4, <1>5, <1>6, <1>7, <1>8, <1>9, <1>10 DEF Next, WriteAsync

(* The data file holds cells of begun items, checkpoints and the poller's   *)
(* position are inside of it, and positions are numbers, since every        *)
(* enumeration returns items that have been begun.                          *)
THEOREM TypeCorrect == Spec => []TypeOK
<1>1. Init => Inv /\ AnsweredInv /\ TailInv /\ ReaderType
  BY InitInv, AnsweredInit, TailInit, ReaderInit
<1>2. Inv /\ AnsweredInv /\ TailInv /\ ReaderType /\ [Next]_vars
        => (Inv /\ AnsweredInv /\ TailInv /\ ReaderType)'
  BY InvStep, AnsweredStep, TailStep, ReaderStep
<1>3. Inv /\ AnsweredInv /\ TailInv /\ ReaderType => TypeOK
  BY TypesGiveTypeOK
<1> QED
  BY <1>1, <1>2, <1>3, PTL DEF Spec
-----------------------------------------------------------------------------
(* The positions.  They grow with the offset, and beyond them come those of *)
(* the records still to be written.                                         *)
HeadersAscend ==
    \A a, b \in Nat :
        IsHeader(a) /\ IsHeader(b) /\ a < b => Position(ItemAt(a)) < Position(ItemAt(b))

(* What the poller has been given or has read. *)
Got == given \o queue

TodoAbove ==
    /\ \A j \in 1..Len(todo), a \in Nat :
           IsHeader(a) => Position(ItemAt(a)) < Position(todo[j])
    /\ \A j \in 1..Len(todo), i \in 1..Len(Got) : Position(Got[i]) < Position(todo[j])
    /\ \A j, k \in 1..Len(todo) : j < k => Position(todo[j]) < Position(todo[k])

(* A record the poller has got may be written over, but only by one of a    *)
(* higher position; what the poller has still to read is beyond all it got. *)
GotBelow ==
    \A i \in 1..Len(Got) : \E a \in Nat : IsHeader(a) /\ Position(Got[i]) <= Position(ItemAt(a))

GotBehind ==
    \A i \in 1..Len(Got), a \in Nat :
        IsHeader(a) /\ rpos <= a => Position(Got[i]) < Position(ItemAt(a))

GotAscends == \A i, j \in 1..Len(Got) : i < j => Position(Got[i]) < Position(Got[j])

GotNamed ==
    \A i \in 1..Len(Got), a \in Nat :
        IsHeader(a) /\ Position(Got[i]) = Position(ItemAt(a)) => Got[i] = ItemAt(a)

Positioned == HeadersAscend /\ TodoAbove /\ GotBelow /\ GotBehind /\ GotAscends /\ GotNamed

PositionInv == Orderly /\ Fits => Positioned

LEMMA GotType ==
    ASSUME ReaderType
    PROVE  /\ Got \in Seq(1..Len(items)) /\ Len(Got) \in Nat
           /\ \A i \in 1..Len(Got) : Got[i] \in 1..Len(items) /\ Position(Got[i]) \in Nat
           /\ \A i \in 1..Len(given) : i \in 1..Len(Got) /\ Got[i] = given[i]
<1>1. given \in Seq(1..Len(items)) /\ queue \in Seq(1..Len(items))
  BY DEF ReaderType
<1>2. /\ Got \in Seq(1..Len(items)) /\ Len(Got) = Len(given) + Len(queue)
      /\ \A i \in 1..Len(Got) : Got[i] = IF i <= Len(given) THEN given[i] ELSE queue[i - Len(given)]
  BY <1>1, ConcatProperties DEF Got
<1>3. Len(given) \in Nat /\ Len(queue) \in Nat
  BY <1>1
<1>4. \A i \in 1..Len(Got) : Got[i] \in 1..Len(items)
  BY <1>2
<1>5. \A i \in 1..Len(given) : i \in 1..Len(Got) /\ Got[i] = given[i]
  BY <1>2, <1>3
<1> QED
  BY <1>2, <1>3, <1>4, <1>5, ItemPosition

LEMMA HeaderPosition ==
    ASSUME Inv, ReaderType, NEW a \in Nat, IsHeader(a)
    PROVE  ItemAt(a) \in 1..Len(items) /\ Position(ItemAt(a)) \in Nat
  BY RecordInFile, ItemPosition DEF Inv

LEMMA PositionsBegin == Init => PositionInv
<1> SUFFICES ASSUME Init PROVE PositionInv
  OBVIOUS
<1>1. file = <<>> /\ items = <<>> /\ todo = <<>> /\ given = <<>> /\ queue = <<>>
  BY DEF Init
<1>2. ASSUME NEW a \in Nat, IsHeader(a) PROVE FALSE
  <2>1. WriterType
    BY InitInv DEF Inv
  <2>2. 1 \in 1..HeaderSize
    BY LocalStorageAssumption
  <2> QED
    BY <1>1, <1>2, <2>1, <2>2, HeaderCells
<1>3. Len(Got) = 0 /\ Len(todo) = 0
  BY <1>1 DEF Got
<1> QED
  BY <1>2, <1>3 DEF PositionInv, Positioned, HeadersAscend, TodoAbove, GotBelow, GotBehind,
                    GotAscends, GotNamed

(* The steps that neither begin, write nor read a record. *)
LEMMA PositionsStay ==
    ASSUME PositionInv, UNCHANGED <<file, items>>, todo' = todo \/ todo' = <<>>,
           (Got' = Got /\ rpos' = rpos) \/ Got' = <<>>, Orderly' => Orderly
    PROVE  PositionInv'
<1> SUFFICES ASSUME Orderly', Fits' PROVE Positioned'
  BY DEF PositionInv
<1>1. Positioned
  BY DEF PositionInv, Fits
<1>2. \A a : (IsHeader(a)' <=> IsHeader(a)) /\ ItemAt(a)' = ItemAt(a)
  BY HeadersUnchanged
<1>3. \A x : Position(x)' = Position(x)
  BY DEF Position
<1>4. 1..Len(<<>>) = {}
  OBVIOUS
<1>5. HeadersAscend'
  BY <1>1, <1>2, <1>3 DEF Positioned, HeadersAscend
<1>6. TodoAbove'
  BY <1>1, <1>2, <1>3, <1>4 DEF Positioned, TodoAbove
<1>7. GotBelow'
  BY <1>1, <1>2, <1>3, <1>4 DEF Positioned, GotBelow
<1>8. GotBehind'
  BY <1>1, <1>2, <1>3, <1>4 DEF Positioned, GotBehind
<1>9. GotAscends'
  BY <1>1, <1>3, <1>4 DEF Positioned, GotAscends
<1>10. GotNamed'
  BY <1>1, <1>2, <1>3, <1>4 DEF Positioned, GotNamed
<1> QED
  BY <1>5, <1>6, <1>7, <1>8, <1>9, <1>10 DEF Positioned

(* The position the loop reads is beyond that of every record. *)
LEMMA LastPositionIsBeyond ==
    ASSUME Inv, AnsweredInv, TailInv, ReaderType, HeadersAscend, Orderly, Fits, Scan.end # "threw",
           NEW a \in Nat, IsHeader(a)
    PROVE  Position(ItemAt(a)) <= LastPosition
<1>1. WriterType /\ HeadersAreWhole /\ OneOrphan
  BY DEF Inv, TailInv
<1> PICK read : read = Scan.messages
  OBVIOUS
<1>2. PICK s, f : /\ s = answered \o done /\ Chain(s, f) /\ f[1] = 0
                  /\ f[Len(s) + 1] = NextWrite
  BY <1>1, LaidToNextWrite DEF Orderly
<1>3. PICK g : Chain(read, g) /\ g[1] = 0 /\ ~IsHeader(g[Len(read) + 1])
  <2>1. PICK to : Chained(read, 0, to) /\ ~IsHeader(to)
    BY <1>1, ScanReads
  <2> QED
    BY <2>1 DEF Chained
<1> PICK r, e : r = Len(read) /\ e = g[r + 1]
  OBVIOUS
<1>4. r \in Nat /\ Len(s) \in Nat /\ e \in Nat
  <2>1. Len(read) \in Nat /\ Len(s) \in Nat
    BY <1>2, <1>3, ChainFacts
  <2>2. r + 1 \in 1..(r + 1)
    BY <2>1
  <2> QED
    BY <1>3, <2>1, <2>2, ChainFacts
<1>5. NextWrite \in Nat /\ NextWrite <= e
  <2>1. Len(s) <= r /\ \A k \in 1..(Len(s) + 1) : g[k] = f[k]
    <3>1. f[1] = g[1] /\ Chain(s, f) /\ Chain(read, g) /\ ~IsHeader(g[Len(read) + 1])
      BY <1>2, <1>3
    <3> QED
      BY <1>1, <3>1, ChainIsPrefix DEF BeginsWith
  <2> PICK k : k = Len(s) + 1
    OBVIOUS
  <2>2. k \in 1..(Len(s) + 1) /\ k \in 1..(r + 1) /\ r + 1 \in 1..(r + 1) /\ k <= r + 1
    BY <1>4, <2>1
  <2>3. g[k] = NextWrite
    BY <1>2, <2>1, <2>2
  <2>4. g[k] \in Nat
    BY <1>3, <2>2, ChainFacts
  <2>5. k < r + 1 => g[k] < g[r + 1]
    BY <1>1, <1>3, <2>2, ChainIncreases
  <2> QED
    BY <1>4, <2>2, <2>3, <2>4, <2>5
<1>6. a < e
  <2>1. a # e
    BY <1>3
  <2>2. e <= a => NextWrite <= a
    BY <1>4, <1>5
  <2>3. NextWrite <= a => a = NextWrite
    BY <1>1 DEF OneOrphan
  <2> QED
    BY <1>4, <1>5, <2>1, <2>2, <2>3
<1>7. r # 0
  <2>1. r = 0 => e = 0
    BY <1>3
  <2> QED
    BY <1>6, <2>1
<1>8. /\ g[r] \in Nat /\ IsHeader(g[r]) /\ ItemAt(g[r]) = read[r]
      /\ e = g[r] + Total(ItemAt(g[r]))
  <2>1. r \in 1..Len(read) /\ e = g[r + 1]
    BY <1>4, <1>7
  <2>2. /\ g[r] \in Nat /\ IsHeader(g[r]) /\ ItemAt(g[r]) = read[r]
        /\ g[r + 1] = g[r] + Total(read[r])
    BY <1>3, <2>1, ChainFacts
  <2> QED
    BY <2>1, <2>2
<1>9. LastPosition = Position(ItemAt(g[r]))
  <2>1. read # <<>>
    BY <1>7
  <2> QED
    BY <1>8, <2>1 DEF LastPosition, Position
<1>10. /\ Position(ItemAt(a)) \in Nat /\ Position(ItemAt(g[r])) \in Nat
  BY <1>8, HeaderPosition
<1>11. CASE a <= g[r]
  <2>1. a < g[r] => Position(ItemAt(a)) < Position(ItemAt(g[r]))
    BY <1>8 DEF HeadersAscend
  <2>2. a < g[r] \/ a = g[r]
    BY <1>8, <1>11
  <2> QED
    BY <1>9, <1>10, <2>1, <2>2
<1>12. CASE g[r] <= a
  <2>1. a = g[r]
    BY <1>1, <1>6, <1>8, <1>12, NoHeaderInside
  <2> QED
    BY <1>9, <1>10, <2>1
<1> QED
  BY <1>8, <1>11, <1>12

LEMMA PositionsBegun ==
    ASSUME Inv, AnsweredInv, TailInv, ReaderType, PositionInv,
           NEW sizes \in Batches, AppendItems(sizes)
    PROVE  PositionInv'
<1>1. /\ UNCHANGED <<file, given, queue, rpos, exposed, orphans>> /\ Scan.end # "threw"
  BY DEF AppendItems, Begin, readerVars, history
<1> SUFFICES ASSUME Orderly, Fits PROVE Positioned'
  BY <1>1 DEF PositionInv, Orderly, Fits
<1>2. Positioned
  BY DEF PositionInv
<1> PICK n, m, p : n = Len(items) /\ m = Len(sizes) /\ p = LastPosition
  OBVIOUS
<1>3. /\ n \in Nat /\ m \in Nat /\ Len(todo') = m
      /\ \A i \in 1..n : items'[i] = items[i]
      /\ \A k \in 1..m : items'[n + k].position = p + k
      /\ \A k \in 1..m : todo'[k] = n + k
  <2>1. Begun(n, m, p)
    BY ItemsBegun DEF Inv
  <2> QED
    BY <2>1 DEF Begun
<1>4. p \in Nat
  BY LastPositionType DEF Inv
<1>5. \A i \in 1..n : Position(i)' = Position(i)
  BY <1>3 DEF Position
<1>6. \A k \in 1..m : Position(todo[k])' = p + k
  BY <1>3 DEF Position
<1>7. ASSUME NEW a \in Nat, IsHeader(a)'
      PROVE  /\ IsHeader(a) /\ ItemAt(a)' = ItemAt(a)
             /\ Position(ItemAt(a))' = Position(ItemAt(a))
             /\ Position(ItemAt(a)) <= p /\ Position(ItemAt(a)) \in Nat
  <2>1. IsHeader(a) /\ ItemAt(a)' = ItemAt(a)
    BY <1>1, <1>7, HeadersUnchanged
  <2>2. ItemAt(a) \in 1..n /\ Position(ItemAt(a)) \in Nat
    BY <2>1, HeaderPosition
  <2>3. Position(ItemAt(a)) <= p
    BY <1>1, <1>2, <2>1, LastPositionIsBeyond DEF Positioned
  <2> QED
    BY <1>5, <2>1, <2>2, <2>3
<1>8. Got' = Got
  BY <1>1 DEF Got
<1>9. ASSUME NEW i \in 1..Len(Got)
      PROVE  Position(Got[i])' = Position(Got[i]) /\ Position(Got[i]) <= p /\ Position(Got[i]) \in Nat
  <2>1. Got[i] \in 1..n /\ Position(Got[i]) \in Nat
    BY GotType
  <2>2. PICK a \in Nat : IsHeader(a) /\ Position(Got[i]) <= Position(ItemAt(a))
    BY <1>2 DEF Positioned, GotBelow
  <2>3. Position(ItemAt(a)) \in Nat /\ Position(ItemAt(a)) <= p
    <3>1. IsHeader(a)'
      BY <1>1, <2>2, HeadersUnchanged
    <3> QED
      BY <1>7, <3>1
  <2>4. Position(Got[i])' = Position(Got[i])
    BY <1>5, <1>8, <2>1
  <2> QED
    BY <1>4, <2>1, <2>2, <2>3, <2>4
<1>10. HeadersAscend'
  BY <1>2, <1>7 DEF Positioned, HeadersAscend
<1>11. TodoAbove'
  <2>1. ASSUME NEW j \in 1..m, NEW a \in Nat, IsHeader(a)'
        PROVE  Position(ItemAt(a))' < Position(todo[j])'
    BY <1>4, <1>6, <1>7, <2>1
  <2>2. ASSUME NEW j \in 1..m, NEW i \in 1..Len(Got)
        PROVE  Position(Got[i])' < Position(todo[j])'
    BY <1>4, <1>6, <1>8, <1>9
  <2>3. ASSUME NEW j \in 1..m, NEW k \in 1..m, j < k
        PROVE  Position(todo[j])' < Position(todo[k])'
    BY <1>4, <1>6, <2>3
  <2> QED
    BY <1>3, <1>8, <2>1, <2>2, <2>3 DEF TodoAbove
<1>12. GotBelow'
  <2> SUFFICES ASSUME NEW i \in 1..Len(Got)
               PROVE  \E a \in Nat : IsHeader(a)' /\ Position(Got[i])' <= Position(ItemAt(a))'
    BY <1>8 DEF GotBelow
  <2>1. PICK a \in Nat : IsHeader(a) /\ Position(Got[i]) <= Position(ItemAt(a))
    BY <1>2 DEF Positioned, GotBelow
  <2>2. IsHeader(a)'
    BY <1>1, <2>1, HeadersUnchanged
  <2> QED
    BY <1>7, <1>8, <1>9, <2>1, <2>2
<1>13. GotBehind'
  BY <1>1, <1>2, <1>7, <1>8, <1>9 DEF Positioned, GotBehind
<1>14. GotAscends'
  BY <1>2, <1>8, <1>9 DEF Positioned, GotAscends
<1>15. GotNamed'
  BY <1>2, <1>7, <1>8, <1>9 DEF Positioned, GotNamed
<1> QED
  BY <1>10, <1>11, <1>12, <1>13, <1>14, <1>15 DEF Positioned

(* The record that is written. *)
LEMMA HeaderAtCheckpoint ==
    ASSUME Inv, WriteRecord, NEW n, n = Head(todo), NEW cp, cp = checkpoint
    PROVE  IsHeader(cp)' /\ ItemAt(cp)' = n
<1> PICK T : T = Total(n)
  OBVIOUS
<1>1. /\ T \in Nat /\ HeaderSize < T /\ cp \in Nat /\ HeaderSize \in Nat /\ 0 < HeaderSize
      /\ cp + T <= Len(file') /\ Len(file') \in Nat
      /\ \A i \in 1..Len(file') : i \in (cp + 1)..(cp + T) => file'[i] = [item |-> n, at |-> i - cp]
      /\ \A i \in (cp + 1)..(cp + T) : Cell(i)' = file'[i]
  BY WrittenFile, LocalStorageAssumption
<1>2. ASSUME NEW k \in 1..HeaderSize PROVE Cell(cp + k)' = [item |-> n, at |-> k]
  <2> PICK i : i = cp + k
    OBVIOUS
  <2>1. i \in (cp + 1)..(cp + T) /\ i \in 1..Len(file') /\ i - cp = k
    BY <1>1
  <2>2. Cell(i)' = file'[i] /\ file'[i] = [item |-> n, at |-> i - cp]
    BY <1>1, <2>1
  <2> QED
    BY <2>1, <2>2
<1>3. ItemAt(cp)' = n
  <2>1. 1 \in 1..HeaderSize
    BY <1>1
  <2>2. Cell(cp + 1)' = [item |-> n, at |-> 1]
    BY <1>2, <2>1
  <2> QED
    BY <2>2 DEF ItemAt
<1> QED
  BY <1>2, <1>3 DEF IsHeader, ItemAt

LEMMA PositionsWritten ==
    ASSUME Inv, AnsweredInv, TailInv, ReaderType, PositionInv, WriteRecord
    PROVE  PositionInv'
<1> PICK n, cp, T : n = Head(todo) /\ cp = checkpoint /\ T = Total(n)
  OBVIOUS
<1>1. /\ UNCHANGED <<items, given, queue, rpos, exposed, orphans>> /\ wpc = "writing"
      /\ todo # <<>> /\ todo' = Tail(todo)
  BY DEF WriteRecord, Write, readerVars, history
<1> SUFFICES ASSUME Orderly, Fits PROVE Positioned'
  BY <1>1 DEF PositionInv, Orderly, Fits
<1>2. Positioned /\ OneOrphan /\ NextWrite = cp
  BY <1>1 DEF PositionInv, TailInv, NextWrite, Writing
<1>3. /\ todo \in Seq(1..Len(items)) /\ 1 \in 1..Len(todo) /\ n = todo[1]
      /\ Len(todo') = Len(todo) - 1 /\ Len(todo) \in Nat
      /\ \A j \in 1..Len(todo') : j + 1 \in 1..Len(todo) /\ todo'[j] = todo[j + 1]
  <2>1. todo \in Seq(1..Len(items))
    BY DEF Inv, WriterType
  <2>2. Len(todo) \in Nat /\ Len(todo) # 0
    BY <1>1, <2>1
  <2> QED
    BY <1>1, <2>1, <2>2
<1>4. /\ \A x : Position(x)' = Position(x)
      /\ Got' = Got
  BY <1>1 DEF Position, Got
<1>5. cp \in Nat /\ T \in Nat /\ HeaderSize < T /\ HeaderSize \in Nat
  BY WrittenFile, LocalStorageAssumption
<1>6. ASSUME NEW a \in Nat, IsHeader(a)'
      PROVE  \/ ItemAt(a)' = n /\ a = cp
             \/ ItemAt(a)' = ItemAt(a) /\ IsHeader(a) /\ a < cp
  <2>1. WriterType'
    BY WriteInv DEF Inv
  <2>2. \/ ItemAt(a)' = n /\ a = cp
        \/ /\ ItemAt(a)' = ItemAt(a) /\ IsHeader(a)
           /\ a + HeaderSize <= cp \/ cp + T <= a
    BY <1>6, <2>1, HeaderWritten DEF ItemAt
  <2>3. IsHeader(a) => ~(cp + T <= a)
    <3> SUFFICES ASSUME IsHeader(a), cp + T <= a PROVE FALSE
      OBVIOUS
    <3>1. cp <= a /\ a # cp
      BY <1>5
    <3> QED
      BY <1>2, <3>1 DEF OneOrphan
  <2>4. a + HeaderSize <= cp => a < cp
    BY <1>5, LocalStorageAssumption
  <2> QED
    BY <2>2, <2>3, <2>4
<1>7. HeadersAscend'
  <2> SUFFICES ASSUME NEW a \in Nat, NEW b \in Nat, IsHeader(a)', IsHeader(b)', a < b
               PROVE  Position(ItemAt(a)') < Position(ItemAt(b)')
    BY <1>4 DEF HeadersAscend
  <2>1. ~(b < cp) => b = cp /\ ItemAt(b)' = n
    BY <1>6
  <2>2. a < cp
    BY <1>5, <1>6
  <2>3. ItemAt(a)' = ItemAt(a) /\ IsHeader(a)
    BY <1>5, <1>6, <2>2
  <2>4. CASE b < cp
    <3>1. ItemAt(b)' = ItemAt(b) /\ IsHeader(b)
      BY <1>5, <1>6, <2>4
    <3> QED
      BY <1>2, <2>3, <3>1 DEF Positioned, HeadersAscend
  <2>5. CASE ~(b < cp)
    BY <1>2, <1>3, <2>1, <2>3, <2>5 DEF Positioned, TodoAbove
  <2> QED
    BY <2>4, <2>5
<1>8. TodoAbove'
  <2>1. ASSUME NEW j \in 1..Len(todo'), NEW a \in Nat, IsHeader(a)'
        PROVE  Position(ItemAt(a)') < Position(todo'[j])
    <3> PICK k : k = j + 1
      OBVIOUS
    <3>1. k \in 1..Len(todo) /\ 1 < k /\ todo'[j] = todo[k]
      BY <1>3
    <3>2. IsHeader(a) => Position(ItemAt(a)) < Position(todo[k])
      BY <1>2, <3>1 DEF Positioned, TodoAbove
    <3>3. Position(n) < Position(todo[k])
      BY <1>2, <1>3, <3>1 DEF Positioned, TodoAbove
    <3> QED
      BY <1>6, <2>1, <3>1, <3>2, <3>3
  <2>2. ASSUME NEW j \in 1..Len(todo'), NEW i \in 1..Len(Got)
        PROVE  Position(Got[i]) < Position(todo'[j])
    BY <1>2, <1>3 DEF Positioned, TodoAbove
  <2>3. ASSUME NEW j \in 1..Len(todo'), NEW k \in 1..Len(todo'), j < k
        PROVE  Position(todo'[j]) < Position(todo'[k])
    <3> PICK h, i : h = j + 1 /\ i = k + 1
      OBVIOUS
    <3>1. h \in 1..Len(todo) /\ todo'[j] = todo[h]
      BY <1>3
    <3>2. i \in 1..Len(todo) /\ todo'[k] = todo[i]
      BY <1>3
    <3>3. h < i
      BY <1>3, <2>3
    <3> QED
      BY <1>2, <3>1, <3>2, <3>3 DEF Positioned, TodoAbove
  <2> QED
    BY <1>4, <2>1, <2>2, <2>3 DEF TodoAbove
<1>9. ASSUME NEW i \in 1..Len(Got) PROVE Position(Got[i]) < Position(n)
  BY <1>2, <1>3 DEF Positioned, TodoAbove
<1>10. GotBelow'
  <2> SUFFICES ASSUME NEW i \in 1..Len(Got)
               PROVE  \E a \in Nat : IsHeader(a)' /\ Position(Got[i]) <= Position(ItemAt(a)')
    BY <1>4 DEF GotBelow
  <2>1. IsHeader(cp)' /\ ItemAt(cp)' = n
    BY HeaderAtCheckpoint
  <2>2. Position(Got[i]) <= Position(n)
    <3>1. Position(Got[i]) \in Nat /\ Position(n) \in Nat
      <4>1. n \in 1..Len(items)
        BY <1>3
      <4> QED
        BY <4>1, GotType, ItemPosition
    <3> QED
      BY <1>9, <3>1
  <2> QED
    BY <1>5, <2>1, <2>2
<1>11. GotBehind'
  BY <1>1, <1>2, <1>4, <1>6, <1>9 DEF Positioned, GotBehind
<1>12. GotAscends'
  BY <1>2, <1>4 DEF Positioned, GotAscends
<1>13. GotNamed'
  <2> SUFFICES ASSUME NEW i \in 1..Len(Got), NEW a \in Nat, IsHeader(a)',
                      Position(Got[i]) = Position(ItemAt(a)')
               PROVE  Got[i] = ItemAt(a)'
    BY <1>4 DEF GotNamed
  <2>1. Position(Got[i]) \in Nat /\ Position(Got[i]) < Position(n)
    BY <1>9, GotType
  <2>2. ItemAt(a)' # n
    BY <2>1
  <2>3. ItemAt(a)' = ItemAt(a) /\ IsHeader(a)
    BY <1>6, <2>2
  <2> QED
    BY <1>2, <2>3 DEF Positioned, GotNamed
<1> QED
  BY <1>7, <1>8, <1>10, <1>11, <1>12, <1>13 DEF Positioned

(* A delivery moves a message from what was read to what was given. *)
LEMMA DeliverKeepsGot ==
    ASSUME ReaderType, Deliver
    PROVE  Got' = Got
<1> DEFINE S == 1..Len(items)
<1>1. /\ queue # <<>> /\ given' = Append(given, Head(queue)) /\ queue' = Tail(queue)
      /\ given \in Seq(S) /\ queue \in Seq(S)
  BY DEF Deliver, ReaderType
<1> HIDE DEF S
<1> PICK h, t : h = Head(queue) /\ t = Tail(queue)
  OBVIOUS
<1>2. h \in S /\ t \in Seq(S) /\ <<h>> \in Seq(S)
  BY <1>1
<1>3. queue = <<h>> \o t
  <2> PICK q : q = <<h>> \o t
    OBVIOUS
  <2>1. /\ q \in Seq(S) /\ Len(q) = 1 + Len(t)
        /\ \A i \in 1..Len(q) : q[i] = IF i <= 1 THEN <<h>>[i] ELSE t[i - 1]
    BY <1>2, ConcatProperties
  <2>2. /\ Len(t) = Len(queue) - 1 /\ Len(queue) \in Nat
        /\ \A i \in 1..Len(t) : t[i] = queue[i + 1]
    BY <1>1
  <2>3. Len(q) = Len(queue)
    BY <2>1, <2>2
  <2>4. ASSUME NEW i \in 1..Len(queue) PROVE q[i] = queue[i]
    <3>1. CASE i = 1
      BY <1>1, <2>1, <2>3, <3>1
    <3>2. CASE i # 1
      <4> PICK j : j = i - 1
        OBVIOUS
      <4>1. j \in 1..Len(t) /\ j + 1 = i /\ ~(i <= 1)
        BY <2>2, <3>2
      <4>2. q[i] = t[i - 1]
        BY <2>1, <2>3, <4>1
      <4>3. t[j] = queue[i]
        BY <2>2, <4>1
      <4> QED
        BY <4>2, <4>3
    <3> QED
      BY <3>1, <3>2
  <2> QED
    BY <1>1, <2>1, <2>3, <2>4, SeqEqual
<1>4. Append(given, h) = given \o <<h>>
  BY <1>1, <1>2, AppendIsConcat
<1>5. (given \o <<h>>) \o t = given \o (<<h>> \o t)
  BY <1>1, <1>2, ConcatAssociative
<1> QED
  BY <1>1, <1>3, <1>4, <1>5 DEF Got

LEMMA PositionsRead ==
    ASSUME Inv, ReaderType, PositionInv, ReadBlock
    PROVE  PositionInv'
<1>1. UNCHANGED <<file, items, todo, given, exposed, orphans>>
  BY DEF ReadBlock, writerVars, history
<1> SUFFICES ASSUME Orderly, Fits PROVE Positioned'
  BY <1>1 DEF PositionInv, Orderly, Fits
<1>2. Positioned
  BY DEF PositionInv
<1> PICK read, from, to : read = queue' /\ from = rpos /\ to = rpos'
  OBVIOUS
<1>3. queue = <<>> /\ read \in Seq(1..Len(items)) /\ Chained(read, from, to) /\ from \in Nat /\ from < to
  BY BlockRead DEF Inv, ReaderType
<1>4. PICK start : Chain(read, start) /\ start[1] = from /\ start[Len(read) + 1] = to
  BY <1>3 DEF Chained
<1> PICK m, g : m = Len(read) /\ g = Len(given)
  OBVIOUS
<1>5. /\ m \in Nat /\ g \in Nat
      /\ Got = given /\ Len(Got) = g /\ Len(Got') = g + m
      /\ \A i \in 1..(g + m) : Got'[i] = IF i <= g THEN Got[i] ELSE read[i - g]
  <2>1. given \in Seq(1..Len(items))
    BY DEF ReaderType
  <2>2. Got = given
    BY <1>3, <2>1 DEF Got
  <2>3. Got' = given \o read
    BY <1>1 DEF Got
  <2> QED
    BY <1>3, <2>1, <2>2, <2>3, ConcatProperties
<1>6. \A a : (IsHeader(a)' <=> IsHeader(a)) /\ ItemAt(a)' = ItemAt(a)
  BY <1>1, HeadersUnchanged
<1>7. \A x : Position(x)' = Position(x)
  BY <1>1 DEF Position
<1> DEFINE offset == [i \in 1..(g + m) |-> start[i - g]]
(* Where the new ones are. *)
<1>8. ASSUME NEW i \in 1..(g + m), ~(i <= g)
      PROVE  /\ offset[i] \in Nat /\ IsHeader(offset[i]) /\ ItemAt(offset[i]) = Got'[i]
             /\ from <= offset[i] /\ offset[i] < to
             /\ Position(Got'[i]) \in Nat
  <2> PICK k : k = i - g
    OBVIOUS
  <2>1. /\ k \in 1..m /\ k \in 1..(m + 1) /\ m + 1 \in 1..(m + 1) /\ k < m + 1 /\ 1 \in 1..(m + 1)
        /\ k = 1 \/ 1 < k
    BY <1>5, <1>8
  <2>2. offset[i] = start[k] /\ Got'[i] = read[k]
    BY <1>5, <1>8
  <2>3. start[k] \in Nat /\ IsHeader(start[k]) /\ ItemAt(start[k]) = read[k] /\ read[k] \in 1..Len(items)
    BY <1>4, <2>1, ChainFacts
  <2>4. start[k] < to
    BY <1>4, <2>1, ChainIncreases DEF Inv
  <2>5. 1 < k => from < start[k]
    BY <1>4, <2>1, ChainIncreases DEF Inv
  <2>6. k = 1 => from = start[k]
    BY <1>4
  <2>7. from <= start[k]
    BY <1>3, <2>1, <2>3, <2>5, <2>6
  <2> QED
    BY <2>2, <2>3, <2>4, <2>7, ItemPosition
<1>9. ASSUME NEW i \in 1..(g + m), ~(i <= g), NEW j \in 1..(g + m), i < j
      PROVE  ~(j <= g) /\ offset[i] < offset[j]
  <2> PICK k, h : k = i - g /\ h = j - g
    OBVIOUS
  <2>1. k \in 1..(m + 1) /\ h \in 1..(m + 1) /\ k < h /\ ~(j <= g)
    BY <1>5, <1>9
  <2>2. offset[i] = start[k] /\ offset[j] = start[h]
    OBVIOUS
  <2> QED
    BY <1>4, <2>1, <2>2, ChainIncreases DEF Inv
<1> HIDE DEF offset
<1>10. ASSUME NEW i \in 1..(g + m), i <= g
       PROVE  i \in 1..Len(Got) /\ Got'[i] = Got[i] /\ Position(Got[i]) \in Nat
  <2>1. i \in 1..Len(Got) /\ Got'[i] = Got[i]
    BY <1>5, <1>10
  <2> QED
    BY <2>1, GotType
<1>11. ASSUME NEW i \in 1..(g + m), i <= g, NEW a \in Nat, IsHeader(a), from <= a
       PROVE  Position(Got'[i]) < Position(ItemAt(a))
  BY <1>2, <1>10, <1>11 DEF Positioned, GotBehind
<1>12. HeadersAscend'
  BY <1>2, <1>6, <1>7 DEF Positioned, HeadersAscend
<1>13. TodoAbove'
  <2>1. ASSUME NEW j \in 1..Len(todo), NEW i \in 1..(g + m)
        PROVE  Position(Got'[i]) < Position(todo[j])
    <3>1. CASE i <= g
      BY <1>2, <1>10, <3>1 DEF Positioned, TodoAbove
    <3>2. CASE ~(i <= g)
      BY <1>2, <1>8, <3>2 DEF Positioned, TodoAbove
    <3> QED
      BY <3>1, <3>2
  <2>2. /\ \A j \in 1..Len(todo), a \in Nat :
              IsHeader(a) => Position(ItemAt(a)) < Position(todo[j])
        /\ \A j, k \in 1..Len(todo) : j < k => Position(todo[j]) < Position(todo[k])
    BY <1>2 DEF Positioned, TodoAbove
  <2> QED
    BY <1>1, <1>5, <1>6, <1>7, <2>1, <2>2 DEF TodoAbove
<1>14. GotBelow'
  <2> SUFFICES ASSUME NEW i \in 1..(g + m)
               PROVE  \E a \in Nat : IsHeader(a) /\ Position(Got'[i]) <= Position(ItemAt(a))
    BY <1>5, <1>6, <1>7 DEF GotBelow
  <2>1. CASE i <= g
    BY <1>2, <1>10, <2>1 DEF Positioned, GotBelow
  <2>2. CASE ~(i <= g)
    <3>1. Position(Got'[i]) <= Position(ItemAt(offset[i]))
      BY <1>8, <2>2
    <3> QED
      BY <1>8, <2>2, <3>1
  <2> QED
    BY <2>1, <2>2
<1>15. GotBehind'
  <2> SUFFICES ASSUME NEW i \in 1..(g + m), NEW a \in Nat, IsHeader(a), to <= a
               PROVE  Position(Got'[i]) < Position(ItemAt(a))
    BY <1>5, <1>6, <1>7 DEF GotBehind
  <2>1. to \in Nat
    BY <1>3, ChainEnds DEF Inv
  <2>2. CASE i <= g
    BY <1>3, <1>11, <2>1, <2>2
  <2>3. CASE ~(i <= g)
    <3>1. offset[i] < a
      BY <1>8, <2>1, <2>3
    <3> QED
      BY <1>2, <1>8, <2>3, <3>1 DEF Positioned, HeadersAscend
  <2> QED
    BY <2>2, <2>3
<1>16. GotAscends'
  <2> SUFFICES ASSUME NEW i \in 1..(g + m), NEW j \in 1..(g + m), i < j
               PROVE  Position(Got'[i]) < Position(Got'[j])
    BY <1>5, <1>7 DEF GotAscends
  <2>1. CASE j <= g
    <3>1. i <= g
      BY <1>5, <2>1
    <3> QED
      BY <1>2, <1>10, <2>1, <3>1 DEF Positioned, GotAscends
  <2>2. CASE i <= g /\ ~(j <= g)
    <3>1. offset[j] \in Nat /\ IsHeader(offset[j]) /\ from <= offset[j] /\ ItemAt(offset[j]) = Got'[j]
      BY <1>8, <2>2
    <3> QED
      BY <1>11, <2>2, <3>1
  <2>3. CASE ~(i <= g)
    <3>1. ~(j <= g) /\ offset[i] < offset[j]
      BY <1>9, <2>3
    <3>2. /\ offset[i] \in Nat /\ IsHeader(offset[i]) /\ ItemAt(offset[i]) = Got'[i]
          /\ offset[j] \in Nat /\ IsHeader(offset[j]) /\ ItemAt(offset[j]) = Got'[j]
      BY <1>8, <2>3, <3>1
    <3> QED
      BY <1>2, <3>1, <3>2 DEF Positioned, HeadersAscend
  <2> QED
    BY <2>1, <2>2, <2>3
<1>17. GotNamed'
  <2> SUFFICES ASSUME NEW i \in 1..(g + m), NEW a \in Nat, IsHeader(a),
                      Position(Got'[i]) = Position(ItemAt(a))
               PROVE  Got'[i] = ItemAt(a)
    BY <1>5, <1>6, <1>7 DEF GotNamed
  <2>1. CASE i <= g
    BY <1>2, <1>10, <2>1 DEF Positioned, GotNamed
  <2>2. CASE ~(i <= g)
    <3>1. /\ offset[i] \in Nat /\ IsHeader(offset[i]) /\ ItemAt(offset[i]) = Got'[i]
          /\ Position(Got'[i]) \in Nat
      BY <1>8, <2>2
    <3>2. ~(offset[i] < a) /\ ~(a < offset[i])
      <4>1. offset[i] < a => Position(ItemAt(offset[i])) < Position(ItemAt(a))
        BY <1>2, <3>1 DEF Positioned, HeadersAscend
      <4>2. a < offset[i] => Position(ItemAt(a)) < Position(ItemAt(offset[i]))
        BY <1>2, <3>1 DEF Positioned, HeadersAscend
      <4> QED
        BY <3>1, <4>1, <4>2
    <3>3. offset[i] = a
      BY <3>1, <3>2
    <3> QED
      BY <3>1, <3>3
  <2> QED
    BY <2>1, <2>2
<1> QED
  BY <1>12, <1>13, <1>14, <1>15, <1>16, <1>17 DEF Positioned

LEMMA PositionStep ==
    Inv /\ AnsweredInv /\ TailInv /\ ReaderType /\ PositionInv /\ [Next]_vars => PositionInv'
<1> SUFFICES ASSUME Inv, AnsweredInv, TailInv, ReaderType, PositionInv, [Next]_vars
             PROVE  PositionInv'
  OBVIOUS
<1>1. CASE UNCHANGED vars
  <2>1. UNCHANGED <<file, items, todo, given, queue, rpos, exposed, orphans>>
    BY <1>1 DEF vars, writerVars, readerVars, history
  <2> QED
    BY <2>1, PositionsStay DEF Got, Orderly
<1>2. ASSUME NEW sizes \in Batches, AppendItems(sizes) PROVE PositionInv'
  BY <1>2, PositionsBegun
<1>3. CASE OpenCheckpoint
  <2>1. UNCHANGED <<file, items, given, queue, rpos, exposed, orphans>>
    BY <1>3 DEF OpenCheckpoint, readerVars, history
  <2>2. todo' = todo \/ todo' = <<>>
    BY <1>3, Zenon DEF OpenCheckpoint
  <2> QED
    BY <2>1, <2>2, PositionsStay DEF Got, Orderly
<1>4. CASE WriteRecord
  BY <1>4, PositionsWritten
<1>5. CASE DeleteMetadata \/ CreateMetadata \/ WriteMetadata
  <2>1. UNCHANGED <<file, items, todo, given, queue, rpos, exposed, orphans>>
    BY <1>5 DEF DeleteMetadata, CreateMetadata, WriteMetadata, readerVars, history
  <2> QED
    BY <2>1, PositionsStay DEF Got, Orderly
<1>6. CASE IoException \/ Crash \/ PollerThrows
  <2>1. Interrupted
    BY <1>6 DEF IoException, Crash, PollerThrows, Restart
  <2>2. Orderly' => Orderly
    <3>1. orphans \in Nat /\ Len(done) \in Nat
      BY LocalStorageAssumption DEF TailInv, AnsweredInv
    <3>2. orphans' < 2 => orphans < 2
      <4>1. orphans' = orphans \/ (orphans' = Len(done) /\ orphans < Len(done))
        BY <2>1 DEF Interrupted
      <4> QED
        BY <3>1, <4>1
    <3>3. exposed => exposed'
      BY <2>1 DEF Interrupted
    <3> QED
      BY <3>2, <3>3 DEF Orderly
  <2>3. UNCHANGED <<file, items>> /\ todo' = <<>>
    BY <2>1 DEF Interrupted
  <2>4. (Got' = Got /\ rpos' = rpos) \/ Got' = <<>>
    <3>1. UNCHANGED <<rpos, queue, given>> \/ (queue' = <<>> /\ given' = <<>>)
      BY <1>6 DEF IoException, Crash, PollerThrows, Restart, readerVars
    <3> QED
      BY <3>1 DEF Got
  <2> QED
    BY <2>2, <2>3, <2>4, PositionsStay
<1>7. CASE Deliver
  <2>1. UNCHANGED <<file, items, todo, rpos, exposed, orphans>>
    BY <1>7 DEF Deliver, writerVars, history
  <2> QED
    BY <1>7, <2>1, DeliverKeepsGot, PositionsStay DEF Orderly
<1>8. CASE ReadBlock
  BY <1>8, PositionsRead
<1> QED
  BY <1>1, <1>2, <1>3, <1>4, <1>5, <1>6, <1>7, <1>8 DEF Next, WriteAsync

StorageInv == Inv /\ AnsweredInv /\ TailInv /\ ReaderType /\ PositionInv

LEMMA StorageInvHolds == Spec => []StorageInv
<1>1. Init => StorageInv
  BY InitInv, AnsweredInit, TailInit, ReaderInit, PositionsBegin DEF StorageInv
<1>2. StorageInv /\ [Next]_vars => StorageInv'
  BY InvStep, AnsweredStep, TailStep, ReaderStep, PositionStep DEF StorageInv
<1> QED
  BY <1>1, <1>2, PTL DEF Spec

LEMMA PositionsName ==
    ASSUME StorageInv
    PROVE  PositionNamesItem
<1>1. ReaderType /\ WriterType /\ AnsweredInv
  BY DEF StorageInv, Inv
<1> SUFFICES ASSUME ~exposed, ~(1 < orphans), Fits PROVE PositionNamesItem
  BY DEF PositionNamesItem
<1>2. Positioned
  <2>1. orphans \in Nat
    BY LocalStorageAssumption DEF StorageInv, TailInv
  <2>2. orphans < 2
    BY <2>1
  <2> QED
    BY <2>2 DEF StorageInv, PositionInv, Orderly
<1>3. PICK s, start : s = answered \o done /\ Chain(s, start)
  BY <1>1, LaidToNextWrite
<1>4. ASSUME NEW i \in 1..Len(answered)
      PROVE  /\ start[i] \in Nat /\ IsHeader(start[i]) /\ ItemAt(start[i]) = answered[i]
             /\ i \in 1..(Len(s) + 1)
  <2>1. /\ answered \in Seq(1..Len(items)) /\ done \in Seq(1..Len(items))
        /\ Len(answered) \in Nat /\ Len(done) \in Nat
    BY <1>1 DEF AnsweredInv
  <2>2. Len(s) = Len(answered) + Len(done) /\ \A k \in 1..Len(answered) : s[k] = answered[k]
    BY <1>3, <2>1, ConcatProperties
  <2>3. i \in 1..Len(s) /\ i \in 1..(Len(s) + 1) /\ s[i] = answered[i]
    BY <2>1, <2>2
  <2> QED
    BY <1>3, <2>3, ChainFacts
<1>5. ASSUME NEW i \in 1..Len(answered), NEW j \in 1..Len(answered), i < j
      PROVE  Position(answered[i]) < Position(answered[j])
  <2>1. start[i] < start[j]
    BY <1>1, <1>3, <1>4, <1>5, ChainIncreases
  <2> QED
    BY <1>2, <1>4, <2>1 DEF Positioned, HeadersAscend
<1>6. ASSUME NEW i \in 1..Len(answered), NEW j \in 1..Len(given),
             Position(answered[i]) = Position(given[j])
      PROVE  answered[i] = given[j]
  <2>1. j \in 1..Len(Got) /\ Got[j] = given[j]
    BY <1>1, GotType
  <2> QED
    BY <1>2, <1>4, <1>6, <2>1 DEF Positioned, GotNamed
<1> QED
  BY <1>5, <1>6 DEF PositionNamesItem

LEMMA PositionsOrdered ==
    ASSUME StorageInv
    PROVE  PollerInOrder
<1> SUFFICES ASSUME ~exposed, ~(1 < orphans), Fits,
                    NEW i \in 1..Len(given), NEW j \in 1..Len(given), i < j
             PROVE  Position(given[i]) < Position(given[j])
  BY DEF PollerInOrder
<1>1. Positioned
  <2>1. orphans \in Nat
    BY LocalStorageAssumption DEF StorageInv, TailInv
  <2>2. orphans < 2
    BY <2>1
  <2> QED
    BY <2>2 DEF StorageInv, PositionInv, Orderly
<1>2. /\ i \in 1..Len(Got) /\ Got[i] = given[i]
      /\ j \in 1..Len(Got) /\ Got[j] = given[j]
  BY GotType DEF StorageInv
<1> QED
  BY <1>1, <1>2 DEF Positioned, GotAscends

(* Positions grow from answer to answer, and one that was delivered is not  *)
(* given to another item, as long as no failure lost the checkpoint or left *)
(* two records behind it, and every message fits a block.                   *)
THEOREM PositionsNameItems == Spec => []PositionNamesItem
  BY StorageInvHolds, PositionsName, PTL

(* The poller delivers in the order of the positions, under the same        *)
(* conditions.                                                              *)
THEOREM PollerIsInOrder == Spec => []PollerInOrder
  BY StorageInvHolds, PositionsOrdered, PTL
=============================================================================
