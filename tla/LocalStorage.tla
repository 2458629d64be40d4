---------------------------- MODULE LocalStorage ----------------------------
(***************************************************************************)
(* The store on disk: WriteAsync of LocalStorageEventStream.cs and the      *)
(* block reader of OnDiscStreamReader.cs.                                   *)
(*                                                                         *)
(* The data file is one run of records, each a header with the length of    *)
(* its message and the message; unwritten bytes are zero.  A second file,   *)
(* the metadata, holds the checkpoint at which the next record is written.  *)
(* WriteAsync reads it, writes and flushes the record, and replaces it by   *)
(* deleting it and writing it anew.  The process may crash, or the          *)
(* operation throw, between any two of these.  A restarted process finds    *)
(* the two files, and nothing else.  Readers look at the data file only, a  *)
(* block at a time, and do not know the checkpoint.                         *)
(*                                                                         *)
(* A cell is a byte, and a record reaches the file whole or not at all.     *)
(* One call of WriteAsync writes several records under one checkpoint.      *)
(***************************************************************************)
EXTENDS Integers, Sequences, FiniteSets

CONSTANTS
    HeaderSize,  \* LengthOfEventHeader
    BlockSize,   \* FileReadBlockSize
    Sizes,       \* the lengths of serialized messages
    MaxBatch,    \* a bound on the items of one call of WriteAsync
    MaxItems,    \* a bound on the items ever begun
    MaxFailures  \* a bound on the crashes and exceptions

ASSUME LocalStorageAssumption ==
    /\ HeaderSize \in Nat \ {0}
    /\ BlockSize \in Nat /\ HeaderSize < BlockSize
    /\ Sizes \subseteq Nat \ {0}
    /\ {MaxBatch, MaxItems, MaxFailures} \subseteq Nat

(* The metadata file when it does not exist, and when it was only created.  *)
Absent == -1
Empty  == -2

VARIABLES
    file,        \* the cells of the data file up to the last one ever written
    metadata,    \* Absent, Empty, or the checkpoint in the metadata file
    items,       \* the size and position of every item ever begun
    wpc,         \* where the writer loop is in WriteAsync
    todo,        \* the items this call has still to write, ...
    done,        \* ... and those it has written
    checkpoint,  \* its metadata.CheckPoint
    rpos,        \* the poller's _position
    queue,       \* its _queue of messages
    given,       \* what it has delivered since the process started
    answered,    \* history: the items whose WriteAsync returned, in order
    failures,    \* history: how many crashes and exceptions there were
    orphans,     \* history: the most records one left past the checkpoint
    exposed      \* history: one came while the checkpoint was being replaced

writerVars == <<file, metadata, items, wpc, todo, done, checkpoint, answered>>
readerVars == <<rpos, queue, given>>
history    == <<failures, orphans, exposed>>
vars == <<writerVars, readerVars, history>>

Zero == [item |-> 0, at |-> 0]

Total(n) == HeaderSize + items[n].size

Record(n) == [k \in 1..Total(n) |-> [item |-> n, at |-> k]]

Init ==
    /\ file = <<>> /\ metadata = Absent /\ items = <<>>
    /\ wpc = "idle" /\ todo = <<>> /\ done = <<>> /\ checkpoint = 0 /\ answered = <<>>
    /\ rpos = 0 /\ queue = <<>> /\ given = <<>>
    /\ failures = 0 /\ orphans = 0 /\ exposed = FALSE
-----------------------------------------------------------------------------
(* The reader. *)

Cell(i) == IF i \in DOMAIN file THEN file[i] ELSE Zero

(* The four bytes read as a length are those some record begins with, ...   *)
IsHeader(from) ==
    \A k \in 1..HeaderSize : Cell(from + k) = [item |-> Cell(from + 1).item, at |-> k]

(* ... or all zero, ... *)
IsBlank(from) == \A k \in 1..HeaderSize : Cell(from + k) = Zero

(* ... or the text of an overwritten message, a number larger than any      *)
(* block; followed by zeros it may be small.                                *)
MayBeSmall(from) == \E k \in 1..HeaderSize : Cell(from + k) = Zero

Stop(pos, how) == [messages |-> <<>>, next |-> pos, end |-> how]

SplitDropsPartial(from) ==           \* mutant: what does not fit the block is passed over
    LET split[pos \in 0..BlockSize] ==
        IF BlockSize <= pos THEN Stop(pos, "stopped")
        ELSE IF BlockSize < pos + HeaderSize THEN Stop(pos, "threw")
        ELSE IF IsBlank(from + pos) THEN Stop(pos, "stopped")
        ELSE IF ~IsHeader(from + pos)
          THEN Stop(pos, IF MayBeSmall(from + pos) THEN "garbled" ELSE "stopped")
        ELSE LET item == Cell(from + pos + 1).item
                 end  == pos + Total(item)
             IN  IF BlockSize <= end THEN Stop(end, "stopped")
                 ELSE [split[end] EXCEPT !.messages = <<item>> \o @]
    IN split[0]

(* SplitMessagesFromStream, over the block at an offset: the messages that  *)
(* end before the block does, and where the next block begins.  The slice   *)
(* of a header that the block cuts throws.                                  *)
Split(from) ==
    LET split[pos \in 0..BlockSize] ==
        IF BlockSize <= pos THEN Stop(pos, "stopped")
        ELSE IF BlockSize < pos + HeaderSize THEN Stop(pos, "threw")
        ELSE IF IsBlank(from + pos) THEN Stop(pos, "stopped")
        ELSE IF ~IsHeader(from + pos)
          THEN Stop(pos, IF MayBeSmall(from + pos) THEN "garbled" ELSE "stopped")
        ELSE LET item == Cell(from + pos + 1).item
                 end  == pos + Total(item)
             IN  IF BlockSize <= end THEN Stop(pos, "stopped")
                 ELSE [split[end] EXCEPT !.messages = <<item>> \o @]
    IN split[0]

(* An enumeration by a new reader: block after block, until one holds no    *)
(* message or throws.                                                       *)
Scan ==
    LET scan[from \in 0..Len(file)] ==
        LET block == Split(from) IN
        IF block.end = "threw" \/ block.messages = <<>>
          THEN [messages |-> <<>>, end |-> block.end]
          ELSE LET rest == scan[from + block.next] IN
               [rest EXCEPT !.messages = block.messages \o @]
    IN scan[0]

LastPosition ==
    LET read == Scan.messages IN
    IF read = <<>> THEN 0 ELSE items[read[Len(read)]].position
-----------------------------------------------------------------------------
(* The writer loop. *)

Batches == UNION {[1..n -> Sizes] : n \in 0..MaxBatch}

Begin(sizes, position) ==
    LET begun == Len(items) IN
    /\ wpc = "idle"
    /\ begun + Len(sizes) <= MaxItems
    /\ Scan.end # "threw"
    /\ items' = items \o [k \in DOMAIN sizes |-> [size |-> sizes[k], position |-> position + k]]
    /\ todo' = [k \in DOMAIN sizes |-> begun + k]
    /\ wpc' = "opening"
    /\ UNCHANGED <<file, metadata, done, checkpoint, answered, readerVars, history>>

AppendAtLastPosition(sizes) == Begin(sizes, LastPosition - 1)  \* mutant: the first item takes it

(* The loop reads the last position and calls WriteAsync, with no item when *)
(* all of the events are in the store already.  A request fails without a   *)
(* trace while enumerations throw.                                          *)
AppendItems(sizes) == Begin(sizes, LastPosition)

(* Without a metadata file the checkpoint is 0; an empty one does not       *)
(* deserialize, and the exception ends the request.                         *)
OpenCheckpoint ==
    /\ wpc = "opening"
    /\ checkpoint' = IF metadata \in {Absent, Empty} THEN 0 ELSE metadata
    /\ IF metadata = Empty THEN wpc' = "idle" /\ todo' = <<>>
                           ELSE wpc' = "writing" /\ UNCHANGED todo
    /\ UNCHANGED <<file, metadata, items, done, answered, readerVars, history>>

Overwrite(cells, at) ==
    LET end == at + Len(cells) IN
    [i \in 1..(IF Len(file) < end THEN end ELSE Len(file)) |->
        IF i \in (at + 1)..end THEN cells[i - at] ELSE file[i]]

Write(n, length) ==
    /\ file' = Overwrite(Record(n), checkpoint)
    /\ checkpoint' = checkpoint + length
    /\ todo' = Tail(todo)
    /\ done' = Append(done, n)
    /\ UNCHANGED <<metadata, items, wpc, answered, readerVars, history>>

WriteRecordLessHeader ==             \* mutant: the checkpoint leaves out the header
    wpc = "writing" /\ todo # <<>> /\ Write(Head(todo), items[Head(todo)].size)

WriteRecord ==
    wpc = "writing" /\ todo # <<>> /\ Write(Head(todo), Total(Head(todo)))

DeleteMetadata ==
    /\ wpc = "writing" /\ todo = <<>>
    /\ metadata' = Absent
    /\ wpc' = "deleted"
    /\ UNCHANGED <<file, items, todo, done, checkpoint, answered, readerVars, history>>

CreateMetadata ==
    /\ wpc = "deleted"
    /\ metadata' = Empty
    /\ wpc' = "created"
    /\ UNCHANGED <<file, items, todo, done, checkpoint, answered, readerVars, history>>

Return ==
    /\ answered' = answered \o done
    /\ done' = <<>>
    /\ wpc' = "idle"

WriteFirstCheckpoint ==              \* mutant: only the first record is accounted for
    /\ wpc = "created"
    /\ metadata' = IF Len(done) < 2 THEN checkpoint ELSE checkpoint - Total(done[2])
    /\ Return
    /\ UNCHANGED <<file, items, todo, checkpoint, readerVars, history>>

WriteMetadata ==
    /\ wpc = "created"
    /\ metadata' = checkpoint
    /\ Return
    /\ UNCHANGED <<file, items, todo, checkpoint, readerVars, history>>

WriteAsync ==
    OpenCheckpoint \/ WriteRecord \/ DeleteMetadata \/ CreateMetadata \/ WriteMetadata
-----------------------------------------------------------------------------
(* Failures. *)

Interrupted ==
    /\ wpc' = "idle" /\ todo' = <<>> /\ done' = <<>>
    /\ orphans' = IF wpc = "writing" /\ orphans < Len(done) THEN Len(done) ELSE orphans
    /\ exposed' = (exposed \/ wpc \in {"deleted", "created"})
    /\ UNCHANGED <<file, metadata, items, answered>>

(* A file operation throws: the loop answers with a failure and goes on.    *)
IoException ==
    /\ failures < MaxFailures
    /\ wpc # "idle"
    /\ Interrupted
    /\ failures' = failures + 1
    /\ UNCHANGED <<checkpoint, readerVars>>

(* The process ends and is started again, with a new poller. *)
Restart ==
    /\ Interrupted
    /\ checkpoint' = 0
    /\ rpos' = 0 /\ queue' = <<>> /\ given' = <<>>

Crash ==
    /\ failures < MaxFailures
    /\ Restart
    /\ failures' = failures + 1
-----------------------------------------------------------------------------
(* The poller's enumeration. *)

Deliver ==
    /\ queue # <<>>
    /\ given' = Append(given, Head(queue))
    /\ queue' = Tail(queue)
    /\ UNCHANGED <<writerVars, rpos, history>>

ReadBlockKeepsPosition ==            \* mutant: the position is not stepped on
    /\ queue = <<>>
    /\ LET block == Split(rpos) IN
       /\ block.end # "threw"
       /\ block.messages # <<>> /\ Len(given) < 2 * MaxItems
       /\ queue' = block.messages
    /\ UNCHANGED <<writerVars, rpos, given, history>>

ReadBlockWhole ==                    \* mutant: the position is stepped on by a block
    /\ queue = <<>>
    /\ LET block == Split(rpos) IN
       /\ block.end # "threw"
       /\ block.messages # <<>>
       /\ queue' = block.messages
       /\ rpos' = rpos + BlockSize
    /\ UNCHANGED <<writerVars, given, history>>

(* MoveNextAsync with an empty queue; a block without a message changes     *)
(* nothing.                                                                 *)
ReadBlock ==
    /\ queue = <<>>
    /\ LET block == Split(rpos) IN
       /\ block.end # "threw"
       /\ block.messages # <<>>
       /\ queue' = block.messages
       /\ rpos' = rpos + block.next
    /\ UNCHANGED <<writerVars, given, history>>

(* What MoveNextAsync throws leaves StartPolling, an async void method, and *)
(* ends the process.                                                        *)
PollerThrows ==
    /\ queue = <<>>
    /\ Split(rpos).end \in {"threw", "garbled"}
    /\ Restart
    /\ UNCHANGED failures
-----------------------------------------------------------------------------
Next ==
    \/ \E sizes \in Batches : AppendItems(sizes)
    \/ WriteAsync
    \/ IoException \/ Crash
    \/ Deliver \/ ReadBlock \/ PollerThrows

Spec == Init /\ [][Next]_vars

(* The poller asks again every polling interval. *)
FairSpec == Spec /\ WF_vars(Deliver \/ ReadBlock)
-----------------------------------------------------------------------------
(* Type correctness. *)
TypeOK ==
    /\ file \in Seq([item : 0..Len(items), at : Nat])
    /\ metadata \in {Absent, Empty} \cup 0..Len(file)
    /\ items \in Seq([size : Sizes, position : Nat])
    /\ wpc \in {"idle", "opening", "writing", "deleted", "created"}
    /\ checkpoint \in 0..Len(file)
    /\ rpos \in 0..Len(file)
    /\ {todo, done, queue, given, answered} \subseteq Seq(1..Len(items))
    /\ failures \in 0..MaxFailures
    /\ orphans \in 0..MaxBatch
    /\ exposed \in BOOLEAN

IsWholeAt(n, from) == \A k \in 1..Total(n) : Cell(from + k) = [item |-> n, at |-> k]

(* Where the records of the answered items begin, and where the last ends.  *)
StartOf ==
    LET start[k \in 1..(Len(answered) + 1)] ==
        IF k = 1 THEN 0 ELSE start[k - 1] + Total(answered[k - 1])
    IN start

(* Wherever a reader stands, a header it takes for one is followed by the   *)
(* whole of its message: no half-overwritten record is ever deserialized.   *)
NoTornMessage ==
    \A from \in 0..Len(file) :
        IsHeader(from) => IsWholeAt(Cell(from + 1).item, from)

(* The answered items lie in the data file one after the other, and the     *)
(* metadata, when it is there, says where the last one ends.  The only      *)
(* failures that lose any are those between the deletion of the metadata    *)
(* and its rewriting (LocalStorageEventStream.cs:76-84).                    *)
AnsweredSurvives ==
    exposed \/
    /\ \A k \in 1..Len(answered) : IsWholeAt(answered[k], StartOf[k])
    /\ wpc \notin {"deleted", "created"} =>
           (IF metadata = Absent THEN 0 ELSE metadata) = StartOf[Len(answered) + 1]

(* Every message is shorter than a block. *)
Fits == \A size \in Sizes : HeaderSize + size < BlockSize

(* An enumeration that no cut header ends reads the answered items back in  *)
(* order, and no item twice.  After them come the records of the call being *)
(* written, or of calls whose checkpoint was not.  A record of those comes  *)
(* to light again when a later call happens to end where it begins: only    *)
(* where no failure left two do they number no more than a call has.        *)
ScanReadsAnswered ==
    ~exposed /\ Fits /\ Scan.end # "threw" =>
        LET read == Scan.messages IN
        /\ Len(answered) <= Len(read)
        /\ \A k \in 1..Len(answered) : read[k] = answered[k]
        /\ \A j, k \in 1..Len(read) : read[j] = read[k] => j = k
        /\ orphans < 2 => Len(read) <= Len(answered) + MaxBatch

Position(n) == items[n].position

(* Positions grow from answer to answer, and a position the poller has      *)
(* delivered, be it of an item later overwritten, is never given to another *)
(* item; unless a failure left two records past the checkpoint, of which    *)
(* the next write replaces the first, or the last position is not found     *)
(* because a message in front of it does not fit a block.                   *)
PositionNamesItem ==
    exposed \/ 1 < orphans \/ ~Fits \/
    /\ \A i, j \in 1..Len(answered) : i < j => Position(answered[i]) < Position(answered[j])
    /\ \A i \in 1..Len(answered), j \in 1..Len(given) :
           Position(answered[i]) = Position(given[j]) => answered[i] = given[j]

(* What the loop's comment says it reads: the last position, which no       *)
(* answered item is beyond (EventStream.cs:108).                            *)
LastPositionIsLast ==
    exposed \/ \A k \in 1..Len(answered) : Position(answered[k]) <= LastPosition

(* The poller delivers in the order of the positions, each item once, with  *)
(* the same exceptions (OnDiscStreamReader.cs:39-68).                       *)
PollerInOrder ==
    exposed \/ 1 < orphans \/ ~Fits \/
    \A i, j \in 1..Len(given) : i < j => Position(given[i]) < Position(given[j])

Has(s, n) == \E i \in 1..Len(s) : s[i] = n

(* The poller, restarted or not, comes to every answered item, unless a     *)
(* failure left a record without its checkpoint or lost the checkpoint.     *)
PollerCatchesUp ==
    \A n \in 1..MaxItems :
        Has(answered, n) ~> Has(given, n) \/ 0 < orphans \/ exposed

(* What the comments of SplitMessagesFromStream say: what the end of a      *)
(* block cuts is dropped there and read again with the next block.          *)
BlockEndIsReread == Split(rpos).end # "threw"
=============================================================================
