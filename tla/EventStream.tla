---------------------------- MODULE EventStream ----------------------------
(***************************************************************************)
(* The writer side of LvStreamStore: EventStream.cs over the in-memory log  *)
(* of MemoryEventStream.cs.                                                 *)
(*                                                                         *)
(* Clients call AppendAsync concurrently; each call is queued on a channel  *)
(* and awaits its TaskCompletionSource.  One loop, MonitorForWriteRequests, *)
(* takes the requests in turn, validates each against the expected version, *)
(* writes the stream's StreamCreated item if it has none, then the events   *)
(* whose ids the stream does not hold, one item at a time, and answers.     *)
(* Between any two of these steps clients may append, and the owner may     *)
(* dispose the stream.                                                      *)
(***************************************************************************)
EXTENDS StreamIds, Integers, FiniteSets

CONSTANTS
    Requests,    \* the calls of AppendAsync
    Faulty,      \* those during which a reader of the store may throw
    Ids,         \* the StreamIds they append to
    EventIds,    \* the EventIds of the events they append
    Calls,       \* the arguments they are made with
    NoRequest, NoCall, NoEvent

(* ExpectedVersion; every other value is an exact version. *)
AnyVersion   == -2
NoStream     == -1
StreamExists == -4

Exact(expected) == expected \notin {AnyVersion, NoStream, StreamExists}

ASSUME EventStreamAssumption ==
    /\ Faulty \subseteq Requests
    /\ NoRequest \notin Requests
    /\ Ids \subseteq StreamId
    /\ NoEvent \notin EventIds
    /\ \A c \in Calls : /\ c.stream \in Ids
                        /\ c.expected \in Int
                        /\ c.events \in Seq(EventIds)
    /\ NoCall \notin Calls

VARIABLES
    log,         \* the items of the store
    channel,     \* the queued requests (_streamWriter)
    disposed,    \* _cts has been cancelled, so the channel is completed
    args,        \* what each request was called with, NoCall before the call
    answer,      \* what each caller's task completed with
    pc,          \* where the loop is
    possible,    \* the request the loop is serving
    position,    \* the loop's running position
    written,     \* the event ids the loop found in the stream
    toWrite      \* the events it has yet to consider

loopVars == <<pc, possible, position, written, toWrite>>
vars == <<log, channel, disposed, args, answer, loopVars>>

(* StreamCreated and RecordedEvent.  by names the request that wrote the    *)
(* item: no code reads it.                                                  *)
Item == {item \in [kind : {"created", "recorded"}, stream : Ids,
                   event : EventIds \cup {NoEvent}, position : Nat, by : Requests] :
             item.kind = "created" <=> item.event = NoEvent}

(* WriteResult, with its Exception; "pending" is a task not yet completed,  *)
(* "closed" one that failed with ChannelClosedException.                    *)
Answer == [status : {"pending", "ok", "doesNotExist", "wrongVersion", "threw", "closed"},
           version : Int]

Pending   == [status |-> "pending", version |-> 0]
Closed    == [status |-> "closed", version |-> 0]
Ok(v)     == [status |-> "ok", version |-> v]
Failed(why, v) == [status |-> why, version |-> v]

Created(i)  == log[i].kind = "created"
Recorded(i) == log[i].kind = "recorded"

(* GetReader().OfType<RecordedEvent>().Where(e => e.StreamId == stream)     *)
RecordedIn(stream) ==
    {i \in 1..Len(log) : Recorded(i) /\ IdEquals(log[i].stream, stream)}

(* filtered.Max(e => e.Position) *)
MaxPosition(stream) ==
    CHOOSE p \in {log[i].position : i \in RecordedIn(stream)} :
        \A i \in RecordedIn(stream) : log[i].position <= p

(* (await GetReader().LastOrDefaultAsync())?.Position ?? 0 *)
LastPosition == IF log = <<>> THEN 0 ELSE log[Len(log)].position

(* What an object is constructed with, apart from the items of its store. *)
Constructed ==
    /\ channel = <<>>
    /\ disposed = FALSE
    /\ args = [r \in Requests |-> NoCall]
    /\ answer = [r \in Requests |-> Pending]
    /\ pc = "notStarted"
    /\ possible = NoRequest
    /\ position = 0
    /\ written = {}
    /\ toWrite = <<>>

Init == log = <<>> /\ Constructed
-----------------------------------------------------------------------------
(* The clients and the owner. *)

(* A completed channel refuses the write; otherwise the call is queued.     *)
AppendAsync(r, call) ==
    /\ args[r] = NoCall
    /\ args' = [args EXCEPT ![r] = call]
    /\ IF disposed
         THEN answer' = [answer EXCEPT ![r] = Closed] /\ UNCHANGED channel
         ELSE channel' = Append(channel, r) /\ UNCHANGED answer
    /\ UNCHANGED <<log, disposed, loopVars>>

StartAsync ==
    /\ pc = "notStarted"
    /\ pc' = "waiting"
    /\ UNCHANGED <<log, channel, disposed, args, answer, possible, position, written, toWrite>>

Dispose ==
    /\ ~disposed
    /\ disposed' = TRUE
    /\ UNCHANGED <<log, channel, args, answer, loopVars>>
-----------------------------------------------------------------------------
(* MonitorForWriteRequests. *)

Busy == possible # NoRequest

Call == args[possible]

GoTo(step) ==
    pc' = step /\ UNCHANGED possible

(* The end of the loop's body: its locals go out of scope. *)
EndTurn ==
    /\ pc' = "waiting"
    /\ possible' = NoRequest
    /\ position' = 0
    /\ written' = {}
    /\ toWrite' = <<>>

Complete(result) ==
    answer' = [answer EXCEPT ![possible] = result]

TakeRequest ==
    /\ pc = "waiting"
    /\ ~disposed
    /\ channel # <<>>
    /\ possible' = Head(channel)
    /\ channel' = Tail(channel)
    /\ pc' = "validating"
    /\ UNCHANGED <<log, disposed, args, answer, position, written, toWrite>>

StopLoopWhenDrained ==               \* mutant: a disposed loop waits for an empty channel
    /\ pc = "waiting"
    /\ disposed
    /\ channel = <<>>
    /\ pc' = "stopped"
    /\ UNCHANGED <<log, channel, disposed, args, answer, possible, position, written, toWrite>>

(* OperationCanceledException, or a completed and empty channel. *)
StopLoop ==
    /\ pc = "waiting"
    /\ disposed
    /\ pc' = "stopped"
    /\ UNCHANGED <<log, channel, disposed, args, answer, possible, position, written, toWrite>>

VersionIsLastPosition(call) ==       \* mutant: the version is a position
    LET filtered == RecordedIn(call.stream) IN
    \/ call.events = <<>>
    \/ call.expected = AnyVersion
    \/ call.expected \in {StreamExists, NoStream} /\ filtered = {}
    \/ Exact(call.expected) /\ filtered # {} /\ MaxPosition(call.stream) = call.expected

(* PassesValidationAsync returns true.  StreamExists asks that the stream   *)
(* hold no event; an exact version is compared with the number of events.   *)
PassesValidation(call) ==
    LET filtered == RecordedIn(call.stream) IN
    \/ call.events = <<>>
    \/ call.expected = AnyVersion
    \/ call.expected \in {StreamExists, NoStream} /\ filtered = {}
    \/ Exact(call.expected) /\ filtered # {} /\ Cardinality(filtered) = call.expected

(* A mismatch is answered Ok when none of the events is in the stream. *)
IsStaleOk(call) ==
    /\ Exact(call.expected)
    /\ RecordedIn(call.stream) # {}
    /\ \A e \in 1..Len(call.events), i \in RecordedIn(call.stream) :
           log[i].event # call.events[e]

Refusal(call) ==
    IF call.expected = StreamExists THEN Failed("doesNotExist", -1)
    ELSE IF call.expected = NoStream \/ RecordedIn(call.stream) = {}
         THEN Failed("wrongVersion", -1)
         ELSE Failed("wrongVersion", MaxPosition(call.stream))

Verdict(call) ==
    IF IsStaleOk(call) THEN Ok(MaxPosition(call.stream)) ELSE Refusal(call)

ValidateFallsThrough ==              \* mutant: a refusal does not end the turn
    /\ pc = "validating"
    /\ IF PassesValidation(Call) THEN UNCHANGED answer ELSE Complete(Verdict(Call))
    /\ GoTo("positioning")
    /\ UNCHANGED <<log, channel, disposed, args, position, written, toWrite>>

ValidateForgetsCaller ==             \* mutant: a refusal is not answered
    /\ pc = "validating"
    /\ IF PassesValidation(Call)
         THEN GoTo("positioning") /\ UNCHANGED <<position, written, toWrite>>
         ELSE EndTurn
    /\ UNCHANGED <<log, channel, disposed, args, answer>>

Validate ==
    /\ pc = "validating"
    /\ IF PassesValidation(Call)
         THEN /\ GoTo("positioning")
              /\ UNCHANGED <<answer, position, written, toWrite>>
         ELSE /\ Complete(Verdict(Call))
              /\ EndTurn
    /\ UNCHANGED <<log, channel, disposed, args>>

(* The catch of PassesValidationAsync returns false and leaves the caller's *)
(* task uncompleted.                                                        *)
ValidationThrows ==
    /\ pc = "validating"
    /\ possible \in Faulty
    /\ Call.events # <<>>
    /\ Call.expected # AnyVersion
    /\ EndTurn
    /\ UNCHANGED <<log, channel, disposed, args, answer>>

(* The catch of the loop's body, for the readers the write itself opens. *)
ProcessingThrows ==
    /\ pc \in {"positioning", "filtering"}
    /\ possible \in Faulty
    /\ Complete(Failed("threw", -1))
    /\ EndTurn
    /\ UNCHANGED <<log, channel, disposed, args>>

WriteItem(kind, event, at) ==
    log' = Append(log, [kind |-> kind, stream |-> Call.stream, event |-> event,
                        position |-> at, by |-> possible])

IsCreatedSwapped(stream) ==          \* mutant: the operands of == swapped
    \E i \in 1..Len(log) : Created(i) /\ IdEquals(stream, log[i].stream)

IsCreated(stream) ==
    \E i \in 1..Len(log) : Created(i) /\ IdEquals(log[i].stream, stream)

EnsureCreatedKeepsPosition ==        \* mutant: created shares its successor's position
    /\ pc = "positioning"
    /\ position' = LastPosition
    /\ IF IsCreated(Call.stream) THEN UNCHANGED log
                                 ELSE WriteItem("created", NoEvent, LastPosition + 1)
    /\ GoTo("filtering")
    /\ UNCHANGED <<channel, disposed, args, answer, written, toWrite>>

(* Find the last position, and write the StreamCreated item if none does. *)
EnsureCreated ==
    /\ pc = "positioning"
    /\ IF IsCreated(Call.stream)
         THEN position' = LastPosition /\ UNCHANGED log
         ELSE /\ position' = LastPosition + 1
              /\ WriteItem("created", NoEvent, LastPosition + 1)
    /\ GoTo("filtering")
    /\ UNCHANGED <<channel, disposed, args, answer, written, toWrite>>

FilterSwapped ==                     \* mutant: the operands of == swapped
    /\ pc = "filtering"
    /\ written' = {log[i].event : i \in {j \in 1..Len(log) :
                       Recorded(j) /\ IdEquals(Call.stream, log[j].stream)}}
    /\ toWrite' = Call.events
    /\ GoTo("writing")
    /\ UNCHANGED <<log, channel, disposed, args, answer, position>>

FilterAnyItem ==                     \* mutant: OfType<RecordedEvent> is dropped
    /\ pc = "filtering"
    /\ written' = {log[i].event : i \in {j \in 1..Len(log) :
                       IdEquals(log[j].stream, Call.stream)}}
    /\ toWrite' = Call.events
    /\ GoTo("writing")
    /\ UNCHANGED <<log, channel, disposed, args, answer, position>>

FilterAllStreams ==                  \* mutant: ids looked up in every stream
    /\ pc = "filtering"
    /\ written' = {log[i].event : i \in {j \in 1..Len(log) : Recorded(j)}}
    /\ toWrite' = Call.events
    /\ GoTo("writing")
    /\ UNCHANGED <<log, channel, disposed, args, answer, position>>

(* Read which events the stream already holds. *)
FilterWritten ==
    /\ pc = "filtering"
    /\ written' = {log[i].event : i \in RecordedIn(Call.stream)}
    /\ toWrite' = Call.events
    /\ GoTo("writing")
    /\ UNCHANGED <<log, channel, disposed, args, answer, position>>

(* The Where and Select of the batch with the foreach of WriteAsync: skip   *)
(* an event found in the stream, give another the next position and append. *)
WriteNext ==
    /\ pc = "writing"
    /\ toWrite # <<>>
    /\ toWrite' = Tail(toWrite)
    /\ IF Head(toWrite) \in written
         THEN UNCHANGED <<log, position>>
         ELSE /\ position' = position + 1
              /\ WriteItem("recorded", Head(toWrite), position + 1)
    /\ UNCHANGED <<channel, disposed, args, answer, pc, possible, written>>

AnswerBeforeWriting ==               \* mutant: the answer does not wait for WriteAsync
    /\ pc = "writing"
    /\ IF toWrite = <<>>
         THEN EndTurn /\ UNCHANGED answer
         ELSE Complete(Ok(position)) /\ UNCHANGED loopVars
    /\ UNCHANGED <<log, channel, disposed, args>>

AnswerOk ==
    /\ pc = "writing"
    /\ toWrite = <<>>
    /\ Complete(Ok(position))
    /\ EndTurn
    /\ UNCHANGED <<log, channel, disposed, args>>
-----------------------------------------------------------------------------
LoopStep ==
    \/ TakeRequest \/ StopLoop
    \/ Validate \/ ValidationThrows \/ ProcessingThrows
    \/ EnsureCreated \/ FilterWritten \/ WriteNext \/ AnswerOk

Next ==
    \/ \E r \in Requests, call \in Calls : AppendAsync(r, call)
    \/ StartAsync
    \/ Dispose
    \/ LoopStep

Spec == Init /\ [][Next]_vars

(* The thread pool resumes the loop, and the host calls StartAsync. *)
FairSpec == Spec /\ WF_vars(LoopStep) /\ WF_vars(StartAsync)
-----------------------------------------------------------------------------
(* Type correctness. *)
TypeOK ==
    /\ log \in Seq(Item)
    /\ channel \in Seq(Requests)
    /\ disposed \in BOOLEAN
    /\ args \in [Requests -> Calls \cup {NoCall}]
    /\ answer \in [Requests -> Answer]
    /\ pc \in {"notStarted", "waiting", "validating", "positioning", "filtering",
               "writing", "stopped"}
    /\ possible \in Requests \cup {NoRequest}
    /\ position \in Nat
    /\ written \subseteq EventIds
    /\ toWrite \in Seq(EventIds)

(* The running position of the loop and the last position it reads back     *)
(* agree: positions number the items 1, 2, 3 ... (EventStream.cs:109-135).  *)
PositionsContiguous ==
    \A i \in 1..Len(log) : log[i].position = i

(* The stream of every event was created before it, and no item creates a   *)
(* stream an earlier one created (the first full scan).                     *)
StreamsCreatedOnce ==
    \A i \in 1..Len(log) :
        Created(i) <=> ~\E j \in 1..(i - 1) :
                          Created(j) /\ IdEquals(log[j].stream, log[i].stream)

(* A retried event is not recorded again: two items that record the same    *)
(* id in a stream come from one batch (the second full scan).               *)
EventsRecordedOnce ==
    \A i, j \in 1..Len(log) :
        /\ i < j /\ Recorded(i) /\ Recorded(j)
        /\ log[i].event = log[j].event
        /\ IdEquals(log[i].stream, log[j].stream)
        => log[i].by = log[j].by

(* The events of a stream other requests than r put before position n. *)
OthersIn(items, stream, r, n) ==
    {j \in 1..Len(items) : /\ j < n
                           /\ items[j].kind = "recorded"
                           /\ items[j].by # r
                           /\ IdEquals(items[j].stream, stream)}

AtExpected(call, others) ==
    /\ call.expected = NoStream => others = {}
    /\ Exact(call.expected) => Cardinality(others) = call.expected

(* Optimistic concurrency: the events a request recorded were recorded when *)
(* the others had put exactly the expected number of events in its stream,  *)
(* none at all for NoStream, whatever requests raced it.                    *)
WrittenAtExpectedVersion ==
    \A i \in 1..Len(log) :
        Recorded(i) => LET r == log[i].by
                       IN  AtExpected(args[r], OthersIn(log, args[r].stream, r, i))

WroteNothing(r) == \A i \in 1..Len(log) : log[i].by # r

(* A caller told of a version conflict, or of a disposed store, left no     *)
(* trace in the log; one told of an exception recorded no event.            *)
RefusedWritesNothing ==
    \A r \in Requests :
        /\ answer[r].status \in {"doesNotExist", "wrongVersion", "closed"} => WroteNothing(r)
        /\ answer[r].status = "threw" =>
               \A i \in 1..Len(log) : Recorded(i) => log[i].by # r

InStream(event, stream) == \E i \in RecordedIn(stream) : log[i].event = event

Acknowledged(r) ==
    answer[r].status = "ok" =>
        \A e \in 1..Len(args[r].events) : InStream(args[r].events[e], args[r].stream)

(* An append that names no exact version and is answered Ok has all its     *)
(* events in its stream, whether it wrote them or found them.               *)
AckedIsRecorded ==
    \A r \in Requests : args[r] # NoCall /\ ~Exact(args[r].expected) => Acknowledged(r)

(* An Ok answer to a request that wrote carries the position of its last    *)
(* item.                                                                    *)
OkCarriesLastPosition ==
    \A r \in Requests : answer[r].status = "ok" =>
        \A i \in 1..Len(log) :
            log[i].by = r /\ (\A j \in (i + 1)..Len(log) : log[j].by # r)
            => answer[r].version = log[i].position

(* A TaskCompletionSource completes once: a second SetResult would throw    *)
(* out of the loop's own catch and end it.                                  *)
AnsweredOnce ==
    [][\A r \in Requests : answer[r] # Pending => answer'[r] = answer[r]]_answer

(* The log the clients may rely on. *)
Abstract == INSTANCE StreamLog WITH
                answered <- {r \in Requests : answer[r] # Pending}

(* The loop, its channel and its answers implement the abstract log. *)
ImplementsStreamLog == Abstract!Spec

(* Every accepted call is answered, although another's validation may       *)
(* throw, unless the store is disposed first.                               *)
EveryCallAnswered ==
    \A r \in Requests \ Faulty :
        args[r] # NoCall ~> answer[r] # Pending \/ disposed

(* Dispose ends the loop, even one that is serving a request. *)
DisposeEndsLoop == disposed ~> pc = "stopped"

(* What the comment of EventStream.cs:184 says of a mismatch it answers     *)
(* with Ok: all the events have been appended.                              *)
AckedExactIsRecorded ==
    \A r \in Requests : args[r] # NoCall /\ Exact(args[r].expected) => Acknowledged(r)

(* What ExpectedVersion.cs:14 says of StreamExists: the stream should       *)
(* exist, created by another request.                                       *)
StreamExistsNeedsStream ==
    \A r \in Requests :
        /\ answer[r].status = "ok"
        /\ args[r].expected = StreamExists
        /\ args[r].events # <<>>
        => \E i \in 1..Len(log) : log[i].by # r /\ IdEquals(log[i].stream, args[r].stream)
=============================================================================
