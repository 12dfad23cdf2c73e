--------------------------- MODULE SensorPipeline ---------------------------
(***************************************************************************)
(* include/sensor/multithreaded_sensor.h: run() and the three threads it   *)
(* starts, connected by two message_queues.                                *)
(*                                                                         *)
(*   trace_pipe -> reader -> stream_queue -> worker -> result_queue        *)
(*                                               -> sender -> stream       *)
(*                                                                         *)
(* The reader turns chunks of the trace into bulks of lines, the worker    *)
(* turns the lines into records and packs them in its DataAggregator, the  *)
(* sender dispatches the packs. nullptr (NULL) follows the last bulk       *)
(* through both queues and ends the worker, then the sender, which sets    *)
(* finished.                                                               *)
(*                                                                         *)
(* With logging the main thread serves statuses to one client at a time    *)
(* instead of joining the threads.                                         *)
(*                                                                         *)
(* The operations of the queues are atomic here: module SafeQueue shows    *)
(* that they are. A record is the line it comes from, and the lines longer *)
(* than 60 characters, the only ones collect keeps, are numbered 1, 2, ... *)
(* in the order of the trace; a bulk and a pack are sequences of them.     *)
(* Cutting chunks into lines and lines into fields are left out.           *)
(***************************************************************************)
EXTENDS Naturals, Sequences

CONSTANTS
    BulkCapacity,   \* BULK_CAPACITY: bulks per enqueue, messages per dequeue
    PackSize,       \* pack_size of the DataAggregator
    MaxChunk,       \* bound of the model: records completed by one read
    MaxChunks,      \* bound of the model: reads before the end of the trace
    MaxThrows,      \* bound of the model: dispatches that throw
    NULL            \* nullptr, the end of the messages

ASSUME SensorPipelineAssumption ==
    /\ BulkCapacity \in Nat \ {0}
    /\ PackSize \in Nat \ {0}
    /\ MaxChunk \in Nat \ {0}
    /\ MaxChunks \in Nat
    /\ MaxThrows \in Nat
    /\ NULL \notin Seq(Nat)

VARIABLES
    main,           \* where the main thread stands in run()
    logging,        \* the argument of run()
    tracing,        \* the kernel's tracing_on
    reader,         \* where _read_stream stands
    chunks,         \* reads done so far, up to MaxChunks
    read,           \* number of records read so far
    eof,            \* trace_pipe.eof()
    bulks,          \* the reader's local array
    stream_queue,   \* bulks and NULL, from the reader to the worker
    worker,         \* where _process_traces stands
    lines,          \* the worker's local array: what is left of it
    data,           \* the records in the DataAggregator
    result_queue,   \* packs and NULL, from the worker to the sender
    sender,         \* where _send_stream stands
    events,         \* the sender's local array: what is left of it
    finished,       \* the flag run() polls
    throws,         \* dispatches that threw so far
    delivered,      \* history: the records dispatched, in order
    lost            \* history: the records dropped when a dispatch threw

mainVars   == <<main, logging>>
readerVars == <<reader, chunks, read, eof, bulks>>
workerVars == <<worker, lines, data>>
senderVars == <<sender, events, finished, throws, delivered, lost>>
vars == <<mainVars, tracing, readerVars, stream_queue, workerVars,
          result_queue, senderVars>>

Smaller(a, b) == IF a <= b THEN a ELSE b

(* wait_dequeue_bulk: what a consumer takes of queue and what it leaves. *)
Taken(queue)  == SubSeq(queue, 1, Smaller(BulkCapacity, Len(queue)))

(* Mutant of Behind: one message more is popped than was copied. *)
BehindAndOneMore(queue) ==
    SubSeq(queue, Smaller(BulkCapacity, Len(queue)) + 2, Len(queue))

Behind(queue) == SubSeq(queue, Smaller(BulkCapacity, Len(queue)) + 1, Len(queue))

(* The records of a message, and those of the messages of a queue. *)
RecordsOf(msg) == IF msg = NULL THEN {} ELSE { msg[i] : i \in 1..Len(msg) }
RecordsIn(queue) == UNION { RecordsOf(queue[i]) : i \in 1..Len(queue) }

Init ==
    /\ main = "start" /\ logging \in BOOLEAN /\ tracing \in BOOLEAN
    /\ reader = "new" /\ chunks = 0 /\ read = 0 /\ eof = FALSE /\ bulks = <<>>
    /\ stream_queue = <<>>
    /\ worker = "new" /\ lines = <<>> /\ data = <<>>
    /\ result_queue = <<>>
    /\ sender = "new" /\ events = <<>> /\ finished = FALSE
    /\ throws = 0 /\ delivered = <<>> /\ lost = {}

-----------------------------------------------------------------------------
(* The reader *)

(* A read that returns before the end of the trace: the bulk of the n      *)
(* records it completes is one more element of the local array.            *)
ReadChunk(n) ==
    /\ reader = "run" /\ ~eof
    /\ Len(bulks) < BulkCapacity
    /\ chunks < MaxChunks
    /\ chunks' = chunks + 1
    /\ bulks' = Append(bulks, [i \in 1..n |-> read + i])
    /\ read' = read + n
    /\ UNCHANGED <<mainVars, tracing, reader, eof, stream_queue, workerVars,
                   result_queue, senderVars>>

(* Mutant of ReadEnd: nullptr put in the array, behind the last bulk. *)
ReadEndAndMark(n) ==
    /\ reader = "run" /\ ~eof
    /\ Len(bulks) < BulkCapacity
    /\ (chunks > 0 \/ n > 0) /\ ~tracing
    /\ eof' = TRUE
    /\ bulks' = bulks \o <<[i \in 1..n |-> read + i], NULL>>
    /\ read' = read + n
    /\ UNCHANGED <<mainVars, tracing, reader, chunks, stream_queue, workerVars,
                   result_queue, senderVars>>

(* The read that meets the end: the kernel ends trace_pipe once something  *)
(* has been read, be it in this very read, and tracing is off. What is     *)
(* left becomes the last bulk.                                             *)
ReadEnd(n) ==
    /\ reader = "run" /\ ~eof
    /\ Len(bulks) < BulkCapacity
    /\ (chunks > 0 \/ n > 0) /\ ~tracing
    /\ eof' = TRUE
    /\ bulks' = Append(bulks, [i \in 1..n |-> read + i])
    /\ read' = read + n
    /\ UNCHANGED <<mainVars, tracing, reader, chunks, stream_queue, workerVars,
                   result_queue, senderVars>>

(* Mutant of EnqueueBulk: the loop left at the end of the trace before the *)
(* array is enqueued.                                                      *)
EnqueueFullBulkOnly ==
    /\ reader = "run"
    /\ Len(bulks) = BulkCapacity \/ eof
    /\ stream_queue' = IF eof THEN stream_queue ELSE stream_queue \o bulks
    /\ bulks' = <<>>
    /\ reader' = IF eof THEN "end" ELSE "run"
    /\ UNCHANGED <<mainVars, tracing, chunks, read, eof, workerVars,
                   result_queue, senderVars>>

(* The array is full or the trace has ended: enqueue_bulk. *)
EnqueueBulk ==
    /\ reader = "run"
    /\ Len(bulks) = BulkCapacity \/ eof
    /\ stream_queue' = stream_queue \o bulks
    /\ bulks' = <<>>
    /\ reader' = IF eof THEN "end" ELSE "run"
    /\ UNCHANGED <<mainVars, tracing, chunks, read, eof, workerVars,
                   result_queue, senderVars>>

(* After the loop: enqueue(nullptr). *)
EnqueueEnd ==
    /\ reader = "end"
    /\ stream_queue' = Append(stream_queue, NULL)
    /\ reader' = "stop_watch"
    /\ UNCHANGED <<mainVars, tracing, chunks, read, eof, bulks, workerVars,
                   result_queue, senderVars>>

(* _watch->stop() and the return of the thread. *)
ReaderReturns ==
    /\ reader = "stop_watch"
    /\ reader' = "returned"
    /\ UNCHANGED <<mainVars, tracing, chunks, read, eof, bulks, stream_queue,
                   workerVars, result_queue, senderVars>>

-----------------------------------------------------------------------------
(* The worker *)

WorkerDequeue ==
    /\ worker = "run" /\ lines = <<>>
    /\ stream_queue # <<>>
    /\ lines' = Taken(stream_queue)
    /\ stream_queue' = Behind(stream_queue)
    /\ UNCHANGED <<mainVars, tracing, readerVars, worker, data, result_queue,
                   senderVars>>

(* Mutant of Ready: it tests for more than __limit records. *)
ReadyPastTheLimit(records) == Len(records) > PackSize

(* DataAggregator::ready() *)
Ready(records) == Len(records) >= PackSize

(* Mutant of Collect: the pack is enqueued and its records are kept.       *)
CollectWithoutNewPack ==
    /\ worker = "run" /\ lines # <<>> /\ Head(lines) # NULL
    /\ lines' = Tail(lines)
    /\ data' = data \o Head(lines)
    /\ result_queue' = IF Ready(data')
                       THEN Append(result_queue, data') ELSE result_queue
    /\ UNCHANGED <<mainVars, tracing, readerVars, stream_queue, worker, senderVars>>

(* A bulk: collect appends its records to the DataAggregator, and once     *)
(* that is ready() the worker swaps it for a new pack and enqueues it.     *)
Collect ==
    /\ worker = "run" /\ lines # <<>> /\ Head(lines) # NULL
    /\ lines' = Tail(lines)
    /\ LET collected == data \o Head(lines)
       IN /\ data' = IF Ready(collected) THEN <<>> ELSE collected
          /\ result_queue' = IF Ready(collected) THEN Append(result_queue, collected)
                             ELSE result_queue
    /\ UNCHANGED <<mainVars, tracing, readerVars, stream_queue, worker, senderVars>>

(* Mutant of FlushLastPack: the records below PackSize are not sent.       *)
ForgetLastPack ==
    /\ worker = "run" /\ lines # <<>> /\ Head(lines) = NULL
    /\ lines' = <<>> /\ data' = <<>>
    /\ worker' = "relay"
    /\ UNCHANGED <<mainVars, tracing, readerVars, stream_queue, result_queue, senderVars>>

(* NULL: the records in the DataAggregator are the last pack, unless there *)
(* are none; the rest of the local array is abandoned.                     *)
FlushLastPack ==
    /\ worker = "run" /\ lines # <<>> /\ Head(lines) = NULL
    /\ lines' = <<>> /\ data' = <<>>
    /\ result_queue' = IF data = <<>> THEN result_queue ELSE Append(result_queue, data)
    /\ worker' = "relay"
    /\ UNCHANGED <<mainVars, tracing, readerVars, stream_queue, senderVars>>

(* NULL goes back to the stream queue, for the workers there may be, ...   *)
RelayEnd ==
    /\ worker = "relay"
    /\ stream_queue' = Append(stream_queue, NULL)
    /\ worker' = "end"
    /\ UNCHANGED <<mainVars, tracing, readerVars, lines, data, result_queue, senderVars>>

(* Mutant of EndResults: the sender is not told of the end. *)
EndWithoutTellingTheSender ==
    /\ worker = "end"
    /\ worker' = "stop_watch"
    /\ UNCHANGED <<mainVars, tracing, readerVars, stream_queue, lines, data,
                   result_queue, senderVars>>

(* ... and on to the sender. *)
EndResults ==
    /\ worker = "end"
    /\ result_queue' = Append(result_queue, NULL)
    /\ worker' = "stop_watch"
    /\ UNCHANGED <<mainVars, tracing, readerVars, stream_queue, lines, data, senderVars>>

WorkerReturns ==
    /\ worker = "stop_watch"
    /\ worker' = "returned"
    /\ UNCHANGED <<mainVars, tracing, readerVars, stream_queue, lines, data,
                   result_queue, senderVars>>

-----------------------------------------------------------------------------
(* The sender *)

SenderDequeue ==
    /\ sender = "run" /\ events = <<>>
    /\ result_queue # <<>>
    /\ events' = Taken(result_queue)
    /\ result_queue' = Behind(result_queue)
    /\ UNCHANGED <<mainVars, tracing, readerVars, stream_queue, workerVars,
                   sender, finished, throws, delivered, lost>>

Dispatch ==
    /\ sender = "run" /\ events # <<>> /\ Head(events) # NULL
    /\ delivered' = delivered \o Head(events)
    /\ events' = Tail(events)
    /\ UNCHANGED <<mainVars, tracing, readerVars, stream_queue, workerVars,
                   result_queue, sender, finished, throws, lost>>

(* The dispatch of a pack throws: the handler stands outside the loop over *)
(* the array, so what is left of the array goes with the pack, NULL too.   *)
DispatchThrows ==
    /\ sender = "run" /\ events # <<>> /\ Head(events) # NULL
    /\ throws < MaxThrows
    /\ throws' = throws + 1
    /\ lost' = lost \cup RecordsIn(events)
    /\ events' = <<>>
    /\ UNCHANGED <<mainVars, tracing, readerVars, stream_queue, workerVars,
                   result_queue, sender, finished, delivered>>

(* NULL: finished is set and the thread returns. *)
Finish ==
    /\ sender = "run" /\ events # <<>> /\ Head(events) = NULL
    /\ events' = Tail(events)
    /\ finished' = TRUE
    /\ sender' = "returned"
    /\ UNCHANGED <<mainVars, tracing, readerVars, stream_queue, workerVars,
                   result_queue, throws, delivered, lost>>

-----------------------------------------------------------------------------
(* The main thread *)

(* start(): the sender, the worker and the reader. The first two find      *)
(* their queues empty until the third runs, so the three are one step.     *)
Start ==
    /\ main = "start"
    /\ main' = "trace_on"
    /\ sender' = "run" /\ worker' = "run" /\ reader' = "run"
    /\ UNCHANGED <<logging, tracing, chunks, read, eof, bulks, stream_queue,
                   lines, data, result_queue, events, finished, throws,
                   delivered, lost>>

(* set_trace(true), while the threads already run. *)
TraceOn ==
    /\ main = "trace_on"
    /\ tracing' = TRUE
    /\ main' = IF logging THEN "listen" ELSE "join_reader"
    /\ UNCHANGED <<logging, readerVars, stream_queue, workerVars, result_queue,
                   senderVars>>

(* join(): the reader, then the sender, then the worker. *)
Join(from, thread, to) ==
    /\ main = from /\ thread = "returned"
    /\ main' = to
    /\ UNCHANGED <<logging, tracing, readerVars, stream_queue, workerVars,
                   result_queue, senderVars>>

JoinReader == Join("join_reader", reader, "join_sender")

(* Mutant of JoinSender: join() leaves the worker out. *)
JoinSenderOnly == Join("join_sender", sender, "trace_off")

JoinSender == Join("join_sender", sender, "join_worker")
JoinWorker == Join("join_worker", worker, "trace_off")

(* run(true): listen() blocks until a client connects; a listen() that     *)
(* fails is tried again a second later, which changes nothing here.        *)
ClientConnects ==
    /\ main = "listen"
    /\ main' = "serve"
    /\ UNCHANGED <<logging, tracing, readerVars, stream_queue, workerVars,
                   result_queue, senderVars>>

(* The status cannot be sent: finished is tested by the outer loop, which  *)
(* waits for another client. A status that is sent changes nothing.        *)
ClientGone ==
    /\ main = "serve" /\ ~finished
    /\ main' = "gone"
    /\ UNCHANGED <<logging, tracing, readerVars, stream_queue, workerVars,
                   result_queue, senderVars>>

TestAgain ==
    /\ main = "gone"
    /\ main' = IF finished THEN "trace_off" ELSE "listen"
    /\ UNCHANGED <<logging, tracing, readerVars, stream_queue, workerVars,
                   result_queue, senderVars>>

(* The inner loop finds finished set: the client gets the summary. *)
SeeFinished ==
    /\ main = "serve" /\ finished
    /\ main' = "trace_off"
    /\ UNCHANGED <<logging, tracing, readerVars, stream_queue, workerVars,
                   result_queue, senderVars>>

(* set_trace(false) and the return of run(): the sensor is destroyed.      *)
TraceOff ==
    /\ main = "trace_off"
    /\ tracing' = FALSE
    /\ main' = "returned"
    /\ UNCHANGED <<logging, readerVars, stream_queue, workerVars, result_queue,
                   senderVars>>

(* Someone else turns tracing off, as the stop command does. *)
TracingStopped ==
    /\ tracing
    /\ tracing' = FALSE
    /\ UNCHANGED <<mainVars, readerVars, stream_queue, workerVars, result_queue,
                   senderVars>>

-----------------------------------------------------------------------------
Reader == \/ \E n \in 0..MaxChunk : ReadChunk(n) \/ ReadEnd(n)
          \/ EnqueueBulk \/ EnqueueEnd \/ ReaderReturns

Worker == WorkerDequeue \/ Collect \/ FlushLastPack \/ RelayEnd \/ EndResults
          \/ WorkerReturns

Sender == SenderDequeue \/ Dispatch \/ DispatchThrows \/ Finish

Main == Start \/ TraceOn \/ JoinReader \/ JoinSender \/ JoinWorker
        \/ TestAgain \/ SeeFinished \/ TraceOff

Client == ClientConnects \/ ClientGone

(* The batch that threw held the nullptr: the sender will never see it.    *)
EndLost ==
    /\ worker \in {"stop_watch", "returned"} /\ sender = "run"
    /\ events = <<>> /\ result_queue = <<>>

(* run() has returned and the process is gone, or a dispatch that threw    *)
(* lost the nullptr: the sender waits for ever, and join() for the sender. *)
(* Kept so that a deadlock is any other thread that waits for ever.        *)
AtRest ==
    /\ main = "returned" \/ (throws > 0 /\ EndLost)
    /\ UNCHANGED vars

Next == Reader \/ Worker \/ Sender \/ Main \/ Client \/ TracingStopped \/ AtRest

(* A thread that can run is eventually scheduled; the kernel need not      *)
(* produce anything, nobody need stop the tracing and no client need come. *)
Fairness ==
    /\ WF_vars(EnqueueBulk \/ EnqueueEnd \/ ReaderReturns)
    /\ WF_vars(Worker)
    /\ WF_vars(Sender)
    /\ WF_vars(Main)

Spec == Init /\ [][Next]_vars /\ Fairness
-----------------------------------------------------------------------------
(* Properties *)

Bulks    == {NULL} \cup Seq(Nat)
Settled  == RecordsOf(delivered) \cup lost
InFlight == RecordsIn(events) \cup RecordsIn(result_queue) \cup RecordsOf(data)
            \cup RecordsIn(lines) \cup RecordsIn(stream_queue) \cup RecordsIn(bulks)

TypeOK ==
    /\ main \in {"start", "trace_on", "join_reader", "join_sender", "join_worker",
                 "listen", "serve", "gone", "trace_off", "returned"}
    /\ logging \in BOOLEAN /\ tracing \in BOOLEAN
    /\ reader \in {"new", "run", "end", "stop_watch", "returned"}
    /\ chunks \in Nat /\ read \in Nat /\ eof \in BOOLEAN
    /\ bulks \in Seq(Seq(Nat))
    /\ stream_queue \in Seq(Bulks)
    /\ worker \in {"new", "run", "relay", "end", "stop_watch", "returned"}
    /\ lines \in Seq(Bulks)
    /\ data \in Seq(Nat)
    /\ result_queue \in Seq(Bulks)
    /\ sender \in {"new", "run", "returned"}
    /\ events \in Seq(Bulks)
    /\ finished \in BOOLEAN
    /\ throws \in Nat
    /\ delivered \in Seq(Nat)
    /\ lost \in SUBSET Nat

(* multithreaded_sensor.h:134-214: whatever the interleaving of the three  *)
(* threads, the batches they take and the dispatches that throw, the       *)
(* stream is given the records in the order of the trace, none twice.      *)
DeliveredInOrder ==
    \A i, j \in 1..Len(delivered) : i < j => delivered[i] < delivered[j]

(* multithreaded_sensor.h:134-214: a record that was read is, until it is  *)
(* delivered or lost with a failed dispatch, in a queue, in the aggregator *)
(* or in the local array of a thread: no hand-over drops or invents one.   *)
EveryRecordAccountedFor == Settled \cup InFlight = 1..read

(* multithreaded_sensor.h:173-180, 203-207: the nullptr that ends the      *)
(* sender overtakes nothing. Once finished is set, each record ever read   *)
(* was delivered, or lost with a failed dispatch.                          *)
FinishedMeansSettled == finished => Settled = 1..read

(* data_aggregator.h:26-41, multithreaded_sensor.h:182-185: a pack passes  *)
(* PackSize only by what the last bulk brought, and is never empty.        *)
PackSizeBound ==
    \A queue \in {result_queue, events} : \A i \in 1..Len(queue) :
        queue[i] # NULL => Len(queue[i]) \in 1..(PackSize + MaxChunk - 1)

(* multithreaded_sensor.h:89-114, parallel_worker.h:18-24: when run()      *)
(* returns and the sensor is destroyed, no thread will touch a queue, the  *)
(* aggregator or the stream again; without logging all have returned, with *)
(* logging the reader or the worker may still have its watch to stop.      *)
ReturnIsSafe ==
    main = "returned" =>
        /\ sender = "returned"
        /\ {reader, worker} \subseteq
               IF logging THEN {"stop_watch", "returned"} ELSE {"returned"}

(* multithreaded_sensor.h:92-114, 128-132, 194-213: the end of the trace   *)
(* leads run() to its return, with two exceptions the code has: a dispatch *)
(* threw in the batch of the nullptr, and nobody will end the sender; or   *)
(* run(true) sits in accept() with no client, where it sees no flag.       *)
TraceEndLeadsToReturn ==
    eof ~> (main = "returned" \/ main = "listen" \/ (throws > 0 /\ EndLost))

(* The abstract promise, for the records this model numbers.               *)
Delivery == INSTANCE TraceDelivery WITH
    MaxAccept <- MaxChunk,
    accepted  <- read,
    done      <- finished

DeliversTheTrace == Delivery!Spec
=============================================================================
