# linux_sensors in TLA+

`syscall_sensor` is a daemon that reads the system call trace of the Linux kernel
(ftrace), turns its lines into records, packs them and hands the packs to a
stream (console, file, aggregated files, socket). This directory models the daemon,
its threads, its queues, its streams and its status server, checks the models with TLC
and proves most of what it checks with TLAPS. Paths are relative to `src/`,
`sensor.h` is short for `include/sensor/multithreaded_sensor.h`.

1. [The system](#1-the-system)
2. [The modules](#2-the-modules)
3. [The runs](#3-the-runs)
4. [The proofs](#4-the-proofs)
5. [What the code does and its comments do not say](#5-what-the-code-does-and-its-comments-do-not-say)
6. [Not modelled](#6-not-modelled)
7. [Plan](#7-plan)

To check a configuration `X.cfg` of a module `M`: `tlc -config X.cfg M`. To check
the proofs of a module: `tlapm M.tla`.

## 1. The system

| Component | Source | State it keeps | Operations |
|---|---|---|---|
| message queue | `include/queue/message_queue.h`, `queue/simple/simple_queue.h` | a `std::queue`, a mutex, a condition variable | `enqueue`, `enqueue_bulk`, `dequeue`, `wait_dequeue_bulk`, `size_approx` |
| multithreaded sensor | `sensor.h`, `sensor/data_aggregator.h`, `utils/parallel_worker.h`, `sensor/base_sensor.h` | two queues, the aggregator of the current pack, `finished`, the threads, the kernel's `tracing_on` and filters | `run`, `start`, `join`, and the loops of the reader, worker and sender |
| daemon and commands | `main.cpp`, `utils/linux_daemon.h` | the pid file, the running processes, the kernel's `tracing_on` and filters | `start`, `stop`, `status` |
| status server | `socket/linux_server_socket.h`, `sensor.h:92-110` | two descriptors, the process's descriptor table, the backlog of the port | `listen`, `send`, `close` |
| status command | `main.cpp`, `socket/linux_socket.h` | a connection | `connect`, `receive` |
| line splitting | `utils/utils.h`, `sensor.h:134-157` | the unfinished line between two reads | `_read_stream`, `split_string` |
| trace records | `sensor/trace/*.h`, `utils/string_ref.h`, `sensor/events_bulk.h` | none: columns of a line | constructors, printing |
| event counters | `sensor/events_measure.h` | counters and times, shared by the threads | `start`, `stop`, `add`, `reset` |
| file streams | `stream/file_stream.h`, `stream/file_aggr_stream.h`, `lib/gzstream.C` | a file, groups of calls by process and their names, what zlib has not written | `setup_stream`, `dispatch`, `print_all` |
| socket stream | `stream/socket_stream.h`, `socket/linux_socket.h`, `utils/encoding.h` | a connection and its descriptor | `connect`, `dispatch`, `send`, base64 |
| other streams | `stream/dumy_stream.h`, `console_stream.h`, `memory_stream.h` | none that is read | `dispatch` |

How they interact. A command is a process that runs `main()` once; `start` forks the
daemon, which calls `run()`. `run()` starts three threads that share two queues:

    trace_pipe -> reader -> stream_queue -> worker -> result_queue -> sender -> stream

The end of the trace is a `nullptr` that follows the last bulk through both queues.
With logging (`-l`) the main thread serves statuses to one client at a time over a
socket while it waits for the sender to set `finished`; without it, it joins the
threads. Commands and daemons share only files: the pid file and the kernel's
`tracing_on` and filter. A `stop` ends a sensor by SIGKILL, and turning tracing off
is what makes the reader see the end of the trace.

What is hard, and the property each part owes:

- *queue*: lost wakeups, and bulks torn by another thread. It must be a FIFO whose
  bulk operations are atomic, and no consumer may sleep beside messages.
- *sensor*: hand-overs between three threads in batches of any size, the overtaking
  of records by the `nullptr`, a dispatch that throws in the middle of a batch, and
  the return of `run()` while detached threads still run. Records must reach the stream
  in order and once, only those of a batch that threw may be missing, `finished` must
  mean that all is settled, the end of the trace must end `run()`, and once `run()` has
  returned the threads may have nothing left to do with the queues, the aggregator and the stream.
- *daemon*: the pid file is read by one process and written later by another; commands
  overlap; daemons crash. At most one sensor may run, the pid file must name it, the
  kernel must not be left tracing for nobody, and a stop must end the sensor it found.
- *status server*: descriptors that leak when `bind()` or `accept()` fails, a status that
  throws, clients that leave, `finished` set between two sends. The server must get back to its clients, tell
  the one it serves of the end, and release all of them.
- *line splitting*: lines cut by the end of the read buffer, at any character. The
  lines found must be those of the trace.
- *records*: fields at fixed columns of a text whose fields grow. The records must be
  those of the lines, and no line of a system call may end the sensor.
- *counters*: updated by one thread and reset by another without synchronisation. An
  event must be in one status, and the summary must have all of them.
- *file streams*: calls grouped by process and written late; disks that fill up; a sensor
  that is killed; a second `start` on the same file. The file must hold an unbroken run of
  each process's calls, under the name the process had.
- *socket stream*: a connection that breaks, results that nobody looks at, descriptors
  that were closed and are used, and closed again, by their numbers. The collector must be able
  to read what it gets, a status client must get nothing but statuses, and no thread may
  have a descriptor closed under it.

`PROJECT.json` lists each hazard with the line where it bites and the properties
that cover it.

## 2. The modules

| Module | What it is |
|---|---|
| `MessageQueue` | abstract: the FIFO with atomic bulks that `message_queue` promises |
| `SafeQueue` | detailed: `SafeQueue`, one step between two operations on the mutex or the condition variable; implements `MessageQueue` |
| `TraceDelivery` | abstract: records numbered in trace order are delivered in that order, or lost oldest first; finished only with nothing outstanding |
| `SensorPipeline` | detailed: `run()`, the three threads, the two queues, the joins and the status loop; implements `TraceDelivery` |
| `SensorDaemon` | `start`, `stop` and the daemons, one step per system call that another process can observe |
| `StatusServer` | the status loop of `run(true)` with its sockets, the kernel's descriptors and backlog, and the status commands |
| `TraceReader` | the reads of `_read_stream` and `split_string` on an explicit trace |
| `Archive` | abstract: a log of calls holds an unbroken run of those of each process, and only grows at its end or is opened afresh |
| `FileStreams` | detailed: `file_stream` and `file_aggr_stream` with the gzip layer, the end of the sensor and another `start`; implements `Archive` |
| `Base64` | `base64_encode` and `base64_decode` |
| `SocketStream` | the frames of `socket_stream`, the connection, and the descriptors of all threads of the daemon |
| `EventsWatch` | the counters, one step per access that another thread can observe |
| `TraceRecord` | the columns of a line and the numbers and names in them |
| `MC...` | the modules the configurations are for |
| `TraceProofs` | theorems about what carries the trace from the buffer to the records: `TraceReader`, `SafeQueue` and `TraceRecord` |
| `SensorPipelineProofs` | how records lie in the queues; the four parts of the inductive invariant; the theorems about `SensorPipeline` |
| `SensorDaemonProofs`, `StatusServerProofs`, `EventsWatchProofs` | theorems about `SensorDaemon`, `StatusServer` and `EventsWatch` |
| `FlattenTheorems` | what `FlattenSeq`, a recursive function, gives for sequences of every length |
| `FileStreamsProofs` | theorems about `FileStreams`: nothing is lost, and it implements `Archive` |
| `SocketStreamProofs` | theorems about `Base64` and `SocketStream` |

`SensorPipeline` treats the operations of its queues as atomic. That is what
`SafeQueue => MessageQueue` establishes, for any number of threads and any sizes; a
thread that blocks in a dequeue is a thread whose dequeue action is disabled.
`StatusServer` refines the two actions `ClientConnects` and `ClientGone` of
`SensorPipeline` into system calls, and there the other threads are the single action
`Finish`. In `SensorDaemon` the threads are the single action `TraceEnds`.
`TraceReader` is what `SensorPipeline` calls a read, and `TraceRecord` what the worker
makes of the lines; the line that lost its first character (`lost`) is the one
`TraceReader` finds. `FileStreams` and `SocketStream` begin where the `Dispatch` of
`SensorPipeline` hands a pack over; none of them throws, so the throwing dispatch of
`SensorPipeline` stands for what is out of memory. `SocketStream` has the descriptors of `StatusServer`
once more, coarser, beside those of the other threads. `EventsWatch` takes from
`SensorPipeline` only in what order the threads start, count, stop and set `finished`.

**SafeQueue** (`simple_queue.h`). `q`, `m` are the fields; `pc[t]` is where thread
`t` stands, `message[t]` the array of its call. `CallEnqueue`/`CallDequeue` are the
calls, `Lock` the constructor of the lock, `Push` the pushes, `NotifyAll` the
notification under the mutex, `Wait` the test that finds `q` empty together with the
atomic release of `m` (what a condition variable guarantees), `Take` the pop loop,
`Unlock` the destructor. `SpuriousWakeup` ends a wait with no notification. A single
`enqueue` is a bulk of one and `dequeue` an array of one.

**SensorPipeline** (`sensor.h`, `data_aggregator.h`). A record is the number of its
line among the lines longer than 60 characters, the ones `collect` keeps, so a bulk or a pack is a
sequence of numbers. The local arrays of the three threads are `bulks`, `lines` and
`events`; the model keeps of them what is still to be handled. `data` is the content of
the `DataAggregator`.

| Thread | Actions |
|---|---|
| reader | `ReadChunk`, `ReadEnd` (the read that sets `eof`), `EnqueueBulk`, `EnqueueEnd` (`nullptr`), `ReaderReturns` |
| worker | `WorkerDequeue`, `Collect` (append, and swap the pack when `ready()`), `FlushLastPack`, `RelayEnd`, `EndResults`, `WorkerReturns` |
| sender | `SenderDequeue`, `Dispatch`, `DispatchThrows` (the handler is outside the loop over the batch), `Finish` |
| main | `Start`, `TraceOn`, `JoinReader`, `JoinSender`, `JoinWorker`, `TestAgain`, `SeeFinished`, `TraceOff` |
| others | `ClientConnects`, `ClientGone`, `TracingStopped` (a `stop` command) |

The worker stops its watch after it has enqueued the `nullptr`, so that `finished` can
be set, and `run(true)` return, before the reader and worker threads are gone: the
places `stop_watch` are there to tell that apart.

**SensorDaemon** (`main.cpp`, `linux_daemon.h`, `base_sensor.h`). Each command is
used once; the daemon of the start command `s` has `s` for its pid. `pc` and `pid` are
the command's, `sensor[s]` is where the daemon's main thread stands.

| Code | Actions |
|---|---|
| `main()` up to the command | `ReadPid`, `Test` (the `kill(pid, 0)`), `NothingToDo` |
| `start` | `Fork`, `ForkFails` |
| `stop` | `RemovePidFile`, `ClearFilters`, `KillTasks`, `TraceOffByStop`, `KillPid` |
| the daemon | `WritePid` (which appends), `DebugMode` (`-r`), `StartThreads`, `AddFilter`, `TraceOn`, `TraceEnds`, `TraceOff`, `Exit`, `Crash` |

`get_pids` lists the threads of a daemon for `KillTasks` and `AddFilter`. It gives none when
`popen()` fails, and other numbers when a thread id does not fit the `short` it is
parsed into. Either may happen at any of the two, whose second branch is that; `unlisted`
remembers the stops and the daemons it happened to. Such a stop has killed nobody before its last
`kill`, and such a daemon has a filter that does not keep it out of the trace (the
empty line or the wrong ids it writes are `NoPid`, or, when the kernel refuses them, the
filter that was there).

**StatusServer** (`linux_server_socket.h`, `sensor.h:92-114`). `socket_id` and
`socket_client_id` are the fields of the class; `file`, `backlog` and `peer` are the
kernel's. `Socket`, `Bind`, `Accept`, `AcceptNoFd`, `AcceptAborted` are the steps of
`listen()`; a `bind()` that fails leaks its socket, an `accept()` that fails leaves the
listening socket open; without a descriptor (`SocketFails`) `socket_id` is -1. `Test`,
`SendStatus`, `Close` are the inner loop, `StatusThrows` its exception, which is caught
outside the loop, closes nothing and leads back to `listen()` or, when the sensor has
finished, out; `Summary`, `CloseLast`, `Return` are what follows. A send to a client that is gone succeeds once
and then returns -1, as TCP does; SIGPIPE is ignored by `start()`. `Connect` and
`Leave` are the status commands, `Finish` the sender, `PortFreed` another program.

**TraceReader** (`utils.h:109-130`, `sensor.h:139-154`). Each `Read` fills the buffer
or meets the end; `Pieces` and `Carried` are what `split_string` returns and leaves.
This is a sequential algorithm: the model checks it on every trace of a bounded length
against a definition of lines that knows nothing of buffers (`Kept`).

**FileStreams** (`file_stream.h`, `file_aggr_stream.h`, `gzstream.C`, `main.cpp:17-37`). A
record is its number with a pid and a name, so that what the file holds can be compared with what was
dispatched. `traces` and `pnames` are the hash maps; `buffered` is what zlib keeps after a
`flush()` (which only reaches `gzwrite`), `disk` what a reader of the file would find, `bad` the
`badbit`, which nothing clears. `DispatchAggr` groups and, when `Full`, prints all groups in
any order; `DispatchFile` writes and flushes. `Write` lets any first part of what is written reach the
disk and may fail; the beginning of a line that is cut there does not count as one. `Ends` is a SIGKILL or the return of `run()`: `BaseSensor` deletes the
stream through a class without a virtual destructor, so nothing is closed or flushed.
`StartAgain` and `StartRefused` are start commands with the same file; the second is refused
because of the pid file, whether the sensor still runs or has died and left it. `file_aggr_stream.h`
has two constructors on top of each other (lines 14 and 16), of which the second is modelled.

**SocketStream**, **Base64** (`socket_stream.h`, `linux_socket.h`, `encoding.h`). `wire` is the
bytes put on the connection, `got` how many of them have arrived; `Received` is the
collector, which is not in the repository and is taken to read a length and a base64 text, as the frames are
made. `file[fd]` says what each descriptor is open on. `OpenTrace`, `EndTrace`, `CloseTrace` are the
reader, `Popen`, `WriteTo`, `Listen`, `Leak`, `Close`, `Return`, `End` the main thread, in the order of
`run(true)`. `server_id` and `client_id` are the fields of the server: they keep their numbers
after a `close()`, and a close is of the number (`ClosesNumber`), whoever has it by then. `Close` is
that of a client that has gone, `End` the summary with the `close()` behind it, which is the second of
both numbers when the client had gone, and the third, of the destructor, after
`clear_filters` (the four files `run()` writes last are any number of files here). `late` says that
the reader opened `trace_pipe` at one of the two numbers. `setup_daemon` has closed 0, 1 and 2, and the lowest free number is what the kernel
gives, so `socket_id` (3, even when the connect failed) and 1 (where `printf` writes)
may name anything. A packet that is only a part taken by `send()` does not occur on a blocking
socket that does not break; the signal of a broken connection is ignored (`disable_seg_pipe`).

**EventsWatch** (`events_measure.h`). `events`, `total_events`, `start_p`, `start_all`, `stop_p` are
the fields of the watches of the reader and the sender. An `add()` is `AddReads`, `AddWrites`,
`AddTotal`; a `now()` is `Now` and `Reset`. `Test`, `Wake`, `Summary` are the main thread, serving
a client. `reported` is the history of what the statuses have counted, `raced` the threads
for which an `add()` fell into a `now()`.

**TraceRecord** (`syscall_params.h`, `sys_record.h`, `sys_params_record.h`). A character is its code
less that of `'0'`, which is what the parsing computes with. `Printed` is ftrace's line (external), made of
fields that grow past their width; `RecordOf` cuts it at the columns of the code, `NumberIn`
(with `Value`, its loop) and `NameIn` are the constructors of the record, `Collect` is one turn of
the loop, with the exception that leaves the thread. A name has up to 15 characters (the
kernel's `TASK_COMM_LEN` is 16 with the end of the string), of which only the spaces differ.

## 3. The runs

| Run | Module, configuration | Shows |
|---|---|---|
| `safe_queue` | `MCSafeQueue` | `TypeOK`; `NoLostWakeup`; `SleeperIsWoken`; `IsMessageQueue` (refinement) |
| `pipeline` | `MCSensorPipeline` | `TypeOK`; `PackSizeBound`; `ReturnIsSafe`; `DeliveredInOrder`; `EveryRecordAccountedFor`; `FinishedMeansSettled`; `TraceEndLeadsToReturn`; `DeliversTheTrace` (refinement); no deadlock |
| `daemon_overlap` | `MCSensorDaemon`, `...Overlap.cfg` | `TypeOK`; `NoTraceForNobody` |
| `daemon_serial` | `MCSensorDaemon`, `...Serial.cfg` | `AtMostOneSensor`; `SensorIsRecorded`; `SensorKeepsItsTrace`; `StoppedSensorDies` |
| `stale_pid` | `MCSensorDaemon`, `...Stale.cfg` | `StalePidRemoved` is violated, see section 5 |
| `status_server` | `MCStatusServer` | `TypeOK`; `ServedGetTheSummary`; `ServerComesBack`; `ClientsAreReleased` |
| `trace_reader` | `MCTraceReader` | `ReaderTypeOK`; `LinesOfTheTrace` |
| `trace_record` | `MCTraceRecord` | `RecordTypeOK`; `RecordsOfTheTrace`; `CallsOfShiftedLines`; `OnlyOthersTerminate` |
| `events_watch` | `MCEventsWatch` | `TypeOK`; `ReportedOnce`; `SummaryIsExact` |
| `file_streams` | `MCFileStreams` | `TypeOK`; `EveryCallIsSomewhere`; `NamedByItsFirstCall`; `HeldBack`; `IsArchive` (refinement) |
| `held_traces` | `MCFileStreams`, `...Held.cfg` | `HoldsFewerTracesThanSize` is violated, see section 5 |
| `socket_stream` | `MCSocketStream` | `TypeOK`; `NobodyLosesADescriptor`; `CollectorReadsThePackets`; `ClientsGetOnlyStatuses` |

What they say, and the bounds:

- **safe_queue**: two producers, two consumers, two messages, an array of 2, bulks of
  0 to 2. Two threads of each kind are what every race on one mutex and one condition
  variable needs: two that contend, one that waits and one that overtakes it. `MaxBacklog = 2` disables
  calls to `enqueue` at that length, so the queue still grows to 5 messages, beyond a
  full array. Nothing is assumed of who gets a contended mutex.
- **pipeline**: batches, packs and chunks of up to 2, four reads before the last one, up
  to two dispatches that throw. Batches that are full, partial and empty, a pack that passes
  `pack_size`, a last pack that is short and one that is empty all occur. Deadlock is
  checked: a process that has returned, or whose sender has lost the `nullptr` with a batch
  that threw and waits for ever (`EndLost`), stutters in `AtRest`; any other deadlock would be a
  thread waiting for ever. `TraceEndLeadsToReturn` states these and the wait in `accept()` as the
  only ways the end of the trace does not lead to the return of `run()`.
  `ReturnIsSafe` says that with logging, where the threads are not joined, the
  only work a detached thread may still have is to stop its watch.
- **daemon_overlap**: three starts and two stops, issued at any moment, with any
  `get_pids` misled. No crash: `NoTraceForNobody` excepts it, and `daemon_serial` has two.
  Three starts let a daemon of each of the two others be alive or gone while the third
  is tested; the run uses the symmetry of the starts and of the stops (no liveness
  is checked in it). `NoTraceForNobody` holds because a `stop` kills the threads
  before it turns tracing off. A stop that `get_pids` has misled does not, and the daemon may
  turn tracing on again before the last `kill`: the property excepts it.
- **daemon_serial**: the same commands, each issued when the last is over *and* the
  last daemon has written its pid (the code does not wait for that, see the hazards),
  two crashes, and any `get_pids` misled, so that only the last `kill` of a stop finds
  the daemon. At most one sensor, named by the pid file, whose trace nobody takes, nor its
  filter, if it set one for its own threads; and a stop ends the sensor it found.
  With overlapping commands the first three are false, and the properties say so
  (`~Overlap =>`).
- **status_server**: three clients, four descriptors, a backlog of 2, one `accept()`
  that fails on its own, one status that throws, a port that may be in use at the start. Four descriptors are
  enough for the pair in use and two leaked ones, so that running out of them
  happens; the third client finds the backlog full. The liveness properties except
  a server that is `Wedged`: another program has the port, or had it until every descriptor
  was leaked; an `accept()` has failed, or a status has thrown, after which every `bind()` fails on
  the socket that still listens. A server that has met none of these never runs out of descriptors.
- **trace_reader**: every trace of up to 8 characters over two characters and the
  newline, read 3 at a time: up to three reads, every position of a newline relative to
  every end of the buffer, lines longer than the buffer. `LinesOfTheTrace` names the one character that is lost: `split_string`
  carries nothing over when a single character is left, so a line whose first character
  ends a read loses it.
- **trace_record**: traces of two lines; names with and without a space in front and of 15
  characters, pids of 1, 5 and 7 digits, times on both sides of 100000 seconds and of 7 digits, calls of 1
  to 3 digits and -1, whole lines and lines that lost a character, and lines of something
  else of 25, 60, 61, 62 and 80 characters. So the number of the call is at every distance from
  -1 to 4 columns from where it is read. A second line is enough for the order.
- **events_watch**: two events per thread, added one by one or together, three seconds. One
  status and the next, and an `add()` before, inside and after each, need no more.
  `ReportedOnce` excepts a thread whose `add()` fell into a `now()`: then an event is lost, or
  one is reported twice when the reset is undone.
- **file_streams**: three processes, groups printed at 2, four calls in packs of 1 or 2, two
  names, one more start command. Two printings, a group of two calls, a process that comes
  back after its group was printed and one that is never printed all happen.
- **socket_stream**: packets of 4, 2 and 3 bytes (each rest of a base64 group), one client,
  five descriptors (the three closed ones, 3 and one more), one leak. The reader may open
  first or late, both 1 and 3 can come to lie with a client, and all three closes of the server's
  numbers occur, also on a `trace_pipe` that was opened late, which is the exception of
  `NobodyLosesADescriptor` (`~late`): without it the property is false.

The streams, the counters and the records are checked for safety only: their liveness is that of
the sender, which `SensorPipeline` has.

Fairness. A thread or a process that can run is eventually scheduled: weak fairness per
thread (`SafeQueue`, `SensorPipeline`), per process (`SensorDaemon`), and of the main
thread (`StatusServer`). There is none on the environment: nobody need call,
connect, issue a command or stop the tracing, the kernel need not produce a read, a
dispatch need not throw and a crash need not happen. No strong fairness is used, in particular none on
the mutex. In `SensorPipeline` the reads themselves are unfair, so `TraceEndLeadsToReturn` starts
at `eof`.

## 4. The proofs

TLAPS proves the following for every value of the constants that satisfies the
assumptions of the modules: sizes and bounds positive where the code has positive
constants, producers and consumers distinct, `NULL` not a sequence of records, finitely
many start commands, clients that are none of the other things a descriptor may be open
on, packets of fewer than 2^30 bytes (the length of the text is an `int`,
`include/stream/socket_stream.h:60`), a read buffer of two characters at least
(`READ_BUFFER_SIZE` is 1024), names of fewer than 16 characters, pids and times that
are not negative, and no line of 63 or 64 characters that is not of `sys_enter` (see section 6). The bounds of the model (`MaxBacklog`, `MaxChunks`,
`MaxThrows`, `MaxAborts`, `MaxCrashes`, `MaxLeaks`, `MaxRecords`, ...) are arbitrary too.

**TraceProofs.** For any buffer, trace, threads, messages, bulks, names, pids, times and calls:

| Theorem | Property | In words |
|---|---|---|
| `ReaderTypeCorrect` | `ReaderTypeOK` | types; no line holds the end of a line |
| `LinesAreOfTheTrace` | `LinesOfTheTrace` | wherever the reads cut it, the lines are the trace, but for the lone characters |
| `QueueTypeCorrect` | `TypeOK` | types |
| `WakeupsAreNotLost` | `NoLostWakeup` | nobody sleeps beside messages, unless a producer is about to notify |
| `ImplementsMessageQueue` | `IsMessageQueue` | refinement |
| `RecordTypeCorrect` | `RecordTypeOK` | types; a name has 16 characters at most, a call fits its `short` |
| `OthersTerminate` | `OnlyOthersTerminate` | no line of `sys_enter` makes the worker throw |
| `RecordsAreOfTheTrace` | `RecordsOfTheTrace` | the records are those of the trace while the columns hold |
| `ShiftedCallsAreLost` | `CallsOfShiftedLines` | and what is read instead of the call when they do not |

*The lines.* The invariant of `TraceReader` adds to the two properties that until `eof` what has been
taken is a multiple of the buffer: it is what makes the character `Carried` drops the
one `Kept` leaves out, since a read ends at it. `SplitsEverything` says of any string that its
`Pieces`, laid end to end, and what follows its last newline are the string; it is proved by
induction on the string (`SplitsMoreOfLine`, `SplitsEndOfLine`). A read then adds to both sides
of the equation what it takes (`ReadAddsWhatItTakes`), with the string of the next read beginning
where `Carried` has left off.

*The queue.* The inductive invariant is `TypeOK /\ MutexHeldInside /\ NoLostWakeup`: that a thread
inside the critical section holds the mutex is what excludes a push between the test of
`q` and the wait, and a wait between the push and its notification. The refinement needs the
first two parts: `Push` and `Take` map to the instants of the abstract operations,
every other step to a call, a return or a stutter.

*The records.* `PrintedColumns` says where the fields of a printed line begin, for a pid and a
time of any width, and `LineColumns` the same of a line that may have lost its first
character, in terms of its `Shift`. `ValueOfDigits` says that reading the digits of a number gives the
number (`Value` and `Digits` are both recursive; the induction is on the number), `NumberOfDigits`
the same of digits at the left of their columns. With these a whole line gives its record
(`RightRecord`), and a shifted one "NR", a part of it, or a space (`ShiftedCall`); any line that is long
enough gives some record of the right type (`RecordType`). The invariant then only has
to say that `data` are the records of the lines that were read, in order, and that
the line a worker that threw has stopped at is still to be collected.

**SensorPipelineProofs.**

| Theorem | Property | In words |
|---|---|---|
| `TypeCorrect` | `TypeOK` | types |
| `OrderKept` | `DeliveredInOrder` | the stream gets the records in order, none twice |
| `NothingDropped` | `EveryRecordAccountedFor` | a record read is delivered, lost with a dispatch that threw, or still in the pipeline |
| `FinishedIsSettled` | `FinishedMeansSettled` | `finished` means nothing is outstanding |
| `PacksBounded` | `PackSizeBound` | no pack is empty or exceeds `pack_size` by a whole bulk |
| `SafeReturn` | `ReturnIsSafe` | once `run()` has returned no thread uses the queues, the aggregator or the stream; with logging a detached reader or worker may still stop its watch, which is a member of the sensor |
| `ImplementsTraceDelivery` | `DeliversTheTrace` | refinement |

None of the properties is inductive. The inductive invariant `IInv` has four parts:

1. `Sizes`: the types, with what each queue may hold: bulks of at most `MaxChunk`
   records up to the worker, packs of 1 to `PackSize + MaxChunk - 1` after it, and
   fewer than `PackSize` records in the aggregator between two steps.
2. `Control`: where the main thread stands relative to the others, and
   `finished <=> sender = "returned"`.
3. `Ends`: where `nullptr` may be. While the reader runs there is none; then it is the
   last message of the stream queue or of the worker's array, with nothing behind it; only
   when the worker has passed it on is there one in the result queue, again
   the last. This is what makes "the `nullptr` overtakes nothing" a state predicate.
4. `Flow`: there are `d0 <= d1 <= ... <= d5 <= read` such that the settled records are
   `1..d0` and the sender's array, the result queue, the aggregator, the worker's
   array, the stream queue and the reader's array hold, laid end to end, the next
   stretches, each the run of numbers between two marks. A queue of sequences
   is described by a function from positions to marks (`Spans`), not by flattening it,
   so that no recursion is involved; the first part of the module proves what appending,
   taking a prefix and taking the head do to it.

`Sizes` and `Control` are preserved on their own; `Ends` needs the types and
`Control`; `Flow` needs all three: it is `Ends` that says nothing is abandoned with
the rest of the worker's array. `FinishedIsSettled` follows from `Flow` with `Ends`: with the
sender returned every container is empty of records, so `d0 = read`.

**SensorDaemonProofs.** For any start and stop commands, and any number of crashes:

| Theorem | Property | In words |
|---|---|---|
| `TypeCorrect` | `TypeOK` | types; the pid file never has more pids than there are starts (several, when they overlap) |
| `TracesForSomebody` | `NoTraceForNobody` | the kernel does not go on tracing for nobody |
| `OneSensor` | `AtMostOneSensor` | one command after the other: one sensor |
| `Recorded` | `SensorIsRecorded` | and the pid file names it |
| `KeepsItsTrace` | `SensorKeepsItsTrace` | and nobody takes its trace, nor the filter it set for its own threads |

None of the others is inductive. For the second, whichever commands overlap:
`PidsOfDaemons` (a pid in the file, or read from it, is that of a daemon that was
forked), `KilledByTask` (a stop past `kill_tasks` has killed its daemon, so its last
`kill` takes no tracing sensor from under `tracing_on`, unless `get_pids` misled it) and
`Traced` (while the kernel traces, some daemon traces or some stop is about to turn
tracing off). For the other three, one command after the other: `Serial` (the one command
that runs has read what the pid file still says, and a stop that kills leaves no file) and
`Sole` (one sensor is alive, and the pid file names it, or it has yet to write it, or the
stop that runs is about to kill it; until then it keeps its trace and its filter).
The two need each other: a `start` forks only when no pid file
was there, and `Sole` says that then nothing is alive.

**StatusServerProofs.** `TypeCorrect` (`TypeOK`: however many sockets are leaked, one
listens) and `SummaryBeforeClose` (`ServedGetTheSummary`), for any clients, descriptors
and failures. Beside the types the invariant has `Queues` (until it is accepted a client
is in one place of one backlog), `Connection` (from then on it is at the other end of the
one connection the server has, which is found broken, and closed, only when the client
has left; after a status that threw, `Lost`, it stays open while the server tries to
listen beside the socket it has lost), `Informed` (whoever was let go after `finished`
was told) and `OneListens`.

**EventsWatchProofs.** `TypeCorrect`, `NoneReportedTwice` (`ReportedOnce`) and
`SummarySaysAll` (`SummaryIsExact`), for any number of events and seconds and any
interleaving of `add()`, `now()` and `reset()`. `Counted` bounds the counters by what a running `add()` has in
hand, `Ordered` says in which order the threads end; on them rest `Balance`, the account
of the rates, and `Frozen`, that nothing a summary was made of changes afterwards.

**FileStreamsProofs.** For any processes, names and sizes, however the packs are cut:

| Theorem | Property | In words |
|---|---|---|
| `TypeCorrect` | `TypeOK` | types |
| `LinesAreNamed` | `NamedByItsFirstCall` | a line bears the name of the first of its calls |
| `HeldBackBounded` | `HeldBack` | fewer than `_size` processes are held back, and with no more there is nothing in the file |
| `NothingLost` | `EveryCallIsSomewhere` | as long as no write fails each call is on the disk, with zlib or in its group, once and in order |
| `ImplementsArchive` | `IsArchive` | refinement: whatever fails or ends, the file has an unbroken run of each process's calls |

The inductive invariant is `Types /\ Groups /\ File /\ Flow`: every group begins with the
call that brought its name, every line is named like that, and (`Flow`) the calls of each
process are those that a `start` has cut off, those on the disk and a rest, which with zlib and the
group makes up what is to come as long as the sensor runs and no write has failed. The
properties speak of the calls of a process in a sequence of records or lines, which are
collected with `FlattenSeq`; what appending, concatenating and printing the groups one after the other
do to them are lemmas.

**SocketStreamProofs.** For any packets, descriptors, clients and leaks:

| Theorem | Property | In words |
|---|---|---|
| `DecodeOfEncode` | | `base64_decode` gives back what `base64_encode` was given, at any length |
| `TypeCorrect` | `TypeOK` | types; the main thread never has more than two descriptors open |
| `RepeatedCloses` | `NobodyLosesADescriptor` | the second and third close of the server's numbers never reach the connection, nor what another thread has open unless the reader was late |
| `ClientsAreSafe` | `ClientsGetOnlyStatuses` | no client gets a packet or a text, with the exceptions named |
| `CollectorIsServed` | `CollectorReadsThePackets` | the collector reads the packets in order, none torn, and all when nothing is under way |

For the descriptors the invariant has `Linked` (a connection that holds is 3, and no number
that is closed names it), `Numbers` (what `server_id` and `client_id` name, and that
`trace_pipe` is at neither unless the reader was late), `Owned` (everyone has open what he
believes, save after the last client when the reader was late), `Stack`
(how many descriptors the main thread has at each place, and which one is a client's),
`Low` (`trace_pipe`, or the oldest descriptor of the main thread, keeps 0, and 1 when
`trace_pipe` has 0) and `NoLeak` (without a leak 0 to 2 are all that reader and main thread use).
For the collector it has `Carried`: what has arrived is a beginning of the
frames of the packets dispatched, laid end to end, and what is on a connection that holds is
all of them. That this much of the wire is read as those packets, and as nothing else, is
`ReceivedPackets`.

*Recursive functions.* `FlattenSeq`, `Received`, `Digits` and `Value` are defined by recursion, and the
induction theorems of the library, which take an operator, cannot be used. The proofs take
a least counterexample instead (`LeastElement`, and `EveryNumber`, which says it of sets:
a set with 0 and all successors has every number). That a recursive function exists is
proved by building it up from the end where the recursion stops (`FlattensExists`,
`ReadsExists`, `SpellsExists`, `ValuesExists`); what it gives then follows by the same induction.

Every safety invariant the passing runs check is a theorem, and so is every refinement. Only
model-checked is all liveness (`SleeperIsWoken`, `TraceEndLeadsToReturn`,
`StoppedSensorDies`, `ServerComesBack`, `ClientsAreReleased`), which is out of reach of
the prover.

## 5. What the code does and its comments do not say

`main.cpp:49-52` reads `if (kill(pid, 0) == ESRCH)`, commented "the pid exists but the
process is not running" and "remove the pid file". `kill()` returns 0 or -1 and puts
`ESRCH` in `errno`, so the branch is never taken. Run `stale_pid`: a sensor dies,
the next command reads its pid, and the pid file stays. `start` then answers "The
sensor is running." until a `stop` removes the file (and waits five seconds to kill
nobody).

`README:24` says of `-a` "The default value is 1024 traces." `file_aggr_stream.h:41` compares
1024 with the number of processes that have a group. Run `held_traces`: one process may make any
number of calls and all of them stay in memory. `HeldBack` states what the code does: never
are `_size` processes held back, and with fewer nothing is in the file.

From the 100000th second after the boot on (27.8 hours) the line of an event is one column
longer, and `syscall_params.h:27` reads the space in front of the number of the call:
every call is recorded as number 0. A pid of six digits does the same and is cut to five.
With seven digits of either, or six of both, it is the `R` of `NR` that is read, which makes every call number 34
(`'R' - '0'`); then `NR`, which makes 334, and then a space again. A line that has lost its first
character is one column shorter, and a call of one digit is 0 in it.
`CallsOfShiftedLines` states this, next to what `RecordsOfTheTrace` says of the rest.

The status server listens on 8787 whatever is given (`linux_server_socket.h:14`), the examples
of `README` connect to 35678.

Other behaviours the models make explicit as exceptions in their properties: a start command
exits before its daemon has written the pid (`linux_daemon.h:29`), so that two commands in a row may overlap; a `stop` removes the pid file first and turns tracing
off seconds later; `run(true)` does not notice the end of the trace before a client connects
and leaves or is told; the sender that loses the `nullptr`; the server wedged by a failed
`accept()` or by a status that throws, whose `catch` (`sensor.h:105`) closes nothing, so that
`listen()` fails on the sensor's own port for ever and tracing is never turned off; a stop or
a filter whose `get_pids` has failed; a `trace_pipe` closed by the second `close()` of
the server's numbers; the lone character at the end of a read; `print_all` announces "close this file and open
new file" (`file_aggr_stream.h:58`) and would do so when `_file_index` is a multiple of 10, but it is
11 from the constructor on; packets that go to a
status client after a connect failed and a socket was leaked; a start that is refused and has
truncated the log.

## 6. Not modelled

- `single_sensor`: included by `main.cpp`, never instantiated (its `dispatch` would not compile).
- The vendored code is 13,776 of the 15,963 lines of the repository: `json.hpp` and the moodycamel queues,
  which nothing uses, and `format`, which lays out text. Of the code of this
  repository that runs, what is left out is the following.
- The wording of statuses, packets, records and messages, help texts, locales, how options are
  found among the arguments, includes.
- `dumy_stream`, which drops what it gets; `console_stream` and `memory_stream`, which
  `setup_stream` never makes; `Syscalls`, `connect` and `receive` of the server class, `microsec`,
  `parse_trace`, `split3`, `fast_atoi`, `find_last_linefeed`, which nothing calls.
- `size_approx`, which reads the queue without the mutex: a number printed in a status.
- Reuse of pids by the system, and what else a truncated thread id may name. Which ids are
  wrong is not told apart either: a list of threads is right or misleads whoever asked for it.
- `get_summary` that throws: it is outside the `try`, so the exception ends the process,
  which is a `Crash` of `SensorDaemon`. A `get_status` that throws is in `StatusServer` only;
  `SocketStream` leaves it out, since the main thread serves nobody after it.
- Torn lines. A write that fails, or a kill, may leave the beginning of a line on the disk
  (`gzstream.C:103-111`, `file_stream.h:22`); the file of `FileStreams` has whole lines, and what
  was cut counts as not written.
- `trace_pipe` that cannot be opened: `eof` is never set and the reader enqueues empty
  bulks for ever. The unfair reader of `SensorPipeline` covers such a run, which breaks
  no safety property.
- `workers_size`, which nothing uses: there is one worker.
- A `send()` that blocks because the peer does not read, with the sender or the main thread behind
  it; lines of 63 and 64 characters, which are read past their end.

## 7. Where this stands

All components of the table in section 1 that run are modelled, their properties are checked, and every
safety property and refinement among them is proved. A change of the code begins at the row of
section 2 it belongs to: the module, its run, then its proof, whose invariant names what the
change has to keep. What could be added is in section 6.
