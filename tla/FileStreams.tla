----------------------------- MODULE FileStreams ----------------------------
(***************************************************************************)
(* include/stream/file_stream.h and file_aggr_stream.h with the gzip layer *)
(* of lib/gzstream.C: what of the dispatched records reaches the file, and *)
(* what a full disk, the end of the sensor and another start do to it.     *)
(*                                                                         *)
(* file_stream writes each pack and flushes it. file_aggr_stream groups    *)
(* the calls by process and writes the groups once there are enough of     *)
(* them; its flush() reaches zlib, which writes to the disk when it likes. *)
(*                                                                         *)
(* A record is its number in the order of dispatch, with a pid and a name; *)
(* a line of the file is one record, or the group of one process.          *)
(***************************************************************************)
EXTENDS Integers, FiniteSets, Sequences, SequencesExt

CONSTANTS
    Pids,           \* processes whose calls are traced
    Names,          \* names they bear; a process may change its own
    Size,           \* _size: groups that make file_aggr_stream print
    MaxPack,        \* bound of the model: records of a pack
    MaxRecords,     \* bound of the model: records a sensor dispatches
    MaxStarts       \* bound of the model: start commands after the first

ASSUME FileStreamsAssumption ==
    /\ {Size, MaxPack} \subseteq Nat \ {0}
    /\ {MaxRecords, MaxStarts} \subseteq Nat

VARIABLES
    stream,         \* the class setup_stream chose
    running,        \* the sensor runs
    records,        \* history: the records dispatched by this sensor
    traces,         \* the numbers of the records grouped by process
    pnames,         \* the name of each group
    buffered,       \* lines zlib holds
    disk,           \* lines in the file since it was opened last
    headless,       \* the file was truncated under the sensor
    bad,            \* badbit of _file
    starts          \* start commands after the first

groupVars == <<traces, pnames>>
fileVars  == <<buffered, disk, bad>>
vars == <<stream, running, records, groupVars, fileVars, headless, starts>>

Packs == UNION { [1..n -> [pid : Pids, name : Names]] : n \in 1..MaxPack }

NoGroups == [p \in {} |-> <<>>]

(* setup_stream opens the file, an old one of that name loses its content; *)
(* when it cannot be opened the stream is bad from the start.              *)
Opened ==
    /\ records' = <<>> /\ traces' = NoGroups /\ pnames' = NoGroups
    /\ buffered' = <<>> /\ disk' = <<>> /\ headless' = FALSE
    /\ bad' \in BOOLEAN

Init ==
    /\ stream \in {"file_stream", "file_aggr_stream"} /\ running = TRUE
    /\ records = <<>> /\ traces = NoGroups /\ pnames = NoGroups
    /\ buffered = <<>> /\ disk = <<>> /\ headless = FALSE
    /\ bad \in BOOLEAN
    /\ starts = 0

-----------------------------------------------------------------------------
(* The file *)

(* Mutant of Write: a stream that has failed is written to again. *)
WriteAfterFailure(lines) ==
    LET all == buffered \o lines
    IN \E n \in 0..Len(all) :
           /\ disk' = disk \o SubSeq(all, 1, n)
           /\ \/ /\ buffered' = SubSeq(all, n + 1, Len(all))
                 /\ stream = "file_stream" => n = Len(all)
                 /\ bad' = bad
              \/ n < Len(all) /\ buffered' = <<>> /\ bad' = TRUE

(* Lines are written and flushed. A first part of what zlib has reaches    *)
(* the disk, all of it without zlib; or a write fails, the rest is never   *)
(* written, and neither is anything that is given to the stream later. The *)
(* beginning of a line that was cut there is not counted as a line.        *)
Write(lines) ==
    LET all == buffered \o lines
    IN IF bad THEN UNCHANGED fileVars
       ELSE \E n \in 0..Len(all) :
               /\ disk' = disk \o SubSeq(all, 1, n)
               /\ \/ /\ buffered' = SubSeq(all, n + 1, Len(all))
                     /\ stream = "file_stream" => n = Len(all)
                     /\ bad' = FALSE
                  \/ n < Len(all) /\ buffered' = <<>> /\ bad' = TRUE

-----------------------------------------------------------------------------
(* file_aggr_stream *)

(* The numbers, in a pack that follows n records, of those of process p. *)
CallsOf(p, pack, n) ==
    FlattenSeq([i \in 1..Len(pack) |-> IF pack[i].pid = p THEN <<n + i>> ELSE <<>>])

PidsOf(pack) == { pack[i].pid : i \in 1..Len(pack) }

(* Mutant of Grouped: a new group is made without the call that makes it. *)
GroupedWithoutFirst(pack) ==
    [p \in DOMAIN traces \cup PidsOf(pack) |->
        IF p \in DOMAIN traces THEN traces[p] \o CallsOf(p, pack, Len(records))
        ELSE Tail(CallsOf(p, pack, Len(records)))]

(* The calls of the pack are added to the groups of their processes. *)
Grouped(pack) ==
    [p \in DOMAIN traces \cup PidsOf(pack) |->
        (IF p \in DOMAIN traces THEN traces[p] ELSE <<>>)
            \o CallsOf(p, pack, Len(records))]

(* Mutant of Named: each record gives its name to the group. *)
NamedByTheLast(pack) ==
    [p \in DOMAIN pnames \cup PidsOf(pack) |->
        IF p \notin PidsOf(pack) THEN pnames[p]
        ELSE pack[Last(CallsOf(p, pack, 0))].name]

(* A group keeps the name that came with its first call. *)
Named(pack) ==
    [p \in DOMAIN pnames \cup PidsOf(pack) |->
        IF p \in DOMAIN pnames THEN pnames[p]
        ELSE pack[Head(CallsOf(p, pack, 0))].name]

(* Mutant of Full: the test is for more than _size groups. *)
FullPastSize(groups) == Cardinality(DOMAIN groups) > Size

Full(groups) == Cardinality(DOMAIN groups) >= Size

(* A line for each group, with its name and its calls. *)
GroupLines(order, groups, names) ==
    [i \in 1..Len(order) |->
        [pid |-> order[i], name |-> names[order[i]], calls |-> groups[order[i]]]]

(* Mutant of PrintAll: the names are not cleared. *)
PrintAllKeepingNames(groups, names) ==
    /\ \E order \in SetToSeqs(DOMAIN groups) :
           Write(GroupLines(order, groups, names))
    /\ traces' = NoGroups /\ pnames' = names

(* print_all: a line for each group, in the order of the hash map, and no  *)
(* group is left. The file is never changed for another: _file_index is 11 *)
(* from the constructor on.                                                *)
PrintAll(groups, names) ==
    /\ \E order \in SetToSeqs(DOMAIN groups) :
           Write(GroupLines(order, groups, names))
    /\ traces' = NoGroups /\ pnames' = NoGroups

DispatchAggr(pack) ==
    /\ stream = "file_aggr_stream"
    /\ IF Full(Grouped(pack)) THEN PrintAll(Grouped(pack), Named(pack))
       ELSE /\ traces' = Grouped(pack) /\ pnames' = Named(pack)
            /\ UNCHANGED fileVars

-----------------------------------------------------------------------------
(* file_stream *)

(* A line for each record. *)
RecordLines(pack) ==
    [i \in 1..Len(pack) |->
        [pid |-> pack[i].pid, name |-> pack[i].name, calls |-> <<Len(records) + i>>]]

DispatchFile(pack) ==
    /\ stream = "file_stream"
    /\ Write(RecordLines(pack))
    /\ UNCHANGED groupVars

-----------------------------------------------------------------------------
(* The sender dispatches a pack. *)
Dispatch(pack) ==
    /\ running
    /\ Len(records) + Len(pack) <= MaxRecords
    /\ DispatchAggr(pack) \/ DispatchFile(pack)
    /\ records' = records \o pack
    /\ UNCHANGED <<stream, running, headless, starts>>

(* The sensor is killed, or run() returns and BaseSensor deletes the       *)
(* stream: through sensor_stream, which has no virtual destructor, so that *)
(* nothing closes the file. Groups and what zlib holds are gone.           *)
Ends ==
    /\ running
    /\ running' = FALSE
    /\ traces' = NoGroups /\ pnames' = NoGroups /\ buffered' = <<>>
    /\ UNCHANGED <<stream, records, disk, headless, bad, starts>>

(* start with the same options after a stop. *)
StartAgain ==
    /\ ~running /\ starts < MaxStarts
    /\ running' = TRUE
    /\ starts' = starts + 1
    /\ Opened
    /\ UNCHANGED stream

(* start with the same options while the sensor runs, or after it has died *)
(* and left its pid file: setup_stream has truncated the file before "The  *)
(* sensor is running." A sensor that does goes on writing at its old       *)
(* place, past a hole if it has written anything, be it less than a line;  *)
(* gzip cannot read such a file.                                           *)
StartRefused ==
    /\ starts < MaxStarts
    /\ starts' = starts + 1
    /\ headless' \in {headless \/ disk # <<>>, TRUE}
    /\ disk' = <<>>
    /\ UNCHANGED <<stream, running, records, groupVars, buffered, bad>>

Next == (\E pack \in Packs : Dispatch(pack)) \/ Ends \/ StartAgain \/ StartRefused

Spec == Init /\ [][Next]_vars
-----------------------------------------------------------------------------
(* Properties *)

Lines == [pid : Pids, name : Names, calls : Seq(1..MaxRecords)]

(* The calls of process p in lines. *)
CallsIn(p, lines) ==
    FlattenSeq([i \in 1..Len(lines) |-> IF lines[i].pid = p THEN lines[i].calls ELSE <<>>])

(* file_aggr_stream.h:49-50: every group has a name, which print_all uses  *)
(* without looking.                                                        *)
TypeOK ==
    /\ stream \in {"file_stream", "file_aggr_stream"}
    /\ {running, headless, bad} \subseteq BOOLEAN
    /\ records \in Seq([pid : Pids, name : Names])
    /\ DOMAIN traces \subseteq Pids /\ DOMAIN pnames = DOMAIN traces
    /\ \A p \in DOMAIN traces : traces[p] \in Seq(1..MaxRecords) /\ pnames[p] \in Names
    /\ buffered \in Seq(Lines) /\ disk \in Seq(Lines)
    /\ starts \in 0..MaxStarts

(* file_aggr_stream.h:20-57, file_stream.h:15-24: as long as the sensor    *)
(* runs, its file is whole and no write has failed, each call of a process *)
(* is on the disk, with zlib or in its group, once and in order, wherever  *)
(* the packs are cut and whenever the groups are printed.                  *)
EveryCallIsSomewhere ==
    running /\ ~bad /\ ~headless =>
        \A p \in Pids :
            CallsIn(p, disk) \o CallsIn(p, buffered)
                \o (IF p \in DOMAIN traces THEN traces[p] ELSE <<>>)
            = CallsOf(p, records, 0)

(* file_aggr_stream.h:37-39, 55-56: a line bears the name its process had  *)
(* at the first of the calls in it, never that of an earlier line.         *)
NamedByItsFirstCall ==
    \A queue \in {buffered, disk} : \A i \in 1..Len(queue) :
        /\ queue[i].calls # <<>>
        /\ queue[i].name = records[Head(queue[i].calls)].name

(* file_aggr_stream.h:41-42: never more than Size - 1 processes are held   *)
(* back; and a machine with fewer processes has nothing in its file, be    *)
(* their calls ever so many.                                               *)
HeldBack ==
    /\ Cardinality(DOMAIN traces) < Size
    /\ stream = "file_aggr_stream" /\ Cardinality(PidsOf(records)) < Size
           => buffered \o disk = <<>>

(* What can be read: gzip reads no file without its beginning. *)
Readable(p) ==
    IF headless /\ stream = "file_aggr_stream" THEN <<>> ELSE CallsIn(p, disk)

(* file_stream.h, file_aggr_stream.h, main.cpp:107: whatever fails, ends   *)
(* or is started, the file keeps an unbroken run of the calls of each      *)
(* process.                                                                *)
Log == INSTANCE Archive WITH
    accepted <- [p \in Pids |-> CallsOf(p, records, 0)],
    archived <- [p \in Pids |-> Readable(p)]

IsArchive == Log!Spec

(* README:24: "The default value is 1024 traces." - traces are written     *)
(* once there are so many.                                                 *)
HoldsFewerTracesThanSize ==
    MapThenSumSet(LAMBDA p : Len(traces[p]), DOMAIN traces) < Size
=============================================================================
