---------------------------- MODULE SensorDaemon ----------------------------
(***************************************************************************)
(* main.cpp and include/utils/linux_daemon.h: the start and stop commands, *)
(* the daemons the starts fork, and what they share: the pid file and the  *)
(* kernel's tracing_on and filter files.                                   *)
(*                                                                         *)
(* Each command is a process that runs main() once. The daemon forked by   *)
(* the start command s is called s too, and s is its pid. The threads of a *)
(* daemon are module SensorPipeline; here the daemon is where its main     *)
(* thread stands. Left out are the stream, the status command, which only  *)
(* reads, and the enable files, which nothing reads back.                  *)
(***************************************************************************)
EXTENDS Naturals, Sequences, FiniteSets

CONSTANTS
    Starts,         \* start commands
    Stops,          \* stop commands
    NoPid,          \* -1: there is no pid file, or nothing in it yet
    Overlap,        \* FALSE: a command is issued when the last one is over
    MaxCrashes      \* bound of the model: daemons that die on their own

ASSUME SensorDaemonAssumption ==
    /\ Starts \cap Stops = {} /\ IsFiniteSet(Starts)
    /\ NoPid \notin Starts
    /\ Overlap \in BOOLEAN
    /\ MaxCrashes \in Nat

VARIABLES
    pc,             \* where each command stands in main()
    pid,            \* the pid it read
    sensor,         \* where the daemon of each start stands
    ended,          \* daemons whose reader met the end of the trace
    pid_file,       \* the pids in the pid file; none: there is no file
    tracing_on,     \* the kernel traces
    filter,         \* the daemon whose threads are not traced
    crashes,        \* daemons that died on their own
    unlisted        \* history: the stops and daemons that get_pids misled

commandVars == <<pc, pid>>
sensorVars  == <<sensor, ended>>
mishaps     == <<crashes, unlisted>>
vars == <<commandVars, sensorVars, pid_file, tracing_on, filter, mishaps>>

Commands == Starts \cup Stops
Alive(s) == sensor[s] \notin {"none", "dead"}
Reading(s) == sensor[s] \in {"started", "filtered", "tracing"}

(* No command is running and each daemon has written its pid.              *)
Quiet ==
    /\ \A c \in Commands : pc[c] \in {"new", "done"}
    /\ \A s \in Starts : sensor[s] # "forked"

Init ==
    /\ pc = [c \in Commands |-> "new"]
    /\ pid = [c \in Commands |-> NoPid]
    /\ sensor = [s \in Starts |-> "none"]
    /\ ended = {}
    /\ pid_file = <<>> /\ tracing_on = FALSE /\ filter = NoPid
    /\ crashes = 0 /\ unlisted = {}

Goto(c, from, to) == pc[c] = from /\ pc' = [pc EXCEPT ![c] = to]
Advance(s, from, to) == sensor[s] = from /\ sensor' = [sensor EXCEPT ![s] = to]

(* What SIGKILL to p does. *)
Killed(p) == IF Alive(p) THEN [sensor EXCEPT ![p] = "dead"] ELSE sensor

-----------------------------------------------------------------------------
(* Every command *)

(* Mutant of ReadPid: the pid is 0 when there is no file. *)
ReadPidOrZero(c) ==
    /\ Overlap \/ Quiet
    /\ Goto(c, "new", "test")
    /\ pid' = [pid EXCEPT ![c] = IF pid_file = <<>> THEN 0 ELSE Head(pid_file)]
    /\ UNCHANGED <<sensorVars, pid_file, tracing_on, filter, mishaps>>

(* get_sensor_pid: the first pid in the file, if there is one. *)
ReadPid(c) ==
    /\ Overlap \/ Quiet
    /\ Goto(c, "new", "test")
    /\ pid' = [pid EXCEPT ![c] = IF pid_file = <<>> THEN NoPid ELSE Head(pid_file)]
    /\ UNCHANGED <<sensorVars, pid_file, tracing_on, filter, mishaps>>

(* What the system call kill(p, 0) returns; -1 sends to every process.     *)
ESRCH == 3
Kill0(p) == IF p = NoPid \/ Alive(p) THEN 0 ELSE 0 - 1

(* Mutant of Test: the pid file removed when the process is there.         *)
TestInverted(c) ==
    /\ Goto(c, "test", "act")
    /\ pid_file' = IF Kill0(pid[c]) = 0 THEN <<>> ELSE pid_file
    /\ UNCHANGED <<pid, sensorVars, tracing_on, filter, mishaps>>

(* The test for a process that is gone: kill() never returns ESRCH, which  *)
(* is a value of errno.                                                    *)
Test(c) ==
    /\ Goto(c, "test", "act")
    /\ pid_file' = IF Kill0(pid[c]) = ESRCH THEN <<>> ELSE pid_file
    /\ UNCHANGED <<pid, sensorVars, tracing_on, filter, mishaps>>

(* "The sensor is running." or "The sensor is NOT running."                *)
NothingToDo(c) ==
    /\ IF c \in Starts THEN pid[c] # NoPid ELSE pid[c] = NoPid
    /\ Goto(c, "act", "done")
    /\ UNCHANGED <<pid, sensorVars, pid_file, tracing_on, filter, mishaps>>

-----------------------------------------------------------------------------
(* start: setup_daemon *)

(* Mutant of Fork: the pid that was read is not looked at. *)
ForkAnyway(s) ==
    /\ Goto(s, "act", "done")
    /\ Advance(s, "none", "forked")
    /\ UNCHANGED <<pid, ended, pid_file, tracing_on, filter, mishaps>>

(* fork(): the command is over before the daemon has written its pid.      *)
Fork(s) ==
    /\ pid[s] = NoPid
    /\ Goto(s, "act", "done")
    /\ Advance(s, "none", "forked")
    /\ UNCHANGED <<pid, ended, pid_file, tracing_on, filter, mishaps>>

ForkFails(s) ==
    /\ pid[s] = NoPid
    /\ Goto(s, "act", "done")
    /\ UNCHANGED <<pid, sensorVars, pid_file, tracing_on, filter, mishaps>>

-----------------------------------------------------------------------------
(* stop: remove_sensor_pid and kill_sensor *)

RemovePidFile(c) ==
    /\ pid[c] # NoPid
    /\ Goto(c, "act", "clear")
    /\ pid_file' = <<>>
    /\ UNCHANGED <<pid, sensorVars, tracing_on, filter, mishaps>>

(* The filters are removed, then the command sleeps for 5 seconds.         *)
ClearFilters(c) ==
    /\ Goto(c, "clear", "kill_tasks")
    /\ filter' = NoPid
    /\ UNCHANGED <<pid, sensorVars, pid_file, tracing_on, mishaps>>

(* A signal to any of its threads kills the daemon. But get_pids gives     *)
(* none when popen() fails, and other numbers than their ids when these do *)
(* not fit a short.                                                        *)
KillTasks(c) ==
    /\ Goto(c, "kill_tasks", "trace_off")
    /\ \/ sensor' = Killed(pid[c]) /\ unlisted' = unlisted
       \/ sensor' = sensor /\ unlisted' = unlisted \cup {c}
    /\ UNCHANGED <<pid, ended, pid_file, tracing_on, filter, crashes>>

(* Mutant of TraceOffByStop: tracing is left on. *)
LeaveTraceOn(c) ==
    /\ Goto(c, "trace_off", "kill")
    /\ UNCHANGED <<pid, sensorVars, pid_file, tracing_on, filter, mishaps>>

TraceOffByStop(c) ==
    /\ Goto(c, "trace_off", "kill")
    /\ tracing_on' = FALSE
    /\ UNCHANGED <<pid, sensorVars, pid_file, filter, mishaps>>

(* Mutant of KillPid: only the threads listed by get_pids are killed.      *)
KillPidForgotten(c) ==
    /\ Goto(c, "kill", "done")
    /\ UNCHANGED <<pid, sensorVars, pid_file, tracing_on, filter, mishaps>>

KillPid(c) ==
    /\ Goto(c, "kill", "done")
    /\ sensor' = Killed(pid[c])
    /\ UNCHANGED <<pid, ended, pid_file, tracing_on, filter, mishaps>>

-----------------------------------------------------------------------------
(* The daemon *)

(* write_to appends, to the file another daemon may have written.          *)
WritePid(s) ==
    /\ Advance(s, "forked", "recorded")
    /\ pid_file' = Append(pid_file, s)
    /\ UNCHANGED <<commandVars, ended, tracing_on, filter, mishaps>>

(* start -r: the daemon has nothing to run. *)
DebugMode(s) ==
    /\ Advance(s, "recorded", "dead")
    /\ UNCHANGED <<commandVars, ended, pid_file, tracing_on, filter, mishaps>>

(* config_events and start(): the reader runs from here on. *)
StartThreads(s) ==
    /\ Advance(s, "recorded", "started")
    /\ UNCHANGED <<commandVars, ended, pid_file, tracing_on, filter, mishaps>>

(* The threads get_pids lists are filtered out. With no ids the filter is  *)
(* an empty line, which the kernel refuses or takes for no filter; with    *)
(* ids cut to a short not all threads of the daemon are in it.             *)
AddFilter(s) ==
    /\ Advance(s, "started", "filtered")
    /\ \/ filter' = s /\ unlisted' = unlisted
       \/ filter' \in {filter, NoPid} /\ unlisted' = unlisted \cup {s}
    /\ UNCHANGED <<commandVars, ended, pid_file, tracing_on, crashes>>

TraceOn(s) ==
    /\ Advance(s, "filtered", "tracing")
    /\ tracing_on' = TRUE
    /\ UNCHANGED <<commandVars, ended, pid_file, filter, mishaps>>

(* The reader meets the end of the trace, as it may when tracing is off.   *)
TraceEnds(s) ==
    /\ Reading(s) /\ ~tracing_on
    /\ ended' = ended \cup {s}
    /\ UNCHANGED <<commandVars, sensor, pid_file, tracing_on, filter, mishaps>>

(* The threads have returned: set_trace(false), clear_filters() and, with  *)
(* the pid file left as it is, the end of the daemon.                      *)
TraceOff(s) ==
    /\ s \in ended
    /\ Advance(s, "tracing", "trace_off")
    /\ tracing_on' = FALSE
    /\ UNCHANGED <<commandVars, ended, pid_file, filter, mishaps>>

Exit(s) ==
    /\ Advance(s, "trace_off", "dead")
    /\ filter' = NoPid
    /\ UNCHANGED <<commandVars, ended, pid_file, tracing_on, mishaps>>

(* The daemon dies: an exception in a thread, a failed setsid, a signal.   *)
Crash(s) ==
    /\ Alive(s) /\ crashes < MaxCrashes
    /\ crashes' = crashes + 1
    /\ sensor' = Killed(s)
    /\ UNCHANGED <<commandVars, ended, pid_file, tracing_on, filter, unlisted>>

-----------------------------------------------------------------------------
Run(c) ==
    \/ Test(c) \/ NothingToDo(c)
    \/ c \in Starts /\ (Fork(c) \/ ForkFails(c))
    \/ c \in Stops /\ (RemovePidFile(c) \/ ClearFilters(c) \/ KillTasks(c)
                       \/ TraceOffByStop(c) \/ KillPid(c))

Sensor(s) == WritePid(s) \/ DebugMode(s) \/ StartThreads(s) \/ AddFilter(s)
             \/ TraceOn(s) \/ TraceOff(s) \/ Exit(s)

Next == \/ \E c \in Commands : ReadPid(c) \/ Run(c)
        \/ \E s \in Starts : Sensor(s) \/ TraceEnds(s) \/ Crash(s)

(* A process that can run does; nobody need issue a command, and a trace   *)
(* need not end.                                                           *)
Fairness == /\ \A c \in Commands : WF_vars(Run(c))
            /\ \A s \in Starts : WF_vars(Sensor(s))

Spec == Init /\ [][Next]_vars /\ Fairness
-----------------------------------------------------------------------------
(* Properties *)

TypeOK ==
    /\ pc \in [Commands -> {"new", "test", "act", "clear", "kill_tasks", "trace_off",
                            "kill", "done"}]
    /\ pid \in [Commands -> Starts \cup {NoPid}]
    /\ sensor \in [Starts -> {"none", "forked", "recorded", "started", "filtered",
                              "tracing", "trace_off", "dead"}]
    /\ ended \subseteq Starts
    /\ pid_file \in Seq(Starts) /\ Len(pid_file) <= Cardinality(Starts)
    /\ tracing_on \in BOOLEAN
    /\ filter \in Starts \cup {NoPid}
    /\ crashes \in 0..MaxCrashes /\ unlisted \subseteq Commands

(* linux_daemon.h:67-80, multithreaded_sensor.h:112: whichever starts and  *)
(* stops overlap, once all is over and no sensor is left, the kernel does  *)
(* not go on tracing for nobody; unless a sensor crashed, or one whose     *)
(* threads get_pids did not list for the stop lived to turn tracing on     *)
(* again.                                                                  *)
NoTraceForNobody ==
    Quiet /\ crashes = 0 /\ unlisted \cap Stops = {} /\ (\A s \in Starts : ~Alive(s))
        => ~tracing_on

(* main.cpp:47-62, linux_daemon.h:67-80: one command after the other, each *)
(* issued when the last daemon has written its pid, and whatever crashes   *)
(* and ends meanwhile, there is at most one sensor, ...                    *)
AtMostOneSensor ==
    ~Overlap => \A s, t \in Starts : Alive(s) /\ Alive(t) => s = t

(* ... the pid file names it, so that a stop will find it, ...             *)
SensorIsRecorded ==
    ~Overlap => \A s \in Starts : Quiet /\ Alive(s) => pid_file = <<s>>

(* ... and no other process takes its trace away, nor the filter that      *)
(* keeps its own system calls out of the trace, base_sensor.h:34-42;       *)
(* unless it never had that filter, its thread ids not having been listed  *)
(* (utils.h:149-179).                                                      *)
SensorKeepsItsTrace ==
    ~Overlap => \A s \in Starts : Quiet =>
        /\ sensor[s] = "tracing" /\ s \notin ended => tracing_on
        /\ sensor[s] \in {"filtered", "tracing", "trace_off"} /\ s \notin unlisted
               => filter = s

(* linux_daemon.h:67-80: the sensor a stop has read the pid of dies.       *)
StoppedSensorDies ==
    \A c \in Stops, s \in Starts :
        (pid[c] = s /\ pc[c] = "clear") ~> (sensor[s] = "dead")

(* main.cpp:50-52: "the pid exists but the process is not running / remove *)
(* the pid file".                                                          *)
StalePidRemoved ==
    [][\A c \in Commands :
           Test(c) /\ pid[c] # NoPid /\ ~Alive(pid[c]) => pid_file' = <<>>]_vars
=============================================================================
