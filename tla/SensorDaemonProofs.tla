------------------------- MODULE SensorDaemonProofs -------------------------
(***************************************************************************)
(* Theorems about SensorDaemon, for any start and stop commands and any    *)
(* number of crashes.                                                      *)
(*                                                                         *)
(* Whatever overlaps, the invariants are PidsOfDaemons, KilledByTask and   *)
(* Traced: while the kernel traces there is a daemon, or a stop, that will *)
(* end it. With one command after the other they are Serial and Sole:      *)
(* where the one command that is not over stands tells what the pid file   *)
(* may hold, and that tells which daemon may be alive.                     *)
(***************************************************************************)
EXTENDS SensorDaemon, SequenceTheorems, FiniteSetTheorems, TLAPS

(* The variables without the bounds on how far they may grow. *)
Types ==
    /\ pc \in [Commands -> {"new", "test", "act", "clear", "kill_tasks", "trace_off",
                            "kill", "done"}]
    /\ pid \in [Commands -> Starts \cup {NoPid}]
    /\ sensor \in [Starts -> {"none", "forked", "recorded", "started", "filtered",
                              "tracing", "trace_off", "dead"}]
    /\ ended \subseteq Starts
    /\ pid_file \in Seq(Starts)
    /\ tracing_on \in BOOLEAN
    /\ filter \in Starts \cup {NoPid}
    /\ crashes \in Nat
    /\ unlisted \subseteq Commands

LEMMA InitTypes == Init => Types
  <1> SUFFICES ASSUME Init PROVE Types
    OBVIOUS
  <1>1. <<>> \in Seq(Starts)
    BY EmptySeq
  <1>2. pid_file \in Seq(Starts)
    BY <1>1 DEF Init
  <1> QED BY <1>2, SensorDaemonAssumption DEF Init, Types

(* The actions, one by one, keep the types. *)
LEMMA StepTypes == Types /\ [Next]_vars => Types'
  <1> SUFFICES ASSUME Types, [Next]_vars PROVE Types'
    OBVIOUS
  <1> USE SensorDaemonAssumption
  <1>1. ASSUME NEW c \in Commands, ReadPid(c) PROVE Types'
    <2>1. pid_file # <<>> => Head(pid_file) \in Starts
      BY DEF Types
    <2> QED BY <1>1, <2>1 DEF Types, ReadPid, Goto, sensorVars, mishaps
  <1>2. ASSUME NEW c \in Commands, Test(c) PROVE Types'
    BY <1>2 DEF Types, Test, Goto, sensorVars, mishaps
  <1>3. ASSUME NEW c \in Commands, NothingToDo(c) PROVE Types'
    BY <1>3 DEF Types, NothingToDo, Goto, sensorVars, mishaps
  <1>4. ASSUME NEW s \in Starts, Fork(s) \/ ForkFails(s) PROVE Types'
    BY <1>4 DEF Types, Fork, ForkFails, Goto, Advance, sensorVars, mishaps, Commands
  <1>5. ASSUME NEW c \in Stops, RemovePidFile(c) \/ ClearFilters(c) \/ TraceOffByStop(c)
        PROVE  Types'
    <2>1. <<>> \in Seq(Starts)
      BY EmptySeq
    <2>2. pid_file' \in Seq(Starts)
      BY <1>5, <2>1 DEF Types, RemovePidFile, ClearFilters, TraceOffByStop
    <2> QED BY <1>5, <2>2 DEF Types, RemovePidFile, ClearFilters, TraceOffByStop, Goto,
                              sensorVars, mishaps, Commands
  <1>6. ASSUME NEW c \in Stops, KillTasks(c) \/ KillPid(c) PROVE Types'
    <2>1. sensor' = sensor \/ sensor' = Killed(pid[c])
      BY <1>6 DEF KillTasks, KillPid
    <2>2. sensor' \in [Starts -> {"none", "forked", "recorded", "started", "filtered",
                                  "tracing", "trace_off", "dead"}]
      BY <2>1 DEF Types, Killed
    <2>3. unlisted' \subseteq Commands
      BY <1>6 DEF Types, KillTasks, KillPid, Commands, mishaps
    <2> QED BY <1>6, <2>2, <2>3 DEF Types, KillTasks, KillPid, Goto, Commands, mishaps
  <1>7. ASSUME NEW s \in Starts, WritePid(s) PROVE Types'
    BY <1>7 DEF Types, WritePid, Advance, commandVars, mishaps
  <1>8. ASSUME NEW s \in Starts,
               DebugMode(s) \/ StartThreads(s) \/ AddFilter(s) \/ TraceOn(s)
                   \/ TraceOff(s) \/ Exit(s)
        PROVE  Types'
    BY <1>8 DEF Types, DebugMode, StartThreads, AddFilter, TraceOn, TraceOff, Exit,
                Advance, commandVars, mishaps, Commands
  <1>9. ASSUME NEW s \in Starts, TraceEnds(s) \/ Crash(s) PROVE Types'
    BY <1>9 DEF Types, TraceEnds, Crash, Killed, commandVars, mishaps
  <1>10. CASE UNCHANGED vars
    BY <1>10 DEF Types, vars, commandVars, sensorVars, mishaps
  <1> QED
    BY <1>1, <1>2, <1>3, <1>4, <1>5, <1>6, <1>7, <1>8, <1>9, <1>10 DEF Next, Run, Sensor

(* A daemon appends its pid once, after it was forked and before anything  *)
(* else.                                                                   *)
WrittenOnce ==
    /\ \A i \in 1..Len(pid_file) : sensor[pid_file[i]] \notin {"none", "forked"}
    /\ \A i, j \in 1..Len(pid_file) : pid_file[i] = pid_file[j] => i = j
    /\ crashes <= MaxCrashes

LEMMA StepWrittenOnce == Types /\ WrittenOnce /\ [Next]_vars => WrittenOnce'
  <1> SUFFICES ASSUME Types, WrittenOnce, [Next]_vars PROVE WrittenOnce'
    OBVIOUS
  <1> USE SensorDaemonAssumption
  <1>1. crashes' <= MaxCrashes
    BY DEF Types, WrittenOnce, Next, Run, Sensor, ReadPid, Test, NothingToDo, Fork, ForkFails,
           RemovePidFile, ClearFilters, KillTasks, TraceOffByStop, KillPid, WritePid,
           DebugMode, StartThreads, AddFilter, TraceOn, TraceOff, Exit, TraceEnds, Crash, vars,
           mishaps
  <1>2. ASSUME NEW s \in Starts, sensor[s] \notin {"none", "forked"}
        PROVE  sensor'[s] \notin {"none", "forked"}
    BY <1>2
    DEF Types, Next, Run, Sensor, ReadPid, Test, NothingToDo, Fork, ForkFails,
        RemovePidFile, ClearFilters, KillTasks, TraceOffByStop, KillPid, WritePid, DebugMode,
        StartThreads, AddFilter, TraceOn, TraceOff, Exit, TraceEnds, Crash, Killed, Advance,
        Alive, vars, sensorVars, mishaps
  <1>3. ASSUME NEW s \in Starts, WritePid(s) PROVE WrittenOnce'
    <2>1. /\ sensor[s] = "forked" /\ sensor'[s] = "recorded"
          /\ pid_file' = Append(pid_file, s)
      BY <1>3 DEF Types, WritePid, Advance
    <2>2. \A i \in 1..Len(pid_file) : pid_file[i] \in Starts
      BY DEF Types
    <2>3. \A i \in 1..Len(pid_file') : pid_file'[i] =
                                           IF i = Len(pid_file') THEN s ELSE pid_file[i]
      BY <2>1 DEF Types
    <2>4. Len(pid_file') = Len(pid_file) + 1 /\ Len(pid_file) \in Nat
      BY <2>1 DEF Types
    <2>5. \A i \in 1..Len(pid_file) : pid_file[i] # s
      BY <2>1 DEF WrittenOnce
    <2>6. \A i \in 1..Len(pid_file') : sensor'[pid_file'[i]] \notin {"none", "forked"}
      BY <1>2, <2>1, <2>2, <2>3, <2>4 DEF WrittenOnce
    <2>7. \A i, j \in 1..Len(pid_file') : pid_file'[i] = pid_file'[j] => i = j
      BY <2>3, <2>4, <2>5 DEF WrittenOnce
    <2> QED BY <1>1, <2>6, <2>7 DEF WrittenOnce
  <1>4. CASE pid_file' = <<>>
    BY <1>1, <1>4 DEF WrittenOnce
  <1>5. CASE pid_file' = pid_file
    <2>1. \A i \in 1..Len(pid_file) : pid_file[i] \in Starts
      BY DEF Types
    <2> QED BY <1>1, <1>2, <1>5, <2>1 DEF WrittenOnce
  <1>6. pid_file' \in {<<>>, pid_file} \/ \E s \in Starts : WritePid(s)
    BY DEF Next, Run, Sensor, ReadPid, Test, NothingToDo, Fork, ForkFails, RemovePidFile,
           ClearFilters, KillTasks, TraceOffByStop, KillPid, DebugMode, StartThreads,
           AddFilter, TraceOn, TraceOff, Exit, TraceEnds, Crash, vars
  <1> QED BY <1>3, <1>4, <1>5, <1>6

(* linux_daemon.h:29, utils.h:16-23: the types; and the pid file, to which *)
(* the daemons of starts that overlap append one after the other, never    *)
(* has more pids than there are starts.                                    *)
THEOREM TypeCorrect == Spec => []TypeOK
  <1>1. Init => WrittenOnce
    BY SensorDaemonAssumption DEF Init, WrittenOnce
  <1>2. Types /\ WrittenOnce => TypeOK
    <2> SUFFICES ASSUME Types, WrittenOnce PROVE TypeOK
      OBVIOUS
    <2>1. Len(pid_file) \in Nat /\ pid_file \in [1..Len(pid_file) -> Starts]
      BY LenProperties DEF Types
    <2>2. pid_file \in Injection(1..Len(pid_file), Starts)
      <3>1. \A i, j \in 1..Len(pid_file) : pid_file[i] = pid_file[j] => i = j
        BY DEF WrittenOnce
      <3> QED BY ONLY <2>1, <3>1, Zenon DEF Injection, IsInjective
    <2>3. Cardinality(1..Len(pid_file)) <= Cardinality(Starts)
      BY <2>2, FS_Injection, SensorDaemonAssumption
    <2>4. Cardinality(1..Len(pid_file)) = Len(pid_file)
      BY <2>1, FS_Interval
    <2>5. Len(pid_file) <= Cardinality(Starts)
      BY <2>3, <2>4
    <2>6. crashes \in 0..MaxCrashes
      BY SensorDaemonAssumption DEF Types, WrittenOnce
    <2> QED BY <2>5, <2>6, Zenon DEF Types, TypeOK
  <1> QED BY <1>1, <1>2, InitTypes, StepTypes, StepWrittenOnce, PTL DEF Spec

-----------------------------------------------------------------------------
(* Tracing, whichever commands overlap *)

(* The places of a stop that has begun to kill.                            *)
Killing == {"clear", "kill_tasks", "trace_off", "kill"}

(* A pid in the file, and so a pid that was read, is that of a daemon that *)
(* has been forked, and a stop that kills has read one.                    *)
PidsOfDaemons ==
    /\ \A i \in 1..Len(pid_file) : sensor[pid_file[i]] # "none"
    /\ \A c \in Commands : pid[c] # NoPid => sensor[pid[c]] # "none"
    /\ \A c \in Stops : pc[c] \in Killing => pid[c] # NoPid

(* A stop that is past kill_tasks has killed its daemon, or was given no   *)
(* thread of it to kill.                                                   *)
KilledByTask ==
    \A c \in Stops :
        pc[c] \in {"trace_off", "kill"} => sensor[pid[c]] = "dead" \/ c \in unlisted

(* While the kernel traces there is a daemon that traces, or a stop that   *)
(* is about to turn tracing off.                                           *)
Traced ==
    crashes = 0 /\ unlisted \cap Stops = {} /\ tracing_on =>
        \/ \E s \in Starts : sensor[s] = "tracing"
        \/ \E c \in Stops : pc[c] = "trace_off"

(* A daemon is forked once and dies once. *)
LEMMA SensorsAge ==
    ASSUME Types, [Next]_vars, NEW s \in Starts
    PROVE  /\ sensor[s] # "none" => sensor'[s] # "none"
           /\ sensor[s] = "dead" => sensor'[s] = "dead"
  BY SensorDaemonAssumption
  DEF Types, Next, Run, Sensor, ReadPid, Test, NothingToDo, Fork, ForkFails, RemovePidFile,
      ClearFilters, KillTasks, TraceOffByStop, KillPid, WritePid, DebugMode, StartThreads,
      AddFilter, TraceOn, TraceOff, Exit, TraceEnds, Crash, Killed, Advance, Alive, vars,
      sensorVars, mishaps

(* The pid of a command that has read it does not change. *)
LEMMA PidsStay ==
    ASSUME Types, [Next]_vars, NEW c \in Commands, pc[c] # "new"
    PROVE  pid'[c] = pid[c]
  BY SensorDaemonAssumption
  DEF Types, Next, Run, Sensor, ReadPid, Test, NothingToDo, Fork, ForkFails, RemovePidFile,
      ClearFilters, KillTasks, TraceOffByStop, KillPid, WritePid, DebugMode, StartThreads,
      AddFilter, TraceOn, TraceOff, Exit, TraceEnds, Crash, Goto, vars, commandVars

LEMMA StepPidsOfDaemons == Types /\ PidsOfDaemons /\ [Next]_vars => PidsOfDaemons'
  <1> SUFFICES ASSUME Types, PidsOfDaemons, [Next]_vars PROVE PidsOfDaemons'
    OBVIOUS
  <1> USE SensorDaemonAssumption
  <1>1. ASSUME NEW i \in 1..Len(pid_file)' PROVE sensor'[pid_file'[i]] # "none"
    <2>1. CASE pid_file' = <<>>
      BY <2>1
    <2>2. CASE pid_file' = pid_file
      <3>1. pid_file[i] \in Starts
        BY <2>2 DEF Types
      <3> QED BY <2>2, <3>1, SensorsAge DEF PidsOfDaemons
    <2>3. ASSUME NEW s \in Starts, WritePid(s) PROVE sensor'[pid_file'[i]] # "none"
      <3>1. pid_file' = Append(pid_file, s) /\ sensor'[s] = "recorded"
        BY <2>3 DEF WritePid, Advance, Types
      <3>2. i \in 1..Len(pid_file) => pid_file[i] \in Starts /\ pid_file'[i] = pid_file[i]
        BY <3>1 DEF Types
      <3>3. i \notin 1..Len(pid_file) => pid_file'[i] = s
        BY <3>1 DEF Types
      <3> QED BY <3>1, <3>2, <3>3, SensorsAge DEF PidsOfDaemons
    <2>4. pid_file' \in {<<>>, pid_file} \/ \E s \in Starts : WritePid(s)
      BY DEF Next, Run, Sensor, ReadPid, Test, NothingToDo, Fork, ForkFails, RemovePidFile,
             ClearFilters, KillTasks, TraceOffByStop, KillPid, DebugMode, StartThreads,
             AddFilter, TraceOn, TraceOff, Exit, TraceEnds, Crash, vars
    <2> QED BY <2>1, <2>2, <2>3, <2>4
  <1>2. ASSUME NEW c \in Commands, pid'[c] # NoPid PROVE sensor'[pid'[c]] # "none"
    <2>1. CASE pid'[c] = pid[c]
      <3>1. pid[c] \in Starts /\ sensor[pid[c]] # "none"
        BY <1>2, <2>1 DEF Types, PidsOfDaemons
      <3> QED BY <2>1, <3>1, SensorsAge
    <2>2. CASE ReadPid(c)
      <3>1. pid'[c] = pid_file[1] /\ pid_file[1] \in Starts /\ sensor[pid_file[1]] # "none"
        BY <1>2, <2>2 DEF ReadPid, Types, PidsOfDaemons
      <3> QED BY <3>1, SensorsAge
    <2>3. pid'[c] = pid[c] \/ ReadPid(c)
      BY DEF Types, Next, Run, Sensor, ReadPid, Test, NothingToDo, Fork, ForkFails,
             RemovePidFile, ClearFilters, KillTasks, TraceOffByStop, KillPid, WritePid,
             DebugMode, StartThreads, AddFilter, TraceOn, TraceOff, Exit, TraceEnds, Crash,
             vars, commandVars
    <2> QED BY <2>1, <2>2, <2>3
  <1>3. ASSUME NEW c \in Stops, pc'[c] \in Killing PROVE pid'[c] # NoPid
    <2>1. c \in Commands
      BY DEF Commands
    <2>2. pc[c] \in Killing \/ RemovePidFile(c)
      BY <1>3, <2>1
      DEF Types, Killing, Next, Run, Sensor, ReadPid, Test, NothingToDo, Fork, ForkFails,
          ClearFilters, KillTasks, TraceOffByStop, KillPid, WritePid, DebugMode,
          StartThreads, AddFilter, TraceOn, TraceOff, Exit, TraceEnds, Crash, Goto, vars,
          commandVars, RemovePidFile
    <2>3. pc[c] # "new" /\ pid[c] # NoPid
      BY <2>2 DEF PidsOfDaemons, Killing, RemovePidFile, Goto
    <2> QED BY <2>1, <2>3, PidsStay
  <1> QED BY <1>1, <1>2, <1>3 DEF PidsOfDaemons

(* A stop dead set on its daemon, and what goes on tracing meanwhile.      *)
LEMMA StepTraced ==
    Types /\ PidsOfDaemons /\ KilledByTask /\ Traced /\ [Next]_vars
        => KilledByTask' /\ Traced'
  <1> SUFFICES ASSUME Types, PidsOfDaemons, KilledByTask, Traced, [Next]_vars
               PROVE  KilledByTask' /\ Traced'
    OBVIOUS
  <1> USE SensorDaemonAssumption
  <1>0. unlisted \subseteq unlisted'
    BY DEF Next, Run, Sensor, ReadPid, Test, NothingToDo, Fork, ForkFails, RemovePidFile,
           ClearFilters, KillTasks, TraceOffByStop, KillPid, WritePid, DebugMode,
           StartThreads, AddFilter, TraceOn, TraceOff, Exit, TraceEnds, Crash, vars, mishaps
  <1>1. ASSUME NEW c \in Stops, pc'[c] \in {"trace_off", "kill"}
        PROVE  sensor'[pid'[c]] = "dead" \/ c \in unlisted'
    <2>1. c \in Commands
      BY DEF Commands
    <2>2. pc[c] \in {"trace_off", "kill"} \/ KillTasks(c)
      BY <1>1, <2>1
      DEF Types, Next, Run, Sensor, ReadPid, Test, NothingToDo, Fork, ForkFails,
          RemovePidFile, ClearFilters, KillTasks, TraceOffByStop, KillPid, WritePid,
          DebugMode, StartThreads, AddFilter, TraceOn, TraceOff, Exit, TraceEnds, Crash,
          Goto, vars, commandVars
    <2>3. pc[c] \in Killing
      BY <2>2 DEF Killing, KillTasks, Goto
    <2>4. pid'[c] = pid[c] /\ pid[c] \in Starts /\ sensor[pid[c]] # "none"
      BY <2>1, <2>3, PidsStay DEF Types, PidsOfDaemons, Killing
    <2>5. CASE KillTasks(c)
      BY <2>4, <2>5 DEF KillTasks, Killed, Alive, Types
    <2> QED BY <1>0, <2>2, <2>4, <2>5, SensorsAge DEF KilledByTask
  <1>2. Traced'
    <2> SUFFICES ASSUME crashes' = 0, unlisted' \cap Stops = {}, tracing_on'
                 PROVE  \/ \E s \in Starts : sensor'[s] = "tracing"
                        \/ \E c \in Stops : pc'[c] = "trace_off"
      BY DEF Traced
    <2>0. unlisted \cap Stops = {}
      BY <1>0
    <2>1. CASE \E s \in Starts : TraceOn(s)
      BY <2>1 DEF TraceOn, Advance, Types
    <2>2. CASE \E c \in Stops : KillTasks(c)
      BY <2>2 DEF KillTasks, Goto, Types, Commands
    <2>3. CASE \E c \in Stops : KillPid(c)
      <3> PICK c \in Stops : KillPid(c)
        BY <2>3
      <3>1. pid[c] \in Starts /\ sensor[pid[c]] = "dead"
        BY <2>0 DEF KillPid, Goto, KilledByTask, PidsOfDaemons, Killing, Types, Commands
      <3>2. sensor' = sensor /\ tracing_on /\ crashes = 0
        BY <3>1 DEF KillPid, Killed, Alive, mishaps
      <3>3. ASSUME NEW d \in Stops, pc[d] = "trace_off" PROVE pc'[d] = "trace_off"
        BY <3>3 DEF KillPid, Goto, Types, Commands
      <3> QED BY <2>0, <3>2, <3>3 DEF Traced
    <2>4. CASE ~ \/ \E s \in Starts : TraceOn(s)
                 \/ \E c \in Stops : KillTasks(c) \/ KillPid(c)
      <3>1. tracing_on /\ crashes = 0
        <4>1. tracing_on
          BY <2>4
          DEF Next, Run, Sensor, ReadPid, Test, NothingToDo, Fork, ForkFails,
              RemovePidFile, ClearFilters, TraceOffByStop, WritePid, DebugMode,
              StartThreads, AddFilter, TraceOff, Exit, TraceEnds, Crash, vars
        <4>2. crashes' = crashes \/ crashes' = crashes + 1
          BY DEF Next, Run, Sensor, ReadPid, Test, NothingToDo, Fork, ForkFails,
                 RemovePidFile, ClearFilters, KillTasks, TraceOffByStop, KillPid, WritePid,
                 DebugMode, StartThreads, AddFilter, TraceOn, TraceOff, Exit, TraceEnds,
                 Crash, vars, mishaps
        <4> QED BY <4>1, <4>2 DEF Types
      <3>2. ASSUME NEW s \in Starts, sensor[s] = "tracing" PROVE sensor'[s] = "tracing"
        BY <2>4, <3>1, <3>2
        DEF Types, Next, Run, Sensor, ReadPid, Test, NothingToDo, Fork, ForkFails,
            RemovePidFile, ClearFilters, TraceOffByStop, WritePid, DebugMode,
            StartThreads, AddFilter, TraceOff, Exit, TraceEnds, Crash, Advance, vars,
            sensorVars, mishaps
      <3>3. ASSUME NEW c \in Stops, pc[c] = "trace_off" PROVE pc'[c] = "trace_off"
        BY <2>4, <3>1, <3>3
        DEF Types, Next, Run, Sensor, ReadPid, Test, NothingToDo, Fork, ForkFails,
            RemovePidFile, ClearFilters, TraceOffByStop, WritePid, DebugMode,
            StartThreads, AddFilter, TraceOff, Exit, TraceEnds, Crash, Goto, vars,
            commandVars, Commands
      <3> QED BY <2>0, <3>1, <3>2, <3>3 DEF Traced
    <2> QED BY <2>1, <2>2, <2>3, <2>4
  <1> QED BY <1>1, <1>2 DEF KilledByTask

(* linux_daemon.h:67-80, multithreaded_sensor.h:112: the kernel does not   *)
(* go on tracing for nobody, unless a sensor crashed or a stop was not     *)
(* given its threads to kill.                                              *)
THEOREM TracesForSomebody == Spec => []NoTraceForNobody
  <1>1. Init => PidsOfDaemons /\ KilledByTask /\ Traced
    BY DEF Init, PidsOfDaemons, KilledByTask, Traced, Killing, Commands
  <1>2. Types /\ Traced => NoTraceForNobody
    BY DEF Types, Traced, NoTraceForNobody, Quiet, Alive, Commands
  <1> QED
    BY <1>1, <1>2, InitTypes, StepTypes, StepPidsOfDaemons, StepTraced, PTL DEF Spec
-----------------------------------------------------------------------------
(* One command after the other *)

Busy(c) == pc[c] \notin {"new", "done"}
FirstPid == IF pid_file = <<>> THEN NoPid ELSE Head(pid_file)

(* One command runs at a time, and none before the last daemon has written *)
(* its pid; what it has read stays true until it acts, and only a stop     *)
(* kills, with no pid file left.                                           *)
Serial ==
    /\ \A c, d \in Commands : Busy(c) /\ Busy(d) => c = d
    /\ \A c \in Commands, s \in Starts : Busy(c) => sensor[s] # "forked"
    /\ \A c \in Commands : pc[c] \in {"test", "act"} => pid[c] = FirstPid
    /\ \A c \in Commands : pc[c] \in Killing => c \in Stops /\ pid_file = <<>>

KilledBy(s, c) == pc[c] \in Killing /\ pid[c] = s

(* The places of a daemon that has written a filter and not removed it.    *)
Filtering == {"filtered", "tracing", "trace_off"}

(* One sensor runs at a time. Its pid is alone in the pid file, unless it  *)
(* is to write it or a stop is about to kill it; and it has its trace,     *)
(* unless the trace has ended or a stop is about to kill it, and its       *)
(* filter, unless get_pids misled it or a stop is about to kill it.        *)
Sole ==
    /\ \A s, t \in Starts : Alive(s) /\ Alive(t) => s = t
    /\ \A s \in Starts : sensor[s] = "forked" => pid_file = <<>>
    /\ \A s \in Starts : Alive(s) /\ sensor[s] # "forked" =>
           pid_file = <<s>> \/ \E c \in Stops : KilledBy(s, c)
    /\ \A s \in Starts : sensor[s] = "tracing" /\ s \notin ended =>
           tracing_on \/ \E c \in Stops : KilledBy(s, c) /\ pc[c] = "kill"
    /\ \A s \in Starts : sensor[s] \in Filtering /\ s \notin unlisted =>
           filter = s \/ \E c \in Stops : KilledBy(s, c) /\ pc[c] # "clear"

(* While a command runs that is not killing, the pid file tells which      *)
(* sensor is alive; while one kills, only its own may be.                  *)
LEMMA WhileActing ==
    ASSUME Types, Serial, Sole, NEW c \in Commands, NEW s \in Starts, Busy(c), Alive(s)
    PROVE  /\ pc[c] \in {"test", "act"} => pid_file = <<s>> /\ pid[c] = s
           /\ pc[c] \in Killing => c \in Stops /\ pid[c] = s
  <1>1. sensor[s] # "forked"
    BY DEF Serial
  <1>2. pid_file = <<s>> \/ \E d \in Stops : KilledBy(s, d)
    BY <1>1 DEF Sole
  <1>3. ASSUME NEW d \in Stops, KilledBy(s, d) PROVE d = c
    BY <1>3 DEF Serial, KilledBy, Killing, Busy, Commands
  <1>4. ASSUME pc[c] \in {"test", "act"} PROVE pid_file = <<s>> /\ pid[c] = s
    <2>1. pid_file = <<s>>
      BY <1>2, <1>3, <1>4 DEF KilledBy, Killing
    <2> QED BY <1>4, <2>1 DEF Serial, FirstPid
  <1>5. ASSUME pc[c] \in Killing PROVE c \in Stops /\ pid[c] = s
    <2>1. c \in Stops /\ pid_file = <<>>
      BY <1>5 DEF Serial
    <2> QED BY <1>2, <1>3, <2>1 DEF KilledBy
  <1> QED BY <1>4, <1>5

LEMMA InitSerial == Init => Serial /\ Sole
  BY DEF Init, Serial, Sole, Busy, Alive, Killing, KilledBy, Filtering, Commands

(* Each step keeps both, when a command waits for the last to be over.     *)
LEMMA StepSerial ==
    ASSUME ~Overlap
    PROVE  Types /\ PidsOfDaemons /\ Serial /\ Sole /\ [Next]_vars => Serial' /\ Sole'
  <1> SUFFICES ASSUME Types, PidsOfDaemons, Serial, Sole, [Next]_vars
               PROVE  Serial' /\ Sole'
    OBVIOUS
  <1> USE SensorDaemonAssumption DEF Types
  <1>1. ASSUME NEW c \in Commands, ReadPid(c) PROVE Serial' /\ Sole'
    <2>1. /\ Quiet /\ pc' = [pc EXCEPT ![c] = "test"]
          /\ UNCHANGED <<sensorVars, pid_file, tracing_on, filter, unlisted>>
      BY <1>1 DEF ReadPid, Goto, mishaps
    <2>2. pid' = [pid EXCEPT ![c] = FirstPid]
      BY <1>1 DEF ReadPid, FirstPid
    <2>3. Serial'
      BY <2>1, <2>2 DEF Serial, Quiet, Busy, Killing, FirstPid, sensorVars
    <2>4. Sole'
      BY <2>1, <2>2 DEF Sole, Quiet, Killing, KilledBy, Alive, sensorVars, Commands
    <2> QED BY <2>3, <2>4
  <1>2. ASSUME NEW c \in Commands, Test(c) \/ NothingToDo(c) PROVE Serial' /\ Sole'
    <2>1. /\ pc[c] \in {"test", "act"}
          /\ pc' = [pc EXCEPT ![c] = pc'[c]] /\ pc'[c] \in {"act", "done"}
          /\ UNCHANGED <<pid, sensorVars, pid_file, tracing_on, filter, unlisted>>
      BY <1>2 DEF Test, NothingToDo, Goto, Kill0, ESRCH, mishaps
    <2>2. Serial'
      BY <2>1 DEF Serial, Busy, Killing, FirstPid, sensorVars
    <2>3. Sole'
      BY <2>1 DEF Sole, Killing, KilledBy, Alive, sensorVars, Commands
    <2> QED BY <2>2, <2>3
  <1>3. ASSUME NEW s \in Starts, Fork(s) PROVE Serial' /\ Sole'
    <2>1. /\ pc[s] = "act" /\ pid[s] = NoPid /\ sensor[s] = "none"
          /\ pc' = [pc EXCEPT ![s] = "done"]
          /\ sensor' = [sensor EXCEPT ![s] = "forked"]
          /\ UNCHANGED <<pid, ended, pid_file, tracing_on, filter, unlisted>>
      BY <1>3 DEF Fork, Goto, Advance, mishaps
    <2>2. s \in Commands /\ Busy(s)
      BY <2>1 DEF Busy, Commands
    <2>3. \A t \in Starts : ~Alive(t)
      BY <2>1, <2>2, WhileActing
    <2>4. pid_file = <<>>
      BY <2>1, <2>2 DEF Serial, FirstPid
    <2>5. \A c \in Commands : ~Busy(c)'
      BY <2>1, <2>2 DEF Serial, Busy
    <2>6. Serial'
      BY <2>5 DEF Serial, Busy, Killing
    <2>7. Sole'
      BY <2>1, <2>3, <2>4 DEF Sole, Alive, Filtering
    <2> QED BY <2>6, <2>7
  <1>4. ASSUME NEW s \in Starts, ForkFails(s) PROVE Serial' /\ Sole'
    <2>1. /\ pc[s] = "act" /\ pc' = [pc EXCEPT ![s] = "done"]
          /\ UNCHANGED <<pid, sensorVars, pid_file, tracing_on, filter, unlisted>>
      BY <1>4 DEF ForkFails, Goto, mishaps
    <2>2. Serial'
      BY <2>1 DEF Serial, Busy, Killing, FirstPid, sensorVars
    <2>3. Sole'
      BY <2>1 DEF Sole, Killing, KilledBy, Alive, sensorVars, Commands
    <2> QED BY <2>2, <2>3
  <1>5. ASSUME NEW c \in Stops, RemovePidFile(c) PROVE Serial' /\ Sole'
    <2>1. /\ pc[c] = "act" /\ pc' = [pc EXCEPT ![c] = "clear"] /\ pid_file' = <<>>
          /\ UNCHANGED <<pid, sensorVars, tracing_on, filter, unlisted>>
      BY <1>5 DEF RemovePidFile, Goto, mishaps
    <2>2. c \in Commands /\ Busy(c)
      BY <2>1 DEF Busy, Commands
    <2>3. Serial'
      BY <2>1, <2>2 DEF Serial, Busy, Killing, sensorVars
    <2>4. ASSUME NEW s \in Starts, Alive(s) PROVE KilledBy(s, c)'
      BY <2>1, <2>2, <2>4, WhileActing DEF KilledBy, Killing
    <2>5. ASSUME NEW s \in Starts, NEW d \in Stops, KilledBy(s, d) PROVE d = c
      BY <2>2, <2>5 DEF Serial, KilledBy, Killing, Busy, Commands
    <2>6. Sole'
      BY <2>1, <2>4, <2>5 DEF Sole, Alive, KilledBy, Killing, sensorVars
    <2> QED BY <2>3, <2>6
  <1>6. ASSUME NEW c \in Stops, ClearFilters(c) \/ KillTasks(c) \/ TraceOffByStop(c)
        PROVE  Serial' /\ Sole'
    <2>1. /\ pc[c] \in Killing /\ pc' = [pc EXCEPT ![c] = pc'[c]] /\ pc'[c] \in Killing
          /\ pc[c] # "kill" /\ (pc'[c] = "kill" \/ tracing_on' = tracing_on)
          /\ sensor' \in {sensor, Killed(pid[c])}
          /\ UNCHANGED <<pid, ended, pid_file>>
      BY <1>6 DEF ClearFilters, KillTasks, TraceOffByStop, Goto, Killing, sensorVars, mishaps,
                  Commands
    <2>2. c \in Commands /\ Busy(c) /\ Busy(c)' /\ pid[c] \in Starts
      BY <2>1 DEF Busy, Killing, Commands, PidsOfDaemons
    <2>3. \A d \in Commands : Busy(d) \/ Busy(d)' => d = c
      BY <2>1, <2>2 DEF Serial, Busy
    <2>4. \A s \in Starts : sensor'[s] \in {sensor[s], "dead"}
      BY <2>1, <2>2 DEF Killed
    <2>5. ASSUME NEW s \in Starts, Alive(s) PROVE KilledBy(s, c)'
      BY <2>1, <2>2, <2>5, WhileActing DEF KilledBy
    <2>6. Serial'
      BY <2>1, <2>2, <2>3, <2>4 DEF Serial, Busy, Killing, FirstPid
    <2>7. ASSUME NEW s \in Starts, sensor'[s] = "tracing", s \notin ended
          PROVE  tracing_on' \/ (KilledBy(s, c) /\ pc[c] = "kill")'
      <3>1. tracing_on /\ Alive(s)
        BY <2>1, <2>3, <2>4, <2>7 DEF Sole, Alive, KilledBy, Busy, Killing, Commands
      <3> QED BY <2>1, <2>5, <3>1
    <2>8. ASSUME NEW s \in Starts, sensor'[s] \in Filtering
          PROVE  (KilledBy(s, c) /\ pc[c] # "clear")'
      <3>1. Alive(s)
        BY <2>4, <2>8 DEF Alive, Filtering
      <3>2. pc'[c] # "clear"
        BY <1>6 DEF ClearFilters, KillTasks, TraceOffByStop, Goto, Commands
      <3> QED BY <2>5, <3>1, <3>2
    <2>9. Sole'
      BY <2>1, <2>4, <2>5, <2>7, <2>8 DEF Sole, Alive
    <2> QED BY <2>6, <2>9
  <1>7. ASSUME NEW c \in Stops, KillPid(c) PROVE Serial' /\ Sole'
    <2>1. /\ pc[c] = "kill" /\ pc' = [pc EXCEPT ![c] = "done"]
          /\ sensor' = Killed(pid[c])
          /\ UNCHANGED <<pid, ended, pid_file, tracing_on>>
      BY <1>7 DEF KillPid, Goto
    <2>2. c \in Commands /\ Busy(c) /\ pc[c] \in Killing /\ pid[c] \in Starts
      BY <2>1 DEF Busy, Killing, Commands, PidsOfDaemons
    <2>3. \A d \in Commands : ~Busy(d)'
      BY <2>1, <2>2 DEF Serial, Busy
    <2>4. \A s \in Starts : ~Alive(s)'
      <3> SUFFICES ASSUME NEW s \in Starts, Alive(s)' PROVE FALSE
        OBVIOUS
      <3>1. Alive(s)
        BY <2>1, <2>2 DEF Killed, Alive
      <3>2. pid[c] = s
        BY <2>2, <3>1, WhileActing
      <3> QED BY <2>1, <3>1, <3>2 DEF Killed, Alive
    <2>5. Serial'
      BY <2>3 DEF Serial, Busy, Killing
    <2>6. Sole'
      BY <2>4 DEF Sole, Alive, Filtering
    <2> QED BY <2>5, <2>6
  <1>8. ASSUME NEW s \in Starts, WritePid(s) PROVE Serial' /\ Sole'
    <2>1. /\ sensor[s] = "forked" /\ sensor' = [sensor EXCEPT ![s] = "recorded"]
          /\ pid_file' = Append(pid_file, s)
          /\ UNCHANGED <<pc, pid, ended, tracing_on>>
      BY <1>8 DEF WritePid, Advance, commandVars
    <2>2. pid_file = <<>> /\ Alive(s)
      BY <2>1 DEF Sole, Alive
    <2>3. pid_file' = <<s>>
      BY <2>1, <2>2
    <2>4. \A c \in Commands : ~Busy(c)
      BY <2>1 DEF Serial
    <2>5. Serial'
      BY <2>1, <2>4 DEF Serial, Busy, Killing
    <2>6. \A t \in Starts : Alive(t)' => t = s
      BY <2>1, <2>2 DEF Sole, Alive
    <2>7. Sole'
      BY <2>1, <2>3, <2>6 DEF Sole, Alive, Filtering
    <2> QED BY <2>5, <2>7
  <1>9. ASSUME NEW s \in Starts,
               DebugMode(s) \/ StartThreads(s) \/ AddFilter(s) \/ TraceOn(s)
                   \/ TraceOff(s) \/ Exit(s) \/ TraceEnds(s) \/ Crash(s)
        PROVE  Serial' /\ Sole'
    <2>1. /\ Alive(s) /\ UNCHANGED <<pc, pid, pid_file>>
          /\ sensor' = [sensor EXCEPT ![s] = sensor'[s]] /\ sensor'[s] # "none"
          /\ sensor'[s] = "forked" => sensor[s] = "forked"
          /\ sensor[s] = "forked" => sensor'[s] \in {"forked", "dead"}
      BY <1>9 DEF DebugMode, StartThreads, AddFilter, TraceOn, TraceOff, Exit, TraceEnds,
                  Crash, Killed, Advance, Alive, Reading, commandVars
    <2>2. Serial'
      BY <2>1 DEF Serial, Busy, Killing, FirstPid
    <2>3. /\ ended \subseteq ended'
          /\ sensor'[s] = "tracing" =>
                 tracing_on' \/ (sensor[s] = "tracing" /\ tracing_on' = tracing_on)
      BY <1>9 DEF DebugMode, StartThreads, AddFilter, TraceOn, TraceOff, Exit, TraceEnds,
                  Crash, Killed, Advance, Alive
    <2>4. \A t \in Starts : Alive(t)' => t = s
      BY <2>1 DEF Sole, Alive
    <2>5. \A t \in Starts, c \in Stops : KilledBy(t, c)' <=> KilledBy(t, c)
      BY <2>1 DEF KilledBy
    <2>6. Alive(s)' /\ sensor'[s] # "forked"
              => pid_file' = <<s>> \/ \E c \in Stops : KilledBy(s, c)'
      BY <2>1, <2>5 DEF Sole, Alive
    <2>7. sensor'[s] = "tracing" /\ s \notin ended'
              => tracing_on' \/ \E c \in Stops : (KilledBy(s, c) /\ pc[c] = "kill")'
      BY <2>1, <2>3, <2>5 DEF Sole
    <2>8. sensor'[s] \in Filtering /\ s \notin unlisted' =>
              filter' = s \/ (sensor[s] \in Filtering /\ s \notin unlisted /\ filter' = filter)
      BY <1>9 DEF DebugMode, StartThreads, AddFilter, TraceOn, TraceOff, Exit, TraceEnds,
                  Crash, Killed, Advance, Alive, Filtering, mishaps
    <2>9. sensor'[s] \in Filtering /\ s \notin unlisted'
              => filter' = s \/ \E c \in Stops : (KilledBy(s, c) /\ pc[c] # "clear")'
      BY <2>1, <2>5, <2>8 DEF Sole
    <2>10. Sole'
      BY <2>1, <2>4, <2>6, <2>7, <2>9 DEF Sole, Alive, Filtering
    <2> QED BY <2>2, <2>10
  <1>10. CASE UNCHANGED vars
    BY <1>10 DEF vars, commandVars, sensorVars, mishaps, Serial, Sole, Busy, Alive, Killing,
                 KilledBy, FirstPid
  <1> QED
    BY <1>1, <1>2, <1>3, <1>4, <1>5, <1>6, <1>7, <1>8, <1>9, <1>10 DEF Next, Run, Sensor

LEMMA Serially == ASSUME ~Overlap PROVE Spec => [](Types /\ Serial /\ Sole)
  <1>1. Init => PidsOfDaemons
    BY DEF Init, PidsOfDaemons, Killing, Commands
  <1> QED
    BY <1>1, InitTypes, InitSerial, StepTypes, StepPidsOfDaemons, StepSerial, PTL DEF Spec

(* main.cpp:47-62, linux_daemon.h:67-80: with one command after the other  *)
(* there is at most one sensor, however many crash.                        *)
THEOREM OneSensor == Spec => []AtMostOneSensor
  <1>1. Sole => AtMostOneSensor
    BY DEF Sole, AtMostOneSensor
  <1>2. CASE ~Overlap
    BY <1>1, <1>2, Serially, PTL
  <1>3. CASE Overlap
    <2>1. AtMostOneSensor
      BY <1>3 DEF AtMostOneSensor
    <2> QED BY <2>1, PTL
  <1> QED BY <1>2, <1>3

(* linux_daemon.h:40-49: the pid file names that sensor when a command may *)
(* read it.                                                                *)
THEOREM Recorded == Spec => []SensorIsRecorded
  <1>1. Sole => SensorIsRecorded
    BY DEF Sole, SensorIsRecorded, Quiet, KilledBy, Killing, Commands
  <1>2. CASE ~Overlap
    BY <1>1, <1>2, Serially, PTL
  <1>3. CASE Overlap
    <2>1. SensorIsRecorded
      BY <1>3 DEF SensorIsRecorded
    <2> QED BY <2>1, PTL
  <1> QED BY <1>2, <1>3

(* linux_daemon.h:68-78, multithreaded_sensor.h:112-113: no stop, and no   *)
(* other sensor that starts or ends, takes the trace or the filter of a    *)
(* sensor that goes on.                                                    *)
THEOREM KeepsItsTrace == Spec => []SensorKeepsItsTrace
  <1>1. Sole => SensorKeepsItsTrace
    <2> SUFFICES ASSUME Sole, Quiet, NEW s \in Starts
                 PROVE  /\ sensor[s] = "tracing" /\ s \notin ended => tracing_on
                        /\ sensor[s] \in Filtering /\ s \notin unlisted => filter = s
      BY DEF SensorKeepsItsTrace, Filtering
    <2>1. \A c \in Stops : ~KilledBy(s, c)
      BY DEF Quiet, KilledBy, Killing, Commands
    <2> QED BY <2>1 DEF Sole
  <1>2. CASE ~Overlap
    BY <1>1, <1>2, Serially, PTL
  <1>3. CASE Overlap
    <2>1. SensorKeepsItsTrace
      BY <1>3 DEF SensorKeepsItsTrace
    <2> QED BY <2>1, PTL
  <1> QED BY <1>2, <1>3
=============================================================================
