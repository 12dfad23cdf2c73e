---------------------------- MODULE TraceRecord -----------------------------
(***************************************************************************)
(* How the worker makes records out of the lines of a trace: the loop of   *)
(* SyscallsParams::collect, which cuts a line at fixed columns, and the    *)
(* constructors of SysRecord and SysParamsRecord, which read the numbers.  *)
(*                                                                         *)
(* A character is its code less that of '0', as the parsing uses it. The   *)
(* kernel's format is that of ftrace's default output, which the columns   *)
(* in the code are made for.                                               *)
(***************************************************************************)
EXTENDS Integers, Sequences, SequencesExt

CONSTANTS
    Names,          \* names of processes: sequences of characters
    Pids,           \* their pids
    Seconds,        \* times of events, in seconds since the boot
    Calls,          \* numbers of system calls
    OtherLengths,   \* lengths of lines that are not of sys_enter
    MaxLines        \* bound of the model: lines of the trace

Space == 0 - 16
Dash == 0 - 3
Letter == 49

ASSUME TraceRecordAssumption ==
    /\ Names \subseteq Seq({Space, Letter}) /\ \A name \in Names : Len(name) < 16
    /\ Pids \subseteq Nat /\ Seconds \subseteq Nat /\ Calls \subseteq Int
    \* Those of 63 and 64 characters are read past their end.
    /\ OtherLengths \subseteq Nat \ {63, 64}
    /\ MaxLines \in Nat

VARIABLES
    trace,          \* history: the events printed so far
    collected,      \* how many of their lines collect() is through with
    data,           \* the records of the DataAggregator
    terminated      \* an exception has left the worker's thread

recordVars == <<trace, collected, data, terminated>>

(* lost: the line comes without its first character (see TraceReader).     *)
SysEnters == [name : Names, pid : Pids, sec : Seconds, nr : Calls, lost : BOOLEAN]
Others == [length : OtherLengths]
IsSysEnter(e) == "nr" \in DOMAIN e

RecordInit ==
    /\ trace = <<>> /\ collected = 0
    /\ data = <<>>
    /\ terminated = FALSE

-----------------------------------------------------------------------------
(* The lines *)

Of(c, n) == IF n > 0 THEN [i \in 1..n |-> c] ELSE <<>>

Digits[n \in Nat] == IF n < 10 THEN <<n>> ELSE Append(Digits[n \div 10], n % 10)

Number(n) == IF n < 0 THEN <<Dash>> \o Digits[0 - n] ELSE Digits[n]

AtRight(s, width) == Of(Space, width - Len(s)) \o s
AtLeft(s, width) == s \o Of(Space, width - Len(s))

(* "%16s-%-5d [%03d] %s %5lu.%06lu: sys_enter: NR %ld (%lx, ...)"; no      *)
(* columns make up for a field that is wider, which only moves what        *)
(* follows. What is between the pid and the time is not read.              *)
Printed(e) ==
    AtRight(e.name, 16) \o <<Dash>> \o AtLeft(Digits[e.pid], 5)
        \o <<Space>> \o Of(Letter, 10) \o <<Space>>
        \o AtRight(Digits[e.sec], 5) \o Of(Letter, 19) \o <<Space>>
        \o <<30, 34, Space>> \o Number(e.nr) \o <<Space>> \o Of(Letter, 20)

Line(e) ==
    IF IsSysEnter(e)
    THEN IF e.lost THEN Tail(Printed(e)) ELSE Printed(e)
    ELSE Of(Letter, e.length)

(* set_pid, set_syscall: a digit more at a time. No more than five are     *)
(* read, which neither type overflows at.                                  *)
Value(digits) ==
    LET value[i \in 0..Len(digits)] ==
            IF i = 0 THEN 0 ELSE value[i - 1] * 10 + digits[i]
    IN value[Len(digits)]

(* Mutant of NumberIn: a number does not end at a space. *)
NumberInAll(s) == Value(s)

(* ... and that up to the first space.                                     *)
NumberIn(s) ==
    LET space == SelectInSeq(s, LAMBDA c : c = Space)
    IN Value(IF space = 0 THEN s ELSE SubSeq(s, 1, space - 1))

(* Mutant of NameIn: the character end points at belongs to it. *)
NameWithEnd(line) ==
    LET first == SelectInSeq(line, LAMBDA c : c # Space)
        end   == SelectLastInSubSeq(line, 1, 17, LAMBDA c : c # Space)
    IN SubSeq(line, first, end)

(* set_name: without the spaces at its left; *end is the '-'.              *)
NameIn(line) ==
    LET first == SelectInSeq(line, LAMBDA c : c # Space)
        end   == SelectLastInSubSeq(line, 1, 17, LAMBDA c : c # Space)
    IN SubSeq(line, first, end - 1)

(* Mutant of RecordOf: the columns are counted from 1. *)
RecordOfFromOne(line) ==
    [name |-> NameIn(line), pid |-> NumberIn(SubSeq(line, 17, 21)),
     syscall |-> NumberIn(SubSeq(line, 62, 64))]

(* The columns of SyscallsParams. *)
RecordOf(line) ==
    [name |-> NameIn(line), pid |-> NumberIn(SubSeq(line, 18, 22)),
     syscall |-> NumberIn(SubSeq(line, 63, 65))]

-----------------------------------------------------------------------------
(* The operations *)

(* The kernel prints an event or a notice, and the reader hands it on.     *)
Trace ==
    /\ Len(trace) < MaxLines
    /\ \E e \in SysEnters \cup Others : trace' = Append(trace, e)
    /\ UNCHANGED <<collected, data, terminated>>

IsRead(line) == Len(line) > 60

(* Mutant of Collect: the lines that are not long enough are read, too. *)
CollectAny ==
    /\ ~terminated /\ collected < Len(trace)
    /\ LET line == Line(trace[collected + 1])
       IN IF Len(line) < 63
          THEN terminated' = TRUE /\ UNCHANGED <<collected, data>>
          ELSE /\ data' = Append(data, RecordOf(line))
               /\ collected' = collected + 1 /\ UNCHANGED terminated
    /\ UNCHANGED trace

(* One turn of the loop. The arguments of the call begin at column 63, so  *)
(* a line that is read but ends before gives them a negative length, and   *)
(* nothing in the worker's thread catches the std::length_error.           *)
Collect ==
    /\ ~terminated /\ collected < Len(trace)
    /\ LET line == Line(trace[collected + 1])
       IN IF IsRead(line) /\ Len(line) < 63
          THEN terminated' = TRUE /\ UNCHANGED <<collected, data>>
          ELSE /\ data' = IF IsRead(line) THEN Append(data, RecordOf(line)) ELSE data
               /\ collected' = collected + 1 /\ UNCHANGED terminated
    /\ UNCHANGED trace

RecordNext == Trace \/ Collect

RecordSpec == RecordInit /\ [][RecordNext]_recordVars
-----------------------------------------------------------------------------
(* Properties *)

Shorts == -32768..32767

Records == [name : Seq(Int), pid : Int, syscall : Shorts]

(* A name has the characters in front of the pid at most, and a number of  *)
(* a call is in the range of its type.                                     *)
RecordTypeOK ==
    /\ trace \in Seq(SysEnters \cup Others)
    /\ collected \in 0..Len(trace)
    /\ data \in Seq(Records)
    /\ \A i \in 1..Len(data) : Len(data[i].name) <= 16
    /\ terminated \in BOOLEAN

(* The events behind the records. *)
Recorded ==
    FlattenSeq([i \in 1..collected |->
                    IF IsRead(Line(trace[i])) THEN <<trace[i]>> ELSE <<>>])

Fits(n) == n < 100000

Stripped(name) ==
    SubSeq(name, SelectInSeq(Append(name, Dash), LAMBDA c : c # Space), Len(name))

(* syscall_params.h:15-36, sys_record.h:24-42, sys_params_record.h:20-27:  *)
(* the records are those of the trace, in its order, as long as the line   *)
(* is whole, the machine has been up for less than 100000 seconds, and the *)
(* pid has five digits and the number of the call three at most.           *)
RecordsOfTheTrace ==
    /\ Len(data) = Len(Recorded)
    /\ \A i \in 1..Len(data) :
        LET e == Recorded[i]
        IN (/\ IsSysEnter(e) /\ ~e.lost
            /\ Fits(e.pid) /\ Fits(e.sec) /\ e.nr \in 0..999) =>
                data[i] = [name |-> Stripped(e.name), pid |-> e.pid, syscall |-> e.nr]

Width(n) == IF Fits(n) THEN 5 ELSE Len(Digits[n])

(* By how many columns the number of the call is away from where it is     *)
(* looked for.                                                             *)
Shift(e) == (Width(e.pid) - 5) + (Width(e.sec) - 5) - (IF e.lost THEN 1 ELSE 0)

(* syscall_params.h:26-27: but a time of six digits or more, or such a     *)
(* pid, moves the number of the call out of the columns, and what they     *)
(* have then is the same for every call: nothing, "R", "NR", or nothing    *)
(* again. And a call of one digit is 0 when the line has lost its first    *)
(* character.                                                              *)
CallsOfShiftedLines ==
    \A i \in 1..Len(data) :
        LET e == Recorded[i]
        IN IsSysEnter(e) =>
            /\ Shift(e) \in 1..4 => data[i].syscall = <<0, 34, 334, 0>>[Shift(e)]
            /\ Shift(e) = -1 /\ e.nr \in 0..9 => data[i].syscall = 0

(* syscall_params.h:17, 29-31: however its columns are shifted, a line of  *)
(* sys_enter does not end the sensor; a line of something else may.        *)
OnlyOthersTerminate ==
    terminated => Line(trace[collected + 1]) \in {Line([length |-> n]) : n \in {61, 62}}
=============================================================================
