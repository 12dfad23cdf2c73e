------------------------------ MODULE Archive -------------------------------
(***************************************************************************)
(* What a log of system calls promises, process by process: it holds an    *)
(* unbroken run of the calls that were handed over, in their order, it     *)
(* only grows at its end, and only a command that opens the log afresh     *)
(* takes anything out of it. How late the calls arrive is left open.       *)
(***************************************************************************)
EXTENDS Naturals, Sequences, SequencesExt

CONSTANT Pids       \* processes whose calls are traced

VARIABLES
    accepted,       \* the calls of each process handed over so far
    archived        \* those of them that can be read in the log

vars == <<accepted, archived>>

Empty == [p \in Pids |-> <<>>]

Init == accepted = Empty /\ archived = Empty

Grows(old, new) == \A p \in Pids : IsPrefix(old[p], new[p])

(* A run of calls with no gap in it. *)
Unbroken(run, calls) ==
    \E i \in 1..(Len(calls) + 1), j \in 0..Len(calls) : run = SubSeq(calls, i, j)

(* Calls are handed over, some of them are in the log at once, and others  *)
(* that came before may follow.                                            *)
Record ==
    /\ Grows(accepted, accepted')
    /\ Grows(archived, archived')
    /\ \A p \in Pids : Unbroken(archived'[p], accepted'[p])

(* The log is opened afresh under a sensor that goes on. *)
Truncate ==
    /\ archived' = Empty
    /\ UNCHANGED accepted

(* Another sensor opens the log. *)
Restart ==
    /\ archived' = Empty
    /\ accepted' = Empty

Next == Record \/ Truncate \/ Restart

Spec == Init /\ [][Next]_vars
=============================================================================
