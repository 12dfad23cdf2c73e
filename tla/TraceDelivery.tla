---------------------------- MODULE TraceDelivery ----------------------------
(***************************************************************************)
(* What the multithreaded sensor promises about the records it reads from  *)
(* the trace, which are numbered 1, 2, 3, ... in the order of the trace:   *)
(* they reach the stream in that order, each once; a failed dispatch loses *)
(* the oldest ones outstanding and nothing else; and the sensor is         *)
(* finished only when nothing is outstanding.                              *)
(***************************************************************************)
EXTENDS Naturals, Sequences

CONSTANT MaxAccept  \* most records accepted in one step

VARIABLES
    accepted,       \* number of records read so far
    delivered,      \* what the stream was given, in order
    lost,           \* records dropped by a failed dispatch
    done            \* the sensor is finished

vars == <<accepted, delivered, lost, done>>

Settled == { delivered[i] : i \in 1..Len(delivered) } \cup lost

(* a is the oldest record outstanding and b is outstanding too. *)
OldestOutstanding(a, b) == Settled = 1..(a - 1) /\ a <= b

Init ==
    /\ accepted = 0
    /\ delivered = <<>>
    /\ lost = {}
    /\ done = FALSE

Accept ==
    /\ ~done
    /\ \E n \in 1..MaxAccept : accepted' = accepted + n
    /\ UNCHANGED <<delivered, lost, done>>

Deliver(a, b) ==
    /\ OldestOutstanding(a, b)
    /\ delivered' = delivered \o [i \in 1..(b - a + 1) |-> a + i - 1]
    /\ UNCHANGED <<accepted, lost, done>>

Lose(a, b) ==
    /\ OldestOutstanding(a, b)
    /\ lost' = lost \cup (a..b)
    /\ UNCHANGED <<accepted, delivered, done>>

Finish ==
    /\ Settled = 1..accepted
    /\ done' = TRUE
    /\ UNCHANGED <<accepted, delivered, lost>>

Next ==
    \/ Accept
    \/ \E a, b \in 1..accepted : Deliver(a, b) \/ Lose(a, b)
    \/ Finish

Spec == Init /\ [][Next]_vars
=============================================================================
