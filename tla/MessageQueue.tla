---------------------------- MODULE MessageQueue ----------------------------
(***************************************************************************)
(* What message_queue<T> promises to the threads of the sensor: a FIFO of  *)
(* messages whose operations take effect at one instant between their call *)
(* and their return.                                                       *)
(*                                                                         *)
(*   enqueue, enqueue_bulk   the whole bulk enters the queue at once, in   *)
(*                           the order of the caller's array;              *)
(*   dequeue,                blocks while the queue is empty, then takes   *)
(*   wait_dequeue_bulk       the longest prefix that fits in the caller's  *)
(*                           array (an array of one for dequeue).          *)
(*                                                                         *)
(* SafeQueue, the class behind message_queue, is shown to implement it.    *)
(***************************************************************************)
EXTENDS Naturals, Sequences

CONSTANTS
    Producers,      \* threads that enqueue
    Consumers,      \* threads that dequeue
    Messages,       \* what the queue carries
    Capacity,       \* size of the array a consumer passes
    MaxBulk         \* longest bulk a producer enqueues

VARIABLES
    queue,          \* the messages in the queue, oldest first
    status,         \* thread -> "idle", "called" or "done"
    bulk            \* producer -> the messages it was called with;
                    \* consumer -> the messages its call returns

vars == <<queue, status, bulk>>

Bulks == UNION { [1..n -> Messages] : n \in 0..MaxBulk }

Smaller(a, b) == IF a <= b THEN a ELSE b

Init ==
    /\ queue = <<>>
    /\ status = [t \in Producers \cup Consumers |-> "idle"]
    /\ bulk = [t \in Producers \cup Consumers |-> <<>>]

CallEnqueue(p, ms) ==
    /\ status[p] = "idle"
    /\ status' = [status EXCEPT ![p] = "called"]
    /\ bulk' = [bulk EXCEPT ![p] = ms]
    /\ UNCHANGED queue

(* The instant at which the bulk of p enters the queue. *)
Enqueue(p) ==
    /\ status[p] = "called"
    /\ queue' = queue \o bulk[p]
    /\ status' = [status EXCEPT ![p] = "done"]
    /\ UNCHANGED bulk

CallDequeue(c) ==
    /\ status[c] = "idle"
    /\ status' = [status EXCEPT ![c] = "called"]
    /\ bulk' = [bulk EXCEPT ![c] = <<>>]
    /\ UNCHANGED queue

(* The instant at which c takes its messages: never from an empty queue. *)
Dequeue(c) ==
    /\ status[c] = "called"
    /\ queue # <<>>
    /\ LET k == Smaller(Capacity, Len(queue))
       IN /\ bulk' = [bulk EXCEPT ![c] = SubSeq(queue, 1, k)]
          /\ queue' = SubSeq(queue, k + 1, Len(queue))
    /\ status' = [status EXCEPT ![c] = "done"]

Return(t) ==
    /\ status[t] = "done"
    /\ status' = [status EXCEPT ![t] = "idle"]
    /\ UNCHANGED <<queue, bulk>>

Next ==
    \/ \E p \in Producers : \/ \E ms \in Bulks : CallEnqueue(p, ms)
                            \/ Enqueue(p)
    \/ \E c \in Consumers : CallDequeue(c) \/ Dequeue(c)
    \/ \E t \in Producers \cup Consumers : Return(t)

Spec == Init /\ [][Next]_vars
=============================================================================
