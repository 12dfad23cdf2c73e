------------------------------ MODULE SafeQueue ------------------------------
(***************************************************************************)
(* include/queue/simple/simple_queue.h, the class behind message_queue:    *)
(* a std::queue q guarded by a std::mutex m, with a condition variable c   *)
(* on which the consumers wait while q is empty.                           *)
(*                                                                         *)
(* A step is what one thread does between two operations on m or c, so     *)
(* every interleaving the mutex allows is a behaviour:                     *)
(*                                                                         *)
(*   enqueue(_bulk)      CallEnqueue, Lock, Push, NotifyAll, Unlock        *)
(*   dequeue and         CallDequeue, Lock, then Wait (releases m, back to *)
(*   wait_dequeue_bulk   Lock when woken) or Take, then Unlock             *)
(*                                                                         *)
(* size_approx reads q.size() without m and changes nothing: no action.    *)
(***************************************************************************)
EXTENDS Naturals, Sequences

CONSTANTS
    Producers,      \* threads that enqueue
    Consumers,      \* threads that dequeue
    Messages,       \* what the queue carries
    Capacity,       \* size of the array a consumer passes (1 for dequeue)
    MaxBulk,        \* longest bulk a producer enqueues
    MaxBacklog,     \* bound of the model: no call to enqueue from this length
    NoThread        \* owner of the mutex when it is free

Threads == Producers \cup Consumers

ASSUME SafeQueueAssumption ==
    /\ Producers \cap Consumers = {}
    /\ NoThread \notin Threads
    /\ Capacity \in Nat \ {0}
    /\ MaxBulk \in Nat
    /\ MaxBacklog \in Nat

VARIABLES
    q,              \* the std::queue
    m,              \* the thread that holds the mutex, or NoThread
    pc,             \* thread -> where it stands in its call
    message         \* thread -> the array of the call: what a producer
                    \* passed, what a consumer has been given

vars == <<q, m, pc, message>>

Bulks == UNION { [1..n -> Messages] : n \in 0..MaxBulk }

Smaller(a, b) == IF a <= b THEN a ELSE b

Init ==
    /\ q = <<>>
    /\ m = NoThread
    /\ pc = [t \in Threads |-> "idle"]
    /\ message = [t \in Threads |-> <<>>]

Goto(t, from, to) ==
    /\ pc[t] = from
    /\ pc' = [pc EXCEPT ![t] = to]

-----------------------------------------------------------------------------
(* A producer calls enqueue (a bulk of one) or enqueue_bulk; the size may  *)
(* be 0.                                                                   *)
CallEnqueue(p, ms) ==
    /\ Len(q) < MaxBacklog
    /\ Goto(p, "idle", "lock")
    /\ message' = [message EXCEPT ![p] = ms]
    /\ UNCHANGED <<q, m>>

(* A consumer calls dequeue or wait_dequeue_bulk. *)
CallDequeue(c) ==
    /\ Goto(c, "idle", "lock")
    /\ message' = [message EXCEPT ![c] = <<>>]
    /\ UNCHANGED <<q, m>>

(* The constructor of the lock_guard or unique_lock, and the end of a wait *)
(* that has been notified: the thread gets m when it is free.              *)
Lock(t) ==
    /\ m = NoThread
    /\ Goto(t, "lock", "locked")
    /\ m' = t
    /\ UNCHANGED <<q, message>>

(* q.push of every message of the bulk, under m. *)
Push(p) ==
    /\ Goto(p, "locked", "notify")
    /\ q' = q \o message[p]
    /\ UNCHANGED <<m, message>>

(* Mutant of NotifyAll: a bulk enqueue without its c.notify_all(). *)
NotifyNobody(p) ==
    /\ Goto(p, "notify", "unlock")
    /\ UNCHANGED <<q, m, message>>

(* c.notify_all(), still under m: every waiter will try to get m again. *)
NotifyAll(p) ==
    /\ pc[p] = "notify"
    /\ pc' = [t \in Threads |->
                 IF t = p THEN "unlock"
                 ELSE IF pc[t] = "wait" THEN "lock" ELSE pc[t]]
    /\ UNCHANGED <<q, m, message>>

(* Mutant of Wait: the test of q made before m is taken, so that q may     *)
(* have been filled and its notification sent in between.                  *)
WaitAfterStaleTest(c) ==
    /\ Goto(c, "locked", "wait")
    /\ m' = NoThread
    /\ UNCHANGED <<q, message>>

(* The loop test finds q empty: c.wait(lock) gives m back and blocks, in   *)
(* one step.                                                               *)
Wait(c) ==
    /\ q = <<>>
    /\ Goto(c, "locked", "wait")
    /\ m' = NoThread
    /\ UNCHANGED <<q, message>>

(* A wait may end with no notification (a spurious wakeup). *)
SpuriousWakeup(c) ==
    /\ Goto(c, "wait", "lock")
    /\ UNCHANGED <<q, m, message>>

(* Mutant of Take: the pop loop reads the front of q and forgets to pop    *)
(* the last message it copied.                                             *)
TakeWithoutLastPop(c) ==
    /\ q # <<>>
    /\ Goto(c, "locked", "unlock")
    /\ LET k == Smaller(Capacity, Len(q))
       IN /\ message' = [message EXCEPT ![c] = SubSeq(q, 1, k)]
          /\ q' = SubSeq(q, k, Len(q))
    /\ UNCHANGED m

(* Mutant of Take: the pop loop runs to i <= capacity. *)
TakeOneTooMany(c) ==
    /\ q # <<>>
    /\ Goto(c, "locked", "unlock")
    /\ LET k == Smaller(Capacity + 1, Len(q))
       IN /\ message' = [message EXCEPT ![c] = SubSeq(q, 1, k)]
          /\ q' = SubSeq(q, k + 1, Len(q))
    /\ UNCHANGED m

(* The loop test finds q non-empty: pop until the array is full or q is    *)
(* empty.                                                                  *)
Take(c) ==
    /\ q # <<>>
    /\ Goto(c, "locked", "unlock")
    /\ LET k == Smaller(Capacity, Len(q))
       IN /\ message' = [message EXCEPT ![c] = SubSeq(q, 1, k)]
          /\ q' = SubSeq(q, k + 1, Len(q))
    /\ UNCHANGED m

(* The destructor of the lock, and the return from the call. *)
Unlock(t) ==
    /\ Goto(t, "unlock", "idle")
    /\ m' = NoThread
    /\ UNCHANGED <<q, message>>

-----------------------------------------------------------------------------
(* What a thread does once called; the calls and the spurious wakeups come *)
(* from outside.                                                           *)
ProducerStep(p) == Lock(p) \/ Push(p) \/ NotifyAll(p) \/ Unlock(p)
ConsumerStep(c) == Lock(c) \/ Wait(c) \/ Take(c) \/ Unlock(c)

Next ==
    \/ \E p \in Producers : \/ \E ms \in Bulks : CallEnqueue(p, ms)
                            \/ ProducerStep(p)
    \/ \E c \in Consumers : \/ CallDequeue(c)
                            \/ ConsumerStep(c)
                            \/ SpuriousWakeup(c)

(* A thread that can run is eventually scheduled. Nothing is assumed of    *)
(* who gets a contended mutex: std::mutex promises no order.               *)
Fairness ==
    /\ \A p \in Producers : WF_vars(ProducerStep(p))
    /\ \A c \in Consumers : WF_vars(ConsumerStep(c))

Spec == Init /\ [][Next]_vars /\ Fairness

-----------------------------------------------------------------------------
(* The types, and no consumer is given more than its array holds           *)
(* (simple_queue.h:51-64).                                                 *)
TypeOK ==
    /\ q \in Seq(Messages)
    /\ m \in Threads \cup {NoThread}
    /\ pc \in [Threads -> {"idle", "lock", "locked", "notify", "unlock", "wait"}]
    /\ \A p \in Producers : pc[p] # "wait"
    /\ \A c \in Consumers : pc[c] # "notify"
    /\ message \in [Threads -> Seq(Messages)]
    /\ \A c \in Consumers : Len(message[c]) <= Capacity

(* The thread inside the critical section is the one that holds m. *)
Holding(t) == pc[t] \in {"locked", "notify", "unlock"}
MutexHeldInside == \A t \in Threads : Holding(t) <=> m = t

(* simple_queue.h:27-29, 44-49, 54-57: a consumer never sleeps beside a    *)
(* non-empty queue, unless the producer that filled it still holds m and   *)
(* has its notify_all ahead. A wakeup lost between the test of q and the   *)
(* wait, or between the push and the notification, would break it.         *)
NoLostWakeup ==
    \A c \in Consumers :
        pc[c] = "wait" /\ q # <<>> => \E p \in Producers : m = p /\ pc[p] = "notify"

(* simple_queue.h:54-57: a consumer asleep beside a non-empty queue        *)
(* eventually leaves the wait.                                             *)
SleeperIsWoken ==
    \A c \in Consumers : (pc[c] = "wait" /\ q # <<>>) ~> (pc[c] # "wait")

(* The promise of message_queue: with a call in progress until its push or *)
(* take, SafeQueue is a FIFO with atomic bulk operations.                  *)
StatusOf(t) ==
    IF pc[t] = "idle" THEN "idle"
    ELSE IF pc[t] \in {"lock", "locked", "wait"} THEN "called" ELSE "done"

Abstract == INSTANCE MessageQueue WITH
    queue  <- q,
    status <- [t \in Threads |-> StatusOf(t)],
    bulk   <- message

IsMessageQueue == Abstract!Spec
=============================================================================
