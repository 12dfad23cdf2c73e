----------------------------- MODULE MCSafeQueue -----------------------------
(***************************************************************************)
(* SafeQueue with two producers and two consumers, as many threads of each *)
(* kind as the races on the mutex and the condition variable need.         *)
(***************************************************************************)
EXTENDS SafeQueue
=============================================================================
