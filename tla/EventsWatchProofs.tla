------------------------- MODULE EventsWatchProofs -------------------------
(***************************************************************************)
(* Theorems about EventsWatch, for any number of events, of seconds and of *)
(* interleavings of the two counting threads with the main thread.         *)
(*                                                                         *)
(* The inductive invariant is Types /\ Counted /\ Ordered, the bounds of   *)
(* what add() has in hand and the order in which the threads end; on it    *)
(* rest Balance, the account of the rates, and Frozen, that nothing a      *)
(* summary was made of changes afterwards.                                 *)
(***************************************************************************)
EXTENDS EventsWatch, TLAPS

(* The variables and their domains. *)
Types ==
    /\ clock \in 0..MaxClock
    /\ pc \in [Threads -> {"new", "run", "add", "add_total", "ended", "stopped", "returned"}]
    /\ copy \in [Threads -> Nat] /\ adding \in [Threads -> Nat]
    /\ events \in [Threads -> Nat] /\ total_events \in [Threads -> Nat]
    /\ start_p \in [Threads -> {Epoch} \cup 0..MaxClock]
    /\ start_all \in [Threads -> {Epoch} \cup 0..MaxClock]
    /\ stop_p \in [Threads -> {Epoch} \cup 0..MaxClock]
    /\ finished \in BOOLEAN
    /\ main \in {"test", "sleep", "summary", "returned", "reader", "sender",
                 "reset_reader", "reset_sender"}
    /\ asleep \in 0..MaxClock /\ seen \in Nat
    /\ reported \in [Threads -> Nat]
    /\ raced \subseteq Threads

(* What a running add() has in hand, and how it bounds the counters.       *)
Counted ==
    \A t \in Threads :
        /\ adding[t] <= MaxAdd /\ total_events[t] + adding[t] <= MaxEvents
        /\ pc[t] \notin {"add", "add_total"} => adding[t] = 0
        /\ copy[t] <= total_events[t]
        /\ events[t] <= total_events[t] + (IF pc[t] = "add_total" THEN adding[t] ELSE 0)

(* The sender ends after the reader has enqueued the end, and finished and *)
(* the summary come after both; a watch that was started knows when, and   *)
(* the sender's is stopped before finished is set.                         *)
Ordered ==
    /\ \A t \in Threads : pc[t] # "new" => start_all[t] # Epoch
    /\ pc["sender"] \in {"stopped", "returned"} =>
           pc["reader"] \in {"ended", "returned"} /\ stop_p["sender"] # Epoch
    /\ pc["reader"] # "returned" => stop_p["reader"] = Epoch
    /\ finished => pc["sender"] = "returned"
    /\ main \in {"summary", "returned"} => finished

IInv == Types /\ Counted /\ Ordered

LEMMA EpochIsPast == Epoch \in Int /\ Epoch < 0
  BY SMT DEF Epoch

LEMMA InitIInv == Init => IInv
  <1> SUFFICES ASSUME Init PROVE IInv
    OBVIOUS
  <1>1. Types
    <2>1. 0 \in 0..MaxClock
      BY EventsWatchAssumption
    <2>2. {start_p, start_all, stop_p} \subseteq [Threads -> {Epoch} \cup 0..MaxClock]
      BY DEF Init
    <2>3. {copy, adding, events, total_events, reported} \subseteq [Threads -> Nat]
      BY DEF Init
    <2> QED BY <2>1, <2>2, <2>3 DEF Init, Types
  <1>2. Counted
    BY EventsWatchAssumption DEF Init, Counted
  <1>3. Ordered
    BY DEF Init, Ordered, Threads
  <1> QED BY <1>1, <1>2, <1>3 DEF IInv

LEMMA StepIInv == IInv /\ [Next]_vars => IInv'
  <1> SUFFICES ASSUME IInv, [Next]_vars PROVE IInv'
    OBVIOUS
  <1> USE EventsWatchAssumption, EpochIsPast DEF IInv, Types, Counted, Ordered
  <1>1. ASSUME NEW t \in Threads, Start(t) PROVE IInv'
    BY <1>1 DEF Start, Goto, mainVars
  <1>2. ASSUME NEW t \in Threads, NEW n \in 1..MaxAdd, AddReads(t, n) PROVE IInv'
    BY <1>2 DEF AddReads, Goto, mainVars, watchVars
  <1>3. ASSUME NEW t \in Threads, AddWrites(t) PROVE IInv'
    BY <1>3 DEF AddWrites, Goto
  <1>4. ASSUME NEW t \in Threads, AddTotal(t) PROVE IInv'
    BY <1>4 DEF AddTotal, Goto, mainVars
  <1>5. CASE EnqueueEnd
    BY <1>5 DEF EnqueueEnd, Goto, mainVars, watchVars, Threads
  <1>6. CASE StopReader
    BY <1>6 DEF StopReader, Goto, mainVars, Threads
  <1>7. CASE StopSender
    BY <1>7 DEF StopSender, Goto, mainVars, Threads
  <1>8. CASE Finish
    BY <1>8 DEF Finish, Goto, mainVars, watchVars, Threads
  <1>9. CASE Test \/ Wake \/ Summary
    BY <1>9 DEF Test, Wake, Summary, addVars, watchVars
  <1>10. ASSUME NEW t \in Threads, Now(t) PROVE IInv'
    BY <1>10 DEF Now, ResetOf, NextOf, Threads, addVars, watchVars
  <1>11. ASSUME NEW t \in Threads, Reset(t) PROVE IInv'
    BY <1>11 DEF Reset, ResetOf, NextOf, Threads, addVars
  <1>12. CASE Tick
    BY <1>12 DEF Tick, addVars, watchVars, mainVars
  <1>13. CASE UNCHANGED vars
    BY <1>13 DEF vars, addVars, watchVars, mainVars
  <1> QED
    BY <1>1, <1>2, <1>3, <1>4, <1>5, <1>6, <1>7, <1>8, <1>9, <1>10, <1>11, <1>12, <1>13
    DEF Next, Add

LEMMA Invariance == Spec => []IInv
  BY InitIInv, StepIInv, PTL DEF Spec

(* events_measure.h:22-48: no counter of a rate passes that of all events, *)
(* but by an add() that runs.                                              *)
THEOREM TypeCorrect == Spec => []TypeOK
  <1>1. IInv => TypeOK
    BY EventsWatchAssumption DEF IInv, Types, Counted, TypeOK, Threads, ResetOf
  <1> QED BY <1>1, Invariance, PTL

-----------------------------------------------------------------------------
(* The rates *)

(* Unless an add() fell into a now(), what the rates were computed from    *)
(* and what is left for the next one are all that was added, where a       *)
(* counter that is about to be reset is already in the rates.              *)
Balance ==
    \A t \in Threads : t \notin raced =>
        reported[t] + events[t] =
            total_events[t] + (IF pc[t] = "add_total" THEN adding[t] ELSE 0)
                + (IF main = ResetOf(t) THEN seen ELSE 0)

LEMMA StepBalance == IInv /\ Balance /\ [Next]_vars => Balance'
  <1> SUFFICES ASSUME IInv, Balance, [Next]_vars PROVE Balance'
    OBVIOUS
  <1> USE DEF IInv, Types, Counted, Balance
  <1>1. ASSUME NEW t \in Threads, Start(t) PROVE Balance'
    BY <1>1 DEF Start, Goto, mainVars
  <1>2. ASSUME NEW t \in Threads, NEW n \in 1..MaxAdd, AddReads(t, n) PROVE Balance'
    BY <1>2 DEF AddReads, Goto, mainVars, watchVars
  <1>3. ASSUME NEW t \in Threads, AddWrites(t) PROVE Balance'
    BY <1>3 DEF AddWrites, Goto
  <1>4. ASSUME NEW t \in Threads, AddTotal(t) PROVE Balance'
    BY <1>4 DEF AddTotal, Goto, mainVars
  <1>5. CASE EnqueueEnd \/ StopReader \/ StopSender \/ Finish
    BY <1>5 DEF EnqueueEnd, StopReader, StopSender, Finish, Goto, mainVars, watchVars, Threads
  <1>6. CASE Test \/ Wake \/ Summary
    BY <1>6 DEF Test, Wake, Summary, addVars, watchVars, ResetOf
  <1>7. ASSUME NEW t \in Threads, Now(t) PROVE Balance'
    BY <1>7 DEF Now, ResetOf, NextOf, Threads, addVars, watchVars
  <1>8. ASSUME NEW t \in Threads, Reset(t) PROVE Balance'
    BY <1>8 DEF Reset, ResetOf, NextOf, Threads, addVars
  <1>9. CASE Tick \/ UNCHANGED vars
    BY <1>9 DEF Tick, vars, addVars, watchVars, mainVars
  <1> QED
    BY <1>1, <1>2, <1>3, <1>4, <1>5, <1>6, <1>7, <1>8, <1>9 DEF Next, Add

(* events_measure.h:22-48: unless an add() fell into a now(), each event   *)
(* is in exactly one status, or in the next one.                           *)
THEOREM NoneReportedTwice == Spec => []ReportedOnce
  <1>1. Init => Balance
    BY DEF Init, Balance, Threads, ResetOf
  <1>2. IInv /\ Balance => ReportedOnce
    BY DEF IInv, Types, Balance, ReportedOnce
  <1> QED BY <1>1, <1>2, StepBalance, Invariance, PTL DEF Spec

-----------------------------------------------------------------------------
(* The summary *)

(* A watch that is not stopped has no rate. *)
LEMMA NotStopped ==
    ASSUME Types, Ordered, NEW t \in Threads, pc[t] # "new", stop_p[t] = Epoch
    PROVE  Rate(t) = 0
  <1>1. start_all[t] \in Int /\ Epoch - start_all[t] <= 0
    BY EpochIsPast DEF Types, Ordered
  <1> QED BY <1>1 DEF Rate

(* What a summary said of the two watches still holds of them. *)
Frozen ==
    main = "returned" =>
        /\ \A t \in Threads : summary[t].all = total_events[t]
        /\ summary["sender"].rate = Rate("sender")
        /\ summary["reader"].rate \in {0, Rate("reader")}
        /\ stop_p["reader"] = Epoch => summary["reader"].rate = 0

LEMMA StepFrozen == IInv /\ Frozen /\ [Next]_vars => Frozen'
  <1> SUFFICES ASSUME IInv, Frozen, [Next]_vars, main' = "returned" PROVE Frozen'
    BY DEF Frozen
  <1> USE DEF IInv
  <1>1. CASE Summary
    <2>1. /\ summary' = [t \in Threads |-> [all |-> total_events[t], rate |-> Rate(t)]]
          /\ UNCHANGED <<total_events, stop_p, start_all>>
      BY <1>1 DEF Summary, watchVars
    <2>2. \A t \in Threads : Rate(t)' = Rate(t)
      BY <2>1 DEF Rate
    <2>3. stop_p["reader"] = Epoch => Rate("reader") = 0
      BY <1>1, NotStopped DEF Summary, Ordered, Threads
    <2> QED BY <2>1, <2>2, <2>3 DEF Frozen, Threads
  <1>2. CASE ~Summary
    <2>1. main = "returned" /\ UNCHANGED summary
      BY <1>2
      DEF Next, Add, Start, AddReads, AddWrites, AddTotal, EnqueueEnd, StopReader,
          StopSender, Finish, Test, Wake, Now, Reset, Tick, ResetOf, NextOf, Threads, vars,
          mainVars
    <2>2. pc["sender"] = "returned" /\ pc["reader"] \in {"ended", "returned"}
      BY <2>1 DEF Ordered
    <2>3. UNCHANGED <<total_events, start_all>> /\ (UNCHANGED stop_p \/ StopReader)
      <3>1. CASE \E t \in Threads : Start(t) \/ Add(t)
        BY <2>2, <3>1 DEF Start, Add, AddReads, AddWrites, AddTotal, Goto, Threads
      <3>2. CASE \E t \in Threads : Now(t) \/ Reset(t)
        BY <3>2 DEF Now, Reset, watchVars
      <3>3. CASE EnqueueEnd \/ StopReader \/ StopSender \/ Finish
        BY <2>2, <3>3 DEF EnqueueEnd, StopReader, StopSender, Finish, Goto, watchVars
      <3>4. CASE Test \/ Wake \/ Summary \/ Tick \/ UNCHANGED vars
        BY <3>4 DEF Test, Wake, Summary, Tick, vars, watchVars
      <3> QED BY <3>1, <3>2, <3>3, <3>4 DEF Next
    <2>4. CASE UNCHANGED stop_p
      <3>1. \A t \in Threads : Rate(t)' = Rate(t)
        BY <2>3, <2>4 DEF Rate
      <3> QED BY <2>1, <2>3, <2>4, <3>1 DEF Frozen, Threads
    <2>5. CASE StopReader
      <3>1. stop_p' = [stop_p EXCEPT !["reader"] = clock] /\ pc["reader"] = "ended"
        BY <2>5 DEF StopReader, Goto
      <3>2. Rate("sender")' = Rate("sender")
        BY <2>3, <3>1 DEF Rate, Types, Threads
      <3>3. summary["reader"].rate = 0
        BY <2>1, <3>1 DEF Frozen, Ordered
      <3>4. stop_p'["reader"] # Epoch
        BY <3>1, EpochIsPast, EventsWatchAssumption DEF Types, Threads
      <3> QED BY <2>1, <2>3, <3>2, <3>3, <3>4 DEF Frozen, Threads
    <2> QED BY <2>3, <2>4, <2>5
  <1> QED BY <1>1, <1>2

(* events_measure.h:50-64, multithreaded_sensor.h:157-158, 204-206: the    *)
(* summary has each event, and the rate of the sender; that of the reader  *)
(* may be 0.                                                               *)
THEOREM SummarySaysAll == Spec => []SummaryIsExact
  <1>1. Init => Frozen
    BY DEF Init, Frozen
  <1>2. IInv /\ Frozen => SummaryIsExact
    BY DEF IInv, Ordered, Frozen, SummaryIsExact
  <1> QED BY <1>1, <1>2, StepFrozen, Invariance, PTL DEF Spec
=============================================================================
