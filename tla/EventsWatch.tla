---------------------------- MODULE EventsWatch -----------------------------
(***************************************************************************)
(* include/sensor/events_measure.h as multithreaded_sensor uses it: the    *)
(* reader and the sender count events in a watch each, and the main thread *)
(* takes rates out of them for a status every second and, when finished is *)
(* set, for the summary. Nothing guards the counters: events += n is a     *)
(* read and a write, and so is the pair of now() and reset().              *)
(*                                                                         *)
(* The worker's watch is started and stopped, but nothing is ever added to *)
(* it. Time is counted in seconds.                                         *)
(***************************************************************************)
EXTENDS Integers

CONSTANTS
    MaxAdd,         \* bound of the model: events of one add()
    MaxEvents,      \* bound of the model: events a thread counts
    MaxClock        \* bound of the model: seconds

ASSUME EventsWatchAssumption == {MaxAdd, MaxEvents, MaxClock} \subseteq Nat \ {0}

VARIABLES
    clock,          \* the time
    pc,             \* where each thread stands
    copy,           \* what its add() has read of events
    adding,         \* the argument of its add()
    events,         \* EventsWatch::events
    total_events,   \* EventsWatch::total_events
    start_p,        \* EventsWatch::start_p
    start_all,      \* EventsWatch::start_all
    stop_p,         \* EventsWatch::stop_p
    finished,       \* the flag run() polls
    main,           \* where the main thread stands
    asleep,         \* when sleep_sec(1) began
    seen,           \* what now() has read of events
    reported,       \* history: events behind the rates reported so far
    raced,          \* history: the threads that add() in the middle of now()
    summary         \* what the summary says

addVars   == <<pc, copy, adding>>
watchVars == <<events, total_events, start_p, start_all, stop_p>>
mainVars  == <<main, asleep, seen, reported, raced, summary>>
vars == <<clock, addVars, watchVars, finished, mainVars>>

Threads == {"reader", "sender"}

(* time_point() of a watch that was not started or stopped: the epoch.     *)
Epoch == 0 - 1000000

Init ==
    /\ clock = 0
    /\ pc = [t \in Threads |-> "new"]
    /\ copy = [t \in Threads |-> 0] /\ adding = [t \in Threads |-> 0]
    /\ events = [t \in Threads |-> 0] /\ total_events = [t \in Threads |-> 0]
    /\ start_p = [t \in Threads |-> Epoch] /\ start_all = [t \in Threads |-> Epoch]
    /\ stop_p = [t \in Threads |-> Epoch]
    /\ finished = FALSE
    /\ main = "test" /\ asleep = 0 /\ seen = 0
    /\ reported = [t \in Threads |-> 0] /\ raced = {}
    /\ summary = <<>>

Goto(t, from, to) == pc[t] = from /\ pc' = [pc EXCEPT ![t] = to]

-----------------------------------------------------------------------------
(* The threads *)

Start(t) ==
    /\ Goto(t, "new", "run")
    /\ start_p' = [start_p EXCEPT ![t] = clock]
    /\ start_all' = [start_all EXCEPT ![t] = clock]
    /\ UNCHANGED <<clock, copy, adding, events, total_events, stop_p, finished, mainVars>>

(* add(n): events is read, ... *)
AddReads(t, n) ==
    /\ Goto(t, "run", "add")
    /\ total_events[t] + n <= MaxEvents
    /\ copy' = [copy EXCEPT ![t] = events[t]]
    /\ adding' = [adding EXCEPT ![t] = n]
    /\ UNCHANGED <<clock, watchVars, finished, mainVars>>

(* ... and written: a reset() in between is undone. *)
AddWrites(t) ==
    /\ Goto(t, "add", "add_total")
    /\ events' = [events EXCEPT ![t] = copy[t] + adding[t]]
    /\ copy' = [copy EXCEPT ![t] = 0]
    /\ raced' = IF events[t] # copy[t] THEN raced \cup {t} ELSE raced
    /\ UNCHANGED <<clock, adding, total_events, start_p, start_all, stop_p, finished,
                   main, asleep, seen, reported, summary>>

(* Mutant of AddTotal: the total is that of the last add(). *)
AddTotalOfLast(t) ==
    /\ Goto(t, "add_total", "run")
    /\ total_events' = [total_events EXCEPT ![t] = adding[t]]
    /\ adding' = [adding EXCEPT ![t] = 0]
    /\ UNCHANGED <<clock, copy, events, start_p, start_all, stop_p, finished, mainVars>>

AddTotal(t) ==
    /\ Goto(t, "add_total", "run")
    /\ total_events' = [total_events EXCEPT ![t] = @ + adding[t]]
    /\ adding' = [adding EXCEPT ![t] = 0]
    /\ UNCHANGED <<clock, copy, events, start_p, start_all, stop_p, finished, mainVars>>

(* The reader enqueues the nullptr that will end the sender, ... *)
EnqueueEnd ==
    /\ Goto("reader", "run", "ended")
    /\ UNCHANGED <<clock, copy, adding, watchVars, finished, mainVars>>

(* ... and stops its watch. *)
StopReader ==
    /\ Goto("reader", "ended", "returned")
    /\ stop_p' = [stop_p EXCEPT !["reader"] = clock]
    /\ UNCHANGED <<clock, copy, adding, events, total_events, start_p, start_all, finished,
                   mainVars>>

(* Mutant of StopSender: finished is set before the watch is stopped. *)
FinishBeforeStop ==
    /\ pc["reader"] \in {"ended", "returned"}
    /\ Goto("sender", "run", "stopped")
    /\ finished' = TRUE
    /\ UNCHANGED <<clock, copy, adding, watchVars, mainVars>>

(* The sender takes the nullptr and stops its watch; ... *)
StopSender ==
    /\ pc["reader"] \in {"ended", "returned"}
    /\ Goto("sender", "run", "stopped")
    /\ stop_p' = [stop_p EXCEPT !["sender"] = clock]
    /\ UNCHANGED <<clock, copy, adding, events, total_events, start_p, start_all, finished,
                   mainVars>>

(* ... then it sets finished. *)
Finish ==
    /\ Goto("sender", "stopped", "returned")
    /\ finished' = TRUE
    /\ UNCHANGED <<clock, copy, adding, watchVars, mainVars>>

-----------------------------------------------------------------------------
(* The main thread, serving one client *)

Test ==
    /\ main = "test"
    /\ main' = IF finished THEN "summary" ELSE "sleep"
    /\ asleep' = IF finished THEN 0 ELSE clock
    /\ UNCHANGED <<clock, addVars, watchVars, finished, seen, reported, raced, summary>>

(* sleep_sec(1), and the first watch get_status looks at. *)
Wake ==
    /\ main = "sleep" /\ clock > asleep
    /\ main' = "reader" /\ asleep' = 0
    /\ UNCHANGED <<clock, addVars, watchVars, finished, seen, reported, raced, summary>>

ResetOf(t) == IF t = "reader" THEN "reset_reader" ELSE "reset_sender"
NextOf(t) == IF t = "reader" THEN "sender" ELSE "test"

(* Mutant of Now: the watch is reset in the first second, too. *)
NowAlwaysResets(t) ==
    /\ main = t
    /\ main' = ResetOf(t) /\ seen' = events[t]
    /\ reported' = IF clock = start_p[t] THEN reported
                   ELSE [reported EXCEPT ![t] = @ + events[t]]
    /\ UNCHANGED <<clock, addVars, watchVars, finished, asleep, raced, summary>>

(* now(): events is read for the rate, unless less than a second has gone. *)
Now(t) ==
    /\ main = t
    /\ IF clock = start_p[t]
       THEN main' = NextOf(t) /\ UNCHANGED <<seen, reported>>
       ELSE /\ main' = ResetOf(t) /\ seen' = events[t]
            /\ reported' = [reported EXCEPT ![t] = @ + events[t]]
    /\ UNCHANGED <<clock, addVars, watchVars, finished, asleep, raced, summary>>

(* reset(): what was added since then is never reported. *)
Reset(t) ==
    /\ main = ResetOf(t)
    /\ main' = NextOf(t) /\ seen' = 0
    /\ events' = [events EXCEPT ![t] = 0]
    /\ start_p' = [start_p EXCEPT ![t] = clock]
    /\ raced' = IF events[t] # seen THEN raced \cup {t} ELSE raced
    /\ UNCHANGED <<clock, addVars, total_events, start_all, stop_p, finished, asleep, reported,
                   summary>>

(* total(): the division is one of unsigned numbers; by the seconds up to  *)
(* a stop_p that was not set, which are fewer than none, it gives 0.       *)
Rate(t) ==
    LET sec == stop_p[t] - start_all[t]
    IN IF sec <= 0 THEN 0 ELSE total_events[t] \div sec

(* get_summary() *)
Summary ==
    /\ main = "summary"
    /\ main' = "returned"
    /\ summary' = [t \in Threads |-> [all |-> total_events[t], rate |-> Rate(t)]]
    /\ UNCHANGED <<clock, addVars, watchVars, finished, asleep, seen, reported, raced>>

Tick ==
    /\ clock < MaxClock
    /\ clock' = clock + 1
    /\ UNCHANGED <<addVars, watchVars, finished, mainVars>>

-----------------------------------------------------------------------------
Add(t) == (\E n \in 1..MaxAdd : AddReads(t, n)) \/ AddWrites(t) \/ AddTotal(t)

Next == \/ \E t \in Threads : Start(t) \/ Add(t) \/ Now(t) \/ Reset(t)
        \/ EnqueueEnd \/ StopReader \/ StopSender \/ Finish
        \/ Test \/ Wake \/ Summary \/ Tick

Spec == Init /\ [][Next]_vars
-----------------------------------------------------------------------------
(* Properties *)

(* No counter of a rate passes that of all events, but by a running add(). *)
TypeOK ==
    /\ clock \in 0..MaxClock
    /\ pc \in [Threads -> {"new", "run", "add", "add_total", "ended", "stopped", "returned"}]
    /\ \A t \in Threads :
        /\ adding[t] \in 0..MaxAdd
        /\ total_events[t] \in 0..MaxEvents
        /\ {copy[t], events[t]} \subseteq 0..(total_events[t] + adding[t])
        /\ {start_p[t], start_all[t], stop_p[t]} \subseteq {Epoch} \cup 0..MaxClock
        /\ reported[t] \in Nat
    /\ finished \in BOOLEAN
    /\ main \in {"test", "sleep", "summary", "returned"} \cup Threads \cup {ResetOf(t) : t \in Threads}
    /\ asleep \in 0..MaxClock /\ seen \in Nat
    /\ raced \subseteq Threads

(* events_measure.h:22-48: unless an add() fell into a now(), each event   *)
(* of a thread is in exactly one status, or in the next one.               *)
ReportedOnce ==
    \A t \in Threads :
        (t \notin raced /\ pc[t] # "add_total" /\ main # ResetOf(t)) =>
            reported[t] + events[t] = total_events[t]

(* events_measure.h:50-64, multithreaded_sensor.h:157-158, 204-206: the    *)
(* summary has each event counted, although nothing locks the counters,    *)
(* and the rate of the sender; that of the reader may be 0, since finished *)
(* may be set before the reader has stopped its watch.                     *)
SummaryIsExact ==
    main = "returned" =>
        /\ \A t \in Threads : summary[t].all = total_events[t]
        /\ stop_p["sender"] # Epoch
        /\ summary["sender"].rate = Rate("sender")
        /\ summary["reader"].rate \in {0, Rate("reader")}
=============================================================================
