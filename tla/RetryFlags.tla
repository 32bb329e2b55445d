----------------------------- MODULE RetryFlags -----------------------------
(***************************************************************************)
(* The life of one retry tracker as Daemon sees it, without instants: what *)
(* the passes and the commands do to it, and what the passage of time may. *)
(***************************************************************************)
EXTENDS Tracker

VARIABLE tracker

Init == tracker = NewTracker

Recover == tracker' = Observe(tracker, TRUE)
Attempt == MayAttempt(tracker) /\ tracker' = Attempted(tracker)
Reset == tracker' = NewTracker

Elapse ==
    LET passed(t) == IF t.retry = "pending" THEN {t, RetryArrives(t)} ELSE {t}
        spent(t) == IF t.window = "open" THEN {t, WindowRunsOut(t)} ELSE {t}
    IN  tracker' \in UNION {spent(t) : t \in passed(tracker)}

Next == Recover \/ Attempt \/ Reset \/ Elapse

Spec == Init /\ [][Next]_tracker
=============================================================================
