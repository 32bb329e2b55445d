------------------------------ MODULE Tracker ------------------------------
(***************************************************************************)
(* The retry state that the daemon keeps for one service: RetryTracker of  *)
(* model.rs, with the instants replaced by what the reconcile pass can     *)
(* tell about them.                                                        *)
(*                                                                         *)
(*   attempts   the u32 counter, saturating at AttemptsMax                 *)
(*   degraded   the flag that takes the service out of the retry loop      *)
(*   window     first_failure_at: "none" when it is unset, "open" while    *)
(*              the retry window that starts there has not run out, "spent"*)
(*              once it has                                                *)
(*   retry      next_retry_at: "none" when it is unset, "pending" while it *)
(*              lies in the future, "due" once it has passed               *)
(*                                                                         *)
(* A pass of the daemon reads the clock once, so within a pass the answers *)
(* do not change; they change as time passes between passes.               *)
(* last_heartbeat_at, last_error and last_transition_reason are only       *)
(* reported, never read by the daemon's decisions, and are left out.       *)
(***************************************************************************)
EXTENDS Naturals

CONSTANT AttemptsMax    \* u32::MAX

ASSUME AttemptsMaxAssumption == AttemptsMax \in Nat \ {0}

RetryTracker == [attempts : 0 .. AttemptsMax,
                 degraded : BOOLEAN,
                 window   : {"none", "open", "spent"},
                 retry    : {"none", "pending", "due"}]

NewTracker == [attempts |-> 0, degraded |-> FALSE,
               window |-> "none", retry |-> "none"]

\* Seeded bug: recovery forgets the start of the window and the retry time.
ObserveKeepingTimes(t, available) ==
    IF available THEN [t EXCEPT !.attempts = 0, !.degraded = FALSE] ELSE t

(* What a pass does with the tracker on the answer of a status probe: a    *)
(* service that answers has recovered.                                     *)
Observe(t, available) ==
    IF available /\ (t.attempts > 0 \/ t.degraded) THEN NewTracker ELSE t

(* The tracker after a start was attempted, with or without success: the   *)
(* attempt is counted, the window starts at the first attempt, and the     *)
(* service is either given its next retry time or declared degraded.       *)
Attempted(t) ==
    LET counted == [t EXCEPT !.attempts = IF @ < AttemptsMax THEN @ + 1 ELSE @,
                             !.window = IF @ = "none" THEN "open" ELSE @]
    IN  IF counted.window = "spent"
        THEN [counted EXCEPT !.degraded = TRUE]
        ELSE [counted EXCEPT !.retry = "pending"]

\* Seeded bug: the arrival of the retry time is never looked at.
MayAttemptOnce(t) == ~t.degraded /\ t.retry = "none"

(* A pass may attempt a start of a service that does not answer.           *)
MayAttempt(t) == ~t.degraded /\ t.retry # "pending"

(* Time passes: the retry time arrives, or the window runs out.            *)
RetryArrives(t) == [t EXCEPT !.retry = "due"]
WindowRunsOut(t) == [t EXCEPT !.window = "spent"]

(* The fields fit together: attempts, the start of the window and a retry  *)
(* time come and go as one, and a service is degraded only by an attempt   *)
(* that found its window spent and its retry time passed.                  *)
Coherent(t) ==
    /\ (t.attempts = 0) <=> (t.window = "none")
    /\ (t.attempts = 0) <=> (t.retry = "none")
    /\ t.degraded => t.window = "spent" /\ t.retry = "due"
=============================================================================
