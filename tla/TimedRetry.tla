----------------------------- MODULE TimedRetry -----------------------------
(***************************************************************************)
(* The restart policy of one service on a clock (DF-007), under any        *)
(* settings that the daemon accepts: compute_delay of model.rs, and of     *)
(* daemon.rs the part of reconcile_once that concerns the service, with    *)
(* the instants that Tracker abstracts and with what is kept to be         *)
(* reported (DF-008).                                                      *)
(*                                                                         *)
(* A pass reads the clock once, when it starts, and goes by that instant   *)
(* until it ends.  It takes time on the clock: the services before this    *)
(* one and after it are probed and started as well.  One unit of the clock *)
(* is any unit that divides the configured times.  A command whose save    *)
(* fails changes what is wanted and nothing else; a pass may end before it *)
(* reaches the service; the daemon may be killed and started again.        *)
(***************************************************************************)
EXTENDS Integers, Config

CONSTANTS
    Sources,       \* [cli, env, file] triples that `serve` may be run with
    Factors,       \* what an f64 may be, not a number included
    RawDelay,      \* by initial_ms, factor and attempt: initial_ms *
                   \* factor^(attempt - 1), rounded
    NaN,           \* the f64 that is not a number
    AttemptsMax,   \* u32::MAX
    PassGap,       \* the longest time from the end of a pass that has
                   \* handled the service to the start of the next that does
    PassTime,      \* the longest time a pass takes to reach the service, and
                   \* to finish after it
    Horizon,       \* bound on the clock, for model checking
    None           \* what is not set

Reasons == {"spawned_by_reconcile", "spawn_retry_window_exhausted",
            "spawn_failed_retry_scheduled", "spawn_failed_degraded",
            "service_recovered", "stopped", "retry_state_reset_by_command"}
Errors == {"probe", "spawn"}    \* what a message is about

ASSUME TimesAssumption ==
    /\ Texts = {}
    /\ U64s = {"initial_ms", "max_ms", "max_window_ms"}
    /\ U8s = {"jitter_percent"} /\ F64s = {"factor"}
    /\ PassGap \in Nat \ {0} /\ PassTime \in Nat /\ Horizon \in Nat
    /\ AttemptsMax \in Nat \ {0}
    /\ None \notin Nat /\ None \notin Reasons /\ None \notin Errors

(* Sources of numbers, and what f64 makes of the delays they call for: an  *)
(* infinite one is as good as any above max_ms.                            *)
Value(n) == IF n \in F64s THEN Factors ELSE Nat
Started == {s \in Sources : Resolvable(s.env, s.file)}

ASSUME SourcesAssumption ==
    \A n \in Numbers :
       /\ Defaults[n] \in Value(n)
       /\ Unset \notin Value(n) /\ Garbled \notin Value(n)
       /\ \A s \in Sources :
             /\ s.cli[n] \in Value(n) \cup {Unset}
             /\ s.env[n] \in Value(n) \cup {Unset, Garbled}
             /\ s.file = Garbled \/ s.file[n] \in Value(n) \cup {Unset}

ASSUME DelaysAssumption ==
    /\ NaN \notin Int
    /\ \A s \in Started, n \in 1 .. AttemptsMax :
          LET b == Resolve(s.cli, s.env, s.file)
          IN  RawDelay[b["initial_ms"]][b["factor"]][n] \in Int \cup {NaN}

VARIABLES
    source, backoff,     \* what `serve` was run with, BackoffConfig
    pc,                  \* "down", "idle", or in a pass "before" or "after"
                         \* the service
    now, passStart,      \* the clock, and the instant that a pass goes by
    passEnd,             \* the end of the last pass that handled the service,
                         \* or the start of the daemon
    attempts, degraded, firstFailure, nextRetry,   \* RetryTracker
    reason, lastError,         \* RetryTracker, what is only reported
    wanted, stored,      \* the service is enabled and not paused, in memory
                         \* and by the desired-state file
    up,                  \* a recorder of the service answers
    lastSpawn, resumed   \* for the properties: the last attempt to spawn since
                         \* the service answered or was reset; the instant at
                         \* which the service became wanted again with the
                         \* failures of an earlier time, None otherwise

settings == <<source, backoff>>
clock == <<now, passStart, passEnd>>
flags == <<attempts, degraded, firstFailure, nextRetry>>
tracker == <<attempts, degraded, firstFailure, nextRetry, reason, lastError>>
desired == <<wanted, stored>>
history == <<lastSpawn, resumed>>
vars == <<settings, pc, clock, tracker, desired, up, history>>

-----------------------------------------------------------------------------
(* compute_delay.  The jitter depends on the service's name and the number *)
(* of attempts through a hash: any percentage in its range.                *)

(* clamp panics when its bounds are not in order.                          *)
DelayPanics == backoff["initial_ms"] > backoff["max_ms"]

Clamp(x) == IF x < backoff["initial_ms"] THEN backoff["initial_ms"]
            ELSE IF x > backoff["max_ms"] THEN backoff["max_ms"] ELSE x

Raw(n) == RawDelay[backoff["initial_ms"]][backoff["factor"]][n]

(* What is not a number stays so through clamp, and is 0 as an integer.    *)
Base(n) == IF Raw(n) = NaN THEN 0 ELSE Clamp(Raw(n))

AtLeastOne(x) == IF x < 1 THEN 1 ELSE x

Adjusted(base, jitter) == AtLeastOne((base * (100 + jitter) + 50) \div 100)

ComputeDelay(n, jitter) ==
    IF backoff["jitter_percent"] = 0 THEN Base(n) ELSE Adjusted(Base(n), jitter)

Jitters == (-backoff["jitter_percent"]) .. backoff["jitter_percent"]

(* The bounds that the clamp and the jitter leave.                         *)
LeastBase == IF \E n \in 1 .. AttemptsMax : Raw(n) = NaN THEN 0
             ELSE backoff["initial_ms"]
LongestDelay == IF backoff["jitter_percent"] = 0 THEN backoff["max_ms"]
                ELSE Adjusted(backoff["max_ms"], backoff["jitter_percent"])
ShortestDelay == IF backoff["jitter_percent"] = 0 THEN LeastBase
                 ELSE Adjusted(LeastBase, -backoff["jitter_percent"])

-----------------------------------------------------------------------------
\* Seeded bug: the start of the window survives.
ClearedButWindow ==
    /\ attempts' = 0 /\ degraded' = FALSE
    /\ UNCHANGED firstFailure /\ nextRetry' = None

Cleared ==
    /\ attempts' = 0 /\ degraded' = FALSE
    /\ firstFailure' = None /\ nextRetry' = None

NewTracker == Cleared /\ reason' = None /\ lastError' = None
NoHistory == lastSpawn' = None /\ resumed' = None

Init ==
    /\ source \in Started
    /\ backoff = Resolve(source.cli, source.env, source.file)
    /\ pc = "idle" /\ now = 0 /\ passStart = 0 /\ passEnd = 0
    /\ attempts = 0 /\ degraded = FALSE
    /\ firstFailure = None /\ nextRetry = None
    /\ reason = None /\ lastError = None
    /\ wanted = TRUE /\ stored = TRUE /\ up = FALSE
    /\ lastSpawn = None /\ resumed = None

(* A periodic pass, or one that a command for this or another service      *)
(* causes.                                                                 *)
BeginPass ==
    /\ pc = "idle"
    /\ pc' = "before" /\ passStart' = now
    /\ UNCHANGED <<settings, now, passEnd, tracker, desired, up, history>>

(* The pass ends, or is ended by an error for a service after this one.    *)
EndPass ==
    /\ pc = "after"
    /\ pc' = "idle" /\ passEnd' = now
    /\ UNCHANGED <<settings, now, passStart, tracker, desired, up, history>>

(* The control tool cannot be run for this service or one before it: the   *)
(* pass of a command ends there.  PassGap is what this may come to.        *)
PassAborted ==
    /\ pc = "before" /\ now <= passEnd + PassGap
    /\ pc' = "idle"
    /\ UNCHANGED <<settings, clock, tracker, desired, up, history>>

Handled == /\ pc = "before" /\ pc' = "after"
           /\ UNCHANGED <<settings, clock, desired>>

\* Seeded bug: a recovery leaves the reason of the last transition.
AnsweredSilently ==
    /\ lastError' = None
    /\ IF attempts > 0 \/ degraded THEN Cleared ELSE UNCHANGED flags
    /\ UNCHANGED reason

Answered ==
    /\ lastError' = None
    /\ IF attempts > 0 \/ degraded THEN Cleared /\ reason' = "service_recovered"
       ELSE UNCHANGED <<flags, reason>>

Recover ==
    /\ Handled /\ up /\ wanted
    /\ Answered
    /\ NoHistory
    /\ UNCHANGED up

(* The recorder of an unwanted service is told to stop, whether or not it  *)
(* does.                                                                   *)
StopUnwanted ==
    /\ Handled /\ up /\ ~wanted
    /\ lastError' = None /\ reason' = "stopped"
    /\ IF attempts > 0 \/ degraded THEN Cleared ELSE UNCHANGED flags
    /\ up' \in BOOLEAN
    /\ NoHistory

(* The control tool cannot be run for the stop, or for the status after    *)
(* it, which ends the pass of a command.                                   *)
StopFails ==
    /\ pc = "before" /\ up /\ ~wanted
    /\ pc' = "idle" /\ passEnd' = now
    /\ Answered
    /\ up' \in BOOLEAN
    /\ NoHistory
    /\ UNCHANGED <<settings, now, passStart, desired>>

\* Seeded bug: the retry time is not looked at.
NeverWaiting(t) == FALSE

Waiting(t) == nextRetry # None /\ t < nextRetry

Skip ==
    /\ Handled /\ ~up
    /\ ~wanted \/ degraded \/ Waiting(passStart)
    /\ lastError' = "probe"
    /\ UNCHANGED <<flags, reason, up, history>>

\* Seeded bug: the counter does not saturate.
CountUnbounded(n) == n + 1

Count(n) == IF n < AttemptsMax THEN n + 1 ELSE n
StartWindow(first) == IF first = None THEN passStart ELSE first

InWindow(first, t) == t - first <= backoff["max_window_ms"]

\* Seeded bug: the delay counts from the first attempt.
RetryAtFromFirst(delay) == StartWindow(firstFailure) + delay

RetryAt(delay) == passStart + delay

(* The recorder is spawned, or cannot be; the attempt counts either way.   *)
(* compute_delay is only called within the window.                         *)
Attempt ==
    /\ Handled /\ ~up /\ wanted /\ ~degraded /\ ~Waiting(passStart)
    /\ attempts' = Count(attempts)
    /\ firstFailure' = StartWindow(firstFailure)
    /\ \E spawned \in BOOLEAN :
          /\ lastError' = IF spawned THEN "probe" ELSE "spawn"
          /\ \/ /\ InWindow(firstFailure', passStart) /\ ~DelayPanics
                /\ \E jitter \in Jitters :
                      nextRetry' = RetryAt(ComputeDelay(attempts', jitter))
                /\ reason' = IF spawned THEN "spawned_by_reconcile"
                             ELSE "spawn_failed_retry_scheduled"
                /\ UNCHANGED degraded
             \/ /\ ~InWindow(firstFailure', passStart)
                /\ degraded' = TRUE
                /\ reason' = IF spawned THEN "spawn_retry_window_exhausted"
                             ELSE "spawn_failed_degraded"
                /\ UNCHANGED nextRetry
    /\ lastSpawn' = now
    /\ UNCHANGED <<up, resumed>>

(* The daemon ends with its trackers.                                      *)
Ends ==
    /\ pc' = "down" /\ NewTracker /\ NoHistory
    /\ UNCHANGED <<settings, clock, desired, up>>

(* compute_delay panics, after the spawn.                                  *)
Panic ==
    /\ pc = "before" /\ ~up /\ wanted /\ ~degraded /\ ~Waiting(passStart)
    /\ InWindow(StartWindow(firstFailure), passStart) /\ DelayPanics
    /\ Ends

(* It is killed, or told to end, or an error in a periodic pass ends it.   *)
Crash == pc # "down" /\ Ends

(* It starts again with what the file says, or without any service if the  *)
(* path of the file cannot be examined.                                    *)
Serve ==
    /\ pc = "down"
    /\ pc' = "idle" /\ passEnd' = now /\ wanted' \in {stored, FALSE}
    /\ UNCHANGED <<settings, now, passStart, tracker, stored, up, history>>

-----------------------------------------------------------------------------
\* Seeded bug: the tracker is not reset.
ResetForgotten ==
    /\ pc = "idle"
    /\ wanted' \in {wanted, TRUE} /\ stored' = wanted'
    /\ UNCHANGED <<settings, pc, clock, tracker, up, history>>

(* Commands.  Enable, start and resume reset the tracker if their save     *)
(* succeeds, also resume of a service that is disabled and stays so.  A    *)
(* service that no pass has seen yet may have no tracker to reset.         *)
Reset ==
    /\ pc = "idle"
    /\ Cleared /\ lastError' = None
    /\ \/ reason' = "retry_state_reset_by_command"
       \/ reason = None /\ UNCHANGED reason
    /\ wanted' \in {wanted, TRUE} /\ stored' = wanted'
    /\ NoHistory
    /\ UNCHANGED <<settings, pc, clock, up>>

(* If it fails the service is wanted nevertheless, with its tracker as it  *)
(* was; the file may have been written.                                    *)
ResetUnsaved ==
    /\ pc = "idle"
    /\ wanted' = TRUE /\ stored' \in {stored, TRUE}
    /\ resumed' = IF ~wanted /\ firstFailure # None THEN now ELSE resumed
    /\ UNCHANGED <<settings, pc, clock, tracker, up, lastSpawn>>

(* Disable and pause, with a save that succeeds or not.                    *)
Unwant ==
    /\ pc = "idle" /\ wanted
    /\ wanted' = FALSE /\ stored' \in {stored, FALSE}
    /\ resumed' = None
    /\ UNCHANGED <<settings, pc, clock, tracker, up, lastSpawn>>

(* The save of a command on any service writes all of the state.           *)
Save ==
    /\ pc = "idle"
    /\ stored' = wanted
    /\ UNCHANGED <<settings, pc, clock, tracker, wanted, up, history>>

(* build_health, for status and list, probes the service itself before it  *)
(* reports the tracker.                                                    *)
Status ==
    /\ pc = "idle"
    /\ lastError' = IF up THEN None ELSE "probe"
    /\ UNCHANGED <<settings, pc, clock, flags, reason, desired, up, history>>

(* The recorder, started by this daemon or an earlier one.                 *)
Flip == /\ up' = ~up
        /\ UNCHANGED <<settings, pc, clock, tracker, desired, history>>

Tick ==
    /\ now < Horizon
    /\ CASE pc = "idle"   -> now < passEnd + PassGap
         [] pc = "before" -> now < passStart + PassTime
         [] pc = "after"  -> now < passStart + 2 * PassTime
         [] OTHER         -> TRUE
    /\ now' = now + 1
    /\ UNCHANGED <<settings, pc, passStart, passEnd, tracker, desired, up,
                   history>>

Pass == Recover \/ StopUnwanted \/ StopFails \/ Skip \/ Attempt \/ Panic

Command == Reset \/ ResetUnsaved \/ Unwant \/ Save \/ Status

Next == BeginPass \/ Pass \/ PassAborted \/ EndPass \/ Command
        \/ Crash \/ Serve \/ Flip \/ Tick

Spec == Init /\ [][Next]_vars

-----------------------------------------------------------------------------
TypeOK ==
    /\ source \in Sources /\ DOMAIN backoff = Settings
    /\ \A n \in Settings : backoff[n] \in Value(n)
    /\ pc \in {"down", "idle", "before", "after"}
    /\ now \in Nat /\ passStart \in Nat /\ passEnd \in Nat
    /\ attempts \in 0 .. AttemptsMax /\ degraded \in BOOLEAN
    /\ firstFailure \in Nat \cup {None} /\ nextRetry \in Nat \cup {None}
    /\ reason \in Reasons \cup {None} /\ lastError \in Errors \cup {None}
    /\ wanted \in BOOLEAN /\ stored \in BOOLEAN /\ up \in BOOLEAN
    /\ lastSpawn \in Nat \cup {None} /\ resumed \in Nat \cup {None}

(* The daemon retries by the settings that DF-009 calls for.               *)
AsConfigured == Precedence(source.cli, source.env, source.file, backoff)

(* A wanted service that keeps failing is given up in time: at the latest  *)
(* one retry window, one delay, one gap between passes and three PassTimes *)
(* after its first attempt.  The delay that ends the window is bounded,    *)
(* the pass that runs when the retry time comes still goes by its own      *)
(* start, and the next one may be slow to reach it.  If the command that   *)
(* made the service wanted again could not save, the time counts from that *)
(* command: the failures of before are still held against the service,     *)
(* however long ago they were.                                             *)
Since == IF resumed = None THEN firstFailure ELSE resumed

DegradesInTime ==
    wanted /\ firstFailure # None /\ ~degraded
       => now - Since <= backoff["max_window_ms"] + LongestDelay
                         + PassGap + 3 * PassTime

(* Until it is given up it is not started more often than the delays       *)
(* allow, however many passes the commands for other services cause.       *)
AttemptsBounded ==
    firstFailure # None
       => (attempts - 1) * ShortestDelay <= now - firstFailure

(* Two starts in a row are a delay apart, less the time that the first of  *)
(* two passes took to reach the service: its retry time counts from the    *)
(* start of the pass.                                                      *)
SpawnsSpaced ==
    [][Attempt /\ lastSpawn # None
          => lastSpawn' - lastSpawn >= ShortestDelay - PassTime]_vars

(* The reason that is reported fits the state that is reported with it: a  *)
(* service is degraded exactly when the reason says so, and a retry is     *)
(* scheduled by no other transition than an attempt.                       *)
ReasonFits ==
    /\ degraded <=> reason \in {"spawn_retry_window_exhausted",
                                "spawn_failed_degraded"}
    /\ nextRetry # None /\ ~degraded
          <=> reason \in {"spawned_by_reconcile", "spawn_failed_retry_scheduled"}

(* The tracker of Tracker and Daemon is this one without its instants.     *)
Clock == IF pc \in {"before", "after"} THEN passStart ELSE now

Flags == INSTANCE RetryFlags WITH tracker <-
    [attempts |-> attempts, degraded |-> degraded,
     window |-> IF firstFailure = None THEN "none"
                ELSE IF InWindow(firstFailure, Clock) THEN "open" ELSE "spent",
     retry |-> IF nextRetry = None THEN "none"
               ELSE IF Waiting(Clock) THEN "pending" ELSE "due"]

ImplementsFlags == Flags!Spec

-----------------------------------------------------------------------------
(* What documents and tests say and the code does not do.                  *)

(* The runbook: when a service has become degraded, last_error tells what  *)
(* is to be fixed.                                                         *)
StatusTellsSpawnError ==
    [][Status /\ reason = "spawn_failed_degraded" => lastError' = "spawn"]_vars
=============================================================================
