---------------------------- MODULE DaemonProofs ----------------------------
(***************************************************************************)
(* Proofs, for every value of the constants, of the invariants and action  *)
(* properties of DaemonProperties that TLC checks on small instances.      *)
(***************************************************************************)
EXTENDS DaemonProperties, FiniteSetTheorems, WellFoundedInduction, TLAPS

USE ConstantsAssumption, SentinelsAssumption, AttemptsMaxAssumption

(* A nonempty set of natural numbers has a least element: the service that *)
(* a pass turns to next is well defined.                                   *)
LEMMA LeastExists ==
    ASSUME NEW T \in SUBSET Nat, T # {}
    PROVE  \E s \in T : \A t \in T : s <= t
<1> DEFINE R == OpToRel(<, Nat)
<1>1. IsWellFoundedOn(R, Nat)
  BY NatLessThanWellFounded
<1>2. PICK x \in T : \A y \in T : ~(<<y, x>> \in R)
  BY <1>1, WFMin
<1>3. \A y \in T : ~(y < x)
  BY <1>2 DEF OpToRel
<1> QED
  BY <1>3

LEMMA CurrentInTodo ==
    ASSUME todo \subseteq Services, todo # {}
    PROVE  Current \in todo
BY LeastExists DEF Current

LEMMA NewTrackerType == NewTracker \in RetryTracker /\ Coherent(NewTracker)
BY DEF NewTracker, RetryTracker, Coherent

(* The operations on a tracker yield trackers, and coherent ones from      *)
(* coherent ones.                                                          *)
LEMMA TrackerOperations ==
    ASSUME NEW t \in RetryTracker
    PROVE  /\ \A b \in BOOLEAN : /\ Observe(t, b) \in RetryTracker
                                 /\ Coherent(t) => Coherent(Observe(t, b))
           /\ Attempted(t) \in RetryTracker
           /\ Coherent(t) /\ MayAttempt(t) => Coherent(Attempted(t))
           /\ RetryArrives(t) \in RetryTracker
           /\ Coherent(t) /\ t.retry = "pending" => Coherent(RetryArrives(t))
           /\ WindowRunsOut(t) \in RetryTracker
           /\ Coherent(t) /\ t.window = "open" => Coherent(WindowRunsOut(t))
<1>1. \A b \in BOOLEAN : /\ Observe(t, b) \in RetryTracker
                         /\ Coherent(t) => Coherent(Observe(t, b))
  BY NewTrackerType DEF Observe
<1>2. Attempted(t) \in RetryTracker
  <2> DEFINE n == IF t.attempts < AttemptsMax THEN t.attempts + 1 ELSE t.attempts
             counted == [t EXCEPT !.attempts = n,
                                  !.window = IF @ = "none" THEN "open" ELSE @]
  <2>1. n \in 0 .. AttemptsMax
    BY DEF RetryTracker
  <2>2. counted \in RetryTracker
    BY <2>1 DEF RetryTracker
  <2>3. Attempted(t) = IF counted.window = "spent"
                       THEN [counted EXCEPT !.degraded = TRUE]
                       ELSE [counted EXCEPT !.retry = "pending"]
    BY DEF Attempted
  <2> HIDE DEF counted
  <2> QED
    BY <2>2, <2>3 DEF RetryTracker
<1>3. Coherent(t) /\ MayAttempt(t) => Coherent(Attempted(t))
  BY DEF Coherent, MayAttempt, Attempted, RetryTracker
<1>4. /\ RetryArrives(t) \in RetryTracker
      /\ Coherent(t) /\ t.retry = "pending" => Coherent(RetryArrives(t))
  BY DEF RetryArrives, RetryTracker, Coherent
<1>5. /\ WindowRunsOut(t) \in RetryTracker
      /\ Coherent(t) /\ t.window = "open" => Coherent(WindowRunsOut(t))
  BY DEF WindowRunsOut, RetryTracker, Coherent
<1> QED
  BY <1>1, <1>2, <1>3, <1>4, <1>5
-----------------------------------------------------------------------------
(* Type correctness.  A decision is only taken on a service of the pass.   *)
ActHasService == pc = "act" => todo # {}

TypeInv == TypeOK /\ ActHasService

Valid(spec) == spec # NoSpec => spec.config \in ValidConfigs

LEMMA CommandTypes ==
    /\ NoCommand \in Command
    /\ \A op \in AllCommands, s \in Services : Served(op, s) \in Command
    /\ \A op \in AllCommands : Unscoped(op) \in Command
BY DEF NoCommand, Command, Served, Unscoped

LEMMA SpecTypes ==
    ASSUME mem \in DesiredState, NEW s \in Services, Valid(mem[s])
    PROVE  /\ \A c \in ValidConfigs : /\ EnabledSpec(s, c) \in ServiceSpec
                                      /\ Valid(EnabledSpec(s, c))
           /\ DisabledSpec(s) \in ServiceSpec \cup {NoSpec}
           /\ Valid(DisabledSpec(s))
           /\ mem[s] # NoSpec =>
                \A b \in BOOLEAN :
                  /\ [mem[s] EXCEPT !.paused = b] \in ServiceSpec
                  /\ Valid([mem[s] EXCEPT !.paused = b])
                  /\ [mem[s] EXCEPT !.enabled = TRUE, !.paused = b] \in ServiceSpec
                  /\ Valid([mem[s] EXCEPT !.enabled = TRUE, !.paused = b])
<1>1. mem[s] = NoSpec \/ mem[s] \in ServiceSpec
  BY DEF DesiredState
<1>2. \A c \in ValidConfigs : /\ EnabledSpec(s, c) \in ServiceSpec
                              /\ Valid(EnabledSpec(s, c))
  <2> TAKE c \in ValidConfigs
  <2> DEFINE g == CASE mem[s] = NoSpec -> 1
                    [] mem[s] # NoSpec /\ mem[s].config = c -> mem[s].generation
                    [] OTHER -> NextGeneration(mem[s].generation)
  <2>1. g \in 1 .. GenMax
    <3>1. CASE mem[s] = NoSpec
      BY <3>1
    <3>2. CASE mem[s] # NoSpec /\ mem[s].config = c
      BY <1>1, <3>2 DEF ServiceSpec
    <3>3. CASE mem[s] # NoSpec /\ mem[s].config # c
      BY <1>1, <3>3 DEF ServiceSpec, NextGeneration
    <3> QED
      BY <3>1, <3>2, <3>3
  <2>2. EnabledSpec(s, c) = [enabled |-> TRUE, paused |-> FALSE, config |-> c,
                             generation |-> g]
    BY DEF EnabledSpec
  <2> HIDE DEF g
  <2> QED
    BY <2>1, <2>2 DEF ServiceSpec, Valid
<1> QED
  BY <1>1, <1>2 DEF DisabledSpec, ServiceSpec, Valid

LEMMA CommitType ==
    ASSUME TypeInv, NEW op \in AllCommands, NEW s \in Services,
           NEW spec \in ServiceSpec \cup {NoSpec}, Valid(spec),
           NEW resets \in BOOLEAN, Commit(op, s, spec, resets)
    PROVE  TypeInv'
<1> USE DEF TypeInv, TypeOK, ActHasService
<1>1. mem' = [mem EXCEPT ![s] = spec] /\ mem' \in DesiredState
  BY DEF Commit, DesiredState
<1>2. \A t \in Services : Valid(mem'[t])
  BY <1>1 DEF Valid, DesiredState
<1>3. disk' \in {disk, mem'}
  BY DEF Commit, SaveSucceeds, SaveFails
<1>4. retry' \in [Services -> RetryTracker]
  BY NewTrackerType DEF Commit
<1>5. cmd' \in Command
  BY CommandTypes DEF Commit
<1>6. todo' \subseteq Services /\ pc' \in {"probe", "refused"}
  BY DEF Commit, BeginPass, Known
<1>7. promise' \in [Services -> ServiceSpec \cup {NoSpec, Open}]
  BY DEF Commit
<1> QED
  BY <1>1, <1>2, <1>3, <1>4, <1>5, <1>6, <1>7 DEF Commit, Valid

LEMMA GoDownType == TypeInv /\ GoDown => TypeInv'
BY CommandTypes, NewTrackerType
   DEF TypeInv, TypeOK, ActHasService, GoDown, NoServices, FreshRetry,
       DesiredState

(* Requests. *)
LEMMA RequestType ==
    ASSUME TypeInv, Request
    PROVE  TypeInv'
<1> USE DEF TypeInv
<1>0. \A s \in Services : mem \in DesiredState /\ Valid(mem[s])
  BY DEF TypeOK, Valid
<1>1. CASE \E s \in Services, c \in Configs : Enable(s, c)
  <2>1. PICK s \in Services, c \in ValidConfigs :
               Commit("enable", s, EnabledSpec(s, c), TRUE)
    BY <1>1 DEF Enable
  <2> QED
    BY <1>0, <2>1, SpecTypes, CommitType DEF AllCommands
<1>2. CASE \E s \in Services : Disable(s) \/ Pause(s) \/ Resume(s) \/ Start(s)
  <2>1. PICK s \in Services : Disable(s) \/ Pause(s) \/ Resume(s) \/ Start(s)
    BY <1>2
  <2>2. CASE Disable(s)
    BY <1>0, <2>2, SpecTypes, CommitType DEF Disable, AllCommands
  <2>3. CASE Pause(s)
    BY <1>0, <2>3, SpecTypes, CommitType DEF Pause, AllCommands
  <2>4. CASE Resume(s)
    BY <1>0, <2>4, SpecTypes, CommitType DEF Resume, AllCommands
  <2>5. CASE Start(s)
    BY <1>0, <2>5, SpecTypes, CommitType DEF Start, AllCommands
  <2> QED
    BY <2>1, <2>2, <2>3, <2>4, <2>5
<1>3. CASE \E s \in Services : \/ StopRequest(s)
                                \/ \E op \in {"enable", "pause", "resume", "start"} :
                                      Reject(op, s)
  BY <1>3, CommandTypes
     DEF StopRequest, Reject, TypeOK, ActHasService, AllCommands
<1>4. CASE Refuse \/ Query \/ Shutdown
  BY <1>4, CommandTypes
     DEF Refuse, Query, Shutdown, TypeOK, ActHasService, AllCommands
<1>5. CASE Reconcile
  BY <1>5, CommandTypes
     DEF Reconcile, BeginPass, Known, TypeOK, ActHasService, AllCommands
<1> QED
  BY <1>1, <1>2, <1>3, <1>4, <1>5 DEF Request

LEMMA NextServiceType ==
    ASSUME TypeInv, NextService,
           retry' \in [Services -> RetryTracker],
           procs' \in [Pids -> Recorder \cup {Free}]
    PROVE  TypeInv'
BY DEF NextService, TypeInv, TypeOK, ActHasService

LEMMA StoppedType ==
    ASSUME NEW s, Stopped(s), procs \in [Pids -> Recorder \cup {Free}]
    PROVE  procs' \in [Pids -> Recorder \cup {Free}]
BY DEF Stopped

LEMMA PassType ==
    ASSUME TypeInv, Pass
    PROVE  TypeInv'
<1> USE DEF TypeInv
<1>1. CASE Probe
  <2>1. PICK answer \in BOOLEAN :
               retry' = [retry EXCEPT ![Current] = Observe(@, answer)]
    BY <1>1 DEF Probe
  <2>2. Current \in Services
    BY <1>1, CurrentInTodo DEF Probe, TypeOK
  <2>3. retry' \in [Services -> RetryTracker]
    BY <2>1, <2>2, TrackerOperations DEF TypeOK
  <2> QED
    BY <1>1, <2>3 DEF Probe, TypeOK, ActHasService
<1>2. CASE LeaveAlone
  BY <1>2, NextServiceType DEF LeaveAlone, TypeOK
<1>3. CASE SpawnRecorder \/ SpawnFails
  <2>1. Current \in Services /\ mem[Current] \in ServiceSpec
    <3>1. Current \in todo
      BY <1>3, CurrentInTodo
         DEF SpawnRecorder, SpawnFails, MustStart, TypeOK, ActHasService
    <3>2. mem[Current] # NoSpec
      BY <1>3 DEF SpawnRecorder, SpawnFails, MustStart, Wanted
    <3> QED
      BY <3>1, <3>2 DEF TypeOK, DesiredState
  <2>2. RecorderOf(Current) \in Recorder
    BY <2>1 DEF RecorderOf, Recorder, ServiceSpec
  <2>3. retry' \in [Services -> RetryTracker]
    BY <1>3, <2>1, TrackerOperations
       DEF SpawnRecorder, SpawnFails, CountAttempt, TypeOK
  <2>4. procs' \in [Pids -> Recorder \cup {Free}]
    BY <1>3, <2>2 DEF SpawnRecorder, SpawnFails, TypeOK
  <2> QED
    BY <1>3, <2>3, <2>4, NextServiceType DEF SpawnRecorder, SpawnFails
<1>4. CASE StopRecorder
  BY <1>4, StoppedType, NextServiceType DEF StopRecorder, TypeOK
<1>5. CASE PassAborts \/ DaemonAborts
  <2>1. procs' \in [Pids -> Recorder \cup {Free}]
    BY <1>5, StoppedType DEF PassAborts, DaemonAborts, ToolFails, TypeOK
  <2>2. CASE PassAborts
    BY <2>1, <2>2 DEF PassAborts, TypeOK, ActHasService
  <2>3. CASE DaemonAborts
    BY <2>1, <2>3, CommandTypes, NewTrackerType
       DEF DaemonAborts, NoServices, FreshRetry, DesiredState, TypeOK, ActHasService
  <2> QED
    BY <1>5, <2>2, <2>3
<1>6. CASE PassDone
  BY <1>6, GoDownType DEF PassDone, TypeOK, ActHasService
<1> QED
  BY <1>1, <1>2, <1>3, <1>4, <1>5, <1>6 DEF Pass

LEMMA ServeType ==
    ASSUME TypeInv, Serve
    PROVE  TypeInv'
<1> USE DEF TypeInv
<1>1. CASE Reply
  <2>1. \A s \in Services : mem[s] \in ServiceSpec \cup {NoSpec}
    BY DEF TypeOK, DesiredState
  <2>2. promise' \in [Services -> ServiceSpec \cup {NoSpec, Open}]
    BY <1>1, <2>1 DEF Reply, TypeOK
  <2> QED
    BY <1>1, <2>2, CommandTypes DEF Reply, TypeOK, ActHasService
<1>2. CASE StopNow
  BY <1>2, StoppedType DEF StopNow, TypeOK, ActHasService
<1>3. CASE LeaveLoop
  BY <1>3, GoDownType DEF LeaveLoop
<1> QED
  BY <1>1, <1>2, <1>3 DEF Serve

LEMMA EnvironmentType ==
    ASSUME TypeInv, Environment
    PROVE  TypeInv'
<1> USE DEF TypeInv
<1>1. CASE \E p \in Pids : RecorderUp(p) \/ RecorderExits(p)
  BY <1>1 DEF RecorderUp, RecorderExits, Recorder, TypeOK, ActHasService,
              daemonVars
<1>2. CASE \E s \in Services : RetryTimeComes(s) \/ WindowEnds(s)
  <2>1. retry' \in [Services -> RetryTracker]
    BY <1>2, TrackerOperations DEF RetryTimeComes, WindowEnds, TypeOK
  <2> QED
    BY <1>2, <2>1 DEF RetryTimeComes, WindowEnds, TypeOK, ActHasService
<1> QED
  BY <1>1, <1>2 DEF Environment

LEMMA TypeStep == TypeInv /\ [Next]_vars => TypeInv'
<1> SUFFICES ASSUME TypeInv, [Next]_vars
             PROVE  TypeInv'
  OBVIOUS
<1>1. CASE Restart \/ Periodic
  <2>1. NoServices \in DesiredState /\ \A s \in Services : NoServices[s] = NoSpec
    BY DEF NoServices, DesiredState
  <2> QED
    BY <1>1, <2>1
       DEF Restart, Periodic, BeginPass, Known, TypeInv, TypeOK, ActHasService
<1>2. CASE Crash
  BY <1>2, GoDownType DEF Crash
<1>3. CASE Request \/ Serve \/ Pass \/ Environment
  BY <1>3, RequestType, ServeType, PassType, EnvironmentType
<1>4. CASE UNCHANGED vars
  BY <1>4 DEF vars, TypeInv, TypeOK, ActHasService
<1> QED
  BY <1>1, <1>2, <1>3, <1>4 DEF Next

LEMMA TypeInit == Init => TypeInv
BY CommandTypes, NewTrackerType
   DEF Init, TypeInv, TypeOK, ActHasService, NoServices, DesiredState, FreshRetry

(* Every variable always has its type, and the specs that the daemon and   *)
(* the file hold always validate.                                          *)
THEOREM TypeCorrect == Spec => []TypeOK
<1>1. TypeInv => TypeOK
  BY DEF TypeInv
<1> QED
  BY <1>1, TypeInit, TypeStep, PTL DEF Spec

-----------------------------------------------------------------------------
(* The retry trackers.                                                     *)

LEMMA TrackersStep == TypeInv /\ TrackersCoherent /\ [Next]_vars => TrackersCoherent'
<1> SUFFICES ASSUME TypeInv, TrackersCoherent, [Next]_vars
             PROVE  TrackersCoherent'
  OBVIOUS
<1> USE DEF TrackersCoherent
<1>0. retry \in [Services -> RetryTracker]
  BY DEF TypeInv, TypeOK
<1>1. CASE UNCHANGED retry
  BY <1>1
<1>2. CASE retry' = FreshRetry
  BY <1>2, NewTrackerType DEF FreshRetry
<1>3. CASE \E s \in Services : retry' = [retry EXCEPT ![s] = NewTracker]
  BY <1>0, <1>3, NewTrackerType
<1>4. CASE Probe
  <2>1. PICK answer \in BOOLEAN :
               retry' = [retry EXCEPT ![Current] = Observe(@, answer)]
    BY <1>4 DEF Probe
  <2> QED
    BY <1>0, <2>1, TrackerOperations
<1>5. CASE SpawnRecorder \/ SpawnFails
  BY <1>0, <1>5, TrackerOperations DEF SpawnRecorder, SpawnFails, MustStart, CountAttempt
<1>6. CASE \E s \in Services : RetryTimeComes(s) \/ WindowEnds(s)
  BY <1>0, <1>6, TrackerOperations DEF RetryTimeComes, WindowEnds
<1>7. CASE Request
  <2>1. ASSUME NEW op, NEW s \in Services, NEW spec, NEW resets,
               Commit(op, s, spec, resets)
        PROVE  UNCHANGED retry \/ retry' = [retry EXCEPT ![s] = NewTracker]
    BY <2>1 DEF Commit
  <2>2. CASE \E s \in Services :
                \/ \E c \in Configs : Enable(s, c)
                \/ Disable(s) \/ Pause(s) \/ Resume(s) \/ Start(s)
    BY <2>1, <2>2, <1>1, <1>3 DEF Enable, Disable, Pause, Resume, Start
  <2>3. CASE UNCHANGED retry
    BY <1>1, <2>3
  <2> QED
    BY <1>7, <2>2, <2>3 DEF Request, StopRequest, Reject, Refuse, Query, Reconcile, Shutdown
<1>8. CASE Restart \/ Periodic \/ Crash \/ Serve
  BY <1>8, <1>1, <1>2
     DEF Restart, Periodic, Crash, GoDown, Serve, Reply, StopNow, LeaveLoop
<1>9. CASE LeaveAlone \/ StopRecorder \/ PassAborts \/ DaemonAborts \/ PassDone
  BY <1>9, <1>1, <1>2
     DEF LeaveAlone, StopRecorder, PassAborts, DaemonAborts, PassDone, GoDown
<1>10. CASE \E p \in Pids : RecorderUp(p) \/ RecorderExits(p)
  BY <1>10, <1>1 DEF RecorderUp, RecorderExits, daemonVars
<1>11. CASE UNCHANGED vars
  BY <1>1, <1>11 DEF vars
<1> QED
  BY <1>4, <1>5, <1>6, <1>7, <1>8, <1>9, <1>10, <1>11 DEF Next, Pass, Environment

(* The fields of every retry tracker fit together, whatever the order in   *)
(* which probes, attempts, commands, restarts and the clock act on them.   *)
THEOREM TrackersStayCoherent == Spec => []TrackersCoherent
<1>1. Init => TrackersCoherent
  BY NewTrackerType DEF Init, FreshRetry, TrackersCoherent
<1> QED
  BY <1>1, TypeInit, TypeStep, TrackersStep, PTL DEF Spec

-----------------------------------------------------------------------------
(* The desired state in memory, in the file, and in the clients' view.     *)

(* A spec that a command may put in the place of the one in memory.        *)
Supersedes(s, spec) ==
    mem[s] # NoSpec => spec # NoSpec /\ spec.generation >= mem[s].generation

DurableStep(op, s, spec, resets) ==
    op # "stop" /\ Supersedes(s, spec) /\ Commit(op, s, spec, resets)

(* A step of the daemon that leaves the three views alone.                 *)
QuietStep ==
    /\ UNCHANGED <<mem, disk, promise>>
    /\ pc = "down" => pc' = "down"
    /\ \/ cmd' = cmd /\ (pc = "refused" => pc' = "refused")
       \/ cmd'.target = {} \/ cmd'.op = "stop" \/ pc' = "refused"

DownStep == pc' = "down" /\ cmd' = NoCommand /\ UNCHANGED <<disk, promise>>

LEMMA CommitsSupersede ==
    ASSUME TypeInv, Request
    PROVE  \/ \E op \in AllCommands, s \in Services, spec \in ServiceSpec \cup {NoSpec},
                 resets \in BOOLEAN : DurableStep(op, s, spec, resets)
           \/ QuietStep
<1>0. \A s \in Services : /\ mem \in DesiredState /\ Valid(mem[s])
                          /\ mem[s] # NoSpec => mem[s] \in ServiceSpec
  BY DEF TypeInv, TypeOK, Valid, DesiredState
<1>1. ASSUME NEW s \in Services, NEW c \in Configs, Enable(s, c)
      PROVE  DurableStep("enable", s, EnabledSpec(s, c), TRUE)
  <2>1. CASE mem[s] = NoSpec
    BY <1>1, <2>1 DEF Enable, DurableStep, Supersedes
  <2>2. CASE mem[s] # NoSpec
    <3>1. mem[s].generation \in 1 .. GenMax
      BY <1>0, <2>2 DEF ServiceSpec
    <3>2. EnabledSpec(s, c).generation \in
             {mem[s].generation, NextGeneration(mem[s].generation)}
      BY <2>2 DEF EnabledSpec
    <3>3. EnabledSpec(s, c).generation >= mem[s].generation
      BY <3>1, <3>2 DEF NextGeneration
    <3>4. EnabledSpec(s, c) # NoSpec
      BY <1>0, <1>1, SpecTypes DEF Enable
    <3> QED
      BY <1>1, <3>3, <3>4 DEF Enable, DurableStep, Supersedes
  <2> QED
    BY <2>1, <2>2
<1>2. ASSUME NEW s \in Services, mem[s] # NoSpec, NEW spec \in ServiceSpec,
             spec.generation = mem[s].generation
      PROVE  Supersedes(s, spec)
  <2>1. mem[s].generation \in 1 .. GenMax
    BY <1>0, <1>2 DEF ServiceSpec
  <2> QED
    BY <1>2, <2>1 DEF Supersedes
<1>3. ASSUME NEW s \in Services, Disable(s)
      PROVE  DurableStep("disable", s, DisabledSpec(s), FALSE)
  <2>1. CASE mem[s] = NoSpec
    BY <1>3, <2>1 DEF Disable, DurableStep, Supersedes
  <2>2. CASE mem[s] # NoSpec
    <3>1. /\ DisabledSpec(s) \in ServiceSpec
          /\ DisabledSpec(s).generation = mem[s].generation
      BY <1>0, <2>2 DEF DisabledSpec, ServiceSpec
    <3> QED
      BY <1>2, <1>3, <2>2, <3>1 DEF Disable, DurableStep
  <2> QED
    BY <2>1, <2>2
<1>4. ASSUME NEW s \in Services, mem[s] # NoSpec, NEW b \in BOOLEAN
      PROVE  /\ Supersedes(s, [mem[s] EXCEPT !.paused = b])
             /\ Supersedes(s, [mem[s] EXCEPT !.enabled = TRUE, !.paused = b])
  <2>1. /\ [mem[s] EXCEPT !.paused = b] \in ServiceSpec
        /\ [mem[s] EXCEPT !.enabled = TRUE, !.paused = b] \in ServiceSpec
    BY <1>0, <1>4, SpecTypes
  <2>2. /\ [mem[s] EXCEPT !.paused = b].generation = mem[s].generation
        /\ [mem[s] EXCEPT !.enabled = TRUE, !.paused = b].generation
              = mem[s].generation
    BY <1>0, <1>4 DEF ServiceSpec
  <2> QED
    BY <1>2, <1>4, <2>1, <2>2
<1>5. ASSUME NEW s \in Services
      PROVE  /\ Pause(s) => DurableStep("pause", s, [mem[s] EXCEPT !.paused = TRUE], FALSE)
             /\ Resume(s) => DurableStep("resume", s, [mem[s] EXCEPT !.paused = FALSE], TRUE)
             /\ Start(s) => DurableStep("start", s,
                               [mem[s] EXCEPT !.enabled = TRUE, !.paused = FALSE], TRUE)
  BY <1>4 DEF Pause, Resume, Start, DurableStep
<1>6. CASE \E s \in Services, c \in Configs : Enable(s, c)
  BY <1>0, <1>1, <1>6, SpecTypes DEF Enable, AllCommands
<1>7. CASE \E s \in Services : Disable(s) \/ Pause(s) \/ Resume(s) \/ Start(s)
  BY <1>0, <1>3, <1>5, <1>7, SpecTypes DEF AllCommands, Pause, Resume, Start
<1>8. CASE \/ \E s \in Services :
                 \/ StopRequest(s)
                 \/ \E op \in {"enable", "pause", "resume", "start"} : Reject(op, s)
           \/ Refuse \/ Query \/ Reconcile \/ Shutdown
  BY <1>8 DEF StopRequest, Reject, Refuse, Query, Reconcile, Shutdown, BeginPass,
              Served, Unscoped, QuietStep
<1> QED
  BY <1>6, <1>7, <1>8 DEF Request

LEMMA StepKinds ==
    ASSUME TypeInv, [Next]_vars
    PROVE  \/ \E op \in AllCommands, s \in Services, spec \in ServiceSpec \cup {NoSpec},
                 resets \in BOOLEAN : DurableStep(op, s, spec, resets)
           \/ Restart \/ DownStep \/ Reply \/ QuietStep
<1>1. CASE Request
  BY <1>1, CommitsSupersede
<1>2. CASE Crash \/ LeaveLoop
  BY <1>2 DEF Crash, LeaveLoop, GoDown, DownStep
<1>3. CASE Periodic
  BY <1>3 DEF Periodic, BeginPass, QuietStep
<1>4. CASE StopNow
  BY <1>4 DEF StopNow, QuietStep
<1>5. CASE Probe \/ LeaveAlone \/ SpawnRecorder \/ SpawnFails \/ StopRecorder
  BY <1>5 DEF Probe, LeaveAlone, SpawnRecorder, SpawnFails, StopRecorder,
              NextService, MustStart, QuietStep
<1>6. CASE PassAborts \/ DaemonAborts \/ PassDone
  BY <1>6 DEF PassAborts, DaemonAborts, ToolFails, PassDone, GoDown, QuietStep, DownStep
<1>7. CASE Environment
  BY <1>7 DEF Environment, RecorderUp, RecorderExits, RetryTimeComes, WindowEnds,
              daemonVars, QuietStep
<1>8. CASE UNCHANGED vars
  BY <1>8 DEF vars, QuietStep
<1> QED
  BY <1>1, <1>2, <1>3, <1>4, <1>5, <1>6, <1>7, <1>8 DEF Next, Serve, Pass

(* What a command that has not failed put in memory is in the file.        *)
CommittedIsSaved ==
    pc # "refused" /\ cmd.op # "stop" => \A s \in cmd.target : disk[s] = mem[s]

PromiseInMemory ==
    pc # "down" => \A s \in Services : promise[s] # Open => mem[s] = promise[s]

MemoryNotBehind ==
    pc # "down" => \A s \in Services :
       disk[s] # NoSpec => /\ mem[s] # NoSpec
                           /\ mem[s].generation >= disk[s].generation

StoreInv == Durability /\ CommittedIsSaved /\ PromiseInMemory /\ MemoryNotBehind

LEMMA GenerationsAreNat ==
    ASSUME TypeInv, NEW s \in Services
    PROVE  /\ disk[s] # NoSpec => disk[s].generation \in Nat
           /\ mem[s] # NoSpec => mem[s].generation \in Nat
BY DEF TypeInv, TypeOK, DesiredState, ServiceSpec

(* Whatever a command does to the file, with or without success, every     *)
(* service stays known and no generation decreases.                        *)
FileNotBehind ==
    \A s \in Services :
       disk[s] # NoSpec => /\ disk'[s] # NoSpec
                           /\ disk'[s].generation >= disk[s].generation

LEMMA FileUnchanged ==
    ASSUME TypeInv, disk' = disk
    PROVE  FileNotBehind
<1> SUFFICES ASSUME NEW s \in Services, disk[s] # NoSpec
             PROVE  disk'[s] # NoSpec /\ disk'[s].generation >= disk[s].generation
  BY DEF FileNotBehind
<1>1. disk'[s] = disk[s] /\ disk[s].generation \in Nat
  BY GenerationsAreNat
<1>2. disk[s].generation >= disk[s].generation
  BY <1>1
<1> QED
  BY <1>1, <1>2, Zenon

LEMMA DurableStepStore ==
    ASSUME TypeInv, StoreInv,
           NEW op, NEW s \in Services, NEW spec \in ServiceSpec \cup {NoSpec},
           NEW resets, DurableStep(op, s, spec, resets)
    PROVE  StoreInv' /\ FileNotBehind
<1>1. /\ pc = "drain" /\ mem' = [mem EXCEPT ![s] = spec]
      /\ promise' = [promise EXCEPT ![s] = Open]
      /\ disk' \in {disk, mem'} /\ cmd' = Served(op, s)
      /\ pc' # "refused" => disk' = mem'
      /\ Supersedes(s, spec)
  BY DEF DurableStep, Commit, SaveSucceeds, SaveFails, BeginPass
<1>2. /\ mem \in [Services -> ServiceSpec \cup {NoSpec}]
      /\ promise \in [Services -> ServiceSpec \cup {NoSpec, Open}]
  BY DEF TypeInv, TypeOK, DesiredState
<1>3. \A t \in Services : mem'[t] # NoSpec => mem'[t].generation \in Nat
  BY <1>1, <1>2 DEF ServiceSpec
<1>4. \A t \in Services : mem[t] # NoSpec =>
         mem'[t] # NoSpec /\ mem'[t].generation >= mem[t].generation
  <2> SUFFICES ASSUME NEW t \in Services, mem[t] # NoSpec
               PROVE  mem'[t] # NoSpec /\ mem'[t].generation >= mem[t].generation
    OBVIOUS
  <2>1. CASE t = s
    BY <1>1, <1>2, <2>1 DEF Supersedes
  <2>2. CASE t # s
    <3>1. mem'[t] = mem[t]
      BY <1>1, <1>2, <2>2
    <3> QED
      BY <3>1, GenerationsAreNat
  <2> QED
    BY <2>1, <2>2
<1>5. \A t \in Services : disk[t] # NoSpec =>
         mem'[t] # NoSpec /\ mem'[t].generation >= disk[t].generation
  <2> SUFFICES ASSUME NEW t \in Services, disk[t] # NoSpec
               PROVE  mem'[t] # NoSpec /\ mem'[t].generation >= disk[t].generation
    OBVIOUS
  <2>1. mem[t] # NoSpec /\ mem[t].generation >= disk[t].generation
    BY <1>1 DEF StoreInv, MemoryNotBehind
  <2> QED
    BY <1>3, <1>4, <2>1, GenerationsAreNat
<1>6. FileNotBehind
  <2>1. CASE disk' = disk
    BY <2>1, FileUnchanged
  <2>2. CASE disk' = mem'
    BY <1>5, <2>2 DEF FileNotBehind
  <2> QED
    BY <1>1, <2>1, <2>2
<1>7. MemoryNotBehind'
  <2>1. CASE disk' = disk
    BY <1>5, <2>1 DEF MemoryNotBehind
  <2>2. CASE disk' = mem'
    <3>1. \A t \in Services : disk'[t] # NoSpec =>
             mem'[t] # NoSpec /\ mem'[t].generation >= disk'[t].generation
      <4> TAKE t \in Services
      <4>1. disk'[t] = mem'[t]
        BY <2>2
      <4>2. ASSUME mem'[t] # NoSpec
            PROVE  mem'[t].generation >= mem'[t].generation
        <5>1. mem'[t].generation \in Nat
          BY <1>3, <4>2
        <5> QED
          BY <5>1
      <4> QED
        BY <4>1, <4>2, Zenon
    <3> QED
      BY <3>1 DEF MemoryNotBehind
  <2> QED
    BY <1>1, <2>1, <2>2
<1>8. \A t \in Services : promise'[t] # Open =>
         t # s /\ promise'[t] = promise[t] /\ mem'[t] = mem[t]
  BY <1>1, <1>2
<1>9. Durability' /\ PromiseInMemory'
  BY <1>1, <1>8 DEF StoreInv, Durability, PromiseInMemory
<1>10. CommittedIsSaved'
  BY <1>1 DEF CommittedIsSaved, Served
<1> QED
  BY <1>6, <1>7, <1>9, <1>10 DEF StoreInv

LEMMA StoreStep ==
    ASSUME FileIsRead, TypeInv, StoreInv, [Next]_vars
    PROVE  StoreInv' /\ FileNotBehind
<1>1. ASSUME NEW op \in AllCommands, NEW s \in Services,
             NEW spec \in ServiceSpec \cup {NoSpec}, NEW resets \in BOOLEAN,
             DurableStep(op, s, spec, resets)
      PROVE  StoreInv' /\ FileNotBehind
  BY <1>1, DurableStepStore
<1>2. disk' = disk => FileNotBehind
  BY FileUnchanged
<1>3. CASE Restart
  BY <1>2, <1>3, GenerationsAreNat
     DEF FileIsRead, Restart, StoreInv, Durability, CommittedIsSaved,
         PromiseInMemory, MemoryNotBehind
<1>4. CASE DownStep
  BY <1>2, <1>4
     DEF DownStep, NoCommand, StoreInv, Durability, CommittedIsSaved,
         PromiseInMemory, MemoryNotBehind
<1>5. CASE Reply
  <2>1. \A s \in Services : \/ promise'[s] = promise[s]
                            \/ promise'[s] = mem[s] /\ disk[s] = mem[s]
    BY <1>5 DEF Reply, StoreInv, CommittedIsSaved, TypeInv, TypeOK
  <2>2. Durability' /\ PromiseInMemory'
    BY <1>5, <2>1 DEF Reply, StoreInv, Durability, PromiseInMemory
  <2>3. CommittedIsSaved' /\ MemoryNotBehind'
    BY <1>5 DEF Reply, NoCommand, StoreInv, CommittedIsSaved, MemoryNotBehind
  <2> QED
    BY <1>2, <1>5, <2>2, <2>3 DEF Reply, StoreInv
<1>6. CASE QuietStep
  BY <1>2, <1>6
     DEF QuietStep, StoreInv, Durability, CommittedIsSaved, PromiseInMemory,
         MemoryNotBehind
<1> QED
  BY StepKinds, <1>1, <1>3, <1>4, <1>5, <1>6

LEMMA StoreInit == Init => StoreInv
BY DEF Init, StoreInv, Durability, CommittedIsSaved, PromiseInMemory,
       MemoryNotBehind, NoServices, NoCommand

THEOREM StoreInvariant ==
    ASSUME FileIsRead
    PROVE  Spec => [](TypeInv /\ StoreInv)
<1>1. Init => TypeInv /\ StoreInv
  BY TypeInit, StoreInit
<1>2. TypeInv /\ StoreInv /\ [Next]_vars => (TypeInv /\ StoreInv)'
  BY TypeStep, StoreStep
<1> QED
  BY <1>1, <1>2, PTL DEF Spec

(* What a client was told is in place stays in the desired-state file      *)
(* until the next command on that service, through failed saves of other   *)
(* commands, kills and restarts (ORCH-002), if every start reads the file. *)
THEOREM AcknowledgedIsDurable ==
    ASSUME FileIsRead
    PROVE  Spec => []Durability
<1>1. StoreInv => Durability
  BY DEF StoreInv
<1> QED
  BY <1>1, StoreInvariant, PTL

(* No service is ever dropped from the desired-state file, and no          *)
(* generation in it ever decreases (DF-003), also when a change that       *)
(* failed to be saved is lost, or saved later along with the change of     *)
(* another service, if every start reads the file.                         *)
THEOREM GenerationMonotonic ==
    ASSUME FileIsRead
    PROVE  Spec => GenerationNeverGoesBack
<1>1. TypeInv /\ StoreInv /\ [Next]_vars => [FileNotBehind]_vars
  BY StoreStep
<1>2. [FileNotBehind]_vars =>
         [\A s \in Services :
            disk[s] # NoSpec => /\ disk'[s] # NoSpec
                                /\ disk'[s].generation >= disk[s].generation]_vars
  BY DEF FileNotBehind
<1> QED
  BY <1>1, <1>2, StoreInvariant, PTL DEF Spec, GenerationNeverGoesBack

-----------------------------------------------------------------------------
(* The recorders, as long as no save fails.                                *)

(* Every recorder but a new one is an old one, in whatever phase.          *)
LEMMA OldRecorders ==
    ASSUME TypeInv, [Next]_vars
    PROVE  \A p \in Pids : procs'[p] # Free =>
              \/ SpawnRecorder /\ procs'[p] = RecorderOf(Current)
              \/ /\ procs[p] # Free
                 /\ procs'[p].service = procs[p].service
                 /\ procs'[p].generation = procs[p].generation
                 /\ procs'[p].config = procs[p].config
                 /\ procs'[p].phase \in {procs[p].phase, "live"}
<1> DEFINE Kept(p) == procs'[p] # Free =>
                        /\ procs[p] # Free
                        /\ procs'[p].service = procs[p].service
                        /\ procs'[p].generation = procs[p].generation
                        /\ procs'[p].config = procs[p].config
                        /\ procs'[p].phase \in {procs[p].phase, "live"}
<1>0. procs \in [Pids -> Recorder \cup {Free}]
  BY DEF TypeInv, TypeOK
<1>1. ASSUME UNCHANGED procs
      PROVE  \A p \in Pids : Kept(p)
  BY <1>1
<1>2. ASSUME NEW s, Stopped(s)
      PROVE  \A p \in Pids : Kept(p)
  BY <1>2 DEF Stopped
<1>3. CASE SpawnRecorder
  <2>1. PICK p \in Pids : procs' = [procs EXCEPT ![p] = RecorderOf(Current)]
    BY <1>3 DEF SpawnRecorder
  <2> QED
    BY <1>0, <1>3, <2>1
<1>4. CASE StopRecorder \/ PassAborts \/ DaemonAborts \/ StopNow
  BY <1>1, <1>2, <1>4 DEF StopRecorder, PassAborts, DaemonAborts, ToolFails, StopNow
<1>5. CASE \E p \in Pids : RecorderUp(p) \/ RecorderExits(p)
  <2>1. PICK p \in Pids : \/ procs[p] # Free /\ procs' = [procs EXCEPT ![p].phase = "live"]
                          \/ procs' = [procs EXCEPT ![p] = Free]
    BY <1>5 DEF RecorderUp, RecorderExits
  <2> QED
    BY <1>0, <2>1 DEF Recorder
<1>6. CASE Request
  <2>1. UNCHANGED procs
    BY <1>6 DEF Request, Enable, Disable, Pause, Resume, Start, Commit, StopRequest,
                Reject, Refuse, Query, Reconcile, Shutdown
  <2> QED
    BY <1>1, <2>1
<1>7. CASE \/ Restart \/ Crash \/ Periodic \/ Reply \/ LeaveLoop
           \/ \E s \in Services : RetryTimeComes(s) \/ WindowEnds(s)
           \/ UNCHANGED vars
  <2>1. UNCHANGED procs
    BY <1>7 DEF Restart, Crash, Periodic, Reply, LeaveLoop, GoDown, RetryTimeComes,
                WindowEnds, vars
  <2> QED
    BY <1>1, <2>1
<1>8. CASE Probe \/ LeaveAlone \/ SpawnFails \/ PassDone
  <2>1. UNCHANGED procs
    BY <1>8 DEF Probe, LeaveAlone, SpawnFails, PassDone, GoDown
  <2> QED
    BY <1>1, <2>1
<1> QED
  BY <1>3, <1>4, <1>5, <1>6, <1>7, <1>8 DEF Next, Serve, Pass, Environment

MemoryIsSaved == pc # "down" => mem = disk

LEMMA MemoryStep ==
    ASSUME "save" \notin Faults, FileIsRead, TypeInv, MemoryIsSaved, [Next]_vars
    PROVE  MemoryIsSaved'
<1>1. ASSUME NEW op, NEW s, NEW spec, NEW resets, DurableStep(op, s, spec, resets)
      PROVE  mem' = disk'
  BY <1>1 DEF DurableStep, Commit, SaveSucceeds, SaveFails
<1>2. CASE Restart \/ DownStep \/ Reply \/ QuietStep
  BY <1>2 DEF FileIsRead, Restart, DownStep, Reply, QuietStep, MemoryIsSaved
<1> QED
  BY <1>1, <1>2, StepKinds DEF MemoryIsSaved

LEMMA RecordersStep ==
    ASSUME FileIsRead, TypeInv, StoreInv, MemoryIsSaved, RecordersArePersisted, [Next]_vars
    PROVE  RecordersArePersisted'
<1> SUFFICES ASSUME NEW p \in Pids, procs'[p] # Free
             PROVE  /\ disk'[procs'[p].service] # NoSpec
                    /\ procs'[p].generation <= disk'[procs'[p].service].generation
  BY DEF RecordersArePersisted
<1>1. FileNotBehind
  BY StoreStep
<1>2. CASE SpawnRecorder /\ procs'[p] = RecorderOf(Current)
  <2>1. /\ Current \in Services /\ mem[Current] # NoSpec
        /\ disk' = disk /\ mem = disk
    BY <1>2, CurrentInTodo
       DEF SpawnRecorder, MustStart, Wanted, NextService, TypeInv, TypeOK, ActHasService,
           MemoryIsSaved
  <2>2. /\ procs'[p].service = Current
        /\ procs'[p].generation = mem[Current].generation
    BY <1>2 DEF RecorderOf
  <2>3. mem[Current].generation \in Nat
    BY <2>1, GenerationsAreNat
  <2> QED
    BY <2>1, <2>2, <2>3
<1>3. CASE /\ procs[p] # Free
           /\ procs'[p].service = procs[p].service
           /\ procs'[p].generation = procs[p].generation
  <2>1. procs[p] \in Recorder
    BY <1>3 DEF TypeInv, TypeOK
  <2>2. procs[p].service \in Services /\ procs[p].generation \in Nat
    BY <2>1 DEF Recorder
  <2>3. /\ disk[procs[p].service] # NoSpec
        /\ procs[p].generation <= disk[procs[p].service].generation
    BY <1>3 DEF RecordersArePersisted
  <2>4. /\ disk'[procs[p].service] # NoSpec
        /\ disk'[procs[p].service].generation >= disk[procs[p].service].generation
    BY <1>1, <2>2, <2>3 DEF FileNotBehind
  <2>5. /\ disk[procs[p].service].generation \in Nat
        /\ disk'[procs[p].service].generation \in Nat
    <3>1. TypeInv'
      BY TypeStep
    <3>2. disk' \in DesiredState
      BY <3>1 DEF TypeInv, TypeOK
    <3>3. disk'[procs[p].service] \in ServiceSpec
      BY <2>2, <2>4, <3>2 DEF DesiredState
    <3>4. disk'[procs[p].service].generation \in Nat
      BY <3>3 DEF ServiceSpec
    <3> QED
      BY <2>2, <2>3, <3>4, GenerationsAreNat
  <2> QED
    BY <1>3, <2>2, <2>3, <2>4, <2>5
<1> QED
  BY <1>2, <1>3, OldRecorders

(* If every start reads the file and no save fails, every recorder that    *)
(* runs belongs to a service that the file knows, and to no later          *)
(* generation than the file's, so that a restarted daemon can account for  *)
(* it (ORCH-009).                                                          *)
THEOREM RecordersStayPersisted ==
    ASSUME "save" \notin Faults, FileIsRead
    PROVE  Spec => []RecordersArePersisted
<1> DEFINE Inv == TypeInv /\ StoreInv /\ MemoryIsSaved /\ RecordersArePersisted
<1>1. Init => Inv
  <2>1. Init => MemoryIsSaved /\ RecordersArePersisted
    BY DEF Init, MemoryIsSaved, RecordersArePersisted
  <2> QED
    BY <2>1, TypeInit, StoreInit
<1>2. Inv /\ [Next]_vars => Inv'
  BY TypeStep, StoreStep, MemoryStep, RecordersStep
<1> QED
  BY <1>1, <1>2, PTL DEF Spec

=============================================================================
