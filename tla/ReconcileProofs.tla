--------------------------- MODULE ReconcileProofs ---------------------------
(***************************************************************************)
(* Proofs, for every value of the constants, of what holds of the daemon   *)
(* as long as some of the faults do not occur: which configuration the     *)
(* recorders run, and what an accepted command leaves behind.              *)
(***************************************************************************)
EXTENDS DaemonProofs

USE ConstantsAssumption, SentinelsAssumption, AttemptsMaxAssumption

-----------------------------------------------------------------------------
(* The identity of a configuration, as long as no save fails.              *)

(* What a command does to a spec: the generation moves when the            *)
(* configuration does, and by one.                                         *)
Moves(old, new) ==
    /\ new # NoSpec
    /\ new.generation = IF new.config = old.config THEN old.generation
                        ELSE NextGeneration(old.generation)

LEMMA HandlersMove ==
    ASSUME TypeInv, NEW s \in Services, mem[s] # NoSpec
    PROVE  /\ \A c \in ValidConfigs : Moves(mem[s], EnabledSpec(s, c))
           /\ Moves(mem[s], DisabledSpec(s))
           /\ \A b \in BOOLEAN :
                 /\ Moves(mem[s], [mem[s] EXCEPT !.paused = b])
                 /\ Moves(mem[s], [mem[s] EXCEPT !.enabled = TRUE, !.paused = b])
<1>1. mem \in DesiredState /\ Valid(mem[s]) /\ mem[s] \in ServiceSpec
  BY DEF TypeInv, TypeOK, Valid, DesiredState
<1>2. \A spec \in ServiceSpec : spec # NoSpec
  OBVIOUS
<1>3. ASSUME NEW c \in ValidConfigs
      PROVE  Moves(mem[s], EnabledSpec(s, c))
  <2>1. EnabledSpec(s, c) \in ServiceSpec
    BY <1>1, SpecTypes
  <2>2. /\ EnabledSpec(s, c).config = c
        /\ EnabledSpec(s, c).generation = IF c = mem[s].config THEN mem[s].generation
                                          ELSE NextGeneration(mem[s].generation)
    BY DEF EnabledSpec
  <2> QED
    BY <1>2, <2>1, <2>2 DEF Moves
<1>4. Moves(mem[s], DisabledSpec(s))
  BY <1>1, <1>2 DEF Moves, DisabledSpec, ServiceSpec
<1>5. ASSUME NEW b \in BOOLEAN
      PROVE  /\ Moves(mem[s], [mem[s] EXCEPT !.paused = b])
             /\ Moves(mem[s], [mem[s] EXCEPT !.enabled = TRUE, !.paused = b])
  <2>1. /\ [mem[s] EXCEPT !.paused = b] \in ServiceSpec
        /\ [mem[s] EXCEPT !.enabled = TRUE, !.paused = b] \in ServiceSpec
    BY <1>1, SpecTypes
  <2> QED
    BY <1>1, <1>2, <2>1 DEF Moves, ServiceSpec
<1> QED
  BY <1>3, <1>4, <1>5

(* Only a command on a service touches the file.                           *)
LEMMA FileSteps ==
    ASSUME "save" \notin Faults, TypeInv, MemoryIsSaved, [Next]_vars
    PROVE  \/ disk' = disk
           \/ \E s \in Services : \E spec \in ServiceSpec \cup {NoSpec} :
                 /\ disk' = [disk EXCEPT ![s] = spec]
                 /\ disk[s] # NoSpec => Moves(disk[s], spec)
<1> DEFINE Result == \/ disk' = disk
                     \/ \E s \in Services : \E spec \in ServiceSpec \cup {NoSpec} :
                           /\ disk' = [disk EXCEPT ![s] = spec]
                           /\ disk[s] # NoSpec => Moves(disk[s], spec)
<1>1. ASSUME NEW op, NEW s \in Services, NEW spec \in ServiceSpec \cup {NoSpec},
             NEW resets, Commit(op, s, spec, resets),
             mem[s] # NoSpec => Moves(mem[s], spec)
      PROVE  Result
  <2>1. mem = disk
    BY <1>1 DEF Commit, MemoryIsSaved
  <2>2. disk' = [disk EXCEPT ![s] = spec]
    BY <1>1, <2>1 DEF Commit, SaveSucceeds, SaveFails
  <2> QED
    BY <1>1, <2>1, <2>2
<1>2. \A s \in Services : mem \in DesiredState /\ Valid(mem[s])
  BY DEF TypeInv, TypeOK, Valid
<1>3. CASE \E s \in Services, c \in Configs : Enable(s, c)
  <2>1. PICK s \in Services, c \in ValidConfigs :
               Commit("enable", s, EnabledSpec(s, c), TRUE)
    BY <1>3 DEF Enable
  <2>2. EnabledSpec(s, c) \in ServiceSpec
    BY <1>2, SpecTypes
  <2> QED
    BY <1>1, <2>1, <2>2, HandlersMove
<1>4. CASE \E s \in Services : Disable(s) \/ Pause(s) \/ Resume(s) \/ Start(s)
  <2>1. PICK s \in Services : Disable(s) \/ Pause(s) \/ Resume(s) \/ Start(s)
    BY <1>4
  <2>2. CASE Disable(s)
    <3>1. DisabledSpec(s) \in ServiceSpec \cup {NoSpec}
      BY <1>2, SpecTypes
    <3> QED
      BY <1>1, <2>2, <3>1, HandlersMove DEF Disable
  <2>3. CASE Pause(s)
    BY <1>1, <1>2, <2>3, SpecTypes, HandlersMove DEF Pause
  <2>4. CASE Resume(s)
    BY <1>1, <1>2, <2>4, SpecTypes, HandlersMove DEF Resume
  <2>5. CASE Start(s)
    BY <1>1, <1>2, <2>5, SpecTypes, HandlersMove DEF Start
  <2> QED
    BY <2>1, <2>2, <2>3, <2>4, <2>5
<1>5. CASE \/ \E s \in Services :
                 \/ StopRequest(s)
                 \/ \E op \in {"enable", "pause", "resume", "start"} : Reject(op, s)
           \/ Refuse \/ Query \/ Reconcile \/ Shutdown
  BY <1>5 DEF StopRequest, Reject, Refuse, Query, Reconcile, Shutdown
<1>6. CASE Restart \/ Crash \/ Periodic \/ Serve \/ UNCHANGED vars
  BY <1>6 DEF Restart, Crash, GoDown, Periodic, Serve, Reply, StopNow, LeaveLoop, vars
<1>7. CASE Pass
  BY <1>7 DEF Pass, Probe, LeaveAlone, SpawnRecorder, SpawnFails, StopRecorder,
              NextService, PassAborts, DaemonAborts, PassDone, GoDown
<1>8. CASE Environment
  BY <1>8 DEF Environment, RecorderUp, RecorderExits, RetryTimeComes, WindowEnds
<1> QED
  BY <1>3, <1>4, <1>5, <1>6, <1>7, <1>8 DEF Next, Request

(* If no save fails, the generation in the file moves only when the        *)
(* configuration does, whatever commands are repeated or come in between   *)
(* (ORCH-003).                                                             *)
THEOREM GenerationIsOfConfig ==
    ASSUME "save" \notin Faults, FileIsRead
    PROVE  Spec => GenerationMovesWithConfig
<1> DEFINE Moved == \A s \in Services :
                       /\ disk[s] # NoSpec /\ disk'[s] # NoSpec
                       /\ disk'[s].generation # disk[s].generation
                       => disk'[s].config # disk[s].config
           Inv == TypeInv /\ MemoryIsSaved
<1>1. Init => Inv
  BY TypeInit DEF Init, MemoryIsSaved
<1>2. Inv /\ [Next]_vars => Inv'
  BY TypeStep, MemoryStep, StepKinds
<1>3. Inv /\ [Next]_vars => [Moved]_vars
  <2> SUFFICES ASSUME Inv, [Next]_vars
               PROVE  Moved
    OBVIOUS
  <2>1. disk \in DesiredState
    BY DEF TypeInv, TypeOK
  <2> QED
    BY <2>1, FileSteps DEF Moves, DesiredState
<1> QED
  BY <1>1, <1>2, <1>3, PTL DEF Spec, GenerationMovesWithConfig

(* The memory of the daemon is the file, or empty while the daemon is down.*)
MemoryOfFile == mem \in {disk, NoServices}

LEMMA MemoryOfFileStep ==
    ASSUME "save" \notin Faults, TypeInv, MemoryOfFile, [Next]_vars
    PROVE  MemoryOfFile'
<1>1. ASSUME NEW op, NEW s, NEW spec, NEW resets, Commit(op, s, spec, resets)
      PROVE  mem' = disk'
  BY <1>1 DEF Commit, SaveSucceeds, SaveFails
<1>2. CASE disk' = disk /\ mem' \in {mem, disk, NoServices}
  BY <1>2 DEF MemoryOfFile
<1>3. CASE Request
  BY <1>1, <1>2, <1>3
     DEF Request, Enable, Disable, Pause, Resume, Start, StopRequest, Reject, Refuse,
         Query, Reconcile, Shutdown, MemoryOfFile
<1>4. CASE Restart \/ Crash \/ Periodic \/ Serve \/ UNCHANGED vars
  BY <1>2, <1>4 DEF Restart, Crash, GoDown, Periodic, Serve, Reply, StopNow, LeaveLoop,
                    vars
<1>5. CASE Pass
  BY <1>2, <1>5 DEF Pass, Probe, LeaveAlone, SpawnRecorder, SpawnFails, StopRecorder,
                    NextService, PassAborts, DaemonAborts, PassDone, GoDown
<1>6. CASE Environment
  BY <1>2, <1>6 DEF Environment, RecorderUp, RecorderExits, RetryTimeComes, WindowEnds,
                    daemonVars
<1> QED
  BY <1>3, <1>4, <1>5, <1>6 DEF Next

(* A generation that has not saturated tells the configuration.            *)
SameVersion(a, b) ==
    a.generation = b.generation /\ a.generation < GenMax => a.config = b.config

RecordersIdentified ==
    /\ \A p \in Pids : procs[p] # Free => SameVersion(procs[p], disk[procs[p].service])
    /\ \A p, q \in Pids :
          procs[p] # Free /\ procs[q] # Free /\ procs[p].service = procs[q].service
             => SameVersion(procs[p], procs[q])

LEMMA IdentifiedStep ==
    ASSUME "save" \notin Faults, TypeInv, MemoryIsSaved, RecordersArePersisted,
           RecordersIdentified, [Next]_vars
    PROVE  RecordersIdentified'
<1>0. /\ procs \in [Pids -> Recorder \cup {Free}]
      /\ disk \in DesiredState
  BY DEF TypeInv, TypeOK
<1>1. CASE SpawnRecorder
  <2>1. PICK p \in Pids : procs' = [procs EXCEPT ![p] = RecorderOf(Current)]
    BY <1>1 DEF SpawnRecorder
  <2>2. disk' = disk /\ mem = disk
    BY <1>1 DEF SpawnRecorder, MustStart, NextService, MemoryIsSaved
  <2>3. /\ RecorderOf(Current).service = Current
        /\ RecorderOf(Current).config = disk[Current].config
        /\ RecorderOf(Current).generation = disk[Current].generation
    BY <2>2 DEF RecorderOf
  <2>4. \A q \in Pids : q # p => procs'[q] = procs[q]
    BY <1>0, <2>1
  <2>5. procs'[p] = RecorderOf(Current)
    BY <1>0, <2>1
  <2>6. \A q \in Pids : procs'[q] # Free => SameVersion(procs'[q], disk'[procs'[q].service])
    BY <2>2, <2>3, <2>4, <2>5 DEF RecordersIdentified, SameVersion
  <2>7. \A q \in Pids : procs'[q] # Free /\ procs'[q].service = Current
           => SameVersion(procs'[q], procs'[p]) /\ SameVersion(procs'[p], procs'[q])
    BY <2>2, <2>3, <2>5, <2>6 DEF SameVersion
  <2>8. \A q, r \in Pids :
           procs'[q] # Free /\ procs'[r] # Free /\ procs'[q].service = procs'[r].service
              => SameVersion(procs'[q], procs'[r])
    BY <2>3, <2>4, <2>5, <2>7 DEF RecordersIdentified
  <2> QED
    BY <2>6, <2>8 DEF RecordersIdentified
<1>2. CASE ~SpawnRecorder
  <2>1. \A p \in Pids : procs'[p] # Free =>
           /\ procs[p] # Free
           /\ procs'[p].service = procs[p].service
           /\ procs'[p].generation = procs[p].generation
           /\ procs'[p].config = procs[p].config
    BY <1>2, OldRecorders
  <2>2. ASSUME NEW p \in Pids, procs'[p] # Free
        PROVE  SameVersion(procs'[p], disk'[procs'[p].service])
    <3> DEFINE s == procs[p].service
    <3>1. /\ s \in Services /\ procs[p].generation \in 1 .. GenMax
          /\ disk[s] \in ServiceSpec
          /\ procs[p].generation <= disk[s].generation
          /\ SameVersion(procs[p], disk[s])
      <4>1. procs[p] \in Recorder
        BY <1>0, <2>1, <2>2
      <4>2. s \in Services /\ procs[p].generation \in 1 .. GenMax
        BY <4>1 DEF Recorder
      <4>3. disk[s] # NoSpec /\ procs[p].generation <= disk[s].generation
        BY <2>1, <2>2 DEF RecordersArePersisted
      <4> QED
        BY <1>0, <2>1, <2>2, <4>2, <4>3 DEF DesiredState, RecordersIdentified
    <3>2. disk'[s] = disk[s] \/ Moves(disk[s], disk'[s])
      BY <1>0, <3>1, FileSteps DEF DesiredState
    <3>3. SameVersion(procs[p], disk'[s])
      <4>1. disk[s].generation \in 1 .. GenMax
        BY <3>1 DEF ServiceSpec
      <4> HIDE DEF s
      <4> QED
        BY <3>1, <3>2, <4>1 DEF Moves, NextGeneration, SameVersion
    <3> QED
      BY <2>1, <2>2, <3>3 DEF SameVersion
  <2>3. ASSUME NEW p \in Pids, NEW q \in Pids, procs'[p] # Free, procs'[q] # Free,
               procs'[p].service = procs'[q].service
        PROVE  SameVersion(procs'[p], procs'[q])
    BY <2>1, <2>3 DEF RecordersIdentified, SameVersion
  <2> QED
    BY <2>2, <2>3 DEF RecordersIdentified
<1> QED
  BY <1>1, <1>2

LEMMA IdentifiedIsIdentity ==
    ASSUME TypeInv, MemoryOfFile, RecordersIdentified
    PROVE  GenerationIdentifies
<1> SUFFICES ASSUME NEW s \in Services
             PROVE  LET specs == {state[s] : state \in {mem, disk}} \ {NoSpec}
                        versions ==
                           {<<spec.generation, spec.config>> : spec \in specs} \cup
                           {<<procs[p].generation, procs[p].config>> : p \in RecordersOf(s)}
                    IN  \A v, w \in versions :
                           v[1] = w[1] /\ v[1] < GenMax => v[2] = w[2]
  BY DEF GenerationIdentifies
<1> DEFINE specs == {state[s] : state \in {mem, disk}} \ {NoSpec}
           fromSpecs == {<<spec.generation, spec.config>> : spec \in specs}
           fromProcs == {<<procs[p].generation, procs[p].config>> : p \in RecordersOf(s)}
           Tells(v, w) == v[1] = w[1] /\ v[1] < GenMax => v[2] = w[2]
<1>1. specs \subseteq {disk[s]}
  BY DEF MemoryOfFile, NoServices
<1>2. \A v \in fromSpecs : v = <<disk[s].generation, disk[s].config>>
  BY <1>1
<1>3. \A v \in fromProcs : \E p \in RecordersOf(s) :
         v = <<procs[p].generation, procs[p].config>>
  OBVIOUS
<1>4. \A p \in RecordersOf(s) : p \in Pids /\ procs[p] # Free /\ procs[p].service = s
  BY DEF RecordersOf
<1>5. \A v \in fromProcs : /\ v[1] = disk[s].generation /\ v[1] < GenMax
                              => v[2] = disk[s].config
  BY <1>3, <1>4 DEF RecordersIdentified, SameVersion
<1>6. \A v, w \in fromProcs : Tells(v, w)
  BY <1>3, <1>4 DEF RecordersIdentified, SameVersion
<1> HIDE DEF fromSpecs, fromProcs
<1>7. \A v, w \in fromSpecs \cup fromProcs : Tells(v, w)
  BY <1>2, <1>5, <1>6
<1> QED
  BY <1>7 DEF fromSpecs, fromProcs

(* If no save fails, a service and a generation that has not saturated     *)
(* identify one configuration among the recorders, the file and the memory *)
(* of the daemon (DF-003), across restarts and reconfigurations.           *)
THEOREM GenerationIsIdentity ==
    ASSUME "save" \notin Faults, FileIsRead
    PROVE  Spec => []GenerationIdentifies
<1> DEFINE Inv == /\ TypeInv /\ StoreInv /\ MemoryIsSaved /\ MemoryOfFile
                  /\ RecordersArePersisted /\ RecordersIdentified
<1>1. Init => Inv
  <2>1. Init => MemoryIsSaved /\ MemoryOfFile /\ RecordersArePersisted
                /\ RecordersIdentified
    BY DEF Init, MemoryIsSaved, MemoryOfFile, RecordersArePersisted, RecordersIdentified
  <2> QED
    BY <2>1, TypeInit, StoreInit
<1>2. Inv /\ [Next]_vars => Inv'
  BY TypeStep, StoreStep, MemoryStep, MemoryOfFileStep, RecordersStep, IdentifiedStep
<1>3. Inv => GenerationIdentifies
  BY IdentifiedIsIdentity
<1> QED
  BY <1>1, <1>2, <1>3, PTL DEF Spec

-----------------------------------------------------------------------------
(* What an accepted command leaves behind, as long as recorders answer     *)
(* every probe from their spawn on, do not exit by themselves and end when *)
(* they are told to.                                                       *)
Prompt == "slow_start" \notin Faults /\ "probe" \notin Faults
Obedient == Prompt /\ "exit" \notin Faults /\ "stop" \notin Faults

(* A service then never has two of them.                                   *)
AllLive == \A p \in Pids : procs[p] # Free => procs[p].phase = "live"

(* Between the probe of a service and the decision nothing starts one.     *)
UnansweredIsAbsent == pc = "act" /\ ~live => RecordersOf(Current) = {}

AtMostOne ==
    \A p, q \in Pids :
       procs[p] # Free /\ procs[q] # Free /\ procs[p].service = procs[q].service
          => p = q

SingleInv == AllLive /\ UnansweredIsAbsent /\ AtMostOne

LEMMA DecisionSteps ==
    ASSUME TypeInv, [Next]_vars, pc' = "act"
    PROVE  Probe \/ UNCHANGED <<pc, todo, live>>
<1>1. CASE Request \/ Serve \/ Restart \/ Crash \/ Periodic
  BY <1>1 DEF Request, Enable, Disable, Pause, Resume, Start, Commit, BeginPass,
              StopRequest, Reject, Refuse, Query, Reconcile, Shutdown, Serve, Reply,
              StopNow, LeaveLoop, GoDown, Restart, Crash, Periodic
<1>2. CASE Pass
  BY <1>2 DEF Pass, LeaveAlone, SpawnRecorder, SpawnFails, StopRecorder, NextService,
              PassAborts, DaemonAborts, PassDone, GoDown
<1>3. CASE Environment \/ UNCHANGED vars
  BY <1>3 DEF Environment, RecorderUp, RecorderExits, RetryTimeComes, WindowEnds,
              daemonVars, vars
<1> QED
  BY <1>1, <1>2, <1>3 DEF Next

LEMMA SingleStep ==
    ASSUME Prompt, TypeInv, SingleInv, [Next]_vars
    PROVE  SingleInv'
<1>0. procs \in [Pids -> Recorder \cup {Free}]
  BY DEF TypeInv, TypeOK
<1>1. CASE SpawnRecorder
  <2>1. PICK p \in Pids : procs[p] = Free /\ procs' = [procs EXCEPT ![p] = RecorderOf(Current)]
    BY <1>1 DEF SpawnRecorder
  <2>2. /\ RecorderOf(Current).phase = "live"
        /\ RecorderOf(Current).service = Current
    BY DEF RecorderOf, Prompt
  <2>3. \A q \in Pids : procs[q] # Free => procs[q].service # Current
    BY <1>1 DEF SpawnRecorder, MustStart, SingleInv, UnansweredIsAbsent, RecordersOf
  <2>4. AllLive'
    BY <1>0, <2>1, <2>2 DEF SingleInv, AllLive
  <2>5. AtMostOne'
    BY <1>0, <2>1, <2>2, <2>3 DEF SingleInv, AtMostOne
  <2>6. UnansweredIsAbsent'
    BY <1>1 DEF SpawnRecorder, NextService, UnansweredIsAbsent
  <2> QED
    BY <2>4, <2>5, <2>6 DEF SingleInv
<1>2. CASE ~SpawnRecorder
  <2>1. \A p \in Pids : procs'[p] # Free =>
           /\ procs[p] # Free /\ procs'[p].service = procs[p].service
           /\ procs'[p].phase \in {procs[p].phase, "live"}
    BY <1>2, OldRecorders
  <2>2. AllLive' /\ AtMostOne'
    BY <2>1 DEF SingleInv, AllLive, AtMostOne
  <2>3. UnansweredIsAbsent'
    <3>1. CASE Probe
      <4>1. PICK answer \in BOOLEAN : Probed(Current, answer) /\ live' = answer
        BY <3>1 DEF Probe
      <4>2. ~live' => LiveRecorders(Current) = {}
        BY <4>1 DEF Probed, Prompt
      <4>3. LiveRecorders(Current) = RecordersOf(Current)
        BY DEF LiveRecorders, RecordersOf, SingleInv, AllLive
      <4>4. RecordersOf(Current)' = RecordersOf(Current)
        BY <3>1 DEF Probe, RecordersOf, Current
      <4> QED
        BY <4>2, <4>3, <4>4 DEF UnansweredIsAbsent
    <3>2. CASE UNCHANGED <<pc, todo, live>>
      <4>1. Current' = Current
        BY <3>2 DEF Current
      <4>2. RecordersOf(Current)' \subseteq RecordersOf(Current)
        BY <2>1, <4>1 DEF RecordersOf
      <4> QED
        BY <3>2, <4>2 DEF SingleInv, UnansweredIsAbsent
    <3> QED
      BY <3>1, <3>2, DecisionSteps DEF UnansweredIsAbsent
  <2> QED
    BY <2>2, <2>3 DEF SingleInv
<1> QED
  BY <1>1, <1>2

(* What the pass has done, what the probe it goes by has found, and which  *)
(* commands are accepted without a pass.                                   *)
PassedIsSettled ==
    pc \in {"probe", "act"} => \A s \in Known(mem) \ todo : Settled(s)

AnsweredIsPresent == pc = "act" /\ live => RecordersOf(Current) # {}

StopIsStop == pc = "stop" => cmd.op = "stop"

PassInv == PassedIsSettled /\ AnsweredIsPresent /\ StopIsStop /\ AcceptedIsSettled

LEMMA LiveIsAll ==
    ASSUME AllLive, NEW s
    PROVE  LiveRecorders(s) = RecordersOf(s)
BY DEF AllLive, LiveRecorders, RecordersOf

(* A service stays settled while the spec, the recorders and the count of  *)
(* attempts stay.                                                          *)
LEMMA StaysSettled ==
    ASSUME NEW s, AllLive, AllLive', Settled(s), mem'[s] = mem[s],
           RecordersOf(s)' = RecordersOf(s),
           retry'[s].attempts = retry[s].attempts
    PROVE  Settled(s)'
<1>1. LiveRecorders(s) = RecordersOf(s)
  BY DEF AllLive, LiveRecorders, RecordersOf
<1>2. LiveRecorders(s)' = RecordersOf(s)'
  BY DEF AllLive, LiveRecorders, RecordersOf
<1>3. Wanted(s)' <=> Wanted(s)
  BY DEF Wanted
<1> QED
  BY <1>1, <1>2, <1>3 DEF Settled

(* The decision on a service settles it and leaves the others alone.       *)
LEMMA DecisionSettles ==
    ASSUME Obedient, TypeInv, TrackersCoherent, SingleInv, SingleInv', PassInv,
           LeaveAlone \/ SpawnRecorder \/ SpawnFails \/ StopRecorder
    PROVE  PassInv'
<1>c. PICK c \in todo : c = Current
  BY CurrentInTodo
     DEF TypeInv, TypeOK, ActHasService, LeaveAlone, SpawnRecorder, SpawnFails,
         MustStart, StopRecorder
<1>0. /\ procs \in [Pids -> Recorder \cup {Free}]
      /\ retry \in [Services -> RetryTracker]
      /\ c \in Services
  BY DEF TypeInv, TypeOK
<1>1. /\ pc = "act" /\ pc' = "probe" /\ todo' = todo \ {c} /\ mem' = mem
  BY <1>c DEF LeaveAlone, SpawnRecorder, SpawnFails, MustStart, StopRecorder, NextService
<1>2. AllLive /\ AllLive' /\ AtMostOne /\ UnansweredIsAbsent
  BY DEF SingleInv
<1>3. Wanted(c)' <=> Wanted(c)
  BY <1>1 DEF Wanted
<1>4. Settled(c)'
  <2>1. CASE LeaveAlone
    <3>1. RecordersOf(c)' = RecordersOf(c) /\ LiveRecorders(c)' = LiveRecorders(c)
          /\ retry' = retry
      BY <2>1 DEF LeaveAlone, RecordersOf, LiveRecorders
    <3>2. CASE Wanted(c)
      <4>1. live => RecordersOf(c) # {}
        BY <1>c, <1>1 DEF PassInv, AnsweredIsPresent
      <4>2. ~MayAttempt(retry[c]) => retry[c].attempts > 0
        BY <1>0 DEF TrackersCoherent, Coherent, MayAttempt, RetryTracker
      <4> QED
        BY <1>c, <1>3, <2>1, <3>1, <3>2, <4>1, <4>2 DEF LeaveAlone, Settled
    <3>3. CASE ~Wanted(c)
      <4>1. RecordersOf(c) = {}
        BY <1>c, <1>1, <1>2, <2>1, <3>3 DEF LeaveAlone, UnansweredIsAbsent
      <4> QED
        BY <1>2, <1>3, <3>1, <3>3, <4>1, LiveIsAll DEF Settled
    <3> QED
      BY <3>2, <3>3
  <2>2. CASE SpawnRecorder \/ SpawnFails
    <3>1. Wanted(c) /\ retry' = [retry EXCEPT ![c] = Attempted(@)]
      BY <1>c, <2>2 DEF SpawnRecorder, SpawnFails, MustStart, CountAttempt
    <3>2. Attempted(retry[c]).attempts > 0
      BY <1>0 DEF Attempted, RetryTracker
    <3> QED
      BY <1>0, <1>3, <3>1, <3>2 DEF Settled
  <2>3. CASE StopRecorder
    <3>1. ~Wanted(c)
      BY <1>c, <2>3 DEF StopRecorder
    <3>2. PICK dead \in SUBSET LiveRecorders(c) :
             /\ dead # {} \/ LiveRecorders(c) = {}
             /\ procs' = [p \in Pids |-> IF p \in dead THEN Free ELSE procs[p]]
      BY <1>c, <2>3 DEF StopRecorder, Stopped, Obedient
    <3>3. \A p, q \in LiveRecorders(c) : p = q
      BY <1>2 DEF AtMostOne, LiveRecorders, RecordersOf
    <3>4. dead = LiveRecorders(c)
      BY <3>2, <3>3
    <3>5. \A p \in Pids : procs'[p] # Free =>
             procs'[p] = procs[p] /\ p \notin LiveRecorders(c)
      BY <3>2, <3>4
    <3>6. \A p \in Pids : ~(/\ procs'[p] # Free /\ procs'[p].service = c
                             /\ procs'[p].phase = "live")
      BY <3>5 DEF LiveRecorders, RecordersOf
    <3>7. LiveRecorders(c)' = {}
      BY <1>c, <3>6 DEF LiveRecorders, RecordersOf
    <3> QED
      BY <1>3, <3>1, <3>7 DEF Settled
  <2> QED
    BY <2>1, <2>2, <2>3
<1>5. ASSUME NEW s \in Known(mem) \ todo
      PROVE  Settled(s)'
  <2>1. s # c /\ s \in Services /\ Settled(s)
    BY <1>0, <1>1, <1>5 DEF Known, PassInv, PassedIsSettled
  <2>2. retry'[s] = retry[s]
    BY <1>c, <1>0, <2>1
       DEF LeaveAlone, SpawnRecorder, SpawnFails, CountAttempt, StopRecorder
  <2>3. RecordersOf(s)' = RecordersOf(s)
    <3>1. \A p \in Pids : \/ procs'[p] = procs[p]
                           \/ /\ procs[p] = Free \/ procs[p].service = c
                              /\ procs'[p] = Free \/ procs'[p].service = c
      <4>1. CASE LeaveAlone \/ SpawnFails
        BY <4>1 DEF LeaveAlone, SpawnFails
      <4>2. CASE SpawnRecorder
        <5>1. PICK p \in Pids : /\ procs[p] = Free
                                /\ procs' = [procs EXCEPT ![p] = RecorderOf(c)]
          BY <1>c, <4>2 DEF SpawnRecorder
        <5>2. RecorderOf(c).service = c
          BY DEF RecorderOf
        <5> QED
          BY <1>0, <5>1, <5>2
      <4>3. CASE StopRecorder
        BY <1>c, <4>3 DEF StopRecorder, Stopped, LiveRecorders, RecordersOf
      <4> QED
        BY <4>1, <4>2, <4>3
    <3> QED
      BY <2>1, <3>1 DEF RecordersOf
  <2> QED
    BY <1>1, <1>2, <2>1, <2>2, <2>3, StaysSettled
<1>6. PassedIsSettled'
  BY <1>1, <1>4, <1>5 DEF PassedIsSettled, Known
<1> QED
  BY <1>1, <1>6 DEF PassInv, AnsweredIsPresent, StopIsStop, AcceptedIsSettled

(* Beside the daemon nothing happens to obedient recorders.                *)
LEMMA EnvironmentSettles ==
    ASSUME Obedient, TypeInv, SingleInv, SingleInv', PassInv, Environment
    PROVE  PassInv'
<1>0. retry \in [Services -> RetryTracker]
  BY DEF TypeInv, TypeOK
<1>1. /\ UNCHANGED <<pc, cmd, todo, live, mem, procs>>
      /\ \/ retry' = retry
         \/ /\ pc \notin {"probe", "act"}
            /\ \A s \in Services : retry'[s].attempts = retry[s].attempts
  <2>1. CASE \E p \in Pids : RecorderUp(p) \/ RecorderExits(p)
    BY <2>1 DEF RecorderUp, RecorderExits, Obedient, SingleInv, AllLive
  <2>2. CASE \E s \in Services : RetryTimeComes(s) \/ WindowEnds(s)
    <3>1. PICK s \in Services : RetryTimeComes(s) \/ WindowEnds(s)
      BY <2>2
    <3>2. \/ retry' = [retry EXCEPT ![s] = RetryArrives(@)]
          \/ retry' = [retry EXCEPT ![s] = WindowRunsOut(@)]
      BY <3>1 DEF RetryTimeComes, WindowEnds
    <3>3. \A t \in RetryTracker : /\ RetryArrives(t).attempts = t.attempts
                                  /\ WindowRunsOut(t).attempts = t.attempts
      BY DEF RetryArrives, WindowRunsOut, RetryTracker
    <3>4. \A t \in Services : retry'[t].attempts = retry[t].attempts
      BY <1>0, <3>2, <3>3
    <3> QED
      BY <3>1, <3>4 DEF RetryTimeComes, WindowEnds, BetweenPasses
  <2> QED
    BY <2>1, <2>2 DEF Environment
<1>2. \A s \in Services : Settled(s) => Settled(s)'
  BY <1>1, StaysSettled DEF SingleInv, RecordersOf
<1>3. Current' = Current /\ RecordersOf(Current)' = RecordersOf(Current)
      /\ Known(mem)' = Known(mem)
  BY <1>1 DEF Current, RecordersOf, Known
<1>4. Known(mem) \subseteq Services
  BY DEF Known
<1> QED
  BY <1>1, <1>2, <1>3, <1>4
     DEF PassInv, PassedIsSettled, AnsweredIsPresent, StopIsStop, AcceptedIsSettled

LEMMA PassStep ==
    ASSUME Obedient, TypeInv, TrackersCoherent, SingleInv, PassInv, [Next]_vars
    PROVE  PassInv'
<1> USE DEF PassInv
<1>0. SingleInv'
  BY SingleStep DEF Obedient
<1>1. CASE Request
  <2> DEFINE Begun == \/ pc' = "refused"
                      \/ pc' = "probe" /\ todo' = Known(mem')
                      \/ pc' = "accepted" /\ cmd'.op \in {"query", "shutdown"}
                      \/ pc' = "stop" /\ cmd'.op = "stop"
  <2>1. ASSUME NEW op, NEW s, NEW spec, NEW resets, Commit(op, s, spec, resets)
        PROVE  Begun
    BY <2>1 DEF Commit, BeginPass, Known
  <2>2. Begun
    <3>1. CASE \E s \in Services : \/ \E c \in Configs : Enable(s, c)
                                  \/ Disable(s) \/ Pause(s) \/ Resume(s)
                                  \/ Start(s)
      BY <2>1, <3>1 DEF Enable, Disable, Pause, Resume, Start
    <3>2. CASE \/ \E s \in Services :
                     \/ StopRequest(s)
                     \/ \E op \in {"enable", "pause", "resume", "start"} :
                           Reject(op, s)
               \/ Refuse \/ Query \/ Shutdown
      BY <3>2 DEF StopRequest, Reject, Refuse, Query, Shutdown, Served, Unscoped
    <3>3. CASE Reconcile
      BY <3>3 DEF Reconcile, BeginPass, Known
    <3> QED
      BY <1>1, <3>1, <3>2, <3>3 DEF Request
  <2> QED
    BY <2>2 DEF PassedIsSettled, AnsweredIsPresent, StopIsStop, AcceptedIsSettled
<1>2. CASE Restart \/ Crash \/ Periodic \/ Serve
  BY <1>2
     DEF Restart, Crash, GoDown, Periodic, BeginPass, Serve, Reply, StopNow, LeaveLoop,
         NoCommand, Known, PassedIsSettled, AnsweredIsPresent, StopIsStop,
         AcceptedIsSettled
<1>3. CASE Probe
  <2>1. PICK answer \in BOOLEAN :
           /\ Probed(Current, answer) /\ live' = answer
           /\ retry' = [retry EXCEPT ![Current] = Observe(@, answer)]
    BY <1>3 DEF Probe
  <2>2. /\ pc = "probe" /\ pc' = "act" /\ todo' = todo /\ mem' = mem
        /\ procs' = procs /\ Current \in todo /\ todo \subseteq Services
    BY <1>3, CurrentInTodo DEF Probe, TypeInv, TypeOK
  <2>3. live' => RecordersOf(Current) # {}
    BY <2>1 DEF Probed, LiveRecorders
  <2>4. Current' = Current /\ RecordersOf(Current)' = RecordersOf(Current)
    BY <2>2 DEF Current, RecordersOf
  <2>5. ASSUME NEW s \in Known(mem) \ todo
        PROVE  Settled(s)'
    <3>1. s # Current /\ s \in Services /\ Settled(s)
      BY <2>2, <2>5 DEF Known, PassedIsSettled
    <3>2. retry'[s] = retry[s] /\ RecordersOf(s)' = RecordersOf(s)
      BY <2>1, <2>2, <3>1 DEF RecordersOf, TypeInv, TypeOK
    <3> QED
      BY <1>0, <2>2, <3>1, <3>2, StaysSettled DEF SingleInv
  <2> QED
    BY <2>2, <2>3, <2>4, <2>5
       DEF Known, PassedIsSettled, AnsweredIsPresent, StopIsStop, AcceptedIsSettled
<1>4. CASE LeaveAlone \/ SpawnRecorder \/ SpawnFails \/ StopRecorder
  BY <1>0, <1>4, DecisionSettles
<1>5. CASE PassAborts \/ DaemonAborts
  BY <1>5 DEF PassAborts, DaemonAborts, PassedIsSettled, AnsweredIsPresent, StopIsStop,
              AcceptedIsSettled
<1>6. CASE PassDone
  <2>1. CASE GoDown
    BY <2>1 DEF GoDown, PassedIsSettled, AnsweredIsPresent, StopIsStop,
                AcceptedIsSettled
  <2>2. CASE ~GoDown
    <3>1. /\ pc' \in {"drain", "accepted"}
          /\ UNCHANGED <<mem, retry, procs>>
          /\ \A s \in Known(mem) : Settled(s)
      BY <1>6, <2>2 DEF PassDone, PassedIsSettled
    <3>2. Known(mem)' = Known(mem) /\ \A s \in Known(mem) : Settled(s)' <=> Settled(s)
      BY <3>1 DEF Known, Settled, Wanted, RecordersOf, LiveRecorders
    <3> QED
      BY <3>1, <3>2 DEF PassedIsSettled, AnsweredIsPresent, StopIsStop,
                        AcceptedIsSettled
  <2> QED
    BY <2>1, <2>2
<1>7. CASE Environment
  BY <1>0, <1>7, EnvironmentSettles
<1>8. CASE UNCHANGED vars
  <2>1. UNCHANGED <<pc, cmd, todo, live, mem, retry, procs>>
    BY <1>8 DEF vars
  <2>2. Current' = Current /\ Known(mem)' = Known(mem)
        /\ \A s : RecordersOf(s)' = RecordersOf(s) /\ (Settled(s)' <=> Settled(s))
    BY <2>1 DEF Current, Known, Settled, Wanted, RecordersOf, LiveRecorders
  <2> QED
    BY <2>1, <2>2 DEF PassedIsSettled, AnsweredIsPresent, StopIsStop, AcceptedIsSettled
<1> QED
  BY <1>1, <1>2, <1>3, <1>4, <1>5, <1>6, <1>7, <1>8 DEF Next, Pass

(* If the recorders obey, a command is accepted only once every configured *)
(* service, not only its own, has been reconciled (DF-006), whatever       *)
(* saves, probes, spawns and crashes fail or happen on the way.            *)
THEOREM AcceptedHasReconciled ==
    ASSUME Obedient
    PROVE  Spec => []AcceptedIsSettled
<1> DEFINE Inv == TypeInv /\ TrackersCoherent /\ SingleInv /\ PassInv
<1>1. Init => Inv
  <2>1. Init => TrackersCoherent
    BY NewTrackerType DEF Init, FreshRetry, TrackersCoherent
  <2>2. Init => SingleInv
    BY DEF Init, SingleInv, AllLive, UnansweredIsAbsent, AtMostOne
  <2>3. Init => PassInv
    BY DEF Init, PassInv, PassedIsSettled, AnsweredIsPresent, StopIsStop,
           AcceptedIsSettled
  <2> QED
    BY <2>1, <2>2, <2>3, TypeInit
<1>2. Inv /\ [Next]_vars => Inv'
  BY TypeStep, TrackersStep, SingleStep, PassStep DEF Obedient
<1>3. Inv => AcceptedIsSettled
  BY DEF PassInv
<1> QED
  BY <1>1, <1>2, <1>3, PTL DEF Spec

=============================================================================
