-------------------------- MODULE RefinementProofs --------------------------
(***************************************************************************)
(* Proofs, for every value of the constants, that the daemon implements    *)
(* the specifications that abstract from it: Lifecycle, of what commands,  *)
(* answers and recorders amount to, and RetryFlags, of each of its         *)
(* trackers.                                                               *)
(***************************************************************************)
EXTENDS DaemonProofs

USE ConstantsAssumption, SentinelsAssumption, WorkerAssumption, AttemptsMaxAssumption

-----------------------------------------------------------------------------
(* The request being served.                                               *)

OneTarget == cmd.target = {} \/ \E s \in Services : cmd.target = {s}

(* A command that is served has withdrawn what clients were told of its    *)
(* service, unless it is refused.                                          *)
ServedIsOpen ==
    pc # "refused" /\ cmd.op # "stop" => \A s \in cmd.target : promise[s] = Open

StopIsAsked == pc = "stop" => cmd.op = "stop"

IdleServesNone == pc \in {"down", "drain"} => cmd = NoCommand

RequestInv == OneTarget /\ ServedIsOpen /\ StopIsAsked /\ IdleServesNone

(* The requests that change no spec, and those that stop nothing either.   *)
QuietRequest ==
    \/ \E s \in Services, op \in {"enable", "pause", "resume", "start"} : Reject(op, s)
    \/ Refuse \/ Query \/ Reconcile \/ Shutdown

PlainRequest == QuietRequest \/ \E s \in Services : StopRequest(s)

LEMMA RequestInit == Init => RequestInv
BY DEF Init, RequestInv, OneTarget, ServedIsOpen, StopIsAsked, IdleServesNone, NoCommand

LEMMA CommitRequest ==
    ASSUME TypeInv, NEW op, NEW s \in Services, NEW spec, NEW resets,
           Commit(op, s, spec, resets)
    PROVE  RequestInv'
<1>1. cmd' = Served(op, s) /\ pc' \in {"probe", "refused"}
  BY DEF Commit, BeginPass
<1>2. promise'[s] = Open
  BY DEF Commit, TypeInv, TypeOK
<1> QED
  BY <1>1, <1>2 DEF RequestInv, OneTarget, ServedIsOpen, StopIsAsked, IdleServesNone,
                    Served

LEMMA RequestStep ==
    ASSUME TypeInv, RequestInv, [Next]_vars
    PROVE  RequestInv'
<1> USE DEF RequestInv, OneTarget, ServedIsOpen, StopIsAsked, IdleServesNone
<1>1. CASE \E s \in Services :
              \/ \E c \in Configs : Enable(s, c)
              \/ Disable(s) \/ Pause(s) \/ Resume(s) \/ Start(s)
  <2>1. PICK s \in Services : \/ \E c \in Configs : Enable(s, c)
                              \/ Disable(s) \/ Pause(s) \/ Resume(s) \/ Start(s)
    BY <1>1
  <2>2. \E op, spec, resets : Commit(op, s, spec, resets)
    BY <2>1 DEF Enable, Disable, Pause, Resume, Start
  <2> QED
    BY <2>2, CommitRequest
<1>2. CASE PlainRequest
  <2>1. CASE \E s \in Services : StopRequest(s)
    BY <2>1 DEF StopRequest, Served
  <2>2. CASE \E s \in Services : \E op \in {"enable", "pause", "resume", "start"} :
                Reject(op, s)
    <3>1. PICK s \in Services, op \in {"enable", "pause", "resume", "start"} :
                 Reject(op, s)
      BY <2>2
    <3>2. pc' = "refused" /\ cmd'.target = {s}
      BY <3>1 DEF Reject, Served
    <3> QED
      BY <3>2
  <2>3. CASE Refuse \/ Query \/ Reconcile \/ Shutdown
    <3>1. cmd'.target = {} /\ pc' \notin {"stop", "down", "drain"}
      BY <2>3 DEF Refuse, Query, Reconcile, Shutdown, BeginPass, Unscoped
    <3> QED
      BY <3>1
  <2> QED
    BY <1>2, <2>1, <2>2, <2>3 DEF PlainRequest, QuietRequest
<1>3. CASE Restart \/ Crash \/ LeaveLoop \/ Periodic
  BY <1>3 DEF Restart, Crash, LeaveLoop, Periodic, GoDown, BeginPass, NoCommand
<1>4. CASE Reply \/ StopNow
  BY <1>4 DEF Reply, StopNow, NoCommand
<1>5. CASE Probe \/ LeaveAlone \/ SpawnRecorder \/ SpawnFails \/ StopRecorder
  BY <1>5 DEF Probe, LeaveAlone, SpawnRecorder, SpawnFails, StopRecorder, MustStart,
              NextService
<1>6. CASE PassAborts \/ DaemonAborts \/ PassDone
  BY <1>6 DEF PassAborts, DaemonAborts, PassDone, ToolFails, GoDown, NoCommand
<1>7. CASE Environment \/ UNCHANGED vars
  BY <1>7 DEF Environment, RecorderUp, RecorderExits, RetryTimeComes, WindowEnds,
              daemonVars, vars
<1> QED
  BY <1>1, <1>2, <1>3, <1>4, <1>5, <1>6, <1>7
     DEF Next, Request, Serve, Pass, PlainRequest, QuietRequest

-----------------------------------------------------------------------------
(* The daemon as Lifecycle sees it.                                        *)

intent == IF pc = "down" THEN disk ELSE mem
stopping == IF cmd.op = "stop" THEN cmd.target ELSE {}
workers == [p \in Pids |-> WorkerAt(p)]

Still == UNCHANGED <<intent, disk, promise, stopping, workers>>

LEMMA WorkersUnchanged == UNCHANGED procs => UNCHANGED workers
BY DEF workers, WorkerAt

(* A stop, of whichever recorders, ends workers of the service.            *)
LEMMA StopEnds ==
    ASSUME TypeInv, NEW s \in Services, Life!MayEnd(s), Stopped(s)
    PROVE  Life!End(s)
<1>1. procs \in [Pids -> Recorder \cup {Free}]
  BY DEF TypeInv, TypeOK
<1>2. PICK dead \in SUBSET LiveRecorders(s) :
             procs' = [p \in Pids |-> IF p \in dead THEN Free ELSE procs[p]]
  <2>1. CASE procs' = procs
    <3>1. procs' = [p \in Pids |-> IF p \in {} THEN Free ELSE procs[p]]
      BY <1>1, <2>1
    <3>2. {} \in SUBSET LiveRecorders(s)
      OBVIOUS
    <3> QED
      BY <3>1, <3>2, Zenon
  <2> QED
    BY <2>1 DEF Stopped
<1>3. workers' = [p \in Pids |-> IF p \in dead THEN Free ELSE workers[p]]
  BY <1>2 DEF workers, WorkerAt
<1>4. dead \in SUBSET {p \in Pids : workers[p] # Free /\ workers[p].service = s}
  <2>1. \A p \in dead : procs[p] \in Recorder /\ procs[p].service = s
    BY <1>1 DEF LiveRecorders, RecordersOf
  <2>2. \A p \in dead : WorkerAt(p) \in Worker /\ WorkerAt(p).service = s
    BY <2>1 DEF WorkerAt, Recorder, Worker
  <2> QED
    BY <2>2 DEF LiveRecorders, RecordersOf, workers
<1> QED
  BY <1>3, <1>4 DEF Life!End, Life!WorkersOf, workers

(* The steps of Lifecycle in terms of what the daemon holds.               *)
LEMMA BecomesStep ==
    ASSUME TypeInv, RequestInv, NEW op, op # "stop", NEW s \in Services,
           NEW spec \in ServiceSpec \cup {NoSpec}, NEW resets,
           Commit(op, s, spec, resets)
    PROVE  pc # "down" /\ intent[s] = mem[s] /\ Life!Becomes(s, spec)
<1>1. /\ pc = "drain" /\ pc' \in {"probe", "refused"}
      /\ mem' = [mem EXCEPT ![s] = spec]
      /\ promise' = [promise EXCEPT ![s] = Open]
      /\ disk' = mem' \/ ("save" \in Faults /\ disk' = disk)
      /\ UNCHANGED procs
  BY DEF Commit, BeginPass, SaveSucceeds, SaveFails
<1>2. intent = mem /\ intent' = mem'
  BY <1>1 DEF intent
<1>3. stopping' = stopping
  BY <1>1 DEF Commit, RequestInv, IdleServesNone, NoCommand, Served, stopping
<1> QED
  BY <1>1, <1>2, <1>3, WorkersUnchanged DEF Life!Becomes, intent, stopping, workers

(* What a handler makes of a spec is what Lifecycle lets a command do.     *)
LEMMA HandlersFollow ==
    ASSUME TypeInv, NEW s \in Services
    PROVE  /\ \A c \in ValidConfigs :
                 /\ EnabledSpec(s, c) \in Life!Specs
                 /\ \/ Life!Introduces(mem[s], EnabledSpec(s, c))
                    \/ Life!Toggles(mem[s], EnabledSpec(s, c))
                    \/ Life!Reconfigures(mem[s], EnabledSpec(s, c))
           /\ mem[s] # NoSpec =>
                 \A spec \in {DisabledSpec(s), [mem[s] EXCEPT !.paused = TRUE],
                              [mem[s] EXCEPT !.paused = FALSE],
                              [mem[s] EXCEPT !.enabled = TRUE, !.paused = FALSE]} :
                    spec \in Life!Specs /\ Life!Toggles(mem[s], spec)
<1>1. mem \in DesiredState /\ Valid(mem[s])
  BY DEF TypeInv, TypeOK, Valid
<1>2. \A spec \in ServiceSpec : spec # NoSpec /\ (Valid(spec) => spec \in Life!Specs)
  BY DEF ServiceSpec, Valid, Life!Specs
<1>3. ASSUME NEW c \in ValidConfigs
      PROVE  /\ EnabledSpec(s, c) \in Life!Specs
             /\ \/ Life!Introduces(mem[s], EnabledSpec(s, c))
                \/ Life!Toggles(mem[s], EnabledSpec(s, c))
                \/ Life!Reconfigures(mem[s], EnabledSpec(s, c))
  <2>1. EnabledSpec(s, c) \in Life!Specs /\ EnabledSpec(s, c) # NoSpec
    BY <1>1, <1>2, SpecTypes
  <2>2. Life!Active(EnabledSpec(s, c)) /\ EnabledSpec(s, c).config = c
    BY <2>1 DEF Life!Active, EnabledSpec
  <2>3. CASE mem[s] = NoSpec
    BY <2>1, <2>2, <2>3 DEF Life!Introduces, EnabledSpec
  <2>4. CASE mem[s] # NoSpec /\ mem[s].config = c
    BY <2>1, <2>2, <2>4 DEF Life!Toggles, EnabledSpec
  <2>5. CASE mem[s] # NoSpec /\ mem[s].config # c
    BY <2>1, <2>2, <2>5 DEF Life!Reconfigures, EnabledSpec, NextGeneration
  <2> QED
    BY <2>1, <2>3, <2>4, <2>5
<1>4. ASSUME mem[s] # NoSpec,
             NEW spec \in {DisabledSpec(s), [mem[s] EXCEPT !.paused = TRUE],
                           [mem[s] EXCEPT !.paused = FALSE],
                           [mem[s] EXCEPT !.enabled = TRUE, !.paused = FALSE]}
      PROVE  spec \in Life!Specs /\ Life!Toggles(mem[s], spec)
  <2>1. mem[s] \in ServiceSpec
    BY <1>1, <1>4 DEF DesiredState
  <2>2. /\ spec \in ServiceSpec /\ Valid(spec)
        /\ spec.config = mem[s].config /\ spec.generation = mem[s].generation
        /\ spec.enabled => mem[s].enabled \/ ~spec.paused
    BY <1>1, <1>4, <2>1 DEF DisabledSpec, ServiceSpec, Valid
  <2> QED
    BY <1>2, <1>4, <2>2 DEF Life!Toggles, Life!Active
<1> QED
  BY <1>3, <1>4

LEMMA CommandRefines ==
    ASSUME TypeInv, RequestInv, NEW s \in Services,
           \/ \E c \in Configs : Enable(s, c)
           \/ Disable(s) \/ Pause(s) \/ Resume(s) \/ Start(s)
    PROVE  Life!Command(s)
<1>1. mem[s] \in ServiceSpec \cup {NoSpec}
  BY DEF TypeInv, TypeOK, DesiredState
<1>2. \A spec \in Life!Specs : spec \in ServiceSpec
  BY DEF Life!Specs, ServiceSpec
<1>3. ASSUME NEW op, op # "stop", NEW spec \in Life!Specs, NEW resets,
             Commit(op, s, spec, resets),
             \/ Life!Introduces(mem[s], spec) \/ Life!Toggles(mem[s], spec)
             \/ Life!Reconfigures(mem[s], spec)
      PROVE  Life!Command(s)
  BY <1>2, <1>3, BecomesStep DEF Life!Command, intent
<1>4. CASE \E c \in Configs : Enable(s, c)
  <2>1. PICK c \in ValidConfigs : Commit("enable", s, EnabledSpec(s, c), TRUE)
    BY <1>4 DEF Enable
  <2> QED
    BY <1>3, <2>1, HandlersFollow
<1>5. CASE Disable(s)
  <2>1. CASE mem[s] = NoSpec
    BY <1>5, <2>1, BecomesStep DEF Disable, DisabledSpec, Life!Command, intent
  <2>2. CASE mem[s] # NoSpec
    BY <1>3, <1>5, <2>2, HandlersFollow DEF Disable
  <2> QED
    BY <2>1, <2>2
<1>6. CASE Pause(s)
  BY <1>3, <1>6, HandlersFollow DEF Pause
<1>7. CASE Resume(s)
  BY <1>3, <1>7, HandlersFollow DEF Resume
<1>8. CASE Start(s)
  BY <1>3, <1>8, HandlersFollow DEF Start
<1> QED
  BY <1>4, <1>5, <1>6, <1>7, <1>8

LEMMA ReplyRefines ==
    ASSUME TypeInv, StoreInv, RequestInv, Reply
    PROVE  Still \/ Life!AnswerStop \/ \E s \in Services : Life!Acknowledge(s)
<1>1. /\ pc \in {"accepted", "refused"} /\ pc' = "drain"
      /\ intent = mem /\ intent' = mem' /\ UNCHANGED <<mem, disk, workers>>
  BY WorkersUnchanged DEF Reply, intent
<1>2. stopping' = {} /\ (cmd.op # "stop" => stopping = {})
  BY DEF Reply, NoCommand, stopping
<1>3. CASE pc = "accepted" /\ cmd.op # "stop" /\ cmd.target # {}
  <2>1. PICK s \in Services : cmd.target = {s}
    BY <1>3 DEF RequestInv, OneTarget
  <2>2. promise[s] = Open /\ disk[s] = mem[s]
    BY <1>3, <2>1 DEF RequestInv, ServedIsOpen, StoreInv, CommittedIsSaved
  <2>3. promise' = [promise EXCEPT ![s] = mem[s]]
    BY <1>3, <2>1 DEF Reply, TypeInv, TypeOK
  <2> QED
    BY <1>1, <1>2, <1>3, <2>2, <2>3 DEF Life!Acknowledge, intent, stopping, workers
<1>4. CASE ~(pc = "accepted" /\ cmd.op # "stop" /\ cmd.target # {})
  <2>1. promise' = promise
    BY <1>4 DEF Reply, TypeInv, TypeOK
  <2> QED
    BY <1>1, <1>2, <2>1 DEF Still, Life!AnswerStop, intent, stopping, workers
<1> QED
  BY <1>3, <1>4

(* The end of the daemon: what memory held is forgotten.                   *)
LEMMA GoDownRefines ==
    ASSUME pc' = "down", cmd' = NoCommand, UNCHANGED <<disk, promise>>,
           UNCHANGED procs \/ \E s \in Services : Life!End(s)
    PROVE  Life!FallBack
<1>1. intent' = disk /\ stopping' = {}
  BY DEF intent, stopping, NoCommand
<1> QED
  BY <1>1, WorkersUnchanged DEF Life!FallBack, Life!End, Life!MayEnd, Life!WorkersOf,
                                intent, stopping, workers

LEMMA SpawnRefines ==
    ASSUME TypeInv, SpawnRecorder
    PROVE  \E s \in Services : Life!StartWorker(s)
<1>1. /\ pc = "act" /\ pc' = "probe" /\ Wanted(Current)
      /\ UNCHANGED <<cmd, mem, disk, promise>>
  BY DEF SpawnRecorder, MustStart, NextService
<1>2. Current \in Services
  BY <1>1, CurrentInTodo DEF TypeInv, TypeOK, ActHasService
<1>3. intent = mem /\ intent' = intent
  BY <1>1 DEF intent
<1>4. PICK p \in Pids : procs[p] = Free /\ procs' = [procs EXCEPT ![p] = RecorderOf(Current)]
  BY DEF SpawnRecorder
<1>5. mem[Current] \in ServiceSpec
  BY <1>1, <1>2 DEF Wanted, TypeInv, TypeOK, DesiredState
<1>6. RecorderOf(Current) \in Recorder
  BY <1>2, <1>5 DEF RecorderOf, Recorder, ServiceSpec
<1> DEFINE worker == [service |-> Current, config |-> mem[Current].config,
                      generation |-> mem[Current].generation]
<1>7. /\ workers[p] = Free
      /\ workers' = [workers EXCEPT ![p] = worker]
  <2>1. procs \in [Pids -> Recorder \cup {Free}]
    BY DEF TypeInv, TypeOK
  <2>2. WorkerAt(p) = Free
    BY <1>4 DEF WorkerAt
  <2>3. WorkerAt(p)' = worker
    BY <1>4, <1>6, <2>1 DEF WorkerAt, RecorderOf
  <2>4. \A q \in Pids \ {p} : WorkerAt(q)' = WorkerAt(q)
    BY <1>4, <2>1 DEF WorkerAt
  <2> HIDE DEF worker
  <2> QED
    BY <2>2, <2>3, <2>4 DEF workers
<1>8. Life!Active(mem[Current])
  BY <1>1 DEF Wanted, Life!Active
<1> QED
  BY <1>1, <1>2, <1>3, <1>7, <1>8 DEF Life!StartWorker, intent, stopping, workers

(* The steps that end recorders.                                           *)
LEMMA StopsRefine ==
    ASSUME TypeInv, RequestInv,
           StopRecorder \/ StopNow \/ PassAborts \/ DaemonAborts
    PROVE  \/ Still
           \/ Life!FallBack
           \/ \E s \in Services : Life!EndWorkers(s)
<1>1. ASSUME pc # "down", pc' # "down", UNCHANGED <<cmd, mem, disk, promise>>
      PROVE  UNCHANGED <<intent, disk, promise, stopping>>
  BY <1>1 DEF intent, stopping
<1>2. ASSUME UNCHANGED <<intent, disk, promise, stopping>>,
             UNCHANGED procs \/ \E s \in Services : Life!End(s)
      PROVE  Still \/ \E s \in Services : Life!EndWorkers(s)
  BY <1>2, WorkersUnchanged
     DEF Still, Life!EndWorkers, Life!End, Life!MayEnd, Life!WorkersOf, intent, stopping,
         workers
<1>3. ASSUME pc = "act", ~Wanted(Current), Stopped(Current)
      PROVE  \E s \in Services : Life!End(s)
  <2>1. Current \in Services
    BY <1>3, CurrentInTodo DEF TypeInv, TypeOK, ActHasService
  <2>2. Life!MayEnd(Current)
    BY <1>3 DEF Wanted, Life!MayEnd, Life!Active
  <2> QED
    BY <1>3, <2>1, <2>2, StopEnds
<1>4. ASSUME ToolFails
      PROVE  UNCHANGED procs \/ \E s \in Services : Life!End(s)
  BY <1>3, <1>4 DEF ToolFails
<1>5. CASE StopRecorder
  <2>1. UNCHANGED procs \/ \E s \in Services : Life!End(s)
    BY <1>3, <1>5 DEF StopRecorder
  <2>2. UNCHANGED <<intent, disk, promise, stopping>>
    BY <1>1, <1>5 DEF StopRecorder, NextService
  <2> QED
    BY <1>2, <2>1, <2>2
<1>6. CASE StopNow
  <2>1. ASSUME NEW s \in cmd.target, Stopped(s)
        PROVE  \E t \in Services : Life!End(t)
    <3>1. s \in Services
      BY <2>1 DEF RequestInv, OneTarget
    <3>2. Life!MayEnd(s)
      BY <1>6, <2>1 DEF StopNow, RequestInv, StopIsAsked, Life!MayEnd
    <3> QED
      BY <2>1, <3>1, <3>2, StopEnds
  <2>2. UNCHANGED procs \/ \E s \in Services : Life!End(s)
    BY <1>6, <2>1 DEF StopNow
  <2>3. UNCHANGED <<intent, disk, promise, stopping>>
    BY <1>1, <1>6 DEF StopNow
  <2> QED
    BY <1>2, <2>2, <2>3
<1>7. CASE PassAborts
  <2>1. UNCHANGED <<intent, disk, promise, stopping>>
    BY <1>1, <1>7 DEF PassAborts, ToolFails
  <2> QED
    BY <1>2, <1>4, <1>7, <2>1 DEF PassAborts
<1>8. CASE DaemonAborts
  BY <1>4, <1>8, GoDownRefines DEF DaemonAborts
<1> QED
  BY <1>5, <1>6, <1>7, <1>8

LEMMA ExitRefines ==
    ASSUME TypeInv, NEW p \in Pids, RecorderExits(p)
    PROVE  \E s \in Services : Life!EndWorkers(s)
<1>1. /\ procs[p] # Free /\ procs' = [procs EXCEPT ![p] = Free]
      /\ UNCHANGED <<pc, cmd, mem, disk, promise>> /\ "exit" \in Faults
  BY DEF RecorderExits, daemonVars
<1>2. procs[p] \in Recorder
  BY <1>1 DEF TypeInv, TypeOK
<1> DEFINE s == procs[p].service
<1>3. s \in Services /\ Life!MayEnd(s)
  BY <1>1, <1>2 DEF Recorder, Life!MayEnd
<1>4. workers' = [q \in Pids |-> IF q \in {p} THEN Free ELSE workers[q]]
  BY <1>1 DEF workers, WorkerAt, TypeInv, TypeOK
<1>5. {p} \in SUBSET Life!WorkersOf(s)
  <2>1. WorkerAt(p) \in Worker /\ WorkerAt(p).service = s
    BY <1>1, <1>2 DEF WorkerAt, Recorder, Worker
  <2> QED
    BY <2>1 DEF Life!WorkersOf
<1>6. Life!End(s)
  BY <1>3, <1>4, <1>5 DEF Life!End, workers
<1>7. UNCHANGED <<intent, disk, promise, stopping>>
  BY <1>1 DEF intent, stopping
<1> QED
  BY <1>3, <1>6, <1>7 DEF Life!EndWorkers, intent, stopping

(* A client asks to stop a service.                                        *)
LEMMA AskRefines ==
    ASSUME RequestInv, NEW s \in Services, StopRequest(s)
    PROVE  Life!AskStop(s)
<1>1. stopping = {} /\ stopping' = {s}
  BY DEF StopRequest, RequestInv, IdleServesNone, NoCommand, Served, stopping
<1>2. UNCHANGED <<intent, disk, promise, workers>>
  BY WorkersUnchanged DEF StopRequest, intent
<1> QED
  BY <1>1, <1>2 DEF Life!AskStop, StopRequest, intent, stopping, workers

(* Everything else leaves what Lifecycle sees alone.                       *)
LEMMA OthersStayStill ==
    ASSUME FileIsRead, TypeInv, RequestInv,
           \/ Restart \/ Periodic \/ QuietRequest \/ Probe \/ LeaveAlone \/ SpawnFails
           \/ \E p \in Pids : RecorderUp(p)
           \/ \E s \in Services : RetryTimeComes(s) \/ WindowEnds(s)
           \/ UNCHANGED vars
    PROVE  Still
<1>1. ASSUME UNCHANGED <<mem, disk, promise, procs>>, UNCHANGED stopping,
             pc' = pc \/ (pc # "down" /\ pc' # "down")
      PROVE  Still
  BY <1>1, WorkersUnchanged DEF Still, intent
<1>2. CASE Restart
  BY <1>2, WorkersUnchanged DEF FileIsRead, Restart, Still, intent, stopping
<1>3. CASE Periodic \/ QuietRequest
  <2>1. UNCHANGED stopping
    BY <1>3 DEF Periodic, QuietRequest, Reject, Refuse, Query, Reconcile, Shutdown,
                BeginPass, RequestInv, IdleServesNone, NoCommand, Served, Unscoped,
                stopping
  <2> QED
    BY <1>1, <1>3, <2>1 DEF Periodic, QuietRequest, Reject, Refuse, Query, Reconcile,
                            Shutdown, BeginPass
<1>4. CASE Probe \/ LeaveAlone \/ SpawnFails
  BY <1>1, <1>4 DEF Probe, LeaveAlone, SpawnFails, MustStart, NextService, stopping
<1>5. CASE \E p \in Pids : RecorderUp(p)
  <2>1. PICK p \in Pids : RecorderUp(p)
    BY <1>5
  <2>2. procs \in [Pids -> Recorder \cup {Free}]
    BY DEF TypeInv, TypeOK
  <2>3. procs[p] \in Recorder
    BY <2>1, <2>2 DEF RecorderUp
  <2>4. procs' = [procs EXCEPT ![p].phase = "live"] /\ procs'[p] \in Recorder
    BY <2>1, <2>2, <2>3 DEF RecorderUp, Recorder
  <2>5. WorkerAt(p)' = WorkerAt(p)
    BY <2>2, <2>3, <2>4 DEF WorkerAt, Recorder
  <2>6. \A q \in Pids \ {p} : WorkerAt(q)' = WorkerAt(q)
    BY <2>2, <2>4 DEF WorkerAt
  <2>7. workers' = workers
    BY <2>5, <2>6 DEF workers
  <2> QED
    BY <2>1, <2>7 DEF RecorderUp, daemonVars, Still, intent, stopping
<1>6. CASE \E s \in Services : RetryTimeComes(s) \/ WindowEnds(s)
  BY <1>1, <1>6 DEF RetryTimeComes, WindowEnds, stopping
<1>7. CASE UNCHANGED vars
  BY <1>1, <1>7 DEF vars, stopping
<1> QED
  BY <1>2, <1>3, <1>4, <1>5, <1>6, <1>7

LEMMA LifeInit == Init => Life!Init
BY DEF Init, Life!Init, NoServices, NoCommand, WorkerAt

LEMMA LifeStep ==
    ASSUME FileIsRead, TypeInv, StoreInv, RequestInv, [Next]_vars
    PROVE  [Life!Next]_(Life!vars)
<1>1. Still => UNCHANGED Life!vars
  BY DEF Still, intent, stopping, workers, Life!vars
<1>2. CASE \E s \in Services :
              \/ \E c \in Configs : Enable(s, c)
              \/ Disable(s) \/ Pause(s) \/ Resume(s) \/ Start(s)
  BY <1>2, CommandRefines DEF Life!Next
<1>3. CASE Reply
  BY <1>1, <1>3, ReplyRefines DEF Life!Next
<1>4. CASE SpawnRecorder
  BY <1>4, SpawnRefines DEF Life!Next
<1>5. CASE StopRecorder \/ StopNow \/ PassAborts \/ DaemonAborts
  BY <1>1, <1>5, StopsRefine DEF Life!Next
<1>6. CASE Crash \/ LeaveLoop \/ PassDone
  <2>1. GoDown => Life!FallBack
    BY GoDownRefines DEF GoDown
  <2>2. CASE PassDone /\ ~GoDown
    BY <1>1, <2>2, WorkersUnchanged DEF PassDone, Still, intent, stopping
  <2> QED
    BY <1>6, <2>1, <2>2 DEF Crash, LeaveLoop, Life!Next
<1>7. CASE \E p \in Pids : RecorderExits(p)
  BY <1>7, ExitRefines DEF Life!Next
<1>8. CASE \E s \in Services : StopRequest(s)
  BY <1>8, AskRefines DEF Life!Next
<1>9. CASE \/ Restart \/ Periodic \/ QuietRequest \/ Probe \/ LeaveAlone \/ SpawnFails
           \/ \E p \in Pids : RecorderUp(p)
           \/ \E s \in Services : RetryTimeComes(s) \/ WindowEnds(s)
           \/ UNCHANGED vars
  BY <1>1, <1>9, OthersStayStill
<1> QED
  BY <1>2, <1>3, <1>4, <1>5, <1>6, <1>7, <1>8, <1>9
     DEF Next, Request, QuietRequest, Serve, Pass, Environment

(* Through failed saves, aborted passes, kills and restarts the daemon     *)
(* moves services along their life cycle only, acknowledges only what is   *)
(* stored, starts recorders only for services that are wanted, with the    *)
(* configuration and generation intended, and ends those of a wanted       *)
(* service only while it serves a client's stop (ORCH-002, ORCH-003,       *)
(* DF-003), if every start reads the file.                                 *)
THEOREM DaemonRefinesLifecycle ==
    ASSUME FileIsRead
    PROVE  Spec => ImplementsLifecycle
<1>1. Spec => []RequestInv
  BY RequestInit, RequestStep, TypeInit, TypeStep, PTL DEF Spec
<1> QED
  BY <1>1, LifeInit, LifeStep, StoreInvariant, PTL
     DEF Spec, ImplementsLifecycle, Life!Spec

-----------------------------------------------------------------------------
(* Each tracker is one of RetryFlags.                                      *)

LEMMA FlagsOperators ==
    ASSUME NEW s \in Services, NEW t
    PROVE  /\ Flags(s)!NewTracker = NewTracker
           /\ Flags(s)!Observe(t, TRUE) = Observe(t, TRUE)
           /\ Flags(s)!MayAttempt(t) <=> MayAttempt(t)
           /\ Flags(s)!Attempted(t) = Attempted(t)
           /\ Flags(s)!RetryArrives(t) = RetryArrives(t)
           /\ Flags(s)!WindowRunsOut(t) = WindowRunsOut(t)
BY DEF Flags!NewTracker, NewTracker, Flags!Observe, Observe, Flags!MayAttempt, MayAttempt,
       Flags!Attempted, Attempted, Flags!RetryArrives, RetryArrives,
       Flags!WindowRunsOut, WindowRunsOut

(* A tracker changes by one of the operations.                             *)
Operated(t, u) ==
    \/ u = t \/ u = NewTracker \/ u = Observe(t, TRUE)
    \/ MayAttempt(t) /\ u = Attempted(t)
    \/ t.retry = "pending" /\ u = RetryArrives(t)
    \/ t.window = "open" /\ u = WindowRunsOut(t)

LEMMA OperatedIsFlags ==
    ASSUME NEW s \in Services, Operated(retry[s], retry'[s])
    PROVE  [Flags(s)!Next]_(retry[s])
<1>1. CASE retry'[s] = retry[s]
  BY <1>1
<1>2. CASE retry'[s] = NewTracker \/ retry'[s] = Observe(retry[s], TRUE)
  BY <1>2, FlagsOperators DEF Flags!Next, Flags!Reset, Flags!Recover
<1>3. CASE MayAttempt(retry[s]) /\ retry'[s] = Attempted(retry[s])
  BY <1>3, FlagsOperators DEF Flags!Next, Flags!Attempt
<1> DEFINE passed(t) == IF t.retry = "pending" THEN {t, Flags(s)!RetryArrives(t)} ELSE {t}
           spent(t) == IF t.window = "open" THEN {t, Flags(s)!WindowRunsOut(t)} ELSE {t}
<1>4. ASSUME NEW t \in passed(retry[s]), retry'[s] \in spent(t)
      PROVE  [Flags(s)!Next]_(retry[s])
  BY <1>4 DEF Flags!Next, Flags!Elapse
<1>5. CASE retry[s].retry = "pending" /\ retry'[s] = RetryArrives(retry[s])
  BY <1>4, <1>5, FlagsOperators
<1>6. CASE retry[s].window = "open" /\ retry'[s] = WindowRunsOut(retry[s])
  BY <1>4, <1>6, FlagsOperators
<1> QED
  BY <1>1, <1>2, <1>3, <1>5, <1>6 DEF Operated

LEMMA TrackersAreOperated ==
    ASSUME TypeInv, [Next]_vars
    PROVE  \A s \in Services : Operated(retry[s], retry'[s])
<1> DEFINE Result == \A s \in Services : Operated(retry[s], retry'[s])
<1>0. retry \in [Services -> RetryTracker]
  BY DEF TypeInv, TypeOK
<1>1. ASSUME NEW s, NEW u, Operated(retry[s], u), retry' = [retry EXCEPT ![s] = u]
      PROVE  Result
  BY <1>0, <1>1 DEF Operated
<1>2. CASE UNCHANGED retry \/ retry' = FreshRetry
  BY <1>2 DEF FreshRetry, Operated
<1>3. CASE \E s \in Services :
              \/ \E c \in Configs : Enable(s, c)
              \/ Disable(s) \/ Pause(s) \/ Resume(s) \/ Start(s)
  <2>1. PICK s \in Services : \E op, spec, resets : Commit(op, s, spec, resets)
    BY <1>3 DEF Enable, Disable, Pause, Resume, Start
  <2>2. UNCHANGED retry \/ retry' = [retry EXCEPT ![s] = NewTracker]
    BY <2>1 DEF Commit
  <2> QED
    BY <1>1, <1>2, <2>2 DEF Operated
<1>4. CASE Probe
  <2>1. PICK answer \in BOOLEAN :
               retry' = [retry EXCEPT ![Current] = Observe(@, answer)]
    BY <1>4 DEF Probe
  <2>2. Operated(retry[Current], Observe(retry[Current], answer))
    BY DEF Operated, Observe
  <2> QED
    BY <1>1, <2>1, <2>2
<1>5. CASE SpawnRecorder \/ SpawnFails
  <2>1. /\ MayAttempt(retry[Current])
        /\ retry' = [retry EXCEPT ![Current] = Attempted(retry[Current])]
    BY <1>5 DEF SpawnRecorder, SpawnFails, MustStart, CountAttempt
  <2> QED
    BY <1>1, <2>1 DEF Operated
<1>6. CASE \E s \in Services : RetryTimeComes(s) \/ WindowEnds(s)
  BY <1>1, <1>6 DEF RetryTimeComes, WindowEnds, Operated
<1>7. CASE PlainRequest \/ Restart \/ Periodic \/ Crash \/ Serve
  BY <1>2, <1>7
     DEF PlainRequest, QuietRequest, StopRequest, Reject, Refuse, Query, Reconcile, Shutdown, Restart,
         Periodic, Crash, GoDown, Serve, Reply, StopNow, LeaveLoop
<1>8. CASE LeaveAlone \/ StopRecorder \/ PassAborts \/ DaemonAborts \/ PassDone
  BY <1>2, <1>8
     DEF LeaveAlone, StopRecorder, PassAborts, DaemonAborts, PassDone, GoDown
<1>9. CASE (\E p \in Pids : RecorderUp(p) \/ RecorderExits(p)) \/ UNCHANGED vars
  BY <1>2, <1>9 DEF RecorderUp, RecorderExits, daemonVars, vars
<1> QED
  BY <1>3, <1>4, <1>5, <1>6, <1>7, <1>8, <1>9
     DEF Next, Request, PlainRequest, QuietRequest, Pass, Environment

(* Handlers, passes, restarts and time touch the retry state of a service  *)
(* through the operations of RetryFlags only, so that what holds of every  *)
(* behaviour of that module holds of every service of the daemon.          *)
THEOREM DaemonTrackersAreFlags == Spec => TrackersAreFlags
<1>1. Init => \A s \in Services : Flags(s)!Init
  BY FlagsOperators DEF Init, FreshRetry, Flags!Init
<1>2. TypeInv /\ [Next]_vars => [\A s \in Services : [Flags(s)!Next]_(retry[s])]_retry
  BY TrackersAreOperated, OperatedIsFlags
<1> QED
  BY <1>1, <1>2, TypeInit, TypeStep, PTL DEF Spec, TrackersAreFlags
=============================================================================
