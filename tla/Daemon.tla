------------------------------- MODULE Daemon -------------------------------
(***************************************************************************)
(* The daemon of log-archive-orchestrator (daemon.rs): one thread that     *)
(* drains control requests, keeps the desired state in memory and on disk, *)
(* and reconciles it with the recorder processes, periodically and after   *)
(* the commands that change it.  Beside it the recorders start, answer and *)
(* exit on their own, time passes, and the daemon itself may be killed and *)
(* started again.                                                          *)
(*                                                                         *)
(* One action is one call whose outcome the daemon cannot foresee, or one  *)
(* handler up to the first such call: the probe of a service, the decision *)
(* that follows it, a save, a reply.  Recorders run between any two.       *)
(***************************************************************************)
EXTENDS Naturals, FiniteSets, Tracker

CONSTANTS
    Services,       \* service names, as numbers in the order of the BTreeMap
    Configs,        \* what `enable` carries beside the name: paths, profile...
    ValidConfigs,   \* the configurations that ServiceSpec::validate accepts
    NoSpec,         \* a service that the desired state does not know
    Open,           \* see promise
    GenMax,         \* u64::MAX, where the generation saturates
    Pids,           \* recorder processes that may exist at once
    Free,           \* a pid that is not in use
    Commands,       \* the commands that clients send
    Faults          \* what may go wrong, see below

AllCommands == {"enable", "disable", "pause", "resume", "start", "stop",
                "query", "reconcile", "shutdown", "unread"}

(* `unread` is any request that is refused before the state is looked at:  *)
(* of another version of the control API, or with a blank service name.    *)

(* save        a save fails, before or after the rename                    *)
(* tool        iox2-log-control cannot be run or its answer not be parsed  *)
(* probe       a live recorder does not answer its status probe in time    *)
(* stop        iox2-log-control fails to stop a recorder                   *)
(* spawn       a recorder cannot be spawned                                *)
(* slow_start  a recorder answers probes only some time after its spawn    *)
(* exit        a recorder exits by itself                                  *)
(* crash       the daemon is killed, or a transport error ends it          *)
(* stat        a daemon that starts cannot examine the path of its file    *)
AllFaults == {"save", "tool", "probe", "stop", "spawn", "slow_start", "exit",
              "crash", "stat"}

ASSUME ConstantsAssumption ==
    /\ Services \subseteq Nat
    /\ ValidConfigs \subseteq Configs
    /\ GenMax \in Nat \ {0}
    /\ Commands \subseteq AllCommands
    /\ Faults \subseteq AllFaults

(* ServiceSpec: `config` stands for every field but these three.           *)
ServiceSpec == [enabled : BOOLEAN, paused : BOOLEAN, config : Configs,
                generation : 1 .. GenMax]

Recorder == [service : Services, config : Configs, generation : 1 .. GenMax,
             phase : {"starting", "live"}]

ASSUME SentinelsAssumption ==
    NoSpec \notin ServiceSpec /\ Open \notin ServiceSpec /\ NoSpec # Open
    /\ Free \notin Recorder

VARIABLES
    pc,        \* where the daemon's thread is
    cmd,       \* the request being served, NoCommand outside one
    todo,      \* services the current pass has yet to finish
    live,      \* what the last status probe answered
    shutdown,  \* Daemon::should_shutdown
    mem,       \* Daemon::state, by service
    disk,      \* the desired-state file, by service
    retry,     \* Daemon::retry; a missing entry is a new tracker
    procs,     \* the recorder processes of the host
    promise    \* for the properties: the spec that the last command on a
               \* service was told is in place, or Open while a command on
               \* it is unanswered or was answered with an error

daemonVars == <<pc, cmd, todo, live, shutdown, mem, retry>>
vars == <<pc, cmd, todo, live, shutdown, mem, disk, retry, procs, promise>>

DesiredState == [Services -> ServiceSpec \cup {NoSpec}]
NoServices == [s \in Services |-> NoSpec]
FreshRetry == [s \in Services |-> NewTracker]

Command == [op : AllCommands \cup {"none"}, target : SUBSET Services]
NoCommand == [op |-> "none", target |-> {}]
Served(op, s) == [op |-> op, target |-> {s}]
Unscoped(op) == [op |-> op, target |-> {}]

Known(state) == {s \in Services : state[s] # NoSpec}
Wanted(s) == mem[s] # NoSpec /\ mem[s].enabled /\ ~mem[s].paused
RecordersOf(s) == {p \in Pids : procs[p] # Free /\ procs[p].service = s}
LiveRecorders(s) == {p \in RecordersOf(s) : procs[p].phase = "live"}

Init ==
    /\ pc = "down" /\ cmd = NoCommand /\ todo = {}
    /\ live = FALSE /\ shutdown = FALSE
    /\ mem = NoServices /\ disk = NoServices
    /\ retry = FreshRetry
    /\ procs = [p \in Pids |-> Free]
    /\ promise = NoServices

-----------------------------------------------------------------------------
(* Start and end of the daemon process.  Its recorders outlive it.         *)

\* Seeded bug: the daemon starts without loading the file.
RestartEmpty ==
    /\ pc = "down"
    /\ pc' = "drain"
    /\ UNCHANGED <<cmd, todo, live, shutdown, mem, disk, retry, procs, promise>>

(* A path that cannot be examined is taken for one without a file.         *)
Restart ==
    /\ pc = "down"
    /\ pc' = "drain"
    /\ mem' = disk \/ ("stat" \in Faults /\ mem' = NoServices)
    /\ UNCHANGED <<cmd, todo, live, shutdown, disk, retry, procs, promise>>

GoDown ==
    /\ pc' = "down" /\ cmd' = NoCommand /\ todo' = {} /\ live' = FALSE
    /\ shutdown' = FALSE /\ mem' = NoServices /\ retry' = FreshRetry
    /\ UNCHANGED <<disk, procs, promise>>

Crash == "crash" \in Faults /\ pc # "down" /\ GoDown

LeaveLoop == pc = "drain" /\ shutdown /\ GoDown

-----------------------------------------------------------------------------
(* Requests.  A handler that changes the desired state changes it in       *)
(* memory, saves it, possibly resets the retry state, and starts a pass;   *)
(* when the save fails the change stays in memory and the client is told   *)
(* of the error.                                                           *)

SaveFails == "save" \in Faults /\ disk' \in {disk, mem'}

\* Seeded bugs: the result of save is not looked at; save is not called.
SaveErrorIgnored == disk' = mem' \/ SaveFails
SaveForgotten == disk' = disk

SaveSucceeds == disk' = mem'

BeginPass(state) == pc' = "probe" /\ todo' = Known(state)

Commit(op, s, spec, resets) ==
    /\ pc = "drain" /\ op \in Commands
    /\ cmd' = Served(op, s)
    /\ mem' = [mem EXCEPT ![s] = spec]
    /\ promise' = [promise EXCEPT ![s] = Open]
    /\ \/ /\ SaveSucceeds
          /\ retry' = IF resets THEN [retry EXCEPT ![s] = NewTracker] ELSE retry
          /\ BeginPass(mem')
       \/ /\ SaveFails
          /\ pc' = "refused"
          /\ UNCHANGED <<retry, todo>>
    /\ UNCHANGED <<live, shutdown, procs>>

\* Seeded bug: a new configuration keeps the generation.
SameGeneration(g) == g

NextGeneration(g) == IF g < GenMax THEN g + 1 ELSE GenMax

\* Seeded bug: a service that was disabled or paused counts as changed.
EnabledSpecBumped(s, c) ==
    [enabled |-> TRUE, paused |-> FALSE, config |-> c,
     generation |-> IF mem[s] = NoSpec THEN 1
                    ELSE IF mem[s].config = c /\ Wanted(s) THEN mem[s].generation
                    ELSE NextGeneration(mem[s].generation)]

EnabledSpec(s, c) ==
    [enabled |-> TRUE, paused |-> FALSE, config |-> c,
     generation |-> CASE mem[s] = NoSpec -> 1
                      [] mem[s] # NoSpec /\ mem[s].config = c -> mem[s].generation
                      [] OTHER -> NextGeneration(mem[s].generation)]

DisabledSpec(s) ==
    IF mem[s] = NoSpec THEN NoSpec
    ELSE [mem[s] EXCEPT !.enabled = FALSE, !.paused = FALSE]

\* Seeded bug: the spec is put in place before it is validated.
EnableUnvalidated(s, c) == Commit("enable", s, EnabledSpec(s, c), TRUE)

Enable(s, c) == c \in ValidConfigs /\ Commit("enable", s, EnabledSpec(s, c), TRUE)

Disable(s) == Commit("disable", s, DisabledSpec(s), FALSE)

Pause(s) ==
    mem[s] # NoSpec /\ Commit("pause", s, [mem[s] EXCEPT !.paused = TRUE], FALSE)

Resume(s) ==
    mem[s] # NoSpec /\ Commit("resume", s, [mem[s] EXCEPT !.paused = FALSE], TRUE)

Start(s) ==
    /\ mem[s] # NoSpec
    /\ Commit("start", s, [mem[s] EXCEPT !.enabled = TRUE, !.paused = FALSE], TRUE)

(* An enable whose configuration does not validate, and pause, resume and  *)
(* start of a service that is not configured.                              *)
\* Seeded bug: the spec is put in place before it is found invalid.
RejectAfterInsert(op, s) ==
    /\ pc = "drain" /\ op \in Commands
    /\ \/ op = "enable" /\ ValidConfigs # Configs
       \/ op \in {"pause", "resume", "start"} /\ mem[s] = NoSpec
    /\ pc' = "refused" /\ cmd' = Served(op, s)
    /\ IF op = "enable"
       THEN \E c \in Configs \ ValidConfigs :
               mem' = [mem EXCEPT ![s] = EnabledSpec(s, c)]
       ELSE UNCHANGED mem
    /\ UNCHANGED <<todo, live, shutdown, disk, retry, procs, promise>>

Reject(op, s) ==
    /\ pc = "drain" /\ op \in Commands
    /\ \/ op = "enable" /\ ValidConfigs # Configs
       \/ op \in {"pause", "resume", "start"} /\ mem[s] = NoSpec
    /\ pc' = "refused" /\ cmd' = Served(op, s)
    /\ UNCHANGED <<todo, live, shutdown, mem, disk, retry, procs, promise>>

Refuse ==
    /\ pc = "drain" /\ "unread" \in Commands
    /\ pc' = "refused" /\ cmd' = Unscoped("unread")
    /\ UNCHANGED <<todo, live, shutdown, mem, disk, retry, procs, promise>>

(* The `reconcile` command, and the pass that the loop runs by itself once *)
(* it finds no request waiting and the interval elapsed.                   *)
Reconcile ==
    /\ pc = "drain" /\ "reconcile" \in Commands
    /\ BeginPass(mem) /\ cmd' = Unscoped("reconcile")
    /\ UNCHANGED <<live, shutdown, mem, disk, retry, procs, promise>>

Periodic ==
    /\ pc = "drain"
    /\ BeginPass(mem)
    /\ UNCHANGED <<cmd, live, shutdown, mem, disk, retry, procs, promise>>

(* status, list and daemon-status read the state and probe recorders.      *)
Query ==
    /\ pc = "drain" /\ "query" \in Commands
    /\ cmd' = Unscoped("query")
    /\ \/ pc' = "accepted"
       \/ "tool" \in Faults /\ Known(mem) # {} /\ pc' = "refused"
    /\ UNCHANGED <<todo, live, shutdown, mem, disk, retry, procs, promise>>

\* Seeded bug: shutdown is accepted and forgotten.
ShutdownForgotten ==
    /\ pc = "drain" /\ "shutdown" \in Commands
    /\ pc' = "accepted" /\ cmd' = Unscoped("shutdown")
    /\ UNCHANGED <<todo, live, shutdown, mem, disk, retry, procs, promise>>

Shutdown ==
    /\ pc = "drain" /\ "shutdown" \in Commands
    /\ pc' = "accepted" /\ cmd' = Unscoped("shutdown") /\ shutdown' = TRUE
    /\ UNCHANGED <<todo, live, mem, disk, retry, procs, promise>>

\* Seeded bug: an error is not sent back.
ReplyAcceptedOnly ==
    /\ pc = "accepted" /\ pc' = "drain" /\ cmd' = NoCommand
    /\ UNCHANGED <<todo, live, shutdown, mem, disk, retry, procs, promise>>

Reply ==
    /\ pc \in {"accepted", "refused"}
    /\ pc' = "drain" /\ cmd' = NoCommand
    /\ promise' = IF pc = "accepted"
                  THEN [s \in Services |->
                          IF s \in cmd.target /\ cmd.op # "stop"
                          THEN mem[s] ELSE promise[s]]
                  ELSE promise
    /\ UNCHANGED <<todo, live, shutdown, mem, disk, retry, procs>>

-----------------------------------------------------------------------------
(* iox2-log-control.  A probe answers for the service, not for a process:  *)
(* it succeeds when some recorder of the service answers.                  *)

Probed(s, answer) ==
    IF answer THEN LiveRecorders(s) # {}
              ELSE LiveRecorders(s) = {} \/ "probe" \in Faults

\* Seeded bug: the stop is sent to a service that does not exist.
StopUnheeded(s) == procs' = procs

(* A stop ends at least one of the service's live recorders, if it works.  *)
Stopped(s) ==
    \/ \E dead \in SUBSET LiveRecorders(s) :
          /\ dead # {} \/ LiveRecorders(s) = {}
          /\ procs' = [p \in Pids |-> IF p \in dead THEN Free ELSE procs[p]]
    \/ "stop" \in Faults /\ procs' = procs

(* The `stop` command: probe, then stop if the service answered.           *)
StopRequest(s) ==
    /\ pc = "drain" /\ "stop" \in Commands
    /\ cmd' = Served("stop", s)
    /\ \/ \E answer \in BOOLEAN :
            Probed(s, answer) /\ live' = answer /\ pc' = "stop"
       \/ "tool" \in Faults /\ pc' = "refused" /\ live' = live
    /\ UNCHANGED <<todo, shutdown, mem, disk, retry, procs, promise>>

StopNow ==
    /\ pc = "stop"
    /\ \/ ~live /\ pc' = "accepted" /\ procs' = procs
       \/ live /\ pc' = "accepted" /\ \E s \in cmd.target : Stopped(s)
       \/ /\ live /\ "tool" \in Faults /\ pc' = "refused"
          /\ \/ procs' = procs
             \/ \E s \in cmd.target : Stopped(s)
    /\ live' = FALSE
    /\ UNCHANGED <<cmd, todo, shutdown, mem, disk, retry, promise>>

-----------------------------------------------------------------------------
(* reconcile_once: the configured services in order; for each a probe,     *)
(* then what the answer, the spec and the retry state call for.            *)

Current == CHOOSE s \in todo : \A t \in todo : s <= t

Probe ==
    /\ pc = "probe" /\ todo # {}
    /\ \E answer \in BOOLEAN :
          /\ Probed(Current, answer)
          /\ live' = answer
          /\ retry' = [retry EXCEPT ![Current] = Observe(@, answer)]
    /\ pc' = "act"
    /\ UNCHANGED <<cmd, todo, shutdown, mem, disk, procs, promise>>

NextService ==
    /\ pc' = "probe" /\ todo' = todo \ {Current} /\ live' = FALSE
    /\ UNCHANGED <<cmd, shutdown, mem, disk, promise>>

(* It already runs, it is degraded, its retry time has not come, or it is  *)
(* unwanted and does not run.                                              *)
LeaveAlone ==
    /\ pc = "act"
    /\ IF Wanted(Current) THEN live \/ ~MayAttempt(retry[Current]) ELSE ~live
    /\ NextService
    /\ UNCHANGED <<retry, procs>>

\* Seeded bug: no liveness gate before a spawn.
MustStartBlindly == pc = "act" /\ Wanted(Current) /\ MayAttempt(retry[Current])

\* Seeded bug: a start before the retry time.
MustStartEagerly == pc = "act" /\ Wanted(Current) /\ ~live

MustStart == pc = "act" /\ Wanted(Current) /\ ~live /\ MayAttempt(retry[Current])

CountAttempt == retry' = [retry EXCEPT ![Current] = Attempted(@)]

(* The generation is for the properties: the command line of a recorder    *)
(* carries the configuration and nothing to tell which spec it came from.  *)
RecorderOf(s) ==
    [service |-> s, config |-> mem[s].config, generation |-> mem[s].generation,
     phase |-> IF "slow_start" \in Faults THEN "starting" ELSE "live"]

SpawnRecorder ==
    /\ MustStart
    /\ \E p \in Pids :
          procs[p] = Free /\ procs' = [procs EXCEPT ![p] = RecorderOf(Current)]
    /\ CountAttempt
    /\ NextService

(* The spawn may always fail when the host has no process left.            *)
SpawnFails ==
    /\ MustStart
    /\ "spawn" \in Faults \/ \A p \in Pids : procs[p] # Free
    /\ CountAttempt
    /\ NextService
    /\ procs' = procs

\* Seeded bug: a recorder of an enabled service may be stopped too.
StopRecorderAnyway ==
    /\ pc = "act" /\ live
    /\ Stopped(Current)
    /\ NextService
    /\ retry' = retry

StopRecorder ==
    /\ pc = "act" /\ ~Wanted(Current) /\ live
    /\ Stopped(Current)
    /\ NextService
    /\ retry' = retry

(* The tool cannot be run: the command that asked for the pass is refused, *)
(* a periodic pass takes the daemon down.  A stop may have worked before   *)
(* the status probe that follows it fails.                                 *)
ToolFails ==
    /\ "tool" \in Faults
    /\ \/ pc = "probe" /\ todo # {} /\ procs' = procs
       \/ /\ pc = "act" /\ ~Wanted(Current) /\ live
          /\ procs' = procs \/ Stopped(Current)

\* Seeded bug: the command ignores the error of its pass.
PassAbortsUnnoticed ==
    /\ ToolFails
    /\ cmd # NoCommand
    /\ pc' = "accepted" /\ todo' = {} /\ live' = FALSE
    /\ UNCHANGED <<cmd, shutdown, mem, disk, retry, promise>>

PassAborts ==
    /\ ToolFails
    /\ cmd # NoCommand
    /\ pc' = "refused" /\ todo' = {} /\ live' = FALSE
    /\ UNCHANGED <<cmd, shutdown, mem, disk, retry, promise>>

DaemonAborts ==
    /\ ToolFails
    /\ cmd = NoCommand
    /\ pc' = "down" /\ cmd' = NoCommand /\ todo' = {} /\ live' = FALSE
    /\ shutdown' = FALSE /\ mem' = NoServices /\ retry' = FreshRetry
    /\ UNCHANGED <<disk, promise>>

(* A command is answered; after a periodic pass the loop checks whether it *)
(* is to end.                                                              *)
PassDone ==
    /\ pc = "probe" /\ todo = {}
    /\ IF cmd = NoCommand /\ shutdown THEN GoDown
       ELSE /\ pc' = IF cmd = NoCommand THEN "drain" ELSE "accepted"
            /\ UNCHANGED <<cmd, todo, live, shutdown, mem, disk, retry, procs,
                           promise>>

-----------------------------------------------------------------------------
(* Beside the daemon.                                                      *)

RecorderUp(p) ==
    /\ procs[p] # Free /\ procs[p].phase = "starting"
    /\ procs' = [procs EXCEPT ![p].phase = "live"]
    /\ UNCHANGED <<daemonVars, disk, promise>>

RecorderExits(p) ==
    /\ "exit" \in Faults /\ procs[p] # Free
    /\ procs' = [procs EXCEPT ![p] = Free]
    /\ UNCHANGED <<daemonVars, disk, promise>>

(* A pass reads the clock once, when it starts: time only counts between   *)
(* passes.                                                                 *)
BetweenPasses == pc \in {"drain", "stop", "accepted", "refused"}

RetryTimeComes(s) ==
    /\ BetweenPasses /\ retry[s].retry = "pending"
    /\ retry' = [retry EXCEPT ![s] = RetryArrives(@)]
    /\ UNCHANGED <<pc, cmd, todo, live, shutdown, mem, disk, procs, promise>>

WindowEnds(s) ==
    /\ BetweenPasses /\ retry[s].window = "open"
    /\ retry' = [retry EXCEPT ![s] = WindowRunsOut(@)]
    /\ UNCHANGED <<pc, cmd, todo, live, shutdown, mem, disk, procs, promise>>

-----------------------------------------------------------------------------
Request ==
    \/ \E s \in Services :
          \/ \E c \in Configs : Enable(s, c)
          \/ Disable(s) \/ Pause(s) \/ Resume(s) \/ Start(s) \/ StopRequest(s)
          \/ \E op \in {"enable", "pause", "resume", "start"} : Reject(op, s)
    \/ Refuse \/ Query \/ Reconcile \/ Shutdown

Serve == Reply \/ StopNow \/ LeaveLoop

Pass == \/ Probe \/ LeaveAlone \/ SpawnRecorder \/ SpawnFails \/ StopRecorder
        \/ PassAborts \/ DaemonAborts \/ PassDone

Environment == \/ \E p \in Pids : RecorderUp(p) \/ RecorderExits(p)
               \/ \E s \in Services : RetryTimeComes(s) \/ WindowEnds(s)

Next == Restart \/ Crash \/ Request \/ Periodic \/ Serve \/ Pass \/ Environment

Spec == Init /\ [][Next]_vars

(* The thread of the daemon is never suspended for ever.  Periodic is      *)
(* strongly fair: between two passes the loop is assumed to find, now and  *)
(* then, its request queue empty and the interval elapsed.                 *)
LoopIsFair == WF_vars(Serve \/ Pass) /\ SF_vars(Periodic)

StopSucceeds == StopRecorder /\ procs' # procs

(* In addition recorders come up in the end, time passes, and a stop that  *)
(* is tried again and again works at last.                                 *)
FairSpec ==
    /\ Spec
    /\ LoopIsFair
    /\ SF_vars(StopSucceeds)
    /\ \A p \in Pids : WF_vars(RecorderUp(p))
    /\ \A s \in Services : SF_vars(RetryTimeComes(s)) /\ SF_vars(WindowEnds(s))

(* In addition, what makes spawns fail is repaired sooner or later.        *)
RepairedSpec == FairSpec /\ SF_vars(SpawnRecorder)
=============================================================================
