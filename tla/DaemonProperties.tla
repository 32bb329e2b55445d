-------------------------- MODULE DaemonProperties --------------------------
(***************************************************************************)
(* What the daemon promises, over the state machine of Daemon.             *)
(***************************************************************************)
EXTENDS Daemon

(* Every variable has its type; specs that are held, in memory or on disk, *)
(* validate, so that a save is never refused for what another command left *)
(* behind and a restarted daemon accepts the file it finds.                *)
TypeOK ==
    /\ pc \in {"down", "drain", "probe", "act", "stop", "accepted", "refused"}
    /\ cmd \in Command
    /\ todo \subseteq Services
    /\ live \in BOOLEAN
    /\ shutdown \in BOOLEAN
    /\ mem \in DesiredState
    /\ disk \in DesiredState
    /\ retry \in [Services -> RetryTracker]
    /\ procs \in [Pids -> Recorder \cup {Free}]
    /\ promise \in [Services -> ServiceSpec \cup {NoSpec, Open}]
    /\ \A s \in Services :
          /\ mem[s] # NoSpec => mem[s].config \in ValidConfigs
          /\ disk[s] # NoSpec => disk[s].config \in ValidConfigs

-----------------------------------------------------------------------------
(* Durability (ORCH-002).                                                  *)

(* A daemon that starts goes by its file.  Otherwise, and until it comes   *)
(* to save, it goes by an empty state that the file does not hold, and     *)
(* none of what follows about the file, nor of what it comes to, holds.    *)
FileIsRead == "stat" \notin Faults

(* What a client was told is in place is in the desired-state file, until  *)
(* another command on that service is given: whatever other commands fail  *)
(* to save in between, and wherever the daemon is killed.                  *)
Durability ==
    \A s \in Services : promise[s] # Open => disk[s] = promise[s]

(* A service is never forgotten by the file, and its generation there      *)
(* never goes back (DF-003), also when a change that failed to be saved is *)
(* lost, or saved later along with the change of another service.          *)
GenerationNeverGoesBack ==
    [][\A s \in Services :
          disk[s] # NoSpec => /\ disk'[s] # NoSpec
                              /\ disk'[s].generation >= disk[s].generation]_vars

(* The generation in the file moves only when the configuration does:      *)
(* repeating an enable, or a command in between, changes nothing (ORCH-003)*)
GenerationMovesWithConfig ==
    [][\A s \in Services :
          /\ disk[s] # NoSpec /\ disk'[s] # NoSpec
          /\ disk'[s].generation # disk[s].generation
          => disk'[s].config # disk[s].config]_vars

(* service and generation identify one configuration (DF-003): no two of   *)
(* the recorders, the file and the memory of the daemon have them in       *)
(* common and differ in the configuration, unless the generation has       *)
(* saturated.                                                              *)
GenerationIdentifies ==
    \A s \in Services :
       LET specs == {state[s] : state \in {mem, disk}} \ {NoSpec}
           versions == {<<spec.generation, spec.config>> : spec \in specs} \cup
                       {<<procs[p].generation, procs[p].config>> : p \in RecordersOf(s)}
       IN  \A v, w \in versions : v[1] = w[1] /\ v[1] < GenMax => v[2] = w[2]

(* Every recorder that runs was spawned for a service that the file knows, *)
(* and from no later generation than the file's (ORCH-009): a daemon that  *)
(* is restarted can account for every recorder it finds.                   *)
RecordersArePersisted ==
    \A p \in Pids :
       procs[p] # Free =>
          /\ disk[procs[p].service] # NoSpec
          /\ procs[p].generation <= disk[procs[p].service].generation

-----------------------------------------------------------------------------
(* Reconciliation.                                                         *)

(* The retry trackers stay coherent through passes, commands and time.     *)
TrackersCoherent == \A s \in Services : Coherent(retry[s])

(* No two recorders of one service run at once (ORCH-005).                 *)
NoDuplicates == \A s \in Services : Cardinality(RecordersOf(s)) <= 1

(* A wanted service has a recorder, or an attempt that counts as failed    *)
(* and that the retry policy follows up; an unwanted one has no recorder.  *)
Settled(s) ==
    IF Wanted(s) THEN RecordersOf(s) # {} \/ retry[s].attempts > 0
                 ELSE LiveRecorders(s) = {}

(* A command that is accepted has reconciled (DF-006): when its reply is   *)
(* due every service of the desired state is settled, not only its own.    *)
(* `stop` is left out: it leaves the service to the next pass, as the      *)
(* runbook says and DF-006 does not.                                       *)
AcceptedIsSettled ==
    pc = "accepted" /\ cmd.op \notin {"query", "shutdown", "stop"}
       => \A s \in Known(mem) : Settled(s)

(* A service that stays wanted is again and again live, or degraded,       *)
(* provided clients do not keep resetting its retry state.                 *)
Patient(s) == ~(cmd.op \in {"enable", "start", "resume"} /\ s \in cmd.target)

ConvergesUp ==
    \A s \in Services :
       <>[](pc # "down" /\ Wanted(s) /\ Patient(s))
          => []<>(LiveRecorders(s) # {} \/ retry[s].degraded)

(* The recorders of a service that stays unwanted end, those that come up  *)
(* late included.                                                          *)
ConvergesDown ==
    \A s \in Services :
       <>[](pc # "down" /\ s \in Known(mem) /\ ~Wanted(s))
          => <>[](LiveRecorders(s) = {})

(* Every request is answered, or the daemon ends.                          *)
RequestsAnswered == (cmd # NoCommand) ~> (cmd = NoCommand)

-----------------------------------------------------------------------------
(* What it comes to.                                                       *)

(* A recorder without its phase.                                           *)
Worker == [service : Services, config : Configs, generation : 1 .. GenMax]

ASSUME WorkerAssumption == Free \notin Worker

WorkerAt(p) ==
    IF procs[p] = Free THEN Free
    ELSE [service |-> procs[p].service, config |-> procs[p].config,
          generation |-> procs[p].generation]

Life == INSTANCE Lifecycle WITH
    Configs <- ValidConfigs,
    intent <- IF pc = "down" THEN disk ELSE mem,
    stored <- disk,
    told <- promise,
    stopping <- IF cmd.op = "stop" THEN cmd.target ELSE {},
    workers <- [p \in Pids |-> WorkerAt(p)]

(* The daemon implements Lifecycle: through every handler, failed save,    *)
(* aborted pass, kill and restart, a service moves along its life cycle,   *)
(* an answer acknowledges what is stored, and a recorder starts only for a *)
(* service that is wanted and ends against the intent only while a stop    *)
(* that a client asked for is being served, or by itself (ORCH-002,        *)
(* ORCH-003, ORCH-009, DF-003).                                            *)
ImplementsLifecycle == Life!Spec

Flags(s) == INSTANCE RetryFlags WITH tracker <- retry[s]

(* Whatever handlers and passes do to the retry state of a service is one  *)
(* of the operations of RetryFlags, the module that the implementation     *)
(* with instants is compared with: an attempt only when one may be made,   *)
(* a recovery or a reset as a whole.                                       *)
TrackersAreFlags ==
    /\ \A s \in Services : Flags(s)!Init
    /\ [][\A s \in Services : [Flags(s)!Next]_(retry[s])]_retry

-----------------------------------------------------------------------------
(* What the documents say and the code does not do.                        *)

(* A service that stays enabled with one configuration is in the end       *)
(* served by recorders of that configuration only: `serve` is the          *)
(* authority for desired-vs-actual convergence.                            *)
ConfigConverges ==
    \A s \in Services, c \in Configs :
       <>[](pc # "down" /\ Wanted(s) /\ mem[s].config = c)
          => <>[](\A p \in LiveRecorders(s) : procs[p].config = c)

(* The runbook: `reconcile` brings a degraded service back once its cause  *)
(* is repaired.                                                            *)
ReconcileRecovers ==
    \A s \in Services :
       /\ <>[](pc # "down" /\ Wanted(s))
       /\ []<>(pc = "accepted" /\ cmd.op = "reconcile")
       => []<>(LiveRecorders(s) # {})
=============================================================================
