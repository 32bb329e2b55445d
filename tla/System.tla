------------------------------- MODULE System -------------------------------
(***************************************************************************)
(* The daemon of Daemon with its clients: the invocations of the command   *)
(* line (command.rs, client.rs), the requests they leave at the control    *)
(* service, and the loop of the daemon that takes them (daemon.rs, run).   *)
(*                                                                         *)
(* Every step of the daemon here is an action of Daemon, with what it      *)
(* does to the requests beside it.  Here a request is taken only when a    *)
(* client has sent it, and a periodic pass is run only by a turn of the    *)
(* loop that found no request left and the interval elapsed.               *)
(*                                                                         *)
(* The transport (iceoryx2) is external: it keeps no order between the     *)
(* requests of different invocations, loses the requests that no daemon    *)
(* has taken when there is none, and may or may not still deliver the      *)
(* request of a client that has given up.                                  *)
(***************************************************************************)
EXTENDS DaemonProperties, Config, Sequences

CONSTANTS
    Clients,         \* those who invoke the command line, one call at a time
    CallsMax,        \* the calls each of them makes
    ClientCommands,  \* what they may ask for, see Commandlines
    Sources,         \* the settings they may do it with: [cli, env, file]
    ControlService,  \* the control service of the daemon
    None             \* what is not there

(* Beside the commands of Daemon, "blank" is one with a blank service      *)
(* name, "foreign" one of a client of another API version, "garbled" a     *)
(* payload that does not parse, and "none" an invocation without a command.*)
Commandlines ==
    [op : {"enable"}, service : Services, config : Configs] \cup
    [op : {"disable", "pause", "resume", "start", "stop"}, service : Services] \cup
    [op : {"query", "reconcile", "shutdown", "blank", "foreign", "garbled", "none"}]

PendingRequest == [client : Clients, call : 1 .. CallsMax, command : ClientCommands]

ASSUME SystemAssumption ==
    /\ CallsMax \in Nat
    /\ None \notin PendingRequest /\ None \notin 0 .. 3
    /\ ClientCommands \subseteq Commandlines
    /\ Texts = {"control_service"} /\ U64s = {"control_timeout_ms"}
    /\ U8s = {} /\ F64s = {}

VARIABLES
    calls,       \* of each client the exit codes of its calls so far, None
                 \* for one that still waits
    pending,     \* the requests that the daemon has yet to take
    serving,     \* the request that it has taken and not answered
    turn,        \* the inner loop of `run` is "draining" requests or has
                 \* found none left and is "drained"
    elapsed,     \* reconcile_interval has elapsed since last_reconcile
    errorKind,   \* the CommandError that a refusal of `serving` carries
    found        \* for the properties: the state that `serving` found

requests == <<pending, serving, errorKind, found>>
clientVars == <<calls, requests, turn, elapsed>>
systemVars == <<vars, clientVars>>

\* Seeded bug: the exit codes start one too high.
ExitCodeFromTwo == [Internal |-> 2, InvalidInput |-> 3, NotAvailable |-> 4]

ExitCode == [Internal |-> 1, InvalidInput |-> 2, NotAvailable |-> 3]

Waiting(k) == calls[k] # <<>> /\ calls[k][Len(calls[k])] = None

SystemInit ==
    /\ Init
    /\ calls = [k \in Clients |-> <<>>]
    /\ pending = {} /\ serving = None /\ errorKind = None /\ found = None
    /\ turn = "draining" /\ elapsed = FALSE

-----------------------------------------------------------------------------
(* One invocation of the command line.                                     *)

EndsWith(k, exit) ==
    calls' = [calls EXCEPT ![k] = Append(@, exit)] /\ pending' = pending

\* Without a daemon at the service that the settings name, nobody hears.
Sends(k, command, settings) ==
    /\ calls' = [calls EXCEPT ![k] = Append(@, None)]
    /\ pending' = IF pc # "down" /\ settings["control_service"] = ControlService
                  THEN pending \cup {[client |-> k, call |-> Len(calls'[k]),
                                      command |-> command]}
                  ELSE pending

Invoke(k) ==
    /\ Len(calls[k]) < CallsMax /\ ~Waiting(k)
    /\ \E command \in ClientCommands, source \in Sources :
          IF command.op = "none" THEN EndsWith(k, ExitCode.InvalidInput)
          ELSE IF ~Resolvable(source.env, source.file)
          THEN EndsWith(k, ExitCode.Internal)
          ELSE Sends(k, command, Resolve(source.cli, source.env, source.file))
    /\ UNCHANGED <<vars, serving, errorKind, found, turn, elapsed>>

(* The deadline passes, or the wait is interrupted.  Neither knows whether *)
(* the daemon has taken the request.                                       *)
GiveUp(k) ==
    /\ Waiting(k)
    /\ calls' = [calls EXCEPT ![k][Len(calls[k])] = ExitCode.NotAvailable]
    /\ pending' \in {pending, {r \in pending : r.client # k \/ r.call # Len(calls[k])}}
    /\ UNCHANGED <<vars, serving, errorKind, found, turn, elapsed>>

-----------------------------------------------------------------------------
(* The loop of the daemon.                                                 *)

\* Seeded bug: the request stays where it was.
TakeCopy(r) == pending' = pending

Take(r) == pending' = pending \ {r}

Perform(command) ==
    \/ command.op = "enable" /\ Enable(command.service, command.config)
    \/ command.op = "disable" /\ Disable(command.service)
    \/ command.op = "pause" /\ Pause(command.service)
    \/ command.op = "resume" /\ Resume(command.service)
    \/ command.op = "start" /\ Start(command.service)
    \/ command.op = "stop" /\ StopRequest(command.service)
    \/ command.op = "query" /\ Query
    \/ command.op = "reconcile" /\ Reconcile
    \/ command.op = "shutdown" /\ Shutdown

TurnAway(command) ==
    \/ /\ command.op = "enable" /\ command.config \notin ValidConfigs
       /\ Reject("enable", command.service)
    \/ /\ command.op \in {"pause", "resume", "start"}
       /\ Reject(command.op, command.service)
    \/ command.op \in {"blank", "foreign"} /\ Refuse

Receive(r) ==
    /\ turn = "draining" /\ r \in pending
    /\ \/ Perform(r.command) /\ errorKind' = "Internal"
       \/ TurnAway(r.command) /\ errorKind' = "InvalidInput"
    /\ Take(r) /\ serving' = r
    /\ found' = [mem |-> mem, disk |-> disk]
    /\ UNCHANGED <<calls, turn, elapsed>>

(* The answer.  A client of another version does not accept the version it *)
(* is answered with; one that has given up does not see the answer.        *)
ExitOf(r) == IF r.command.op = "foreign" THEN ExitCode.NotAvailable
             ELSE IF pc = "accepted" THEN 0 ELSE ExitCode[errorKind]

Answer ==
    /\ Reply
    /\ calls' = IF calls[serving.client][serving.call] = None
                THEN [calls EXCEPT ![serving.client][serving.call] = ExitOf(serving)]
                ELSE calls
    /\ serving' = None /\ errorKind' = None /\ found' = None
    /\ UNCHANGED <<pending, turn, elapsed>>

\* Seeded bug: last_reconcile is set in every turn of the loop.
SeeEmptyAndWait ==
    /\ pc = "drain" /\ turn = "draining" /\ pending = {}
    /\ turn' = "drained" /\ elapsed' = FALSE
    /\ UNCHANGED <<vars, calls, requests>>

SeeEmpty ==
    /\ pc = "drain" /\ turn = "draining" /\ pending = {}
    /\ turn' = "drained"
    /\ UNCHANGED <<vars, calls, requests, elapsed>>

(* The process ends, and the requests that it has not answered with it.    *)
LoseRequests ==
    /\ pending' = {} /\ serving' = None /\ errorKind' = None /\ found' = None
    /\ turn' = "draining" /\ elapsed' = FALSE
    /\ UNCHANGED calls

NextTurn ==
    /\ pc = "drain" /\ turn = "drained" /\ ~elapsed
    /\ IF shutdown THEN LeaveLoop /\ LoseRequests
       ELSE turn' = "draining" /\ UNCHANGED <<vars, calls, requests, elapsed>>

PeriodicTurn ==
    /\ turn = "drained" /\ elapsed
    /\ Periodic
    /\ UNCHANGED clientVars

Handle ==
    /\ StopNow \/ Probe \/ LeaveAlone \/ SpawnRecorder \/ SpawnFails
       \/ StopRecorder \/ PassAborts
    /\ UNCHANGED clientVars

EndPass ==
    /\ PassDone
    /\ IF pc' = "down" THEN LoseRequests
       ELSE IF cmd # NoCommand THEN UNCHANGED clientVars
       ELSE turn' = "draining" /\ elapsed' = FALSE /\ UNCHANGED <<calls, requests>>

AbortPeriodic == DaemonAborts /\ LoseRequests

ReceiveGarbled(r) ==
    /\ turn = "draining" /\ pc = "drain" /\ r \in pending
    /\ r.command.op = "garbled"
    /\ Crash /\ LoseRequests

(* Killed, or ended by the transport: no request can be received, or no    *)
(* memory be loaned for an answer, or the answer not be sent.              *)
Killed == Crash /\ LoseRequests

\* last_reconcile starts an interval ago, if the clock goes back that far.
StartDaemon ==
    /\ Restart
    /\ elapsed' \in BOOLEAN
    /\ UNCHANGED <<calls, requests, turn>>

Elapse ==
    /\ pc # "down" /\ ~elapsed
    /\ elapsed' = TRUE
    /\ UNCHANGED <<vars, calls, requests, turn>>

-----------------------------------------------------------------------------
Thread ==
    \/ \E r \in pending : Receive(r) \/ ReceiveGarbled(r)
    \/ Answer \/ SeeEmpty \/ NextTurn \/ PeriodicTurn
    \/ Handle \/ EndPass \/ AbortPeriodic

SystemNext ==
    \/ \E k \in Clients : Invoke(k) \/ GiveUp(k)
    \/ Thread \/ Killed \/ StartDaemon \/ Elapse
    \/ Environment /\ UNCHANGED clientVars

SystemSpec == SystemInit /\ [][SystemNext]_systemVars

(* Nothing is asked of the clients and of the environment's faults, and    *)
(* nothing of Periodic: the loop runs, the interval elapses, recorders     *)
(* come up, time passes.                                                   *)
FairSystemSpec ==
    /\ SystemSpec
    /\ WF_systemVars(Thread) /\ WF_systemVars(Elapse)
    /\ SF_systemVars(StopSucceeds /\ UNCHANGED clientVars)
    /\ \A p \in Pids : WF_systemVars(RecorderUp(p) /\ UNCHANGED clientVars)
    /\ \A s \in Services :
          /\ SF_systemVars(RetryTimeComes(s) /\ UNCHANGED clientVars)
          /\ SF_systemVars(WindowEnds(s) /\ UNCHANGED clientVars)

-----------------------------------------------------------------------------
SystemTypeOK ==
    /\ \A k \in Clients :
          /\ Len(calls[k]) <= CallsMax
          /\ \A i \in 1 .. Len(calls[k]) : calls[k][i] \in 0 .. 3 \cup {None}
          /\ \A i \in 1 .. Len(calls[k]) - 1 : calls[k][i] # None
    /\ pending \subseteq PendingRequest
    /\ serving \in PendingRequest \cup {None}
    /\ turn \in {"draining", "drained"} /\ elapsed \in BOOLEAN
    /\ errorKind \in {"Internal", "InvalidInput", None}
    /\ serving = None <=> cmd = NoCommand

(* Exit codes 0, 1 and 2 are final: the request of such a call is neither  *)
(* waiting for the daemon nor being served, and will not act later.  Only  *)
(* a call that ended with 3 may still act.                                 *)
OnlyTimeoutsLinger ==
    \A r \in (pending \cup {serving}) \ {None} :
       calls[r.client][r.call] \in {None, ExitCode.NotAvailable}

(* Exit code 2 (ORCH-008): the request of such a call has changed nothing, *)
(* in memory or on disk.                                                   *)
InputErrorsChangeNothing ==
    pc = "refused" /\ errorKind = "InvalidInput"
       => mem = found.mem /\ disk = found.disk

(* Exit code 0: what the command asks of the file is done, on top of what  *)
(* the daemon had in memory when it took the request.  Nothing else has    *)
(* changed in memory, and the file holds no less than memory: a change     *)
(* whose own save failed is written with the next command that is accepted.*)
Done(command, old, new) ==
    /\ command.op \in {"enable", "resume", "start"} => new # NoSpec /\ ~new.paused
    /\ command.op \in {"enable", "start"} => new.enabled
    /\ command.op = "enable" => new.config = command.config
    /\ command.op = "disable" /\ old # NoSpec => ~new.enabled
    /\ command.op = "pause" => new # NoSpec /\ new.paused
    /\ command.op \in {"pause", "resume"} => new.enabled = old.enabled
    /\ command.op # "enable" /\ old # NoSpec => new.config = old.config
    /\ command.op # "enable" /\ old = NoSpec => new = NoSpec

Changing == {"enable", "disable", "pause", "resume", "start"}

DoneAsAsked(command) ==
    IF command.op \in Changing
    THEN /\ disk = mem
         /\ Done(command, found.mem[command.service], disk[command.service])
         /\ \A s \in Services \ {command.service} : mem[s] = found.mem[s]
    ELSE mem = found.mem /\ disk = found.disk

ExitZeroIsDone == pc = "accepted" => DoneAsAsked(serving.command)

(* A shutdown that was accepted ends the daemon, though the loop looks for *)
(* it only when it has served all requests that are waiting.               *)
ShutdownEnds == (pc = "accepted" /\ cmd.op = "shutdown") ~> (pc = "down")

(* What clients were told comes true, through restarts, calls that time    *)
(* out and without further calls: the service of which the last word was   *)
(* that it is enabled comes up or degrades, again and again; that of which *)
(* it was that it is disabled or paused goes down.                         *)
ToldToRun(s) == promise[s] \notin {Open, NoSpec} /\ promise[s].enabled /\ ~promise[s].paused
ToldToRest(s) == promise[s] \notin {Open, NoSpec} /\ ~ToldToRun(s)

WordIsKept ==
    \A s \in Services :
       /\ <>[](pc # "down" /\ ToldToRun(s))
             => []<>(LiveRecorders(s) # {} \/ retry[s].degraded)
       /\ <>[](pc # "down" /\ ToldToRest(s)) => <>[](LiveRecorders(s) = {})

(* The loop with finitely many calls is the daemon that Daemon assumes:    *)
(* every step is one of its steps, and if the daemon is not killed again   *)
(* and again the periodic pass recurs, which Daemon takes for granted.     *)
ImplementsDaemon == Spec /\ (<>[](pc # "down") => LoopIsFair)
=============================================================================
