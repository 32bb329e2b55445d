----------------------------- MODULE Lifecycle -----------------------------
(***************************************************************************)
(* What the orchestrator promises, without the loop, the pass, the retries *)
(* and the probes of Daemon: how a command may change what is intended of  *)
(* a service, when a client is told so, what a new daemon goes by, and for *)
(* which services recorders start and end.                                 *)
(***************************************************************************)
EXTENDS Naturals

CONSTANTS Services, Configs, GenMax, Pids, Commands, Faults, NoSpec, Open, Free

VARIABLES intent,   \* by service, what the daemon is to bring about
          stored,   \* what a daemon that starts goes by
          told,     \* what clients were told is in place, Open between a
                    \* command on the service and its acknowledgement
          stopping, \* the services that a client's stop is being served for
          workers   \* the recorders of the host, by pid

vars == <<intent, stored, told, stopping, workers>>

Specs == [enabled : BOOLEAN, paused : BOOLEAN, config : Configs,
          generation : 1 .. GenMax]

Active(spec) == spec # NoSpec /\ spec.enabled /\ ~spec.paused
WorkersOf(s) == {p \in Pids : workers[p] # Free /\ workers[p].service = s}

Init == /\ intent = [s \in Services |-> NoSpec]
        /\ stored = intent /\ told = intent /\ stopping = {}
        /\ workers = [p \in Pids |-> Free]

-----------------------------------------------------------------------------
(* What one command makes of a spec: a service becomes known with its      *)
(* first enable, keeps its identity whatever is toggled, and takes the     *)
(* next generation with a new configuration.  One that was disabled does   *)
(* not come back paused.                                                   *)
Introduces(old, new) == old = NoSpec /\ new.generation = 1 /\ Active(new)

Toggles(old, new) ==
    /\ old # NoSpec
    /\ new.config = old.config /\ new.generation = old.generation
    /\ new.enabled => old.enabled \/ Active(new)

Reconfigures(old, new) ==
    /\ old # NoSpec
    /\ new.config # old.config /\ Active(new)
    /\ new.generation = IF old.generation < GenMax THEN old.generation + 1
                        ELSE GenMax

Becomes(s, spec) ==
    /\ intent' = [intent EXCEPT ![s] = spec]
    /\ told' = [told EXCEPT ![s] = Open]
    /\ stored' = intent' \/ ("save" \in Faults /\ stored' = stored)
    /\ UNCHANGED <<stopping, workers>>

Command(s) ==
    \/ \E spec \in Specs :
          /\ \/ Introduces(intent[s], spec)
             \/ Toggles(intent[s], spec)
             \/ Reconfigures(intent[s], spec)
          /\ Becomes(s, spec)
    \/ intent[s] = NoSpec /\ Becomes(s, NoSpec)

(* A command is acknowledged once, and only what is stored.                *)
Acknowledge(s) ==
    /\ told[s] = Open /\ stored[s] = intent[s]
    /\ told' = [told EXCEPT ![s] = intent[s]]
    /\ UNCHANGED <<intent, stored, stopping, workers>>

-----------------------------------------------------------------------------
(* A recorder starts only for a service that is to be active, with the     *)
(* configuration and the generation intended.                              *)
StartWorker(s) ==
    /\ Active(intent[s])
    /\ \E p \in Pids :
          /\ workers[p] = Free
          /\ workers' = [workers EXCEPT ![p] =
                            [service |-> s, config |-> intent[s].config,
                             generation |-> intent[s].generation]]
    /\ UNCHANGED <<intent, stored, told, stopping>>

(* A client asks to stop a service, once; the request is answered.         *)
AskStop(s) ==
    /\ "stop" \in Commands /\ stopping = {}
    /\ stopping' = {s}
    /\ UNCHANGED <<intent, stored, told, workers>>

AnswerStop ==
    /\ stopping' = {}
    /\ UNCHANGED <<intent, stored, told, workers>>

(* Recorders of a service that is to be active end by themselves or while  *)
(* a stop is served for it, never by the daemon's own decision.            *)
MayEnd(s) == ~Active(intent[s]) \/ s \in stopping \/ "exit" \in Faults

End(s) ==
    /\ MayEnd(s)
    /\ \E dead \in SUBSET WorkersOf(s) :
          workers' = [p \in Pids |-> IF p \in dead THEN Free ELSE workers[p]]

EndWorkers(s) == End(s) /\ UNCHANGED <<intent, stored, told, stopping>>

(* The daemon ends: what was not stored is forgotten.  A stop it was at    *)
(* may have worked.                                                        *)
FallBack ==
    /\ intent' = stored /\ stopping' = {}
    /\ workers' = workers \/ \E s \in Services : End(s)
    /\ UNCHANGED <<stored, told>>

Next == \/ FallBack \/ AnswerStop
        \/ \E s \in Services : \/ Command(s) \/ Acknowledge(s)
                               \/ StartWorker(s) \/ EndWorkers(s)
                               \/ AskStop(s)

Spec == Init /\ [][Next]_vars
=============================================================================
