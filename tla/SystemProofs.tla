---------------------------- MODULE SystemProofs ----------------------------
(***************************************************************************)
(* Proofs about System: the daemon with its clients is the daemon of       *)
(* Daemon, so that what is proved of that one holds here too, and the      *)
(* safety properties that relate calls, requests and answers.              *)
(***************************************************************************)
EXTENDS System, DaemonProofs, SequenceTheorems

USE SystemAssumption

-----------------------------------------------------------------------------
(* A request is served exactly where the thread may be in a handler.       *)
ThreadInv ==
    /\ pc \in {"down", "drain"} => cmd = NoCommand
    /\ pc \in {"stop", "accepted", "refused"} => cmd # NoCommand

LEMMA CommandsAreSome ==
    ASSUME NEW op \in AllCommands
    PROVE  Unscoped(op) # NoCommand /\ \A s \in Services : Served(op, s) # NoCommand
BY DEF AllCommands, Unscoped, Served, NoCommand

LEMMA ThreadStep == ThreadInv /\ [Next]_vars => ThreadInv'
<1> SUFFICES ASSUME ThreadInv, [Next]_vars
             PROVE  ThreadInv'
  OBVIOUS
<1> USE DEF ThreadInv
<1>1. CASE Request
  <2>1. ASSUME NEW s \in Services, NEW op \in AllCommands, NEW spec,
               NEW resets \in BOOLEAN, Commit(op, s, spec, resets)
        PROVE  ThreadInv'
    BY <2>1, CommandsAreSome DEF Commit, BeginPass
  <2>2. CASE \E s \in Services :
                \/ \E c \in Configs : Enable(s, c)
                \/ Disable(s) \/ Pause(s) \/ Resume(s) \/ Start(s)
    BY <2>1, <2>2 DEF Enable, Disable, Pause, Resume, Start, AllCommands
  <2>3. CASE \E s \in Services :
                \/ StopRequest(s)
                \/ \E op \in {"enable", "pause", "resume", "start"} : Reject(op, s)
    BY <2>3, CommandsAreSome DEF StopRequest, Reject, AllCommands
  <2>4. CASE Refuse \/ Query \/ Reconcile \/ Shutdown
    BY <2>4, CommandsAreSome
       DEF Refuse, Query, Reconcile, Shutdown, BeginPass, AllCommands
  <2> QED
    BY <1>1, <2>2, <2>3, <2>4 DEF Request
<1>2. CASE Restart \/ Crash \/ Periodic \/ Serve
  BY <1>2 DEF Restart, Crash, GoDown, Periodic, BeginPass, Serve, Reply, StopNow,
              LeaveLoop
<1>3. CASE Pass
  BY <1>3 DEF Pass, Probe, LeaveAlone, SpawnRecorder, SpawnFails, StopRecorder,
              PassAborts, DaemonAborts, PassDone, NextService, GoDown, MustStart
<1>4. CASE Environment
  BY <1>4 DEF Environment, RecorderUp, RecorderExits, RetryTimeComes, WindowEnds,
              daemonVars
<1>5. CASE UNCHANGED vars
  BY <1>5 DEF vars
<1> QED
  BY <1>1, <1>2, <1>3, <1>4, <1>5 DEF Next

-----------------------------------------------------------------------------
(* The requests are requests.                                              *)
RequestsTyped ==
    /\ pending \subseteq PendingRequest
    /\ serving \in PendingRequest \cup {None}

LEMMA CommandTyped ==
    ASSUME NEW r \in PendingRequest
    PROVE  /\ r.client \in Clients /\ r.call \in 1 .. CallsMax
           /\ r.command \in Commandlines
           /\ r.command.op \in {"enable", "disable", "pause", "resume", "start", "stop"}
                => r.command.service \in Services
           /\ r.command.op = "enable" => r.command.config \in Configs
BY DEF PendingRequest, Commandlines

(* Every step of the system is a step of the daemon or leaves it alone.    *)
LEMMA SystemStepIsDaemonStep ==
    RequestsTyped /\ [SystemNext]_systemVars => [Next]_vars
<1> SUFFICES ASSUME RequestsTyped, SystemNext
             PROVE  Next \/ UNCHANGED vars
  BY DEF systemVars, vars
<1>1. CASE \E k \in Clients : Invoke(k) \/ GiveUp(k)
  BY <1>1 DEF Invoke, GiveUp
<1>2. ASSUME NEW r \in pending, Receive(r)
      PROVE  Request
  <2>1. Perform(r.command) \/ TurnAway(r.command)
    BY <1>2 DEF Receive
  <2>2. r \in PendingRequest
    BY <1>2 DEF RequestsTyped
  <2>3. CASE Perform(r.command)
    BY <2>2, <2>3, CommandTyped DEF Perform, Request
  <2>4. CASE TurnAway(r.command)
    BY <2>2, <2>4, CommandTyped DEF TurnAway, Request
  <2> QED
    BY <2>1, <2>3, <2>4
<1>3. CASE \E r \in pending : Receive(r) \/ ReceiveGarbled(r)
  BY <1>2, <1>3 DEF ReceiveGarbled, Next
<1>4. CASE Answer \/ SeeEmpty \/ NextTurn \/ PeriodicTurn
  BY <1>4 DEF Answer, SeeEmpty, NextTurn, PeriodicTurn, Serve, Next
<1>5. CASE Handle \/ EndPass \/ AbortPeriodic
  BY <1>5 DEF Handle, EndPass, AbortPeriodic, Serve, Pass, Next
<1>6. CASE \/ Killed \/ StartDaemon \/ Elapse
           \/ Environment /\ UNCHANGED clientVars
  BY <1>6 DEF Killed, StartDaemon, Elapse, Next
<1> QED
  BY <1>1, <1>3, <1>4, <1>5, <1>6 DEF SystemNext, Thread

-----------------------------------------------------------------------------
(* The calls, the requests they have left behind, and what is being served *)
(* fit together.                                                           *)
CallsTyped ==
    /\ calls \in [Clients -> Seq(0 .. 3 \cup {None})]
    /\ \A k \in Clients : Len(calls[k]) <= CallsMax

Outstanding == (pending \cup {serving}) \ {None}

ServingMatches ==
    /\ serving = None <=> cmd = NoCommand
    /\ serving # None => errorKind \in {"Internal", "InvalidInput"}

\* A request acts at most once: it waits or is served, and it is the only
\* one of its call.
RequestsUnique ==
    /\ serving \notin pending
    /\ \A q, r \in Outstanding : q.client = r.client /\ q.call = r.call => q = r

CallOfRequest(r) ==
    /\ r.call \in 1 .. Len(calls[r.client])
    /\ calls[r.client][r.call] \in {None, ExitCode.NotAvailable}

CallsLinger == \A r \in Outstanding : CallOfRequest(r)

ClientsInv == /\ CallsTyped /\ RequestsTyped /\ ThreadInv /\ ServingMatches
              /\ RequestsUnique /\ CallsLinger

\* What a step may do to the calls: extend one by an outcome, or give the
\* outcome of one that waits.
LEMMA CallAdded ==
    ASSUME CallsTyped, NEW k \in Clients, NEW e \in 0 .. 3 \cup {None},
           Len(calls[k]) < CallsMax,
           calls' = [calls EXCEPT ![k] = Append(@, e)]
    PROVE  /\ CallsTyped'
           /\ \A r \in PendingRequest : CallOfRequest(r) => CallOfRequest(r)'
           /\ Len(calls'[k]) = Len(calls[k]) + 1
           /\ calls'[k][Len(calls'[k])] = e
<1> DEFINE Outcomes == 0 .. 3 \cup {None}
<1>1. calls[k] \in Seq(Outcomes)
  BY DEF CallsTyped
<1>2. calls' = [calls EXCEPT ![k] = Append(calls[k], e)] /\ e \in Outcomes
  OBVIOUS
<1>3. /\ Append(calls[k], e) \in Seq(Outcomes)
      /\ Len(Append(calls[k], e)) = Len(calls[k]) + 1
      /\ \A i \in 1 .. Len(calls[k]) : Append(calls[k], e)[i] = calls[k][i]
      /\ Append(calls[k], e)[Len(calls[k]) + 1] = e
  BY <1>1, <1>2, AppendProperties
<1>4. \A c \in Clients : calls[c] \in Seq(Outcomes) /\ Len(calls[c]) \in Nat
  BY DEF CallsTyped
<1>5. calls' \in [Clients -> Seq(Outcomes)]
  BY <1>2, <1>3 DEF CallsTyped
<1>6. \A c \in Clients : Len(calls'[c]) <= CallsMax
  BY <1>2, <1>3, <1>4 DEF CallsTyped
<1>7. \A r \in PendingRequest : CallOfRequest(r) => CallOfRequest(r)'
  BY <1>2, <1>3, <1>4, CommandTyped DEF CallOfRequest, CallsTyped
<1> QED
  BY <1>2, <1>3, <1>5, <1>6, <1>7 DEF CallsTyped

LEMMA CallEnded ==
    ASSUME CallsTyped, NEW k \in Clients, NEW i \in 1 .. Len(calls[k]),
           NEW e \in 0 .. 3, calls' = [calls EXCEPT ![k][i] = e]
    PROVE  /\ CallsTyped'
           /\ \A r \in PendingRequest :
                 CallOfRequest(r) /\ ~(r.client = k /\ r.call = i) => CallOfRequest(r)'
           /\ e = ExitCode.NotAvailable =>
                 \A r \in PendingRequest : CallOfRequest(r) => CallOfRequest(r)'
<1> DEFINE Outcomes == 0 .. 3 \cup {None}
           ended == [calls[k] EXCEPT ![i] = e]
<1>1. calls[k] \in Seq(Outcomes) /\ e \in Outcomes
  BY DEF CallsTyped
<1>2. calls' = [calls EXCEPT ![k] = ended]
  OBVIOUS
<1>3. /\ ended \in Seq(Outcomes) /\ Len(ended) = Len(calls[k])
      /\ \A j \in 1 .. Len(calls[k]) : ended[j] = IF j = i THEN e ELSE calls[k][j]
  BY <1>1, ExceptSeq
<1> HIDE DEF ended
<1>4. calls' \in [Clients -> Seq(Outcomes)]
  BY <1>2, <1>3 DEF CallsTyped
<1>5. \A c \in Clients : Len(calls'[c]) = Len(calls[c])
  BY <1>2, <1>3 DEF CallsTyped
<1>6. \A r \in PendingRequest :
         /\ CallOfRequest(r) /\ ~(r.client = k /\ r.call = i) => CallOfRequest(r)'
         /\ CallOfRequest(r) /\ e = ExitCode.NotAvailable => CallOfRequest(r)'
  <2> TAKE r \in PendingRequest
  <2>1. r.client \in Clients
    BY CommandTyped
  <2>2. CASE r.client = k
    BY <1>2, <1>3, <1>5, <2>1, <2>2 DEF CallOfRequest, CallsTyped
  <2>3. CASE r.client # k
    BY <1>2, <1>5, <2>1, <2>3 DEF CallOfRequest, CallsTyped
  <2> QED
    BY <2>2, <2>3
<1> QED
  BY <1>4, <1>5, <1>6 DEF CallsTyped

-----------------------------------------------------------------------------
LEMMA ClientsInit == SystemInit => ClientsInv
BY DEF SystemInit, Init, ClientsInv, CallsTyped, RequestsTyped, ThreadInv,
       ServingMatches, RequestsUnique, CallsLinger, Outstanding

LEMMA InvokeStep ==
    ASSUME ClientsInv, NEW k \in Clients, Invoke(k)
    PROVE  ClientsInv'
<1> USE DEF ClientsInv
<1>1. UNCHANGED <<pc, cmd, serving, errorKind>>
  BY DEF Invoke, vars
<1>2. ThreadInv' /\ ServingMatches'
  BY <1>1 DEF ThreadInv, ServingMatches
<1>3. \A r \in Outstanding : r \in PendingRequest
  BY DEF Outstanding, RequestsTyped
<1>4. CASE \E exit \in 0 .. 3 : EndsWith(k, exit)
  <2>1. PICK exit \in 0 .. 3 : EndsWith(k, exit)
    BY <1>4
  <2>2. UNCHANGED <<pending, Outstanding>>
    BY <1>1, <2>1 DEF EndsWith, Outstanding
  <2>3. /\ CallsTyped'
        /\ \A r \in PendingRequest : CallOfRequest(r) => CallOfRequest(r)'
    BY <2>1, CallAdded DEF EndsWith, Invoke
  <2>4. CallsLinger'
    BY <1>3, <2>2, <2>3 DEF CallsLinger
  <2> QED
    BY <1>1, <1>2, <2>2, <2>3, <2>4 DEF RequestsTyped, RequestsUnique
<1>5. ASSUME NEW command \in ClientCommands, NEW settings,
             Sends(k, command, settings)
      PROVE  ClientsInv'
  <2>1. Sends(k, command, settings)
    BY <1>5
  <2>2. Len(calls[k]) < CallsMax /\ calls' = [calls EXCEPT ![k] = Append(@, None)]
    BY <2>1 DEF Sends, Invoke
  <2>3. /\ CallsTyped'
        /\ \A r \in PendingRequest : CallOfRequest(r) => CallOfRequest(r)'
        /\ Len(calls'[k]) = Len(calls[k]) + 1
        /\ calls'[k][Len(calls'[k])] = None
    BY <2>2, CallAdded
  <2>4. Len(calls[k]) \in Nat
    BY DEF CallsTyped
  <2>5. PICK new \in PendingRequest :
               new = [client |-> k, call |-> Len(calls'[k]), command |-> command]
    <3>1. Len(calls'[k]) \in 1 .. CallsMax
      BY <2>2, <2>3, <2>4
    <3>2. [client |-> k, call |-> Len(calls'[k]), command |-> command] \in PendingRequest
      BY <3>1 DEF PendingRequest
    <3> QED
      BY <3>2
  <2>6. CallOfRequest(new)'
    BY <2>3, <2>4, <2>5 DEF CallOfRequest
  <2>7. \A r \in Outstanding : ~(r.client = k /\ r.call = new.call)
    BY <2>3, <2>4, <2>5 DEF CallsLinger, CallOfRequest
  <2>8. pending' = pending \/ pending' = pending \cup {new}
    BY <2>1, <2>5 DEF Sends
  <2>9. Outstanding' \subseteq Outstanding \cup {new}
    BY <1>1, <2>8 DEF Outstanding
  <2>10. CallsLinger'
    BY <1>3, <2>3, <2>6, <2>9 DEF CallsLinger
  <2>11. new.client = k /\ new # None
    BY <2>5
  <2>12. serving # new
    BY <2>5, <2>7, <2>11 DEF Outstanding
  <2>13. RequestsUnique'
    BY <1>1, <2>7, <2>8, <2>9, <2>11, <2>12 DEF RequestsUnique
  <2>14. RequestsTyped'
    BY <1>1, <2>5, <2>8 DEF RequestsTyped
  <2> QED
    BY <1>2, <2>3, <2>10, <2>13, <2>14
<1> QED
  BY <1>4, <1>5 DEF Invoke, ExitCode

LEMMA GiveUpStep ==
    ASSUME ClientsInv, NEW k \in Clients, GiveUp(k)
    PROVE  ClientsInv'
<1> USE DEF ClientsInv
<1>1. UNCHANGED <<pc, cmd, serving, errorKind>> /\ pending' \subseteq pending
  BY DEF GiveUp, vars
<1>2. calls[k] \in Seq(0 .. 3 \cup {None}) /\ calls[k] # <<>>
  BY DEF GiveUp, Waiting, CallsTyped
<1>3. Len(calls[k]) \in 1 .. Len(calls[k])
  BY <1>2, EmptySeq
<1>4. calls' = [calls EXCEPT ![k][Len(calls[k])] = 3]
  BY DEF GiveUp, ExitCode
<1>5. /\ CallsTyped'
      /\ \A r \in PendingRequest : CallOfRequest(r) => CallOfRequest(r)'
  <2>1. 3 \in 0 .. 3 /\ ExitCode.NotAvailable = 3
    BY DEF ExitCode
  <2> QED
    BY <1>3, <1>4, <2>1, CallEnded
<1>6. Outstanding' \subseteq Outstanding
  BY <1>1 DEF Outstanding
<1> QED
  BY <1>1, <1>5, <1>6
     DEF ThreadInv, ServingMatches, RequestsTyped, RequestsUnique, CallsLinger,
         Outstanding

LEMMA ReceiveStep ==
    ASSUME ClientsInv, NEW r \in pending, Receive(r)
    PROVE  ClientsInv'
<1> USE DEF ClientsInv
<1>1. r \in PendingRequest /\ r # None
  BY DEF RequestsTyped
<1>2. /\ serving' = r /\ pending' = pending \ {r} /\ calls' = calls
      /\ errorKind' \in {"Internal", "InvalidInput"}
  BY DEF Receive, Take
<1>3. cmd' # NoCommand
  <2>1. ASSUME NEW s \in Services, NEW op \in AllCommands, NEW spec, NEW resets,
               Commit(op, s, spec, resets)
        PROVE  cmd' # NoCommand
    BY <2>1, CommandsAreSome DEF Commit
  <2>2. CASE Perform(r.command)
    <3>1. CASE Enable(r.command.service, r.command.config) /\ r.command.op = "enable"
      BY <1>1, <2>1, <3>1, CommandTyped DEF Enable, AllCommands
    <3>2. CASE Disable(r.command.service) /\ r.command.op = "disable"
      BY <1>1, <2>1, <3>2, CommandTyped DEF Disable, AllCommands
    <3>3. CASE Pause(r.command.service) /\ r.command.op = "pause"
      BY <1>1, <2>1, <3>3, CommandTyped DEF Pause, AllCommands
    <3>4. CASE Resume(r.command.service) /\ r.command.op = "resume"
      BY <1>1, <2>1, <3>4, CommandTyped DEF Resume, AllCommands
    <3>5. CASE Start(r.command.service) /\ r.command.op = "start"
      BY <1>1, <2>1, <3>5, CommandTyped DEF Start, AllCommands
    <3>6. CASE \/ StopRequest(r.command.service) /\ r.command.op = "stop"
               \/ Query \/ Reconcile \/ Shutdown
      BY <1>1, <3>6, CommandTyped, CommandsAreSome
         DEF StopRequest, Query, Reconcile, Shutdown, AllCommands
    <3> QED
      BY <2>2, <3>1, <3>2, <3>3, <3>4, <3>5, <3>6 DEF Perform
  <2>3. CASE TurnAway(r.command)
    BY <1>1, <2>3, CommandTyped, CommandsAreSome
       DEF TurnAway, Reject, Refuse, AllCommands
  <2> QED
    BY <2>2, <2>3 DEF Receive
<1>4. ServingMatches'
  BY <1>1, <1>2, <1>3 DEF ServingMatches
<1>5. ThreadInv'
  <2>1. [Next]_vars
    BY SystemStepIsDaemonStep DEF SystemNext, Thread
  <2> QED
    BY <2>1, ThreadStep
<1>6. Outstanding' \subseteq Outstanding
  BY <1>2 DEF Outstanding
<1>7. RequestsUnique'
  BY <1>2, <1>6 DEF RequestsUnique
<1>8. CallsLinger'
  BY <1>2, <1>6 DEF CallsLinger, CallOfRequest
<1> QED
  BY <1>1, <1>2, <1>4, <1>5, <1>7, <1>8 DEF CallsTyped, RequestsTyped

LEMMA AnswerStep ==
    ASSUME ClientsInv, Answer
    PROVE  ClientsInv'
<1> USE DEF ClientsInv
<1>1. /\ pc \in {"accepted", "refused"} /\ pc' = "drain" /\ cmd' = NoCommand
      /\ serving' = None /\ pending' = pending
  BY DEF Answer, Reply
<1>2. /\ serving # None /\ serving \in PendingRequest
      /\ errorKind \in {"Internal", "InvalidInput"}
  BY <1>1 DEF ThreadInv, ServingMatches, RequestsTyped
<1>3. CallOfRequest(serving)
  BY <1>2 DEF CallsLinger, Outstanding
<1>4. ExitOf(serving) \in 0 .. 3
  BY <1>2 DEF ExitOf, ExitCode
<1>5. /\ CallsTyped'
      /\ \A r \in PendingRequest :
            /\ CallOfRequest(r)
            /\ ~(r.client = serving.client /\ r.call = serving.call)
            => CallOfRequest(r)'
  <2>1. CASE calls' = calls
    BY <2>1 DEF CallsTyped, CallOfRequest
  <2>2. CASE calls' = [calls EXCEPT ![serving.client][serving.call] = ExitOf(serving)]
    <3>1. serving.client \in Clients
      BY <1>2, CommandTyped
    <3>2. serving.call \in 1 .. Len(calls[serving.client])
      BY <1>3 DEF CallOfRequest
    <3> QED
      BY <1>4, <2>2, <3>1, <3>2, CallEnded
  <2> QED
    BY <2>1, <2>2 DEF Answer
<1>6. \A r \in Outstanding' :
         /\ r \in Outstanding /\ r \in PendingRequest
         /\ ~(r.client = serving.client /\ r.call = serving.call)
  BY <1>1, <1>2 DEF Outstanding, RequestsUnique, RequestsTyped
<1>7. CallsLinger'
  BY <1>5, <1>6 DEF CallsLinger
<1>8. None \notin pending
  BY DEF RequestsTyped
<1> QED
  BY <1>1, <1>5, <1>6, <1>7, <1>8
     DEF ThreadInv, ServingMatches, RequestsTyped, RequestsUnique

\* The other steps leave the calls alone, and add no request.
LEMMA OtherStep ==
    ASSUME ClientsInv, ThreadInv', calls' = calls,
           \/ UNCHANGED requests /\ (cmd' = NoCommand <=> cmd = NoCommand)
           \/ LoseRequests /\ cmd' = NoCommand
    PROVE  ClientsInv'
BY DEF ClientsInv, requests, LoseRequests, CallsTyped, RequestsTyped, ServingMatches,
       RequestsUnique, CallsLinger, CallOfRequest, Outstanding

LEMMA ClientsStep == ClientsInv /\ [SystemNext]_systemVars => ClientsInv'
<1> SUFFICES ASSUME ClientsInv, [SystemNext]_systemVars
             PROVE  ClientsInv'
  OBVIOUS
<1>1. ThreadInv'
  BY SystemStepIsDaemonStep, ThreadStep DEF ClientsInv
<1>2. CASE \E k \in Clients : Invoke(k) \/ GiveUp(k)
  BY <1>2, InvokeStep, GiveUpStep
<1>3. CASE \E r \in pending : Receive(r) \/ ReceiveGarbled(r)
  <2>1. ASSUME NEW r \in pending, ReceiveGarbled(r)
        PROVE  ClientsInv'
    BY <1>1, <2>1, OtherStep DEF ReceiveGarbled, LoseRequests, Crash, GoDown
  <2> QED
    BY <1>3, <2>1, ReceiveStep
<1>4. CASE Answer
  BY <1>4, AnswerStep
<1>5. CASE SeeEmpty \/ NextTurn \/ PeriodicTurn \/ Killed \/ StartDaemon \/ Elapse
  BY <1>1, <1>5, OtherStep
     DEF SeeEmpty, NextTurn, PeriodicTurn, Killed, StartDaemon, Elapse, vars,
         clientVars, requests, LoseRequests, LeaveLoop, Crash, GoDown, Periodic, Restart
<1>6. CASE Handle
  BY <1>1, <1>6, OtherStep
     DEF Handle, StopNow, Probe, LeaveAlone, SpawnRecorder, SpawnFails, StopRecorder,
         PassAborts, NextService, clientVars, requests
<1>7. CASE EndPass \/ AbortPeriodic
  BY <1>1, <1>7, OtherStep
     DEF EndPass, AbortPeriodic, PassDone, DaemonAborts, GoDown, LoseRequests,
         clientVars, requests
<1>8. CASE Environment /\ UNCHANGED clientVars
  BY <1>1, <1>8, OtherStep
     DEF Environment, RecorderUp, RecorderExits, RetryTimeComes, WindowEnds,
         daemonVars, clientVars, requests
<1>9. CASE UNCHANGED systemVars
  BY <1>1, <1>9, OtherStep DEF systemVars, vars, clientVars, requests
<1> QED
  BY <1>2, <1>3, <1>4, <1>5, <1>6, <1>7, <1>8, <1>9 DEF SystemNext, Thread

LEMMA ClientsInvariant == SystemSpec => []ClientsInv
BY ClientsInit, ClientsStep, PTL DEF SystemSpec

-----------------------------------------------------------------------------
(* The daemon with its clients behaves as the daemon of Daemon does on its *)
(* own: its loop and the requests of run (daemon.rs) add no behaviour.     *)
THEOREM SystemIsDaemon == SystemSpec => Spec
<1>1. SystemInit => Init
  BY DEF SystemInit
<1>2. ClientsInv /\ [SystemNext]_systemVars => [Next]_vars
  BY SystemStepIsDaemonStep DEF ClientsInv
<1> QED
  BY <1>1, <1>2, ClientsInvariant, PTL DEF SystemSpec, Spec

(* Whatever clients call, time out and call again, what one of them was    *)
(* told is in place is in the desired-state file (ORCH-002, save before    *)
(* the reply), if every start can read that file.                          *)
THEOREM SystemDurability ==
    ASSUME FileIsRead
    PROVE  SystemSpec => []Durability
BY SystemIsDaemon, AcknowledgedIsDurable, PTL

(* A request of a call that ended with 0, 1 or 2 acts no more; only one    *)
(* that timed out in send_request (client.rs) may still be outstanding.    *)
THEOREM OnlyTimeoutsStayOutstanding == SystemSpec => []OnlyTimeoutsLinger
<1>1. ClientsInv => OnlyTimeoutsLinger
  BY DEF ClientsInv, CallsLinger, CallOfRequest, Outstanding, OnlyTimeoutsLinger
<1> QED
  BY <1>1, ClientsInvariant, PTL

-----------------------------------------------------------------------------
(* While a refusal with exit code 2 is due, nothing has changed since the  *)
(* request was taken.                                                      *)
RefusedUntouched ==
    serving # None /\ errorKind = "InvalidInput"
       => pc = "refused" /\ mem = found.mem /\ disk = found.disk

LEMMA RefusedStep ==
    ClientsInv /\ RefusedUntouched /\ [SystemNext]_systemVars => RefusedUntouched'
<1> SUFFICES ASSUME ClientsInv, RefusedUntouched, [SystemNext]_systemVars
             PROVE  RefusedUntouched'
  OBVIOUS
<1> USE DEF RefusedUntouched
<1>1. CASE \E k \in Clients : Invoke(k) \/ GiveUp(k)
  BY <1>1 DEF Invoke, GiveUp, vars
<1>2. CASE \E r \in pending : Receive(r)
  <2>1. PICK r \in pending : Receive(r)
    BY <1>2
  <2>2. CASE errorKind' # "InvalidInput"
    BY <2>2
  <2>3. CASE TurnAway(r.command)
    BY <2>1, <2>3 DEF TurnAway, Reject, Refuse, Receive
  <2> QED
    BY <2>1, <2>2, <2>3 DEF Receive
<1>3. CASE \/ \E r \in pending : ReceiveGarbled(r)
           \/ Answer \/ AbortPeriodic \/ Killed
  BY <1>3 DEF ReceiveGarbled, LoseRequests, Answer, AbortPeriodic, Killed
<1>4. CASE SeeEmpty \/ NextTurn \/ PeriodicTurn \/ StartDaemon \/ Elapse
  BY <1>4 DEF SeeEmpty, NextTurn, PeriodicTurn, StartDaemon, Elapse, vars, clientVars,
              requests, LoseRequests, Periodic, Restart
<1>5. CASE Handle
  BY <1>5 DEF Handle, StopNow, Probe, LeaveAlone, SpawnRecorder, SpawnFails,
              StopRecorder, PassAborts, ToolFails, MustStart, clientVars, requests
<1>6. CASE EndPass
  BY <1>6 DEF EndPass, PassDone, LoseRequests, clientVars, requests
<1>7. CASE Environment /\ UNCHANGED clientVars
  BY <1>7 DEF Environment, RecorderUp, RecorderExits, RetryTimeComes, WindowEnds,
              daemonVars, clientVars, requests
<1>8. CASE UNCHANGED systemVars
  BY <1>8 DEF systemVars, vars, clientVars, requests
<1> QED
  BY <1>1, <1>2, <1>3, <1>4, <1>5, <1>6, <1>7, <1>8 DEF SystemNext, Thread

(* A command that ends with exit code 2 (ORCH-008) has changed neither the *)
(* desired state in memory nor the file.                                   *)
THEOREM InputErrorsAreHarmless == SystemSpec => []InputErrorsChangeNothing
<1>1. SystemInit => RefusedUntouched
  BY DEF SystemInit, RefusedUntouched
<1>2. ClientsInv /\ RefusedUntouched => InputErrorsChangeNothing
  BY DEF ClientsInv, RefusedUntouched, ThreadInv, ServingMatches,
         InputErrorsChangeNothing
<1> QED
  BY <1>1, <1>2, RefusedStep, ClientsInvariant, PTL DEF SystemSpec

-----------------------------------------------------------------------------
(* From the moment a request is taken, what it asks for is done unless it  *)
(* is refused.                                                             *)
DoneUnlessRefused ==
    serving # None /\ pc # "refused" => DoneAsAsked(serving.command)

\* A commit that is saved puts the spec in place, and nothing else.
LEMMA CommitPutsInPlace ==
    ASSUME TypeInv, NEW op, NEW s \in Services, NEW spec, NEW resets,
           Commit(op, s, spec, resets), pc' # "refused"
    PROVE  /\ disk' = mem' /\ disk'[s] = spec
           /\ \A t \in Services \ {s} : mem'[t] = mem[t]
BY DEF TypeInv, TypeOK, DesiredState, Commit, SaveSucceeds

LEMMA ReceivedIsDone ==
    ASSUME TypeInv, ClientsInv, NEW r \in pending, Receive(r), pc' # "refused"
    PROVE  DoneAsAsked(r.command)'
<1>0. PICK c : c = r.command
  OBVIOUS
<1> DEFINE s == c.service
<1>1. /\ c.op \in {"enable", "disable", "pause", "resume", "start", "stop"}
           => s \in Services
      /\ c.op = "enable" => c.config \in Configs
  BY <1>0, CommandTyped DEF ClientsInv, RequestsTyped
<1>2. found' = [mem |-> mem, disk |-> disk]
  BY DEF Receive
<1>3. Perform(c)
  BY <1>0 DEF Receive, TurnAway, Reject, Refuse
<1>4. \A t \in Services : mem[t] = NoSpec \/ mem[t] \in ServiceSpec
  BY DEF TypeInv, TypeOK, DesiredState
<1> SUFFICES DoneAsAsked(c)'
  BY <1>0
<1>5. ASSUME NEW spec, NEW resets, Commit(c.op, s, spec, resets), c.op \in Changing,
             Done(c, mem[s], spec)
      PROVE  DoneAsAsked(c)'
  <2>1. /\ disk' = mem' /\ disk'[s] = spec
        /\ \A t \in Services \ {s} : mem'[t] = mem[t]
    BY <1>1, <1>5, CommitPutsInPlace DEF Changing
  <2>2. found'.mem = mem
    BY <1>2
  <2> QED
    BY <1>5, <2>1, <2>2 DEF DoneAsAsked
<1>6. CASE c.op = "enable" /\ Enable(s, c.config)
  <2>1. EnabledSpec(s, c.config) # NoSpec
    <3>1. mem \in DesiredState /\ Valid(mem[s]) /\ c.config \in ValidConfigs
      BY <1>1, <1>6 DEF TypeInv, TypeOK, Valid, Enable
    <3> QED
      BY <1>1, <1>6, <3>1, SpecTypes, SentinelsAssumption
  <2>2. Done(c, mem[s], EnabledSpec(s, c.config))
    BY <1>6, <2>1 DEF Done, EnabledSpec
  <2> QED
    <3>1. PICK spec : spec = EnabledSpec(s, c.config)
      OBVIOUS
    <3>2. Commit(c.op, s, spec, TRUE) /\ c.op \in Changing
      BY <1>6, <3>1 DEF Enable, Changing
    <3> QED
      BY <1>5, <2>2, <3>1, <3>2
<1>7. CASE c.op = "disable" /\ Disable(s)
  <2>1. Done(c, mem[s], DisabledSpec(s))
    BY <1>1, <1>4, <1>7, SentinelsAssumption DEF Done, DisabledSpec, ServiceSpec
  <2> QED
    <3>1. PICK spec : spec = DisabledSpec(s)
      OBVIOUS
    <3>2. Commit(c.op, s, spec, FALSE) /\ c.op \in Changing
      BY <1>7, <3>1 DEF Disable, Changing
    <3> QED
      BY <1>5, <2>1, <3>1, <3>2
<1>8. CASE c.op = "pause" /\ Pause(s)
  <2>1. mem[s] \in ServiceSpec
    BY <1>1, <1>4, <1>8 DEF Pause
  <2>2. Done(c, mem[s], [mem[s] EXCEPT !.paused = TRUE])
    BY <1>8, <2>1, SentinelsAssumption DEF Done, ServiceSpec
  <2> QED
    <3>1. PICK spec : spec = [mem[s] EXCEPT !.paused = TRUE]
      OBVIOUS
    <3>2. Commit(c.op, s, spec, FALSE) /\ c.op \in Changing
      BY <1>8, <3>1 DEF Pause, Changing
    <3> QED
      BY <1>5, <2>2, <3>1, <3>2
<1>9. CASE c.op = "resume" /\ Resume(s)
  <2>1. mem[s] \in ServiceSpec
    BY <1>1, <1>4, <1>9 DEF Resume
  <2>2. Done(c, mem[s], [mem[s] EXCEPT !.paused = FALSE])
    BY <1>9, <2>1, SentinelsAssumption DEF Done, ServiceSpec
  <2> QED
    <3>1. PICK spec : spec = [mem[s] EXCEPT !.paused = FALSE]
      OBVIOUS
    <3>2. Commit(c.op, s, spec, TRUE) /\ c.op \in Changing
      BY <1>9, <3>1 DEF Resume, Changing
    <3> QED
      BY <1>5, <2>2, <3>1, <3>2
<1>10. CASE c.op = "start" /\ Start(s)
  <2>1. mem[s] \in ServiceSpec
    BY <1>1, <1>4, <1>10 DEF Start
  <2>2. Done(c, mem[s], [mem[s] EXCEPT !.enabled = TRUE, !.paused = FALSE])
    BY <1>10, <2>1, SentinelsAssumption DEF Done, ServiceSpec
  <2> QED
    <3>1. PICK spec : spec = [mem[s] EXCEPT !.enabled = TRUE, !.paused = FALSE]
      OBVIOUS
    <3>2. Commit(c.op, s, spec, TRUE) /\ c.op \in Changing
      BY <1>10, <3>1 DEF Start, Changing
    <3> QED
      BY <1>5, <2>2, <3>1, <3>2
<1>11. CASE \/ c.op = "stop" /\ StopRequest(s)
            \/ c.op = "query" /\ Query
            \/ c.op = "reconcile" /\ Reconcile
            \/ c.op = "shutdown" /\ Shutdown
  BY <1>2, <1>11
     DEF StopRequest, Query, Reconcile, Shutdown, DoneAsAsked, Changing
<1> QED
  BY <1>3, <1>6, <1>7, <1>8, <1>9, <1>10, <1>11 DEF Perform

LEMMA DoneStep ==
    ASSUME TypeInv, ClientsInv, DoneUnlessRefused, [SystemNext]_systemVars
    PROVE  DoneUnlessRefused'
<1>1. ASSUME UNCHANGED <<mem, disk, serving, found>>, pc = "refused" => pc' = "refused"
      PROVE  DoneUnlessRefused'
  BY <1>1 DEF DoneUnlessRefused, DoneAsAsked
<1>2. ASSUME serving' = None
      PROVE  DoneUnlessRefused'
  BY <1>2 DEF DoneUnlessRefused
<1>3. CASE \E k \in Clients : Invoke(k) \/ GiveUp(k)
  BY <1>1, <1>3 DEF Invoke, GiveUp, vars
<1>4. ASSUME NEW r \in pending, Receive(r)
      PROVE  DoneUnlessRefused'
  <2>1. serving' = r
    BY <1>4 DEF Receive
  <2> QED
    BY <1>4, <2>1, ReceivedIsDone DEF DoneUnlessRefused
<1>5. CASE \/ \E r \in pending : ReceiveGarbled(r)
           \/ Answer \/ AbortPeriodic \/ Killed
  BY <1>2, <1>5 DEF ReceiveGarbled, LoseRequests, Answer, AbortPeriodic, Killed
<1>6. CASE SeeEmpty \/ NextTurn \/ PeriodicTurn \/ Elapse
  BY <1>1, <1>2, <1>6
     DEF SeeEmpty, NextTurn, PeriodicTurn, Elapse, vars, clientVars, requests,
         LoseRequests, Periodic
<1>7. CASE StartDaemon
  BY <1>2, <1>7 DEF StartDaemon, Restart, requests, ClientsInv, ThreadInv,
                    ServingMatches
<1>8. CASE Handle
  BY <1>1, <1>8
     DEF Handle, StopNow, Probe, LeaveAlone, SpawnRecorder, SpawnFails, StopRecorder,
         PassAborts, NextService, MustStart, clientVars, requests
<1>9. CASE EndPass
  <2>1. CASE pc' = "down"
    BY <1>2, <1>9, <2>1 DEF EndPass, LoseRequests
  <2>2. CASE pc' # "down"
    BY <1>1, <1>9, <2>2 DEF EndPass, PassDone, GoDown, clientVars, requests
  <2> QED
    BY <2>1, <2>2
<1>10. CASE (Environment /\ UNCHANGED clientVars) \/ UNCHANGED systemVars
  BY <1>1, <1>10
     DEF Environment, RecorderUp, RecorderExits, RetryTimeComes, WindowEnds,
         daemonVars, systemVars, vars, clientVars, requests
<1> QED
  BY <1>3, <1>4, <1>5, <1>6, <1>7, <1>8, <1>9, <1>10 DEF SystemNext, Thread

(* A command that ends with exit code 0 is in the desired-state file, done *)
(* to the service it names on top of what the daemon had in memory, and    *)
(* nothing beside it has changed: saves, passes and clients that give up   *)
(* in between do not come in its way.                                      *)
THEOREM AcceptedIsDone == SystemSpec => []ExitZeroIsDone
<1>1. SystemInit => DoneUnlessRefused
  BY DEF SystemInit, DoneUnlessRefused
<1>2. ClientsInv /\ DoneUnlessRefused => ExitZeroIsDone
  BY DEF ClientsInv, ThreadInv, ServingMatches, DoneUnlessRefused, ExitZeroIsDone
<1>3. SystemSpec => []TypeInv
  BY SystemIsDaemon, TypeInit, TypeStep, PTL DEF Spec
<1> QED
  BY <1>1, <1>2, <1>3, DoneStep, ClientsInvariant, PTL DEF SystemSpec

-----------------------------------------------------------------------------
(* Of the calls of a client only the last may still wait.                  *)
LastWaits ==
    \A k \in Clients : \A i \in 1 .. Len(calls[k]) - 1 : calls[k][i] # None

LoopTyped ==
    /\ turn \in {"draining", "drained"} /\ elapsed \in BOOLEAN
    /\ errorKind \in {"Internal", "InvalidInput", None}

LEMMA LastWaitsStep ==
    ASSUME CallsTyped, LastWaits, NEW k \in Clients,
           \/ \E e \in 0 .. 3 \cup {None} :
                 ~Waiting(k) /\ calls' = [calls EXCEPT ![k] = Append(@, e)]
           \/ \E i \in 1 .. Len(calls[k]), e \in 0 .. 3 :
                 calls' = [calls EXCEPT ![k][i] = e]
    PROVE  LastWaits'
<1> DEFINE Outcomes == 0 .. 3 \cup {None}
           Ended(s) == \A i \in 1 .. Len(s) - 1 : s[i] # None
<1>1. \A c \in Clients : calls[c] \in Seq(Outcomes) /\ Ended(calls[c])
  BY DEF CallsTyped, LastWaits
<1>2. calls[k] \in Seq(Outcomes) /\ Len(calls[k]) \in Nat
  BY <1>1
<1>3. ASSUME NEW new \in Seq(Outcomes), Ended(new), calls' = [calls EXCEPT ![k] = new]
      PROVE  LastWaits'
  BY <1>1, <1>3 DEF CallsTyped, LastWaits
<1>4. ASSUME NEW e \in Outcomes, ~Waiting(k), calls' = [calls EXCEPT ![k] = Append(@, e)]
      PROVE  LastWaits'
  <2> DEFINE new == Append(calls[k], e)
  <2>1. /\ new \in Seq(Outcomes) /\ Len(new) = Len(calls[k]) + 1
        /\ \A i \in 1 .. Len(calls[k]) : new[i] = calls[k][i]
    BY <1>2, AppendProperties
  <2>2. calls[k] = <<>> \/ calls[k][Len(calls[k])] # None
    BY <1>4 DEF Waiting
  <2>3. ASSUME NEW i \in 1 .. Len(calls[k])
        PROVE  calls[k][i] # None
    <3>1. CASE i = Len(calls[k])
      BY <1>2, <2>2, <3>1
    <3>2. CASE i # Len(calls[k])
      <4>1. i \in 1 .. Len(calls[k]) - 1
        BY <1>2, <3>2
      <4> QED
        BY <1>1, <4>1
    <3> QED
      BY <3>1, <3>2
  <2> HIDE DEF new
  <2>4. Ended(new)
    BY <1>2, <2>1, <2>3
  <2>5. calls' = [calls EXCEPT ![k] = new]
    BY <1>4 DEF new
  <2> QED
    BY <1>3, <2>1, <2>4, <2>5
<1>5. ASSUME NEW i \in 1 .. Len(calls[k]), NEW e \in 0 .. 3,
             calls' = [calls EXCEPT ![k][i] = e]
      PROVE  LastWaits'
  <2> DEFINE new == [calls[k] EXCEPT ![i] = e]
  <2>1. /\ new \in Seq(Outcomes) /\ Len(new) = Len(calls[k])
        /\ \A j \in 1 .. Len(calls[k]) : new[j] = IF j = i THEN e ELSE calls[k][j]
    BY <1>2, ExceptSeq
  <2>2. e # None
    BY SystemAssumption
  <2> HIDE DEF new
  <2>3. Ended(new)
    BY <1>1, <1>2, <2>1, <2>2
  <2>4. calls' = [calls EXCEPT ![k] = new]
    BY <1>5 DEF new
  <2> QED
    BY <1>3, <2>1, <2>3, <2>4
<1> QED
  BY <1>4, <1>5

LEMMA CallsStep ==
    ASSUME ClientsInv, LastWaits, LoopTyped, [SystemNext]_systemVars
    PROVE  LastWaits' /\ LoopTyped'
<1>0. CallsTyped
  BY DEF ClientsInv
<1>1. ASSUME NEW k \in Clients, Invoke(k)
      PROVE  LastWaits' /\ LoopTyped'
  <2>1. /\ ~Waiting(k)
        /\ \E e \in 0 .. 3 \cup {None} : calls' = [calls EXCEPT ![k] = Append(@, e)]
    BY <1>1 DEF Invoke, EndsWith, Sends, ExitCode
  <2> QED
    BY <1>0, <1>1, <2>1, LastWaitsStep DEF Invoke, LoopTyped
<1>2. ASSUME NEW k \in Clients, GiveUp(k)
      PROVE  LastWaits' /\ LoopTyped'
  <2>1. calls[k] \in Seq(0 .. 3 \cup {None}) /\ calls[k] # <<>>
    BY <1>0, <1>2 DEF GiveUp, Waiting, CallsTyped
  <2>2. Len(calls[k]) \in 1 .. Len(calls[k])
    BY <2>1, EmptySeq
  <2>3. calls' = [calls EXCEPT ![k][Len(calls[k])] = 3]
    BY <1>2 DEF GiveUp, ExitCode
  <2>4. \E i \in 1 .. Len(calls[k]), e \in 0 .. 3 :
           calls' = [calls EXCEPT ![k][i] = e]
    <3>1. 3 \in 0 .. 3
      OBVIOUS
    <3> QED
      BY <2>2, <2>3, <3>1
  <2>5. LastWaits'
    BY <1>0, <2>4, LastWaitsStep
  <2> QED
    BY <1>2, <2>5 DEF GiveUp, LoopTyped
<1>3. CASE Answer
  <2>1. /\ pc \in {"accepted", "refused"}
        /\ turn' = turn /\ elapsed' = elapsed /\ errorKind' = None
    BY <1>3 DEF Answer, Reply
  <2>2. /\ serving # None /\ serving \in PendingRequest
        /\ errorKind \in {"Internal", "InvalidInput"}
    BY <2>1 DEF ClientsInv, ThreadInv, ServingMatches, RequestsTyped
  <2>3. CASE calls' = calls
    BY <2>1, <2>3 DEF LastWaits, LoopTyped
  <2>4. CASE calls' = [calls EXCEPT ![serving.client][serving.call] = ExitOf(serving)]
    <3>1. serving.client \in Clients /\ ExitOf(serving) \in 0 .. 3
      BY <2>2, CommandTyped DEF ExitOf, ExitCode
    <3>2. serving.call \in 1 .. Len(calls[serving.client])
      BY <2>2 DEF ClientsInv, CallsLinger, CallOfRequest, Outstanding
    <3> QED
      BY <1>0, <2>1, <2>4, <3>1, <3>2, LastWaitsStep DEF LoopTyped
  <2> QED
    BY <1>3, <2>3, <2>4 DEF Answer
<1>4. ASSUME calls' = calls, turn' \in {turn, "draining", "drained"},
             elapsed' \in {elapsed, TRUE, FALSE},
             errorKind' \in {errorKind, "Internal", "InvalidInput", None}
      PROVE  LastWaits' /\ LoopTyped'
  <2>1. elapsed' \in BOOLEAN
    BY <1>4 DEF LoopTyped
  <2> QED
    BY <1>4, <2>1 DEF LastWaits, LoopTyped
<1>5. CASE \/ \E r \in pending : Receive(r) \/ ReceiveGarbled(r)
           \/ SeeEmpty \/ NextTurn \/ PeriodicTurn \/ Killed \/ StartDaemon \/ Elapse
  BY <1>4, <1>5 DEF Receive, ReceiveGarbled, SeeEmpty, NextTurn, PeriodicTurn, Killed,
                    StartDaemon, Elapse, LoseRequests, clientVars, requests
<1>6. CASE \/ Handle \/ EndPass \/ AbortPeriodic
           \/ (Environment /\ UNCHANGED clientVars) \/ UNCHANGED systemVars
  BY <1>4, <1>6 DEF Handle, EndPass, AbortPeriodic, LoseRequests, clientVars, requests,
                    systemVars
<1> QED
  BY <1>1, <1>2, <1>3, <1>5, <1>6 DEF SystemNext, Thread

(* Every variable of the clients and of the loop always has its type, the  *)
(* daemon is in a handler exactly while it serves a request, and only the  *)
(* last call of a client may wait.                                         *)
THEOREM SystemTypeCorrect == SystemSpec => []SystemTypeOK
<1> DEFINE Inv == ClientsInv /\ LastWaits /\ LoopTyped
<1>1. SystemInit => Inv
  <2> SUFFICES ASSUME SystemInit
               PROVE  Inv
    OBVIOUS
  <2>1. LastWaits
    <3>1. \A k \in Clients : calls[k] = <<>>
      BY DEF SystemInit
    <3>2. Len(<<>>) = 0 /\ 1 .. 0 - 1 = {}
      OBVIOUS
    <3> QED
      BY <3>1, <3>2 DEF LastWaits
  <2>2. LoopTyped
    BY DEF SystemInit, LoopTyped
  <2> QED
    BY <2>1, <2>2, ClientsInit
<1>2. Inv /\ [SystemNext]_systemVars => Inv'
  BY ClientsStep, CallsStep
<1>3. Inv => SystemTypeOK
  <2> SUFFICES ASSUME Inv
               PROVE  SystemTypeOK
    OBVIOUS
  <2>1. ASSUME NEW k \in Clients, NEW i \in 1 .. Len(calls[k])
        PROVE  calls[k][i] \in 0 .. 3 \cup {None}
    BY DEF ClientsInv, CallsTyped
  <2>2. (serving = None <=> cmd = NoCommand) /\ elapsed \in BOOLEAN
    BY DEF ClientsInv, ServingMatches, LoopTyped
  <2> QED
    BY <2>1, <2>2 DEF ClientsInv, CallsTyped, RequestsTyped, LastWaits, LoopTyped,
                      SystemTypeOK
<1> QED
  BY <1>1, <1>2, <1>3, PTL DEF SystemSpec
=============================================================================
