# A TLA+ model of log-archive-orchestrator

`iox2-log-orchestrator serve` is a daemon that keeps a set of `iox2-log-recorder`
processes in line with a desired state. Clients send it commands over an
iceoryx2 request/response service; it keeps the desired state in memory and in
a TOML file, and reconciles it with the recorders after the commands that change
it and periodically. This directory models that daemon in TLA+, checks it
with TLC on small instances and proves its main invariants with TLAPS.

Paths below are relative to the repository; requirement names (ORCH-n, DF-n) are
those of `docs/design/log-archive-orchestrator-plan.md`.

## 1. Inventory

| Component | State | Operations | What makes it correct |
|---|---|---|---|
| `src/daemon.rs` loop | `should_shutdown`, time of the last pass | drain requests, periodic pass, reply, end | every request is answered; a pass runs now and then |
| `src/daemon.rs` handlers | `state: DesiredState` | enable, disable, pause, resume, start, stop, status, list, reconcile, daemon-status, shutdown | what is acknowledged is durable; idempotence; generation identifies a configuration |
| `src/daemon.rs` `reconcile_once` | `retry: BTreeMap<_, RetryTracker>` | probe, skip, spawn, stop, per service in name order | wanted services come up, unwanted go down, none is doubled |
| `src/model.rs` `RetryTracker`, `BackoffConfig` | attempts, degraded, two instants | observe, attempt, reset, compute_delay | bounded retries, given up in time, recovery starts afresh |
| `src/state.rs` | the desired-state file, its temporary file | load_or_default, save | all or nothing; a save that succeeded survives; a start goes by it |
| `src/control.rs` | none (runs `iox2-log-control`) | status, stop | three outcomes: available, not available, error |
| `src/worker.rs` | none (spawns `iox2-log-recorder`) | recorder_args, spawn_recorder | command line determined by the spec |
| `src/client.rs`, `src/command.rs`, `src/cli.rs` | a pending response and a deadline | send_request, run | one answer or a timeout |
| `src/config.rs` | none | resolve | precedence CLI > env > file > default |
| `src/control_api.rs`, `src/error.rs`, `src/format.rs` | none | envelopes, exit codes, formats | pure mappings |

**How they interact.** One thread runs the daemon. It takes a request from the
queue, and the handler runs to its end before the next request is taken: changes
`state` in memory, calls `save`, possibly `reset_retry_state`, then
`reconcile_once`, then the reply is sent. `reconcile_once` runs the control tool
as a child process for each service and waits for it, then spawns or stops. When
the queue is empty and the interval has elapsed the loop runs the same pass by
itself. Recorders are processes of their own: they come up some time after they
were spawned, exit on their own, and outlive the daemon.

**What is hard here.** Recorders change between the probe and what follows it,
and between two passes; a save may fail before or after it took effect, with the
change left in memory; the control tool's failure aborts a pass in its middle,
and aborts the daemon when the pass was periodic; the daemon may be killed
anywhere and its successor knows only the file; the retry state is a small
automaton of four fields that three handlers write, driven by time; `save` is
seven system calls with a possible loss of power between any two; and a start that
cannot examine the path of the file takes it for missing (`state.rs:23`).
`PROJECT.json` lists each hazard at its line.

## 2. Modules

| Module | Models |
|---|---|
| `Tracker` | the retry state of one service, with the instants replaced by the answers a pass gets from them |
| `Daemon` | the daemon, its desired state in memory and on disk, the pass, the recorders; Init, one action per handler or per call whose outcome the daemon cannot foresee, Next, Spec, FairSpec |
| `DaemonProperties` | what the daemon promises |
| `DaemonProofs` | theorems about Daemon, checked by TLAPS |
| `ReconcileProofs` | theorems about Daemon while some faults do not occur: what identifies a configuration, what an accepted command leaves behind |
| `Lifecycle` | what Daemon amounts to without its loop, pass, retries and probes: what a command may make of a service, when it is acknowledged, for which services recorders start and end, what a new daemon goes by |
| `RefinementProofs` | theorems about Daemon: it implements Lifecycle, and its trackers implement RetryFlags |
| `MCDaemon` | Daemon for TLC, with its symmetry |
| `System` | the daemon of Daemon with clients: invocations of the command line, requests on their way, the loop of `run`, answers and exit codes |
| `SystemProofs` | theorems about System: it is the daemon of Daemon, and what exit codes mean |
| `MCSystem` | System for TLC |
| `Config` | `resolve`: a setting from the command line, the environment, the file or its default |
| `StateStore` | `save` as its system calls, and `load_or_default` at a start, on a file system with I/O errors, crashes and losses of power, the directory that `save` makes included |
| `AtomicStore` | what StateStore promises of a start and of a save; StateStore implements it |
| `StateStoreProofs` | theorems about StateStore: never torn, durable once the directory lasts, and the refinement |
| `TimedRetry` | `compute_delay`, and the part of the pass, of the commands, of `build_health` and of the daemon's end and start that concerns one service, on a clock |
| `RetryFlags` | one tracker of `Tracker` with what passes, commands and time do to it; TimedRetry and each tracker of Daemon implement it |
| `TimedRetryProofs` | theorems about Config and TimedRetry: precedence of the settings, bounds of delays, attempts and degradation, and the refinement of RetryFlags |
| `MCTimedRetry` | TimedRetry for TLC |

The modules rest on each other as follows. Daemon uses the operators of Tracker
on every service. That replacing instants by flags loses no behaviour is checked:
TimedRetry, with the flags computed from its instants, implements RetryFlags
(checked, and proved for delays of at least one unit), and so does each tracker
inside Daemon (`TrackersAreFlags`, checked and proved): RetryFlags is where the two
meet, and a tracker that Daemon drives in a way that TimedRetry does not know would
fail one of the two.
Daemon itself implements Lifecycle (`ImplementsLifecycle`, checked and proved),
which is the promise to an operator on one page.
Daemon takes `save` as one step that writes the file or fails with or without
having written it; that the sequence of system calls amounts to this is what
StateStore against AtomicStore checks. System puts clients beside Daemon: each of
its steps is an action of Daemon together with what it does to the requests, or a
step of a client that leaves the daemon alone, and that the result is a behaviour
of Daemon is checked (`ImplementsDaemon`, fairness included) and proved
(`SystemIsDaemon`, without it). The settings that `serve` and the clients run with
come from Config: TimedRetry takes the backoff from it, System the name of the
control service.

### How Daemon corresponds to the code

`pc` is where the thread is: `down` (no process), `drain` (in the loop of `run`,
between requests), `probe` and `act` (in `reconcile_once`, before and after the
`status` call for the current service), `stop` (in the `stop` handler, after its
probe), `accepted` and `refused` (a handler has returned, the reply is not sent
yet). `cmd` is the request being served; it is empty in a periodic pass, which is
how an error of the pass is a reply in one case and the end of the daemon in the
other. `todo` is what is left of the iteration over the BTreeMap: services are
numbers in name order. `mem` is `Daemon::state`, `disk` the file, `retry` the
trackers, `procs` the recorder processes of the host by pid.

`promise` is the one variable that is not the program's: for each service the
spec that the last answered command put in place, `Open` from the moment a
command on it changes the state until it is accepted. It is what "a client was
told" means in `Durability`.

`Commit` is the common part of the handlers that change the state: new spec in
memory, then save. If the save succeeds the retry state is reset where the code
resets it and the pass begins; if it fails, with the file written or not, the
error is returned, the spec stays in memory, and the retry state is not reset.

A ServiceSpec keeps `enabled`, `paused` and `generation`; every other field is
one value `config`, as the code never looks at one of them alone. Of a spec only
the config reaches the command line of a recorder (`worker.rs:31`); the
generation that `procs` keeps beside it, that of the spec the command line was
built from, is for the properties, and no action looks at it. A probe is about
the service, not a process: it succeeds when some recorder of the service
answers.

`Faults` names what may go wrong, so that a run can say under which faults a
property holds: `save`, `tool` (control tool cannot be run, or its answer not
parsed), `probe` (a live recorder does not answer in time), `stop`, `spawn`,
`slow_start`, `exit`, `crash`, and `stat`: a daemon that starts cannot examine the
path of its file, takes it for missing and goes by an empty desired state, with the
file as it was. The next command that is saved then replaces all that the file has.
Nothing that relates the file to what clients were told holds with that fault, nor
does Lifecycle; the theorems and runs about them say so (`FileIsRead`, which is
`"stat" \notin Faults`).

### How Lifecycle corresponds to the code

`stored` is the file and `workers` the recorders without their phase. `intent`
is what a daemon goes by: `mem` while there is one, and what its successor will
load, the file, while there is none. So a crash, a `tool` error in a periodic
pass and an accepted shutdown are all `FallBack`: what was not stored is
forgotten. `told` is `promise`, and `stopping` the service that a client's
`stop` is being served for. A handler that changes the state is one `Command`
whether its save fails or not, its reply is `Acknowledge`, a spawn
`StartWorker`, a recorder that exits or is stopped `EndWorkers`; probes,
decisions, refusals, queries and time are stutters. Lifecycle therefore says
what no invariant of Daemon says on its own: that a recorder is only ever
started for a service that is enabled and not paused, with what is intended at
that moment; that a recorder of such a service ends only while a client's `stop`
of it is being served, or by itself (`MayEnd`; the run `settled`, in which
recorders do not exit, leaves only the first); that a command moves the spec of
its own service only, as one of three kinds of change; that it is acknowledged
once, and only if stored.

### How System corresponds to the code

A call of the command line (`run` in `command.rs`) ends at once without a command
(exit code 2) or with settings that do not resolve (1); otherwise its request goes
to whoever serves the control service that the settings name, and it waits for
the answer until its deadline (3). `calls` holds the exit codes, `pending` the
requests that the daemon has not taken, `serving` the one it is in.

The loop of `run` is `turn`: it drains requests until it finds none (`SeeEmpty`),
then runs a pass if the interval has elapsed (`PeriodicTurn`, `EndPass`), and only
then looks at `should_shutdown` (`NextTurn`, `EndPass`). A request that does not
parse ends the daemon (`ReceiveGarbled`), as does an error of the control tool in
a pass that the loop runs (`AbortPeriodic`), an error of the transport while a
request is received or an answer loaned or sent, and a kill (`Killed`); the requests
that wait end with it.

The transport is external and assumed to keep no order between invocations, to
lose what no daemon has taken when the daemon ends, and to be free to deliver or
to drop the request of a client that has given up.

### How StateStore corresponds to the code

`pc` is the next system call of `save`, one action for each: the directory made
(`create_dir_all`), the temporary file created, written and fsynced, renamed, the
file opened again and fsynced, its directory fsynced. `path` is the file that the
state path names, `kept` those that it may name after a loss of power, `directory`
whether the directory is there and whether it would outlive one: `save` does not
fsync the directory in which it makes it (`state.rs:38`), so that until the file
system writes it back it may be lost with the file in it, after a save that
succeeded. A daemon starts with `Load`, or with `LoadUnseen`: `Path::exists` is
false whenever the path cannot be examined (`state.rs:23`). AtomicStore has both
(`lasting`, `Unseen`): what the last successful save stored is what a start goes by,
if the directory lasts and the path can be examined.

### How TimedRetry corresponds to the code

`pc` is in a pass, before or after the service of the tracker, or between passes, or
`down`;
`passStart` is the `now` that `reconcile_once` reads when it starts, `now` the
real clock, which runs on while other services are probed. Each branch of the pass
is an action: `Recover`, `StopUnwanted`, `StopFails` (the control tool cannot be run
for the stop, which ends the pass before the reason is written), `Skip`, `Attempt`
with its four outcomes (spawned or not, in the window or not), and `Panic`: `clamp`
panics when `initial_ms` exceeds `max_ms`, which nothing in `config.rs` rules out. A
pass of a command that the tool ends before it reaches the service is `PassAborted`.
A factor that is not a number is accepted (`config.rs:101`), survives `clamp` and is
a delay of 0 as an integer (`Base`). The daemon may be killed (`Crash`) and starts
again (`Serve`) with what the file has (`stored`), or with nothing where it cannot
examine the path.

A command that makes the service wanted resets the tracker only if its save
succeeds (`Reset`). If it fails (`ResetUnsaved`: `daemon.rs:264`, `:320` and `:339`
return before the reset), the service is wanted in memory with the failures that it
had when it was disabled, however long ago that was; `resumed` is the instant of
such a command. `reason` and
`lastError` are what `status` and `list` report, of the messages only whether they
are about a probe or a spawn.

The definitions introduced by a comment `Seeded bug` are variants of the
definition they precede, each as a plausible mistake would leave it. No action
refers to them; put in the place of the definition they make a property fail
(`PROJECT.json`, `mutants`), which shows that the property is sensitive to it.

## 3. Runs

Passing:

| Run | Question | Distinct states |
|---|---|---|
| `settled` | Two services, saves, spawns and tool calls that fail, crashes: is what was acknowledged on disk; does an accepted command mean that both services are reconciled; no duplicates where recorders answer from their spawn on; every step is one of Lifecycle, with recorders that end only when told to | 1.2 million |
| `identity` | One service, every command and refusal, an invalid configuration, every fault but `save` and `stat`: type correctness, coherent trackers, service and generation identify a configuration, recorders accounted for by the file, the generation moves only with the configuration; services go from configuration to configuration as in Lifecycle, trackers move as in RetryFlags | 185 thousand |
| `converges` | Fair scheduling, slow starters, failing spawns and stops, exits, kills, starts that do not see the file: up or degraded, down, every request answered | 8.1 thousand |
| `store` | An I/O error, a crash or a loss of power between any two system calls, a directory made and not yet durable, a start that cannot examine the path: never torn, durable, implements AtomicStore | 9.8 thousand |
| `timed_retry` | Retry policy on a clock, passes that take time or end early, saves that fail, kills and restarts, settings from every source: configured as documented, given up in time, starts bounded and spaced, the reported reason fits, implements RetryFlags | 1.8 million |
| `system` | Two clients with any command, an unresolvable setting, a daemon elsewhere; failing saves, tool, stops, spawns, restarts: only calls that timed out linger, refused input changes nothing, exit code 0 means done, a shutdown ends the daemon, what clients were told comes true, the loop implements Daemon with its fairness | 115 thousand |

`WordIsKept` is the end-to-end promise: the service of which the last word to a
client was that it is enabled comes up or degrades, again and again, and that of
which it was that it is disabled or paused goes down, across restarts and calls
that time out, and without any further call.

`ExitZeroIsDone` is its safety half: when a call is about to end with 0, the file
has what the command asks for, on top of what the daemon had in memory when it took
the request, and no other service has changed. With failing saves this is less than
it seems: what the daemon had in memory may include a change that another client was
told had failed, and the next command that is accepted, on any service, writes it.

`NoDuplicates` holds in `settled` because recorders there answer from their spawn on
and no probe of a live one is lost; it guards the gate before a spawn, across saves
and passes that fail. What happens to a recorder that is still starting is
`duplicate`, below.

Disagreements between documents and code, each a run that TLC must find violated:

| Run | The document says | The code does |
|---|---|---|
| `duplicate` | ORCH-005: reconcile must not duplicate running workers | a recorder still starting when its retry time arrives gets a second one (`daemon.rs:509`) |
| `reconfigure` | `serve` is the authority for desired-vs-actual convergence | a running recorder is never replaced when its configuration changes (`daemon.rs:493`) |
| `degraded` | runbook: use `resume`, `start` or `reconcile` after a repair | a pass never starts a degraded service (`daemon.rs:498`) |
| `unsaved` | ORCH-009: worker commands come from the persisted configuration | after a failed save the pass uses what is only in memory (`daemon.rs:264`) |
| `unreported` | runbook: when a service is degraded, inspect `last_error` | `status` probes the service first and overwrites the error of the spawn with that of the probe (`daemon.rs:436`), as every pass does (`daemon.rs:489`) |
| `bare` | `--state-path state.toml` | the parent of a bare name is the empty path, which cannot be opened: every save is an error, after the rename (`state.rs:79`) |

**Bounds.** `ImplementsLifecycle` is checked twice: in `settled` with two
services and failing saves, in `identity` with two configurations and every
other fault; the proof covers both at once. `ExitZeroIsDone` is checked with one
service, so that its part about the others rests on the proof. `stat` is a fault
of `converges`, `store` and `timed_retry` only, since what `settled`, `identity`
and `system` ask presupposes that a start reads the file (`FileIsRead`; for
`WordIsKept`, a start without it would break the word at once). Two services are
needed where one service's pass or save affects another (`settled`); the other
runs have one, since nothing in the code relates three. `GenMax` stands for
`u64::MAX`; 2 or 3 make the saturation happen after every kind of change.
`AttemptsMax` stands for `u32::MAX`; beyond zero and not zero the count matters
only for the delay, which TimedRetry keeps with two attempts, enough for the
delay to reach its clamp and the counter to saturate before the window ends. Two
pids allow a duplicate, and a host that has no process left. Two valid
configurations allow a change and a change back, a third is invalid. `identity`
leaves out failing saves because `GenerationIdentifies` and
`RecordersArePersisted` do not hold with them. In `store` there are three
desired states, the empty one, the last saved and the one being saved, and the
directory of the file is there or not at first. In `timed_retry` one unit is any
unit of time: delays from 2, clamped to 2 or 3 or, where a source sets it so, to
less than the first delay, a factor that is not a number, jitter of 20%, a
window of 2, passes at most 1 apart and at most 1 late on each side of the
service, and a horizon of 11, one instant past the latest degradation. `Horizon`
cuts behaviours off. The bound of `SpawnsSpaced` is exact: it is violated one
unit tighter. That of `DegradesInTime` is violated two units lower; one unit of
it is the difference between a retry time that is ahead of the pass and one that
has come, which vanishes where the unit is small. In `system` each of two
clients makes one call, of sixteen; a client that calls again after a timeout is
the second one, since the daemon does not know clients apart. `CallsMax` cuts
behaviours off. Symmetry (pids, valid configurations) is used in the two runs
that check safety only, and action properties that compare a service with
itself.

**Fairness.** FairSpec has weak fairness of the daemon's thread: nothing in it
waits but for the control tool, whose end is assumed; of recorders coming up; and
strong fairness of the passage of time, which Daemon lets act between passes only.
A stop that is tried for ever works now and then (`StopSucceeds`): without it a
recorder that cannot be stopped is never stopped, which is nobody's promise.

Periodic is strongly fair in Daemon (`LoopIsFair`): the loop is assumed to find
its queue empty, with the interval elapsed, again and again. System shows when
that is so: it gives the thread as a whole and the interval weak fairness,
clients and faults none, and `ImplementsDaemon` states that the loop then has
`LoopIsFair`, if clients make finitely many calls. Against clients who call
without a pause the code does not give it: the inner loop drains the queue
before it looks at the interval, and at `should_shutdown` (`daemon.rs:112`). Nor
is anything owed by a daemon that is killed again and again: `ImplementsDaemon`
asks for `LoopIsFair` only if the daemon is not down infinitely often.

RepairedSpec adds that a spawn that is tried for ever succeeds now and then; it is
what makes the violation of the runbook in `degraded` one of the code and not of a
spawn that always fails.

## 4. Proofs

`DaemonProofs` proves, for all constants that satisfy the assumptions in Daemon
and Tracker (any number of services, configurations, pids, any `GenMax`, any set
of faults and commands), where a condition in the table is a hypothesis of the
theorem:

| Theorem | States |
|---|---|
| `TypeCorrect` | `Spec => []TypeOK`, with no invalid spec ever held or saved |
| `TrackersStayCoherent` | `Spec => []TrackersCoherent` |
| `AcknowledgedIsDurable` | `Spec => []Durability`, if `FileIsRead` |
| `GenerationMonotonic` | `Spec => GenerationNeverGoesBack`, if `FileIsRead`: with failing saves and any number of services, which no run has together, hence proved only |
| `RecordersStayPersisted` | `Spec => []RecordersArePersisted`, if `FileIsRead` and `"save" \notin Faults` |

`RefinementProofs` proves, for the same constants:

| Theorem | States |
|---|---|
| `DaemonRefinesLifecycle` | `Spec => ImplementsLifecycle`, if `FileIsRead` |
| `DaemonTrackersAreFlags` | `Spec => TrackersAreFlags` |

`StateStoreProofs` proves, for any set of desired states and any faults, bare
names, directories that are lost and starts that do not see the file included:

| Theorem | States |
|---|---|
| `FileNeverTorn` | `Spec => []NeverTorn` |
| `StoredStaysDurable` | `Spec => []StoredIsDurable`: from the moment that the directory lasts, what the last successful save stored is all that the path may hold |
| `StoreTypeCorrect` | `Spec => []TypeOK` |
| `StoreRefines` | `Spec => ImplementsAtomicStore` |
| `HealthySavesSucceed` | `Spec => []HealthySaves`, if `~BareName`: the failure of `bare` is of bare names alone |

`SystemProofs` proves, for any number of clients and of calls, any commands and
any settings:

| Theorem | States |
|---|---|
| `SystemIsDaemon` | `SystemSpec => Spec`: every theorem about Daemon holds of the system |
| `SystemTypeCorrect` | `SystemSpec => []SystemTypeOK` |
| `SystemDurability` | `SystemSpec => []Durability`, from it, if `FileIsRead` |
| `OnlyTimeoutsStayOutstanding` | `SystemSpec => []OnlyTimeoutsLinger` |
| `InputErrorsAreHarmless` | `SystemSpec => []InputErrorsChangeNothing` |
| `AcceptedIsDone` | `SystemSpec => []ExitZeroIsDone` |

`ReconcileProofs` proves, for all constants that satisfy the assumptions in Daemon
and Tracker, where `Obedient` says that none of `slow_start`, `probe`, `exit` and
`stop` is in `Faults`:

| Theorem | States |
|---|---|
| `GenerationIsIdentity` | `Spec => []GenerationIdentifies`, if `FileIsRead` and `"save" \notin Faults` |
| `GenerationIsOfConfig` | `Spec => GenerationMovesWithConfig`, if `FileIsRead` and `"save" \notin Faults` |
| `AcceptedHasReconciled` | `Spec => []AcceptedIsSettled`, if `Obedient` |

`TimedRetryProofs` proves, for any sources of settings that are numbers, any delays
that `initial_ms`, factor and attempt call for, and any `PassGap` and `PassTime`:

| Theorem | States |
|---|---|
| `SettingsHavePrecedence` | what `resolve` returns has, setting by setting, the value of the first source that sets it |
| `TimedTypeCorrect` | `Spec => []TypeOK` |
| `RetriesAsConfigured` | `Spec => []AsConfigured` |
| `ReasonAlwaysFits` | `Spec => []ReasonFits` |
| `AttemptsStayBounded` | `Spec => []AttemptsBounded` |
| `GivenUpInTime` | `Spec => []DegradesInTime`: from the first failure, or from the unsaved command that resumed the service with its old failures |
| `SpawnsStaySpaced` | `Spec => SpawnsSpaced` |
| `TimedRefinesFlags` | `Spec => ImplementsFlags`, if `initial_ms` is at least 1 in every source (`DelaysArePositive`) |

**The argument for types.** `TypeOK` is inductive but for the iteration: the pass
picks `Current`, the least service of `todo`, so that the proof needs that a set
of numbers that is not empty has a least element (`LeastExists`, from the
well-foundedness of `<` on the naturals), and that the operators of Tracker
keep its type and its coherence (`TrackerOperations`).

**The argument for durability.** Durability is not inductive: a save writes all of
`mem`, so a promise on one service could be broken by the save of another. The
strengthening `StoreInv` in `DaemonProofs` adds three facts. While a promise
stands, memory agrees with it, so that a save of another service cannot undo it.
From the success of a save to the reply, the file has the spec of the command's
service, which is what the reply promises. And memory never lags behind the file:
where the file has a service, memory has it with a generation at least as high,
unless the daemon is down, and that is what makes the file's generation monotonic
even when a failed save is carried to the file by the next one.

**The argument for the recorders.** Without failing saves memory and file agree
whenever the daemon is up. A recorder is therefore spawned with the generation
the file has, and the file's generation only grows.

**The argument for the store.** Every file that the state path may name after a
loss of power has been fsynced before the rename, hence is not torn. While the
last save counts as successful, all of them hold what it stored; the first system
call of the next save that can change this is its rename, and `acked` is `None`
from its beginning. Under the same invariant the contents that a start may find
are those of the kept files, so that each system call is a step of AtomicStore or
leaves its variables alone: the rename lets the save take effect, the fsync of the
directory is its success, a loss of power picks one of the kept files. The files say
nothing while the directory may be lost; `StoreInv` adds that a file is only where
its directory is, and that a directory that is lost leaves the empty state, which
AtomicStore counts among the possible ones until the directory lasts.

**The argument for the system.** That a step of System is a step of Daemon needs
only that requests are well-formed. `OnlyTimeoutsLinger` is not inductive: an answer
ends the call of the request being served, and could end that of a second request
of the same call. `ClientsInv` adds that a request is the only one of its call, which
needs that a new call is later than every call that left a request behind, and that
the daemon is in a handler exactly while there is a request in `serving`, which in
turn needs where the thread may be (`ThreadInv`).

**The argument for exit code 0.** The property speaks of one state, between the
return of a handler and the reply. It is not inductive, since a pass with all its
probes, spawns and stops lies between the save and that state; `DoneUnlessRefused`
states it from the moment a request is taken until it is answered, for requests that
are not refused. `Receive` establishes it: a commit whose save succeeds puts one spec
in place (`CommitPutsInPlace`), and each handler's spec is what its command asks for;
one whose save fails is refused at once. What lies between changes neither memory nor
the file, and a request that is refused stays so.

**The argument for the life of a service.** The initial states map by definition.
A step needs to know where the thread is and what was promised: that a command which
changes the state opens the promise on its service and so is acknowledged once
(`ServedIsOpen`, on the way from `Commit` to `Reply`), that it has one target
(`OneTarget`), and that `StopNow` is only reached if clients do send `stop`
(`StopIsAsked`), which is what lets a recorder of an active service end. That
an acknowledgement finds the spec stored is `CommittedIsSaved`, of the durability
proof. Each handler's spec is one of the three kinds of change (`HandlersFollow`),
with the specs of `TypeInv`. Four kinds of step touch recorders: a spawn
(`SpawnRefines`), stops (`StopsRefine`, with the pass that stops a recorder and then
fails), an exit (`ExitRefines`), and the end of the daemon, which takes memory back
to the file (`GoDownRefines`); all others leave the abstract variables alone
(`OthersStayStill`).

**The argument for the trackers inside Daemon.** Each action of Daemon applies to the
tracker of one service an operator of Tracker, a reset, or nothing, or gives every
service a new tracker (`TrackersAreOperated`); each of these is a step of RetryFlags
(`OperatedIsFlags`). The one that needs care is an attempt, which RetryFlags allows
only of a tracker that is not degraded and whose retry time has come: it rests on
`MustStart`, the gate in front of both outcomes of a spawn.

**The argument for identity.** A command either keeps the configuration and the
generation of its service or changes the first and counts the second up by one
(`Moves`, which holds of every handler: `HandlersMove`). `GenerationIdentifies` is
not inductive: a recorder that was spawned three configurations ago must not meet
its generation again. `RecordersIdentified` adds that a recorder whose generation
is the file's has the file's configuration, and `RecordersArePersisted` that its
generation is never above the file's, so that the next one is new to all
recorders. Without the assumption on saves both fail: a generation that only memory
had is given again after a crash.

**The argument for accepted commands.** `PassInv`: in the middle of a pass the
services that are no longer in `todo` are settled, which becomes the property when
`todo` is empty. That the decision on one service settles it rests on the coherence
of its tracker (a service that may not be attempted has been), on what the probe
found still being so (`AnsweredIsPresent`, and its converse), and on a stop ending
the one recorder there is. The last two are `SingleInv`: every recorder is live, no
two have one service, and between a probe that was not answered and the decision the
service has no recorder, which nothing but the pass can change. That the decision
leaves the others settled is where obedient recorders are needed.

**The argument for the bounds of retries.** The delay lies between `ShortestDelay`
and `LongestDelay` by the monotony of clamp, product and rounding
(`AdjustedMonotone`, `DelayBounds`). The invariant `TimedInv` relates the retry time
to both: it is at least as many shortest delays after the first failure as there
were attempts, and at most one window and one longest delay after it (`Bounds`).
An attempt is the one step that moves it, and it is made only once the retry time
has come, so that both follow for the next one (`AttemptArithmetic`). That a retry
time which has come is not passed over is `Waits`: a pass of a wanted service that
is not degraded either attempts or finds the retry time ahead, so that it is behind
by no more than one pass and one gap; `Clocks` bounds the rest. The first failure is
kept with the attempts and cleared with them (`Fields`). A service that an unsaved
command resumed with its old failures waits until its retry time or until `resumed`,
whichever is later: no pass before that command attempts anything, and none after
it that finds the retry time come leaves it alone. A daemon that ends forgets the
tracker.

**The argument for the tracker without instants.** `Mapped` computes the flags from
the instants and from the instant that a decision goes by (`Clock`: the start of
the pass within one, the present between two). A step that leaves the tracker alone
never takes `Clock` back, so that it is a passage of time (`ElapsesOrStays`); an
attempt finds its retry time come and sets the next one ahead. The last needs a
delay of at least one unit: with `initial_ms = 0` and no jitter a retry is due at
once, a step that RetryFlags, and with it Daemon, does not have.

Only model-checked: liveness, which the prover does not handle, and with it the
fairness of `ImplementsDaemon`; `ShutdownEnds`, `WordIsKept` and the three
promises of `converges` are of this kind; and `NoDuplicates`, whose proof would
only say that without slow starters and lost probes nothing is doubled. Every
other invariant and action property that a passing run checks is proved.
`SystemIsDaemon` carries the theorems about Daemon over to System,
`DaemonRefinesLifecycle` included.

Argued and not checked: that the one step in which Daemon saves is what StateStore
does. The two share no variables. What Daemon leaves out is a loss of power after a
save that failed between its rename and the fsync of the directory: the file that
Daemon takes as written may then be the old one again. AtomicStore has this
(`possible`), and Daemon's client was told of an error, so that no promise is broken.

## 5. Plan

Written: all modules of section 2. What is left, in this order:

1. Daemon over AtomicStore, with losses of power: what was acknowledged is found by
   every daemon that starts and can examine the path, also after the loss of a file
   that a failed save had renamed and not made durable.
2. Exited recorders that are never waited for (`worker.rs:111`), with a limit on
   processes, in Daemon's `procs`.
3. A second daemon on the same state path, as a second saver of StateStore.
4. Clients without end in System, with the starvation of the periodic pass.

## 6. Not modelled

The transport (iceoryx2), the inside of the recorder and of the control tool:
external, only their outcomes appear; a control tool that never ends, against which
the daemon has no limit (`control.rs:50`), is excluded by fairness. Output formats,
messages, the fields of a successful response and the argument list of the recorder:
pure functions without state. `last_heartbeat_at` and the counters of the recorder,
which are only passed on. Files that somebody edits by hand. Two daemons on one
state path, and a state path whose extension is `tmp`, where the temporary file is
the file itself (`state.rs:43`) and the replacement is not atomic.

Noticed, not checked by a run: DF-006 asks for a pass after every command while
`stop` makes none, as the runbook says; jitter is applied after the clamp, so
that a delay may exceed `max_ms` by the jitter (`model.rs:328`), which a unit
test rules out (`model.rs:355`) for a service name whose jitter is negative:
`LongestDelay` accounts for it; a numeric environment variable that does not
parse is an error although the command line overrides it (`config.rs:175`),
where `README.md` gives "CLI > env > config file > defaults"; a first delay
configured above `max_ms` makes the daemon panic at its first attempt
(`model.rs:321`); requests without a pause keep the periodic pass, and a
shutdown, from ever happening (`daemon.rs:112`), where `README.md:12` says that
"Runtime reconcile is periodic and command-triggered"; the deadline of a client
is that of one probe (`command.rs:59`) while its command probes every service,
so that a call may time out whose command succeeds; a generation that a failed
save left in memory is given again to another configuration when the daemon is
killed before the next save, so that DF-003 needs saves that succeed; a start that
cannot examine the state path goes by an empty state, which the next command writes
over the file (`state.rs:23`); a directory that `save` makes may be lost with the
power after the save succeeded (`state.rs:38`); a factor that is not a number makes
every delay after the first 0 when there is no jitter, with which `AttemptsBounded`
and `SpawnsSpaced` promise nothing (`model.rs:319`); an `enable`, `resume` or `start`
whose save fails leaves the service wanted with the failures of before, so that its
next attempt may degrade it at once (`daemon.rs:339`).
