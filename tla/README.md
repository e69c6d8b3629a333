# Verification of PHPeek PM

TLA+ models, TLC runs and TLAPS proofs for PHPeek PM, a process manager that runs as PID 1 in a container:
it starts the configured processes in dependency order, restarts them when they die, checks their health,
scales them, runs scheduled jobs, collects their output, keeps a readiness file, serves a management API with a
terminal UI on top of it, and shuts everything down.

Paths below are relative to the repository; `supervisor.go` and the `manager_*.go` files are in `internal/process/`.

1. The system
2. The modules
3. The runs: questions, bounds, premises, fairness
4. The proofs
5. What was found
6. Where code and words differ, without a run
7. What is left
8. Not modelled, and why

## 1. The system

| component | state | operations | interacts with |
|---|---|---|---|
| Supervisor (`supervisor.go`) | state, context and cancel function, slice of instances, readiness channel; per instance: state, allowRestart, restartCount, doneCh | Start, Stop, ScaleUp, ScaleDown, stopInstance; one monitor goroutine per instance; health handler; metrics goroutine | OS processes, health monitor, Manager (death notifier), oneshot history |
| Restart policy (`restart.go`) | none | ShouldRestart, BackoffDuration | monitor goroutines |
| Health monitor (`healthcheck.go`) | two streak counters, current verdict | one prober goroutine per process | Supervisor through a channel of capacity one |
| Manager (`manager*.go`) | maps of supervisors and configurations, death channel, all-dead channel, shutdown channel | Start, Shutdown, Start/Stop/Restart/ScaleProcess, Add/Remove/Update, Reload | everything |
| Readiness (`internal/readiness`, `manager_readiness.go`) | tracked states, readiness file | polled every second, Stop | Manager |
| Scheduler (`internal/schedule`) | per job: state, current execution, execution mutex, ring buffer history | cron triggers, API triggers, Pause, Resume, RemoveJob, Stop | cron library, OS processes, API request contexts |
| Dependency graph (`internal/deps`, `config.go`) | none | Validate, hasCycle twice, TopologicalSort | Manager, configuration |
| Watcher and main loop (`internal/watcher`, `cmd/phpeek-pm/serve.go`) | time of the last reload, reload channel | debounce; select of signal, all-dead and reload; shutdown | Manager |
| API (`internal/api`), ACL, TLS | visitors and their token buckets; two listeners | one goroutine per request, cleaner, certificate reloader | Manager |
| Process logging (`internal/logger`) | per writer: line buffer, multiline buffer, ring of entries | Write, Flush, GetLogs | copying goroutines of os/exec, API |
| Terminal UI (`internal/tui`) | a model in the Elm style: view, tab, selection, dialog, form, cache | keys, messages, commands | API client |
| Oneshot history | ring buffer by age and size | Record, Complete | monitor goroutines |
| Hooks (`internal/hooks`) | none | retry loop under a context | Manager, stopInstance |
| Zombie reaper (`internal/signals`) | none | `wait4(-1)` every second | every child process |
| Audit, metrics, configuration, autotune, setup, scaffold, tracing, command line | buffers and caches at most | | |

What makes the system hard is, first, the Supervisor: every instance has a goroutine that decides, sleeps in a
backoff and then starts a new process, while API goroutines stop, scale and restart the same instances
under three kinds of lock, none of which is held over a whole operation and a restart together.  Second, time: a
status, a state, a slot or a context is read, and used after a lock was released.  Third, the Manager, which waits
for readiness, for jobs and for processes with its own lock held, while those it waits for may want that lock.

What makes each component correct:

- Supervisor: what was stopped stays stopped; no process is lost; none survives Stop; ids stay unique;
  operations return; a crash is followed by a restart.
- Health monitor: only streaks flip the verdict; kills follow recent verdicts; lasting failures are acted on,
  recovering processes are not.
- Scheduled job: no overlap; a true history; every trigger ends, and so does Stop; the documented state machine.
- Manager: dependencies first; supervisors and configuration agree between operations; a shutdown stops everything
  and, unless a job hangs, ends; an edit of the file takes effect; nothing else waits for ever.
- Readiness: the file exists only while the tracked processes were reported ready.
- Dependency graph: the order respects the edges, and an error has a reason.
- API: nothing forbidden reaches the Manager; an answer can be trusted; Stop waits for requests; the limiter is a
  token bucket for each client.
- Process logging: nothing lost, nothing doubled, entries cut where they should be, errors kept as far as levels and filters let them, the newest shown.
- Terminal UI: views, dialogs, selection and details fit together; what is shown becomes true; forms sent are valid.

`PROJECT.json` lists the hazards at their lines with the properties that cover them, or the reason why none does.

## 2. The modules

| module | models | used by |
|---|---|---|
| `Supervisor` | one Supervisor, its processes, the API goroutines that control it, the all-dead check | `MCSupervisor`, `SupervisorProofs` |
| `HealthMonitor` | the prober, the status channel and the handler of one process | `MCHealthMonitor`, `HealthMonitorProofs` |
| `ScheduledJob` | one scheduled job, its history, its triggers, the Scheduler operations on it | `ScheduledJobProofs` |
| `JobLifecycle` | the state machine the comment on `JobState` draws, as an abstract specification | `ScheduledJob` (refinement) |
| `DepsGraph` | from a configuration to a startup order, step by step | `MCDepsGraph`, `StartupProofs` |
| `Manager` | the Manager over several processes, with main loop, watcher, scheduler and API callers | `MCManager`, `ManagerProofs` |
| `Readiness` | the readiness manager and its poller | `MCReadiness`, `StartupProofs` |
| `TokenBucket` | what rate limiting promises a client, as an abstract specification | `RateLimiter` (refinement) |
| `RateLimiter` | the table of visitors, their buckets, the cleaner | `Api`, `ApiProofs` |
| `Api` | the way of a request to the Manager and back, the life of the two listeners | `MCApi`, `ApiProofs` |
| `ProcessLog` | the output of a process on its way into the log | `MCProcessLog`, `ProcessLogProofs` |
| `Wizard` | the form of the terminal UI, as functions | `Tui` |
| `Tui` | keys, messages, commands and timers of the terminal UI | `MCTui`, `TuiProofs` |

How they fit together:

- `Supervisor` and `HealthMonitor` are two views of the same code.  In `Supervisor` a health check may report
  anything at any moment (`HealthPassed`, `HealthFailed`); in `HealthMonitor` instances exit and come back at any
  moment (`InstanceExits`, `InstanceRestarts`).  Each allows the other everything it may do, so that what
  holds in one holds in the composition.
- `Manager` has for each supervisor what its operations leave behind, several supervisors, and the operations over
  them; `Readiness` lets supervisors change state as they like; `Api` leaves the Manager open: a call lasts as long as
  it likes and ends in any way.  `Tui` leaves the daemon open.
- `Api` is built on `RateLimiter` (EXTENDS) and composes it with the middleware around it; `Tui` is built on `Wizard`.
- `DepsGraph` computes the order that `Manager` follows; `Manager` picks, at each step, a name whose dependencies it
  has handled, which `StartupOrder` of `DepsGraph` justifies, and a configuration without an order is `Broken` there.

### Supervisor

One step is what a goroutine does between two points where another can interfere: a critical section of
`operationMu`, `s.mu` or `inst.mu`, or a blocking call.

| variables | code |
|---|---|
| `supState`, `ctx`, `slots`, `ready`, `cfgScale` | fields of `Supervisor`, and `config.Scale` |
| `istate`, `allow`, `rcount`, `idx` | fields of `Instance`; `idx` is the number in its id |
| `mon`, `seen`, `succ` | the program counter and locals of `monitorInstance` and `attemptRestart` |
| `alive`, `killed`, `pctx` | the operating system: processes, SIGKILLs under way, and by which context a process or a waiting monitor is bound |
| `op`, `stopper` | the operation that holds `operationMu` and its `stopInstance` calls |
| `todo` | what an API goroutine has decided to do and has not yet done: the state is read first and acted on later, as in the code |
| `deathMsgs`, `allDead` | `processDeathCh`, `allDeadCh` |
| `caught` | history: a ScaleDown or a cleanup has had an instance in hand that was about to be restarted |

Actions follow the code: `MonExited` ... `Notify` are the monitor, `StopAsk` ... `StopDone` are `stopInstance`,
`StartBegin` ... `StopEnd` are the four operations, `Request`, `UpdateScaleConfig` and `TopUp` the API goroutines.
Contexts are modelled by what they do: `s.cancel()` kills every process started under the context
(`exec.CommandContext`) and wakes every backoff bound to it; a second Start without a Stop between them
loses the first cancel function ("old").

What is abstracted:

- Time.  A timer may fire at any moment.  Two exceptions, each named in the module: the five seconds Stop
  grants its goroutines run out only when a goroutine is really held up (`Lingers`), and with `slowBackoff`
  (a backoff of a second or more) a backoff does not end while a loop of `exec` calls is going on, nor before
  the monitor that started the instance has put it into its slot.  The configuration `Racing` has no such assumption.
- The exit status is chosen when it is first looked at, and a process that was not killed may be seen
  with either one.  This covers the zombie reaper taking the status first.
- Garbage: `Wipe` resets objects nothing refers to any more, as the collector would.
- A process has no descendants that hold its output pipes, so `cmd.Wait` returns when it exits.
- `NewHealthMonitor` succeeds.  Requests that the code rejects are no steps.

### HealthMonitor

`Check` performs one `performCheck` with either result; counters saturate at their thresholds, beyond which the
code does not tell them apart.  `recent` and `verdicts` are history.  `Receive`, `Kill` and `KillsDone` are one
iteration of `handleHealthStatus`, one instance lock at a time.

### ScheduledJob

A `Run` is the goroutine of one trigger, from cron (`Fire`) or the API (`Trigger`, asynchronous or not).  `Begin` is the
two critical sections at the head of `executeSync`, which follow each other with no step of another run
possible while `executionMu` is held and no effect of Pause distinguishable; `Ends` the return of the executor
with the critical section after it; `Record` is `EndExecution` and the release of the mutex.  `RequestEnds` cancels the
context of an API trigger.  cron is external: it fires at any time until it is stopped, and the context its
Stop returns is done when the goroutines it started are.  `Results` lets a run whose context was cancelled
before it began succeed, which the code does not: more behaviours than the code, never fewer.  Looking a job
up in the Scheduler's map and operating on it is one step.

### DepsGraph

The search of `hasCycle` is a stack of frames, one step per dependency looked at.  It runs twice: over all processes as part of
`Config.Validate`, and over the enabled ones in the graph, after `Validate` of the graph.  Kahn's algorithm follows, one
step per node.  Go visits the keys of a map in any order, and so do `Root` and the choice of a cycle.  A run may also start in the phase "changed",
for an API request changes the processes without the first check.  The reference definitions are a
cycle as a set in which everything depends on a member of it, and an order as what it is to the reader.

### Manager

One actor is the main goroutine: `Start`, the loop of `serve.go`, `Shutdown`, exit.  The others are API goroutines.  `pc` is where each of them is and
`mu` who holds `m.mu` for writing; `sup` are the Supervisor objects, `reg` the map `m.processes`, `config` the map
of configurations, `file` what is on the disk.

What is abstracted: Start and Stop of a supervisor are steps (with a failure where it may fail); an instance that
waits for its restart counts as alive (the difference is in section 6); the all-dead check is one step; Add, Remove and Update
run under the lock and are one step up to where they release it, with the restarts `UpdateProcess` performs after that one by one;
that a scheduled job executes is one flag; hooks are outcomes.  `minor` stands for the fields `Process.Equal` does not compare.

### Readiness

`Read` and `Report` are the two halves of an iteration of the poll: the state is read, and reported later in another critical section.
Supervisors change between them.  A file operation may fail, which is only logged (`SetFile`).  The file survives the program,
so it may be there at the start.

### RateLimiter, TokenBucket and Api

`allow` goes in steps from lock to lock: look-up under the read lock, insertion with the second look-up under the write
lock, `lastSeen` outside any lock, the bucket under its own.  `held` is the local variable `v`, so that a request can hold
a visitor that the cleaner has deleted meanwhile (`lost`).  Ages saturate one above `Idle`.  The one assumption about time is named at
`Tick`: no unit of time passes between a request's stamp and its token.  `TokenBucket` promises one bucket for each client,
and names the exception: while a bucket is full, requests may be lost track of.

A request of `Api` is its verb, path, what its body or query says, and whether token and address are good.  It goes through ACL, limit,
authentication and handler, one step each, makes a call, and answers; the call may take longer than the WriteTimeout.  The listeners start, serve, stop
and start again with the socket file where the last run left it.

### ProcessLog

A line comes in pieces.  `Scan` ... `Swap` are the steps of one `Write`, between which another copying goroutine may run if it has
the same writer, which only scheduled processes allow.  The multiline timeout passes at any moment (`Age`), and is looked
at by the next Write only, as in the code.  What a concurrent write does to the memory of a slice beyond interleaving is not modelled.

### Wizard and Tui

The code is written as functions from a model and a message to a model and a command, and so is the module: `HandleKey`, the message handlers, and a bag
`out` of commands not yet run and messages not yet delivered, in no order.  A text is a sequence of two kinds of characters,
the space and the others, which is what validation and `strings.Fields` tell apart.  Heights are numbers of rows.

`return m, m.executeAction()`, where the method has a pointer receiver, depends on Go evaluating `m` after the call, which
the language does not specify; the tests at `update_test.go:2060-2110` pin it, and the model does as they say.

## 3. The runs

| run | question | distinct states | verdict |
|---|---|---|---|
| `SupSafe` | safety of a Supervisor | 883,231 | holds |
| `SupLive` | do operations return, do crashed instances come back, is the last death noticed | 49,398 | holds |
| `Health` | hysteresis, freshness, detection | 11,136 | holds |
| `Schedule` | no overlap, true history, termination, refinement of `JobLifecycle` | 123,456 | holds |
| `Startup` | cycles, the order, the reasons for a failure | 118,809 | holds |
| `Manager` | agreement, dependencies, shutdown, exit, edits of the file | 48,323 | holds |
| `Readiness` | is the file true to what was reported, and does it become so | 682,572 | holds |
| `Api` | who gets through, are answers true, does Stop wait, refinement of `TokenBucket` | 199,709 | holds |
| `Logs` | is output kept, are entries right, does the ring show the newest | 1,452,241 | holds |
| `Tui` | do views, dialogs and selection fit, are forms valid, do timers end, does what is shown become true | 332,378 | holds |
| `SupGraceful` | what comments promise of Stop | | violated, see 5 |
| `LogExit` | what a comment promises of Flush | | violated, see 5 |

Every property of a passing run has a mutant in `PROJECT.json`: a definition with a plausible bug in it,
under which TLC finds the property violated.

### Bounds, and why they are enough

- Supervisor.  `Inst`, at most 4 `Instance` objects in use (`pool`), two slots.  Two slots tell "one" from "the others"; an
  instance, its successor, and the same for a second slot make four.  Objects are used again when they are
  garbage, so runs are not bounded in length.  `DeathCap = 1` instead of 10: the channel is full after one message, so both
  branches of `NotifyProcessDeath` are taken.  Six configurations in `MCSupervisor`: growing and restarting (`Growing`), shrinking under a restart
  (`Shrinking`), restart limit with health checks (`Restarting1`), every scale operation without restarts (`Scaling`), two racing callers (`Racing`), oneshot (`Single`).  `exec` may fail
  in all of them.  Restart counters saturate above `max`, where the policy no longer tells them apart.
- HealthMonitor.  Two instances; failure threshold above and below the success threshold, equal, one, and unset.
- ScheduledJob.  Three triggers and a history of two: one entry is dropped, and two runs queue behind a third.
- DepsGraph.  Every configuration of up to three processes, enabled or not, with at most two dependencies each (`MaxDeps`) and four together
  (`MaxEdges`), which may name undefined processes, the process itself, or the same one twice: all cycles of length one to three.
- Manager.  Three names and four Supervisor objects, one more than needed at once, so that objects that were replaced stay to be looked at;
  an operation that would need a fifth waits (`HasRoom`).
  One caller beside the main goroutine.  `DeathCap = 1`.  Eight situations (`MCManager`): a chain of
  dependencies with failures; scheduled processes, removed or depended on, with a timeout and without; an edited and a broken file under the watcher; requests; processes
  that end; requests that fail with reloads.
- Readiness.  Two processes, one of them of type longrun, the other one unwell (`Unwell`); both modes; with a filter and without one.
- Api.  Two clients, two requests at once, four visitor objects (each client's, and each request's lost one), a burst of two, one token per unit,
  forgotten after two units.  Six situations (`MCApi`): the limiter over time and with two clients, two requests across a Stop,
  every route with every verb and body, every access setting with every kind of client, start and stop and start again.
- ProcessLog.  At most two to five lines, rings of two or three, entries of at most two or three lines, lines in two pieces.  Six situations
  (`MCProcessLog`): two streams, stack traces, filters (include patterns and empty lines, with level detection and without, for
  two minimum and two default levels), multiline without a pattern, half lines with a restart, and the same for a scheduled process.
- Tui.  Two characters (`MaxText`) and two digits (`MaxDigits`), tables of one row and of two, so that three processes scroll.  Eight situations (`MCTui`)
  divide the keys between them.  `MaxTicks = 2`: two timers of the log view.

### Premises

Some properties have premises, because without them they do not hold, or because the code does not promise more.

- `Orderly` (Supervisor): requests come one at a time, for StartProcess and its like check the state and act later, and two that interleave
  start a process twice; and a backoff outlasts the `exec` calls of a Start or ScaleUp.  `Careful` is `Orderly` and `~caught`: neither a
  ScaleDown nor the cleanup of a failed ScaleUp has had an instance in hand that was between its exit and its restart, whose successor is lost
  (section 6).  Crashes and restarts while Start, Stop and ScaleUp go on, and before and after a ScaleDown, are within the premise.  `SlotIds` needs `Orderly`; that every process is reachable, `StoppedIsQuiet` and `DropsOnlyDead` need
  `Careful`; `NoRestartAfterStop` and `TypeOK` have no premise and are checked with racing callers too.
- `NeverShrinks` (`AllDeadDetected`): after a ScaleDown that takes the last running instance away nobody looks whether all are dead.
- `~overlap` (Manager, `NoOrphan` and `StopsEverything`): two operations at once, of which one holds a supervisor it looked up before.  In
  `StopsEverything` also `~Broken(config)`: with a broken graph Shutdown stops nothing (section 6).
- `~failed` and `jobs = {}` (`InAgreement`): after a supervisor has failed to start or to stop, the maps hold the old one under either configuration; and
  a scheduled process has no supervisor after Start but has one after a reload (section 6).
- `missed` (`EditsApplied`): an event dropped by the debounce or by a full channel, with no later one.
- `~JobHangs` (`Exits`, `EditsApplied`): a job without a timeout, the default, that runs for ever.  Shutdown waits for it with `m.mu` held and no bound
  (section 6).  A job with a timeout ends.
- Readiness speaks of what was reported.  A running process is reported as healthy, whatever its checks say (section 6), and so the premise of
  `UpIsSeen`, that all are up, leaves out, in the mode all_healthy, processes whose checks do not pass (`Unwell`).
- `ApiConsistent`: an access list that could not be parsed keeps nobody out, and no list is asked about the socket.
- `~late`, `~ioError` (Readiness): a poll that comes after Stop writes the file again; a failed write is not retried.
- `~raced` (Logs): two calls of Write on one writer overlapped.
- `ErrorsKept` (Logs): with level detection off an entry is "info", so that a minimum level above that drops errors too.  An exclude pattern, and
  include patterns of which none matches, drop an error as they do any entry; the property says which.
- JSON parsing and redaction (`ProcessLog`) are off.
- `Defined` (`CyclesAreReal`) and `~Duplicated` (`StartupOrder`): see section 6.
- `Idle * Rate >= Burst` (RateLimiter, an assumption on the constants): a visitor is forgotten only when its bucket would be full.

Deadlock is checked in the runs of the Supervisor.  The other models say `CHECK_DEADLOCK FALSE` because their
goroutines really end: the prober and the handler after cancellation, the runs of a job when all triggers are used, the program after its exit,
the computation of an order, the UI after "q", the output of a process.

### Fairness, and why the code justifies it

- Supervisor: weak fairness of every goroutine's steps, for the Go scheduler runs what can run;
  strong fairness of `BackoffOver`, for a timer fires whatever else happens (the `slowBackoff` guard disables the step
  now and then); a process that was sent SIGKILL exits.
- HealthMonitor, ScheduledJob: the same of their goroutines; strong fairness of `Begin`, for Go's mutex hands itself to goroutines that have
  waited for more than a millisecond; a scheduled job with a timeout ends.
- Manager: strong fairness of the steps of the main goroutine, of those of a caller and of the death of a process being reported: locks and `select`
  are fair in the long run; weak fairness of the watcher's notice and, only where jobs have a timeout, of jobs ending.  Readiness: the poll goes on.
- Api: a request goes on, Stop goes on, a context expires.  Tui: timers fire, lists are taken from the event queue, and the daemon answers if asked for ever.
- Nothing makes callers call, processes exit, checks pass or fail, a file change, a job without a timeout end, or a call of the Manager return.

## 4. The proofs

| theorem | states, for every value of the constants |
|---|---|
| `TypeCorrect` (SupervisorProofs) | `TypeOK`, from `TypeInvariant` |
| `StoppedStaysStopped` (SupervisorProofs) | `NoRestartAfterStop` |
| `NothingOrphaned` (SupervisorProofs) | `NoOrphan`, from `SupInvariant` |
| `QuietAfterStop` (SupervisorProofs) | `StoppedIsQuiet` |
| `OnlyTheDeadLeave` (SupervisorProofs) | `DropsOnlyDead` |
| `JobTypeCorrect`, `NeverOverlaps` (ScheduledJobProofs) | `TypeOK`, `NoOverlap`, from `JobInvariant` |
| `ImplementsIt` (ScheduledJobProofs) | a job implements `JobLifecycle` |
| `TrueHistory` (ScheduledJobProofs) | `HistoryIsTrue` |
| `HealthTypes`, `StreaksAlwaysDecide` (HealthMonitorProofs) | `TypeOK`, `StreaksDecide`, from `HealthInvariant` |
| `OnlyStreaksFlip` (HealthMonitorProofs) | `FlipsOnStreak` |
| `VerdictStaysFresh` (HealthMonitorProofs) | `VerdictIsFresh` |
| `FileIsAlwaysTrue` (StartupProofs) | `FileIsTrue`: the file and what was reported |
| `StartupOrderAlways` (StartupProofs) | `StartupOrder`, from `DepsInvariant` |
| `CyclesAlwaysReal` (StartupProofs) | `CyclesAreReal`, from `CycleInvariant` |
| `FailuresHaveReasons` (StartupProofs) | `FailsForAReason`, the safety half of `Settles` |
| `LimiterTypes` (ApiProofs) | `LimiterTypeOK`, from `LimiterInvariant` |
| `LimiterImplementsBucket` (ApiProofs) | a rate limiter implements `TokenBucket` |
| `ServerUsesLimiter`, `ServerImplementsBucket` (ApiProofs) | the whole server does nothing to the limiter but what the limiter does, and so implements `TokenBucket` too |
| `AlwaysConsistent` (ApiProofs) | `ApiConsistent`, from `ApiInvariant` |
| `AnswersAlwaysTell` (ApiProofs) | `AnswersTell` |
| `StopAlwaysClean` (ApiProofs) | `StopLeavesNothing` |
| `EntriesAlwaysRight` (ProcessLogProofs) | `EntriesRight`, from `LogInvariant`; JSON parsing and redaction off |
| `OutputAlwaysKept` (ProcessLogProofs) | `OutputKept` |
| `RingAlwaysShows` (ProcessLogProofs) | `RingShows`: types, the ring as the newest entries, what `GetLogs` shows |
| `DependenciesAlwaysUp` (ManagerProofs) | `DependenciesUp`, from `ManagerInvariant` |
| `MapsAlwaysConsistent` (ManagerProofs) | `Consistent`: types, `InAgreement` and `NoOrphan` |
| `AlwaysStopsEverything` (ManagerProofs) | `StopsEverything` |
| `UiAlwaysConsistent` (TuiProofs) | `UiConsistent`, from `TuiInvariant` |
| `SubmitsAlwaysValid` (TuiProofs) | `SubmitsValid` |

They assume `Spec` of their module and the `ASSUME` on its constants, which TLC evaluates in the runs: configurations are
configurations, channels and histories have room, node names are finitely many numbers, the tracked sets are sets of names, a
visitor is not forgotten before its bucket is full, settings and requests are of the kinds the server reads,
scenarios hold configurations and known processes, a process in the UI has a scale of one digit, and the values for "nobody" and "no supervisor" are no caller and no object.

**Supervisor.**  Type correctness is not inductive by itself.  `Return` takes the tail of its caller's list of
calls, which is a sequence only if the list is not empty: `OwnerBusy` says that the owner of `operationMu` has a call
in progress.  `ScaleDownEnd` keeps the first `n` slots: `DownFits` says that there are that many, which holds because
the slots change in length only under `operationMu`.  The proof goes over the steps by goroutine, with one lemma for each operator that changes many variables.
`NoRestartAfterStop` is proved from `RestartInv`, which adds `WaitsWhileRunning`: as long as an instance is in the state
"running" its monitor still waits for the process.  This is what makes the flag safe: `stopInstance` clears it only in that
state, so before the monitor can have read it.

That no process gets lost is a statement about every goroutine at once, and `SupIInv` has a part for each thing that they rely on:

- `ProcInv`: a live process has a monitor that waits for it, `stopInstance` is at work exactly on instances in the hands of an operation, and
  a process whose context is cancelled has been sent SIGKILL.  `OpInv`: the operation under way and the state of the supervisor fit.
- `Flow`, with one caller: what the caller still has to do is a plan of one of a few shapes (`Shape`), the operation under way is its first step, and
  the step finds the state that the check before it saw.  This is where `OneCaller` is used: without it the check is stale.
- `Slots`, if `Orderly`: slots, new instances and successors have the numbers of their places, and no two restart loops have the same successor.
  While ScaleUp collects its new instances none of them leaves for a restart before it is in a slot, which is what the backoff is assumed to last for.
- `Track`, if `Careful`: what runs or may be restarted is `Reachable`; ScaleDown holds everything above its target; what a live context binds is still to be
  stopped.  `StoppedDead` closes the argument: what Stop has waited for neither runs nor will.

Each part is inductive only relative to those before it, and each has one lemma that goes over the steps (`ProcStep`, `OpStep`, `FlowStep`, `SlotStep`,
`TrackStep`).  `Reachable` speaks of processes that run; the invariant has to speak of those that *may* (`Active`), for a restart begins with an
instance that is dead.

**Scheduled job.**  `JobInv` says that `executionMu` is held by exactly the run that executes or records, that the state and `CurrentExecID` follow
that run, and that a run has an execution id once it has begun.  `NoOverlap` and the step simulation for
`JobLifecycle` follow.  `HistoryInv` adds that entries are numbered without gaps up to `nextID - 1` (`Numbered`), that every entry is
matched by the run with its id (`Matched`), and that no two runs share an id (`UniqueIDs`), without which completing one entry
could speak about another run.

**Health monitor.**  `CountInv` says what the two counters count: the length of the streak that `recent` ends in, as far as the
threshold.  It gives that a streak flips the verdict and that nothing else does.  `PipeInv` follows a verdict from the prober through the channel to the handler: the status
being sent is the latest verdict, the one in the channel the one before it if another is being sent, and the one acted on the one before those.  Freshness is
its last line.

**Readiness.**  (Its proofs and those of the dependency graph, the two sides of starting up, are in one module, `StartupProofs`; so that both can be
extended, Readiness calls its specification `ReadySpec`.)  `FileIsTrue` becomes inductive with two facts: before monitoring begins nothing is tracked (`NotBegun`), and outside a
poll no supervisor is left to be looked at (`PollIdle`), without which a report could be about a process that is no longer there.  The lemma
`EvaluationRight` carries the proof: one evaluation brings verdict and file in line, from any state in which they were.

**Dependency graph.**  `SearchInv` says that the stack of the search is a path whose nodes are what `recStack` marks, each once, so that a look-up
of the repeated node finds it.  `SortInv` says what the in-degree counts: the length of the list of dependencies less the number of those taken.  With a
duplicated dependency that is more than what is left to take, and the node is never queued; when it is zero everything is taken, which is why the order is
right with duplicates too, and, without them, the first one alphabetically.

`CycleInv` is about the search, where every dependency is a node (`Exact`).  The calls in progress are a path of dependencies (`Linked`), the dependencies a call has
looked at are done or are the call above it (`Explored`), and what is done depends only on what is done and has no cycle (`Finished`).  A mark on the stack
therefore closes a real circle (`Loop`, `PathReal`); a call that returns adds to the done a node all of whose dependencies are done, which closes none
(`OneMoreDone`); and when nothing is left to visit everything is done.  For the sort it keeps that a node taken had each dependency named once
(`TakenOnce`).  A sort that gets stuck without a duplicate leaves nodes that all wait for one of them (`Stuck`), which the search has excluded: so it never
does.  That induction over the search replaces one over the graph, which the prover could not do.

**Rate limiter.**  `LInv` says that no two clients share a visitor (`Unshared`); that a request that waits for a bucket holds its client's
unless it is marked as lost, and then one that nobody will find again (`HeldOnes`); and that a bucket was not used later than its visitor was seen
(`SeenLast`), so that a forgotten one is full.  The refinement mapping shows a client the tokens it could take now, the refill not yet made
included (`Level`).  A step that forgets visitors maps to losing the requests that hold them, or to a stutter.

**Management API.**  `RequestInv` says what is known of a request by where it is on its way: behind the authentication its token is good
unless none is asked for, at work its call is the one that verb and body lead to, and an answer is what the call's result calls for.  `ServerInv`
follows the listeners: once Stop has come to one it is closed for good.  `DrainInv` is what Stop promises: when it has passed a listener nobody is
in flight there, unless it has reported an error.  The two meet in `Accept`, which needs an open listener.  Every step of the server is a step
of the limiter or leaves the limiter alone (`LimiterSees`), which carries the limiter's theorems over to the server.

**Manager.**  `LockInv` says that a goroutine in a section that needs `m.mu` holds it, which leaves one reload, one start or one
shutdown at a time.  `BusyInv` says what `overlap` is about: while it is false at most one goroutine is in an operation.  `AgreeInv` is
`InAgreement` while operations are under way: `Missing` are the processes that Start has not come to or that a reload is about to drop,
`Pending` those that a reload has configured but not yet replaced.  `PlanInv` makes that work across the one place where a reload changes the
configuration under half-changed maps: what is in neither list is the same in the old and the new one.  `HandInv` says that without overlap the supervisor
a request has looked up is still the registered one of an enabled process, without which starting it would leave an orphan; `AliveInv`
follows.  `ShutInv` says that while Shutdown goes through its list everything alive is still on it.  Each action has its lemmas, by the parts of the
state it disturbs; the steps of processes and the scheduler that touch neither maps nor locks are one case (`Calm`).

**Process logging.**  `StoreInv` says slot by slot what a ring shows of everything logged (`RingHolds`), before and after it is full, and that no two entries
have the same time.  From it, `GetAll` and `GetRecent` give the last entries in order (`GetIs`).  `GetLogs` cuts each stream to the limit before it merges
them; that this loses nothing newer is shown by counting: an entry that was cut off has as many newer ones in its own stream
as were asked for (`KeptOld`), and one with that many newer ones comes after everything shown (`OldNotShown`).  `Flows` follows the output: what a
writer was given is what it has made entries of, the lines being joined, the lines scanned, and the buffer, in this order, and while
a copier processes lines the buffer is empty, so that `Swap` puts nothing back that came later.  Two calls that overlap end that, which
is the premise `~raced`.  That the scanner and the concatenations lose nothing is induction over data: `SetInduction` does it with a set of numbers
instead of an operator, from the well-foundedness of the naturals.

**Terminal UI.**  The handlers are functions, and so the proof is about functions: each has a lemma that it takes a model in `Shape` to one in
`Shape`, with a command that is right (`Good`); those of a key are put together in `HandleKeyGood` as in the code.  `Shape` has, besides types, what
`UiConsistent` says of the model, and two facts that make it inductive: a selection is within its table (`Indexed`), and the rows that keys act on are
of the last list (`Listed`), without which "enter" could show the details of a process that is gone.  A late list is the hard case (`FilledShape`): it
replaces the tables under a selection, a scroll position, and details that are being looked at.  A form is in `Form`: what the steps behind the one it
is at have asked for is there (`Passed`), for no step can be passed without it, going back does not undo it, and a locked name, whose step is skipped,
is not empty.  A form can therefore not reach its last step incomplete (`SubmissionValid`); commands are run and answers delivered late, and `Items` says
that all of those on their way are right.  A timer runs while logs are in view, for whoever brings them into view starts one (`Good`), and a timer
that fires while they are starts the next.  That splitting a command line with a character that is not blank leaves an argument (`FieldsSome`), and what type
the other functions over texts have, is induction once more (`Inherited`).

Model-checked only: all liveness properties and everything with ENABLED, which the prover cannot do; `GracefulStop` and `ExitFlushed`, which are violated.
Each invariant and each action property of a passing run is stated by a theorem, and so are the two refinements.  What recursive functions compute is
proved where the proofs need it (`ProcessLogProofs`, `TuiProofs`), elsewhere, and for folds, it is left to TLC.

## 5. What was found

Each is shown by a run in which the promise is violated; `PROJECT.json` quotes both sides.

1. Stop is not graceful (`SupGraceful`): the processes run under `exec.CommandContext` of the context that Stop cancels
   first, and are killed before the pre-stop hook and the configured signal.
2. The last output of a process is lost (`LogExit`): `Flush` "must be called when process exits", and nobody does for supervised processes; what the multiline
   buffer holds, a crash's stack trace most of all, is never logged.

## 6. Where code and words differ, without a run

Met while modelling.  Each is in the model as the code does it, or named as an abstraction; the properties hold in spite of it or have a premise for it.

Supervisor and restarts:

- ScaleDown during a restart backoff leaves the new process in no slot (`supervisor.go:675,773,1030`), and so does the cleanup of a ScaleUp that fails; premise `~caught`.
- An instance that waits for its restart counts as dead, and the all-dead shutdown begins (`supervisor.go:1178`, `manager_health.go:34,55`).
- The restart count is written after the new process runs (`supervisor.go:1022`): one that exits at once is restarted more often than the limit of `restart.go:28`.
- The backoff is a product that overflows with many restarts and is then negative or zero, while only the upper end is capped (`restart.go:141`).
- The zombie reaper may take the exit status of a managed child (`signals/handler.go:56`): a clean exit is seen as a failure.
- A descendant that holds the output pipe keeps `cmd.Wait` from returning (`supervisor.go:515`).
- scaleFromZero writes the shared configuration without the Manager's lock (`manager_scaling.go:122`).

Health checks and schedule:

- Successes below the success threshold are reported as unhealthy, and the instances that succeed are killed
  (`healthcheck.go:262`; `docs/features/health-checks.md:211,229`).  A first check that fails marks the process ready (`healthcheck.go:235`, `supervisor.go:1077`).
- The prober waits when the status channel is full (`healthcheck.go:183`), so checks stop while the handler kills.
- Overlapping triggers are executed later instead of skipped (`job.go:108,288`; `docs/features/scheduled-tasks.md:324`); `schedule_max_concurrent` is
  read nowhere.  An asynchronously triggered job is killed when the HTTP handler returns (`server.go:853-854`).
- Shutdown waits for running jobs without a bound, holding `m.mu` (`manager_lifecycle.go:276-277`): with a job that has no timeout, the default, and does
  not end, SIGTERM does not end the program, and the API calls that need the lock hang.  `docs/features/scheduled-tasks.md:18` says that running tasks are cancelled; premise `~JobHangs`.
- Oneshot history: completing a run that was evicted does nothing, and entries past their age are shown until the next one is recorded (`oneshot_history.go:217,245`).

Dependencies and Manager:

- A dependency named twice makes the sort incomplete, which `graph.go:185` takes for a cycle.  An undefined one stays on the recursion stack
  (`config.go:219-224`), so that two processes that share it are reported as circular.
- getShutdownOrder drops the error of the graph (`manager_lifecycle.go:366`): after a change that breaks it Shutdown stops no process.
- AddProcess, UpdateProcess and ReloadConfig make supervisors without a death notifier, and start scheduled and initially stopped processes
  (`manager_config.go:48`).  restartAllProcesses starts processes that a request had stopped (`manager_config.go:199`).
- Jobs of removed processes keep firing.  A supervisor whose processes have all died keeps the state "running".
- `Process.Equal` ignores user, group and logging: an edit of those does nothing on reload.

Readiness:

- A running process is reported as healthy (`manager_readiness.go:88-92`), and nothing reports health checks: the mode "all_healthy" differs from
  "all_running" only for a process that is starting or stopping.  `docs/features/container-readiness.md:62,72,228` and `readiness/manager.go:10,38` say that health checks must have passed.
- StartReadinessMonitor and StopReadinessManager are called by tests only.
- Without a filter the poll adds every process, against the comment at `manager_readiness.go:37`; removed processes stay tracked while polls
  know them; a failed write is not retried; an update after Stop writes the file again.

API:

- The key of the limiter is RemoteAddr with its port (`server.go:478`), so each connection has a bucket of its own.
- An ACL that cannot be parsed is dropped with a log line (`server.go:217-219`).  A port in use is only logged.
- The body of a scale request has to say "desired" or "delta"; `docs/observability/api.md:127-131,160-167` show `{"scale": 5}`, which is answered 400.
- Start, stop, restart and scale are answered with 200 after the call; `docs/observability/api.md:204-205` say 202 at once, and the change later.  Only a
  trigger that is not synchronous is answered with 202, and its job is killed then (above).
- Certificates that cannot be loaded fail Start after the socket is served (`serve.go:382-402`).  `os.Exit(1)` leaves the socket file (`serve.go:456-460`).
- Handlers have 30 s, the WriteTimeout is 10 s (`server.go:294,368`).  httpStatusFromError decides by the text of an error (`server.go:1115`).
- `lastSeen` is written outside the lock (`server.go:98`) under which the cleaner reads it.

Logging:

- Two MultiWriters share one unlocked ProcessWriter for scheduled processes (`schedule/executor.go:148-149`): lines are lost or doubled; premise `~raced`.
- The scanner makes a token of an unterminated rest, so that a line that arrives in two writes may become two entries (`process_writer.go:90-109`).
- The multiline timeout is looked at by the next Write only (`process_writer.go:99`).
- A restart makes new writers (`supervisor.go:430`): the log of the instance that crashed is gone.
- A level "info" in a JSON line is overridden by the detector.
- Level detection is off unless a process configures it, with its patterns (`level_detector.go:20-22`); without it everything is "info" and a minimum
  level of "warn" drops every error.  `docs/features/advanced-logging.md:48` gives it as on, by a key that is read nowhere.
- With multiline on, with a pattern or without, an entry without text is dropped (`process_writer.go:100,131,249`).

Terminal UI:

- A configuration that arrives late opens the form under a dialog, or in place of a form being filled in (`update.go:77`).
- Leaving and entering the logs within half a second makes several timers (`update.go:50`); the logs of a run (`tui.go:79`) have none.
- On the tabs of oneshot runs and of the system a key acts on the selected row of the processes tab, which is not shown there, though
  `getSelectedProcess` calls itself tab-aware (`update.go:751`).
- The tables of scheduled jobs and of oneshot runs keep their scroll position when the list or the window becomes shorter (`table.go:818-829,870-877`):
  the selected row, or every row, is then not drawn, and p, t, r and d on the scheduled tab act on it all the same, until a key moves the selection. 
- Editing a process of scale 0 saves scale 1 (`model.go:430`).
- `docs/features/tui.md` has other keys than the code: "s" stops and "x" starts (119-120, 155-156; it is the other way round), enter opens the logs
  (123; the details), esc quits from the list (125; it stays), and leads from the logs to the list (145; to the details, if it was they that were left);
  start, stop and restart ask for confirmation (157-158; only deleting does), "+" and "-" open the dialog (168-172; they scale by one at once, "c" opens
  it), and a created process is saved to the file (278; only "S" saves).
- Ctrl+C is not looked at in dialogs; "q" quits while a text is typed into the form; the form does nothing useful in embedded mode.

## 7. What is left

In this order:

1. The Supervisor of `Manager` shown to be an abstraction of `Supervisor`: a refinement with the restart wait as a state of its own, so that the
   all-dead check of the two agree.
2. `RestartBackoff`: the multiplication at a given width against the capped exponential.
3. The oneshot history and the time series as instances of one ring specification with eviction by age.
4. The retry loop of hooks under its context, and fsnotify's events under the watcher (rename and create of an editor that replaces the file).
5. Several jobs in one scheduler.

## 8. Not modelled, and why

- Configuration parsing, defaults, validation other than the cycle check, and environment substitution: sequential code without state.
- Metrics export, tracing, audit records: state that nothing reads.  TLS files and ciphers: data that no modelled decision looks at.
- JSON parsing and redaction of log lines.  Both change the text that is filtered and JSON the level too; the properties of `ProcessLog` are about
  writers without them.
- PHP-FPM autotuning: floating-point arithmetic, once, before anything starts.
- Container setup, credentials, scaffolding, command line: one-shot I/O.
- Of the health checkers, hooks and scheduled executors only the outcomes appear.
- Addresses matched against networks (an address is listed or not), the text of toasts, layout and styles of the UI.
