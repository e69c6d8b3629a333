------------------------------ MODULE Manager ------------------------------
(***************************************************************************)
(* The Manager (internal/process/manager*.go) with the main goroutine of   *)
(* cmd/phpeek-pm/serve.go, the configuration watcher (internal/watcher)    *)
(* and the API goroutines that change the configuration.  A supervisor is  *)
(* what its operations leave behind; module Supervisor has the detail.     *)
(* An instance that waits for its restart counts as alive here.            *)
(***************************************************************************)
EXTENDS Integers, FiniteSets

CONSTANTS
  Name,      \* process names, in alphabetical order
  Obj,       \* Supervisor objects
  Caller,    \* API goroutines
  DeathCap,  \* capacity of processDeathCh
  Scenarios  \* what to look at

\* A process configuration; "minor" is what Process.Equal does not compare
\* (user, group, logging), "checked" a health check that gates readiness.
Cfg == [enabled : BOOLEAN, deps : SUBSET Name, scheduled : BOOLEAN, checked : BOOLEAN,
        initial : {"running", "stopped"}, cmd : {1, 2}, minor : {1, 2}]
IsConfig(c) == c \in [DOMAIN c -> Cfg] /\ DOMAIN c \subseteq Name
Request == [op : {"start", "stop", "restart", "remove", "reload"}, name : Name]
           \cup [op : {"add", "update"}, name : Name, cfg : Cfg]

\* A scenario: the configuration at the start, what the file may be changed to
\* ("ok" FALSE if it does not load), the requests, whether --watch was given,
\* whether processes end for good (oneshot, or not restarted), whether
\* supervisors may fail to start or stop, and whether every job has a timeout.
IsScenario(s) ==
  /\ IsConfig(s.initial)
  /\ \A f \in s.files : f.ok \in BOOLEAN /\ IsConfig(f.procs)
  /\ \A r \in s.requests : r \in Request
  /\ s.watch \in BOOLEAN /\ s.mortal \in BOOLEAN /\ s.failures \in BOOLEAN
  /\ s.timeouts \in BOOLEAN

ASSUME ManagerAssumption ==
  /\ Name \subseteq Nat /\ IsFiniteSet(Name)
  /\ 0 \notin Obj
  /\ {0, -1} \cap Caller = {}
  /\ DeathCap \in Nat \ {0}
  /\ \A s \in Scenarios : IsScenario(s)

Main == 0
Actor == {Main} \cup Caller
Free == -1

VARIABLES
  scn,       \* one of Scenarios, fixed
  config,    \* m.config.Processes
  file,      \* the configuration file
  reg,       \* m.processes
  sup,       \* the Supervisor objects
  jobs, schedOn, jobRuns,   \* the scheduler: its jobs, started, a job executes
  mu,        \* who holds m.mu for writing, or Free
  pc,        \* where each goroutine is
  call,      \* the request of each caller
  obj,       \* the supervisor it has looked up
  rest,      \* the names UpdateProcess has still to restart
  left,      \* the names Start or Shutdown has still to handle
  plan,      \* what ReloadConfig has still to do
  signal, allDead, reloadReq,   \* sigChan, allDeadCh, reloadChan
  deaths, draining,             \* processDeathCh; a message taken from it
  event, recent,                \* a file event; a reload within the debounce period
  stopErr,   \* Shutdown has met an error
  \* history
  missed,    \* an event was dropped and the file not looked at since
  overlap,   \* two goroutines were in an operation at the same time
  failed     \* a supervisor failed to start or to stop

conf  == <<config, reg, sup>>
sched == <<jobs, schedOn, jobRuns>>
death == <<allDead, deaths, draining>>
watch == <<file, event, recent, reloadReq, missed>>
flow  == <<call, obj, rest, left, plan, stopErr>>
vars == <<scn, conf, sched, mu, pc, flow, signal, death, watch, overlap, failed>>

Put(f, n, v) == [m \in DOMAIN f \cup {n} |-> IF m = n THEN v ELSE f[m]]
Del(f, n) == [m \in DOMAIN f \ {n} |-> f[m]]
Enabled(c) == {n \in DOMAIN c : c[n].enabled}

\* Process.Equal.
Equal(c, d) == [c EXCEPT !.minor = 0] = [d EXCEPT !.minor = 0]

\* getStartupOrder fails: see DepsGraph.
Broken(c) ==
  LET S == Enabled(c)
  IN  \/ \E n \in S : ~(c[n].deps \subseteq S)
      \/ \E C \in SUBSET S : C # {} /\ \A n \in C : c[n].deps \cap C # {}

Exited == pc[Main] \in {"exit0", "exit1"}
Exit(code) == pc' = [pc EXCEPT ![Main] = code]
Goto(a, l) == pc' = [pc EXCEPT ![a] = l]

\* Where a goroutine goes on after an operation.
After(a) == IF a = Main THEN "serving" ELSE IF rest[a] = {} THEN "idle" ELSE "restartAll"

-----------------------------------------------------------------------------
(* Supervisors *)

NoCfg == [enabled |-> FALSE, deps |-> {}, scheduled |-> FALSE, checked |-> FALSE,
          initial |-> "running", cmd |-> 1, minor |-> 1]
NoSup == [cfg |-> NoCfg, notifier |-> FALSE, state |-> "stopped", alive |-> FALSE,
          notifying |-> FALSE, ready |-> FALSE]

\* NewSupervisor, in an object nothing refers to.
Unused(o) == /\ \A n \in DOMAIN reg : reg[n] # o
             /\ \A a \in Caller : obj[a] # o
             /\ ~sup[o].alive /\ ~sup[o].notifying
HasRoom == \E o \in Obj : Unused(o)   \* bound on the objects in use
NewObj == CHOOSE o \in Obj : Unused(o)
New(c, notifier) == [NoSup EXCEPT !.cfg = c, !.notifier = notifier]
Up(s)   == [s EXCEPT !.state = "running", !.alive = TRUE]
Failed(s) == [s EXCEPT !.state = "failed", !.alive = FALSE]

\* The outcomes of Start and of Stop.  The goroutine of an instance that is
\* stopped may announce its death ("told": it does for oneshot processes); Stop
\* returns an error if it is held up there.
StartOK == IF scn.failures THEN BOOLEAN ELSE {TRUE}
Stops(o) ==
  {r \in [ok : BOOLEAN, told : BOOLEAN] :
     /\ r.told => scn.mortal /\ sup[o].alive /\ sup[o].notifier
     /\ \/ r.ok \/ scn.failures
        \/ (r.told \/ sup[o].notifying) /\ deaths = DeathCap}

Down(s, r) == [s EXCEPT !.state = "stopped", !.alive = FALSE, !.notifying = @ \/ r.told]
\* What is left of it when it is no longer registered: nothing that matters,
\* unless a goroutine still has it in hand.
Dropped(o, r) ==
  IF \E a \in Caller : obj[a] = o THEN Down(sup[o], r)
  ELSE [NoSup EXCEPT !.notifying = sup[o].notifying \/ r.told]
Note(ok) == failed' = (failed \/ ~ok)

\* A process ends for good (or all its instances do).
Dies(o) ==
  /\ ~Exited /\ scn.mortal /\ sup[o].alive
  /\ sup' = [sup EXCEPT ![o].alive = FALSE, ![o].notifying = sup[o].notifier]
  /\ UNCHANGED <<scn, config, reg, sched, mu, pc, flow, signal, death, watch, overlap, failed>>

BecomesReady(o) ==
  /\ ~Exited /\ sup[o].alive /\ sup[o].cfg.checked /\ ~sup[o].ready
  /\ sup' = [sup EXCEPT ![o].ready = TRUE]
  /\ UNCHANGED <<scn, config, reg, sched, mu, pc, flow, signal, death, watch, overlap, failed>>

\* WaitForReadiness returns at once or when readinessCh is closed.
IsReady(o) == ~sup[o].cfg.checked \/ sup[o].ready

-----------------------------------------------------------------------------
(* All processes dead *)

AllDeadNow == DOMAIN reg # {} /\ \A n \in DOMAIN reg : ~sup[reg[n]].alive
Check == allDead' = (allDead \/ AllDeadNow)

NotifySend(o) ==
  /\ ~Exited /\ sup[o].notifying /\ deaths < DeathCap
  /\ sup' = [sup EXCEPT ![o].notifying = FALSE]
  /\ deaths' = deaths + 1
  /\ UNCHANGED <<scn, config, reg, sched, mu, pc, flow, signal, allDead, draining, watch, overlap, failed>>

\* The channel is full: check at once, under m.mu.
NotifyCheck(o) ==
  /\ ~Exited /\ sup[o].notifying /\ deaths = DeathCap /\ mu = Free
  /\ sup' = [sup EXCEPT ![o].notifying = FALSE] /\ Check
  /\ UNCHANGED <<scn, config, reg, sched, mu, pc, flow, signal, deaths, draining, watch, overlap, failed>>

\* MonitorProcessHealth, started when Start has returned.
Drain ==
  /\ ~Exited /\ pc[Main] \notin {"boot", "starting"}
  /\ deaths > 0 /\ ~draining
  /\ deaths' = deaths - 1 /\ draining' = TRUE
  /\ UNCHANGED <<scn, conf, sched, mu, pc, flow, signal, allDead, watch, overlap, failed>>

DrainCheck ==
  /\ ~Exited /\ draining /\ mu = Free
  /\ draining' = FALSE /\ Check
  /\ UNCHANGED <<scn, conf, sched, mu, pc, flow, signal, deaths, watch, overlap, failed>>

-----------------------------------------------------------------------------
(* Start *)

\* The pre-start hooks, then the order; m.mu is held until Start returns.
Boot ==
  /\ pc[Main] = "boot"
  /\ \/ Exit("exit1") /\ UNCHANGED <<mu, left>>
     \/ /\ ~Broken(config) /\ mu = Free
        /\ Goto(Main, "starting") /\ mu' = Main /\ left' = Enabled(config)
  /\ UNCHANGED <<scn, conf, sched, call, obj, rest, plan, stopErr, signal, death, watch, overlap, failed>>

\* The next process of the startup order.
InOrder(n) ==
  LET able == {m \in left : config[m].deps \cap left = {}}
  IN  pc[Main] = "starting" /\ n \in able /\ \A m \in able : n <= m

\* Mutant: dependencies need only be registered.
DepsKnown(n) == \A d \in config[n].deps : d \in DOMAIN reg

DepsReady(n) == \A d \in config[n].deps : d \in DOMAIN reg /\ IsReady(reg[d])

\* A dependency has no supervisor, or is not ready in time.
StartGivesUp(n) ==
  /\ InOrder(n) /\ ~DepsReady(n)
  /\ Exit("exit1")
  /\ UNCHANGED <<scn, conf, sched, mu, flow, signal, death, watch, overlap, failed>>

RegisterScheduled(n) ==
  /\ InOrder(n) /\ DepsReady(n) /\ config[n].scheduled
  /\ jobs' = jobs \cup {n} /\ left' = left \ {n}
  /\ UNCHANGED <<scn, conf, schedOn, jobRuns, mu, pc, call, obj, rest, plan, stopErr, signal, death, watch, overlap, failed>>

StartRegular(n) ==
  /\ InOrder(n) /\ DepsReady(n) /\ ~config[n].scheduled /\ HasRoom
  /\ reg' = Put(reg, n, NewObj) /\ left' = left \ {n}
  /\ LET new == New(config[n], TRUE)
     IN IF config[n].initial = "running"
        THEN \E ok \in StartOK :
               /\ sup' = [sup EXCEPT ![NewObj] = IF ok THEN Up(new) ELSE Failed(new)]
               /\ Note(ok)
               /\ IF ok THEN UNCHANGED pc ELSE Exit("exit1")
        ELSE /\ sup' = [sup EXCEPT ![NewObj] = [new EXCEPT !.ready = TRUE]]
             /\ UNCHANGED <<pc, failed>>
  /\ UNCHANGED <<scn, config, sched, mu, call, obj, rest, plan, stopErr, signal, death, watch, overlap>>

\* Mutant: m.mu is not released.
StartupDoneLocked ==
  /\ pc[Main] = "starting" /\ left = {}
  /\ schedOn' = (jobs # {})
  /\ Goto(Main, "serving")
  /\ UNCHANGED <<scn, conf, jobs, jobRuns, mu, flow, signal, death, watch, overlap, failed>>

\* The scheduler, and the post-start hooks, whose failures are warnings.
StartupDone ==
  /\ pc[Main] = "starting" /\ left = {}
  /\ schedOn' = (jobs # {})
  /\ mu' = Free /\ Goto(Main, "serving")
  /\ UNCHANGED <<scn, conf, jobs, jobRuns, flow, signal, death, watch, overlap, failed>>

-----------------------------------------------------------------------------
(* The main loop, the watcher, the scheduler *)

Signal ==
  /\ ~Exited /\ ~signal /\ signal' = TRUE
  /\ UNCHANGED <<scn, conf, sched, mu, pc, flow, death, watch, overlap, failed>>

\* The main goroutine has something to do: an operation of its own.
Enter(l) == Goto(Main, l) /\ overlap' = (overlap \/ \E a \in Caller : pc[a] # "idle")

SelectShutdown ==
  /\ pc[Main] = "serving" /\ (signal \/ allDead)
  /\ Enter("shutdown")
  /\ UNCHANGED <<scn, conf, sched, mu, flow, signal, death, watch, failed>>

SelectReload ==
  /\ pc[Main] = "serving" /\ reloadReq
  /\ Enter("reload") /\ reloadReq' = FALSE
  /\ UNCHANGED <<scn, conf, sched, mu, flow, signal, death, file, event, recent, missed, failed>>

\* Someone writes the file.  Before the watcher runs nobody sees it.
Edit(f) ==
  /\ ~Exited /\ f \in scn.files /\ f # file
  /\ file' = f
  /\ LET seen == scn.watch /\ pc[Main] \notin {"boot", "starting"}
     IN event' = (event \/ seen) /\ missed' = (missed \/ ~seen)
  /\ UNCHANGED <<scn, conf, sched, mu, pc, flow, signal, death, recent, reloadReq, overlap, failed>>

\* Mutant: no request while a reload is under way.
NoticeIdle ==
  /\ ~Exited /\ event /\ event' = FALSE
  /\ IF recent THEN missed' = TRUE /\ UNCHANGED <<recent, reloadReq>>
     ELSE /\ missed' = FALSE
          /\ IF file.ok /\ pc[Main] = "serving" THEN recent' = TRUE /\ reloadReq' = TRUE
             ELSE UNCHANGED <<recent, reloadReq>>
  /\ UNCHANGED <<scn, conf, sched, mu, pc, flow, signal, death, file, overlap, failed>>

\* handleFileChange.  An event within the debounce period is dropped; so is a
\* reload request while one waits.  A file that does not load is left alone.
Notice ==
  /\ ~Exited /\ event /\ event' = FALSE
  /\ IF recent THEN missed' = TRUE /\ UNCHANGED <<recent, reloadReq>>
     ELSE /\ missed' = FALSE
          /\ IF file.ok THEN recent' = TRUE /\ reloadReq' = TRUE ELSE UNCHANGED <<recent, reloadReq>>
  /\ UNCHANGED <<scn, conf, sched, mu, pc, flow, signal, death, file, overlap, failed>>

DebounceOver ==
  /\ ~Exited /\ recent /\ recent' = FALSE
  /\ UNCHANGED <<scn, conf, sched, mu, pc, flow, signal, death, file, event, reloadReq, missed, overlap, failed>>

JobFires ==
  /\ ~Exited /\ schedOn /\ ~jobRuns /\ jobRuns' = TRUE
  /\ UNCHANGED <<scn, conf, jobs, schedOn, mu, pc, flow, signal, death, watch, overlap, failed>>

JobEnds ==
  /\ ~Exited /\ jobRuns /\ jobRuns' = FALSE
  /\ UNCHANGED <<scn, conf, jobs, schedOn, mu, pc, flow, signal, death, watch, overlap, failed>>

-----------------------------------------------------------------------------
(* Shutdown *)

ShutdownBegin ==
  /\ pc[Main] = "shutdown" /\ mu = Free
  /\ mu' = Main /\ schedOn' = FALSE /\ Goto(Main, "draining")
  /\ UNCHANGED <<scn, conf, jobs, jobRuns, flow, signal, death, watch, overlap, failed>>

\* Mutant: only processes without dependencies.
ShutdownOrderRoots ==
  /\ pc[Main] = "draining" /\ ~jobRuns
  /\ left' = IF Broken(config) THEN {} ELSE {n \in Enabled(config) \cap DOMAIN reg : config[n].deps = {}}
  /\ Goto(Main, "stopping")
  /\ UNCHANGED <<scn, conf, sched, mu, call, obj, rest, plan, stopErr, signal, death, watch, overlap, failed>>

\* The scheduler has stopped; the pre-stop hooks change nothing.  The error of
\* getStartupOrder is dropped, and the order is then empty.
ShutdownOrder ==
  /\ pc[Main] = "draining" /\ ~jobRuns
  /\ left' = IF Broken(config) THEN {} ELSE Enabled(config) \cap DOMAIN reg
  /\ Goto(Main, "stopping")
  /\ UNCHANGED <<scn, conf, sched, mu, call, obj, rest, plan, stopErr, signal, death, watch, overlap, failed>>

\* One goroutine for each process, all at once: any order.
ShutdownStop(n) ==
  /\ pc[Main] = "stopping" /\ n \in left
  /\ \E r \in Stops(reg[n]) :
       /\ sup' = [sup EXCEPT ![reg[n]] = Down(@, r)]
       /\ Note(r.ok) /\ stopErr' = (stopErr \/ ~r.ok)
  /\ left' = left \ {n}
  /\ UNCHANGED <<scn, config, reg, sched, mu, pc, call, obj, rest, plan, signal, death, watch, overlap>>

\* After an error the process exits at once, else the API server is stopped:
\* it waits for the requests in progress, or for its timeout.
ShutdownEnd ==
  /\ pc[Main] = "stopping" /\ left = {}
  /\ mu' = Free /\ Goto(Main, IF stopErr THEN "exit1" ELSE "closing")
  /\ UNCHANGED <<scn, conf, sched, flow, signal, death, watch, overlap, failed>>

CloseAPI ==
  /\ pc[Main] = "closing" /\ Exit("exit0")
  /\ UNCHANGED <<scn, conf, sched, mu, flow, signal, death, watch, overlap, failed>>

-----------------------------------------------------------------------------
(* ReloadConfig, by the main goroutine or a request *)

NoPlan == [new |-> [n \in {} |-> NoCfg], stop |-> {}, start |-> {}, update |-> {}]

ReloadBegin(a) ==
  /\ ~Exited /\ pc[a] = "reload" /\ mu = Free
  /\ IF file.ok
     THEN /\ mu' = a /\ Goto(a, "removing")
          /\ plan' = [new |-> file.procs,
                      stop |-> DOMAIN config \ DOMAIN file.procs,
                      start |-> DOMAIN file.procs \ DOMAIN config,
                      update |-> {n \in DOMAIN config \cap DOMAIN file.procs :
                                    ~Equal(config[n], file.procs[n])}]
     ELSE Goto(a, After(a)) /\ UNCHANGED <<mu, plan>>
  /\ UNCHANGED <<scn, conf, sched, call, obj, rest, left, stopErr, signal, death, watch, overlap, failed>>

\* stopRemovedProcesses: an error is logged, the supervisor is dropped.
ReloadRemove(a, n) ==
  /\ ~Exited /\ pc[a] = "removing" /\ n \in plan.stop
  /\ plan' = [plan EXCEPT !.stop = @ \ {n}]
  /\ IF n \in DOMAIN reg
     THEN /\ \E r \in Stops(reg[n]) : Note(r.ok) /\ sup' = [sup EXCEPT ![reg[n]] = Dropped(reg[n], r)]
          /\ reg' = Del(reg, n)
     ELSE UNCHANGED <<reg, sup, failed>>
  /\ UNCHANGED <<scn, config, sched, mu, pc, call, obj, rest, left, stopErr, signal, death, watch, overlap>>

ReloadSwap(a) ==
  /\ ~Exited /\ pc[a] = "removing" /\ plan.stop = {}
  /\ config' = plan.new /\ Goto(a, "replacing") /\ plan' = [plan EXCEPT !.new = NoPlan.new]
  /\ UNCHANGED <<scn, reg, sup, sched, mu, call, obj, rest, left, stopErr, signal, death, watch, overlap, failed>>

\* What becomes of a process whose configuration is now c, if stopping what is
\* registered goes as r says and starting its successor succeeds or not ("up").
\* The successor has no death notifier, whatever its schedule and initial state.
\* Without a success what was registered stays.
Launch(n, c, old) ==
  /\ HasRoom
  /\ sup' = [old EXCEPT ![NewObj] = Up(New(c, FALSE))]
  /\ reg' = Put(reg, n, NewObj)

\* Mutant: the predecessor is not stopped.
ReplaceLeaks(n, c, r, up) ==
  IF c.enabled /\ up THEN Launch(n, c, sup)
  ELSE sup' = [sup EXCEPT ![reg[n]] = Down(@, r)] /\ reg' = IF r.ok /\ ~c.enabled THEN Del(reg, n) ELSE reg

Replace(n, c, r, up) ==
  LET old == [sup EXCEPT ![reg[n]] = Dropped(reg[n], r)]
  IN  IF ~r.ok \/ (c.enabled /\ ~up) THEN sup' = [sup EXCEPT ![reg[n]] = Down(@, r)] /\ UNCHANGED reg
      ELSE IF c.enabled THEN Launch(n, c, old)
      ELSE sup' = old /\ reg' = Del(reg, n)

Apply(n, c, r, up) ==
  /\ IF n \in DOMAIN reg THEN Replace(n, c, r, up)
     ELSE IF c.enabled /\ up THEN Launch(n, c, sup)
     ELSE UNCHANGED <<sup, reg>>
  /\ Note(r.ok /\ up)

NothingToStop == [ok |-> TRUE, told |-> FALSE]
StopsOf(n) == IF n \in DOMAIN reg THEN Stops(reg[n]) ELSE {NothingToStop}
StartsOf(c) == IF c.enabled THEN StartOK ELSE {TRUE}

ReloadApply(a, n) ==
  /\ ~Exited /\ pc[a] = "replacing"
  /\ \/ n \in plan.start
     \/ plan.start = {} /\ n \in plan.update
  /\ \E r \in StopsOf(n), up \in StartsOf(config[n]) : Apply(n, config[n], r, up)
  /\ plan' = [plan EXCEPT !.start = @ \ {n}, !.update = @ \ {n}]
  /\ UNCHANGED <<scn, config, sched, mu, pc, call, obj, rest, left, stopErr, signal, death, watch, overlap>>

ReloadEnd(a) ==
  /\ ~Exited /\ pc[a] = "replacing" /\ plan.start = {} /\ plan.update = {}
  /\ mu' = Free /\ Goto(a, After(a))
  /\ UNCHANGED <<scn, conf, sched, flow, signal, death, watch, overlap, failed>>

-----------------------------------------------------------------------------
(* API requests *)

Serving == pc[Main] \notin {"boot", "starting", "exit0", "exit1"}
Busy(a) == IF a = Main THEN pc[a] # "serving" ELSE pc[a] # "idle"

Call(a, r) ==
  /\ Serving /\ pc[a] = "idle" /\ r \in scn.requests
  /\ Goto(a, r.op) /\ call' = [call EXCEPT ![a] = r]
  /\ overlap' = (overlap \/ \E b \in Actor \ {a} : Busy(b))
  /\ UNCHANGED <<scn, conf, sched, mu, obj, rest, left, plan, stopErr, signal, death, watch, failed>>

Lookup(a, op) == Serving /\ pc[a] = op /\ mu = Free
N(a) == call[a].name

NoCall == [op |-> "reload", name |-> 0]

\* Return, without a supervisor in hand.
Return(a) == /\ Goto(a, After(a)) /\ obj' = [obj EXCEPT ![a] = 0]
             /\ call' = [call EXCEPT ![a] = NoCall]

\* StartProcess: looked up under m.mu, acted on later.
StartLookup(a) ==
  /\ Lookup(a, "start")
  /\ IF /\ N(a) \in DOMAIN reg /\ N(a) \in DOMAIN config
        /\ config[N(a)].enabled /\ sup[reg[N(a)]].state = "stopped"
     THEN Goto(a, "startAct") /\ obj' = [obj EXCEPT ![a] = reg[N(a)]] /\ UNCHANGED call
     ELSE Return(a)
  /\ UNCHANGED <<scn, conf, sched, mu, rest, left, plan, stopErr, signal, death, watch, overlap, failed>>

StartAct(a) ==
  /\ Serving /\ pc[a] = "startAct"
  /\ \E ok \in StartOK :
       /\ sup' = [sup EXCEPT ![obj[a]] = IF ok THEN Up(@) ELSE Failed(@)]
       /\ Note(ok)
  /\ Return(a)
  /\ UNCHANGED <<scn, config, reg, sched, mu, rest, left, plan, stopErr, signal, death, watch, overlap>>

\* StopProcess and the first half of RestartProcess.
StopLookup(a) ==
  /\ \/ Lookup(a, "stop")
     \/ Lookup(a, "restart") /\ N(a) \in DOMAIN config
  /\ IF N(a) \in DOMAIN reg /\ sup[reg[N(a)]].state # "stopped"
     THEN Goto(a, IF pc[a] = "stop" THEN "stopAct" ELSE "restartAct")
          /\ obj' = [obj EXCEPT ![a] = reg[N(a)]] /\ UNCHANGED call
     ELSE IF N(a) \in DOMAIN reg /\ pc[a] = "restart" THEN Goto(a, "start") /\ UNCHANGED <<obj, call>>
     ELSE Return(a)
  /\ UNCHANGED <<scn, conf, sched, mu, rest, left, plan, stopErr, signal, death, watch, overlap, failed>>

RestartUnknown(a) ==
  /\ Lookup(a, "restart") /\ N(a) \notin DOMAIN config
  /\ Return(a)
  /\ UNCHANGED <<scn, conf, sched, mu, rest, left, plan, stopErr, signal, death, watch, overlap, failed>>

StopAct(a) ==
  /\ Serving /\ pc[a] \in {"stopAct", "restartAct"}
  /\ \E r \in Stops(obj[a]) :
       /\ sup' = [sup EXCEPT ![obj[a]] = Down(@, r)]
       /\ Note(r.ok)
       /\ IF pc[a] = "restartAct" /\ r.ok THEN Goto(a, "startAct") /\ UNCHANGED <<obj, call>> ELSE Return(a)
  /\ UNCHANGED <<scn, config, reg, sched, mu, rest, left, plan, stopErr, signal, death, watch, overlap>>

\* AddProcess, RemoveProcess and the first part of UpdateProcess hold m.mu from
\* beginning to end.  A failure leaves the configuration as it was.
AddProcess(a) ==
  /\ Lookup(a, "add")
  /\ IF N(a) \in DOMAIN config THEN UNCHANGED <<conf, failed>>
     ELSE \E up \in StartsOf(call[a].cfg) :
            /\ Apply(N(a), call[a].cfg, NothingToStop, up)
            /\ config' = IF up THEN Put(config, N(a), call[a].cfg) ELSE config
  /\ Return(a)
  /\ UNCHANGED <<scn, sched, mu, rest, left, plan, stopErr, signal, death, watch, overlap>>

RemoveProcess(a) ==
  /\ Lookup(a, "remove")
  /\ IF N(a) \notin DOMAIN config THEN UNCHANGED <<conf, failed>>
     ELSE \E r \in StopsOf(N(a)) :
            /\ sup' = IF N(a) \notin DOMAIN reg THEN sup
                      ELSE [sup EXCEPT ![reg[N(a)]] = IF r.ok THEN Dropped(reg[N(a)], r) ELSE Down(@, r)]
            /\ IF r.ok THEN reg' = Del(reg, N(a)) /\ config' = Del(config, N(a))
               ELSE UNCHANGED <<reg, config>>
            /\ Note(r.ok)
  /\ Return(a)
  /\ UNCHANGED <<scn, sched, mu, rest, left, plan, stopErr, signal, death, watch, overlap>>

\* Then, without m.mu, every registered process is restarted.
UpdateProcess(a) ==
  /\ Lookup(a, "update")
  /\ IF N(a) \notin DOMAIN config THEN Return(a) /\ UNCHANGED <<conf, failed, rest>>
     ELSE \E r \in StopsOf(N(a)), up \in StartsOf(call[a].cfg) :
            /\ Apply(N(a), call[a].cfg, r, up)
            /\ IF r.ok /\ up
               THEN /\ config' = Put(config, N(a), call[a].cfg)
                    /\ rest' = [rest EXCEPT ![a] = DOMAIN reg'] /\ Goto(a, "restartAll") /\ UNCHANGED <<obj, call>>
               ELSE UNCHANGED <<config, rest>> /\ Return(a)
  /\ UNCHANGED <<scn, sched, mu, left, plan, stopErr, signal, death, watch, overlap>>

RestartNext(a) ==
  /\ Serving /\ pc[a] = "restartAll"
  /\ IF rest[a] = {} THEN Goto(a, "idle") /\ UNCHANGED <<call, rest>>
     ELSE \E n \in rest[a] :
            /\ rest' = [rest EXCEPT ![a] = @ \ {n}]
            /\ call' = [call EXCEPT ![a] = [op |-> "restart", name |-> n]]
            /\ Goto(a, "restart")
  /\ UNCHANGED <<scn, conf, sched, mu, obj, left, plan, stopErr, signal, death, watch, overlap, failed>>

-----------------------------------------------------------------------------

Init ==
  /\ scn \in Scenarios
  /\ config = scn.initial /\ file = [ok |-> TRUE, procs |-> scn.initial]
  /\ reg = [n \in {} |-> 0] /\ sup = [o \in Obj |-> NoSup]
  /\ jobs = {} /\ schedOn = FALSE /\ jobRuns = FALSE
  /\ mu = Free /\ pc = [a \in Actor |-> IF a = Main THEN "boot" ELSE "idle"]
  /\ call = [a \in Caller |-> NoCall]
  /\ obj = [a \in Caller |-> 0] /\ rest = [a \in Caller |-> {}]
  /\ left = {} /\ plan = NoPlan
  /\ signal = FALSE /\ allDead = FALSE /\ reloadReq = FALSE
  /\ deaths = 0 /\ draining = FALSE
  /\ event = FALSE /\ recent = FALSE /\ missed = FALSE
  /\ stopErr = FALSE /\ overlap = FALSE /\ failed = FALSE

Starting == \E n \in Name : StartGivesUp(n) \/ RegisterScheduled(n) \/ StartRegular(n)
Stopping == ShutdownBegin \/ ShutdownOrder \/ (\E n \in Name : ShutdownStop(n)) \/ ShutdownEnd \/ CloseAPI
Reload(a) ==
  \/ ReloadBegin(a) \/ ReloadSwap(a) \/ ReloadEnd(a)
  \/ \E n \in Name : ReloadRemove(a, n) \/ ReloadApply(a, n)
Handle(a) ==
  \/ StartLookup(a) \/ StartAct(a) \/ StopLookup(a) \/ RestartUnknown(a) \/ StopAct(a)
  \/ AddProcess(a) \/ RemoveProcess(a) \/ UpdateProcess(a) \/ RestartNext(a) \/ Reload(a)
MainStep ==
  Boot \/ Starting \/ StartupDone \/ SelectShutdown \/ SelectReload \/ Reload(Main) \/ Stopping
Death == Drain \/ DrainCheck \/ \E o \in Obj : NotifySend(o) \/ NotifyCheck(o)
Environment ==
  \/ Signal \/ DebounceOver \/ JobFires \/ \E f \in scn.files : Edit(f)
  \/ \E o \in Obj : Dies(o) \/ BecomesReady(o)
  \/ \E a \in Caller, r \in scn.requests : Call(a, r)

Next ==
  \/ MainStep \/ Notice \/ JobEnds \/ Death \/ Environment
  \/ \E a \in Caller : Handle(a)

Spec == Init /\ [][Next]_vars

\* Goroutines run; a scheduled job is killed at its timeout, if it has one; m.mu
\* is handed to the goroutines that wait for it in turn, and select does not
\* choose the reload for ever.
Fairness ==
  /\ SF_vars(MainStep) /\ SF_vars(SelectShutdown) /\ SF_vars(ShutdownBegin)
  /\ WF_vars(Notice) /\ WF_vars(scn.timeouts /\ JobEnds) /\ SF_vars(Death)
  /\ \A a \in Caller : SF_vars(Handle(a))
FairSpec == Spec /\ Fairness

-----------------------------------------------------------------------------
(* Properties *)

\* Every variable keeps its type.
TypeOK ==
  /\ IsConfig(config) /\ IsConfig(file.procs) /\ IsConfig(plan.new)
  /\ DOMAIN reg \subseteq Name /\ \A n \in DOMAIN reg : reg[n] \in Obj
  /\ \A o \in Obj : sup[o].cfg \in Cfg /\ sup[o].state \in {"stopped", "running", "failed"}
  /\ \A o \in Obj : sup[o].alive => sup[o].state = "running"
  /\ jobs \subseteq Name /\ mu \in Actor \cup {Free}
  /\ deaths \in 0..DeathCap
  /\ \A a \in Caller : obj[a] \in Obj \cup {0} /\ rest[a] \subseteq Name

\* While the Manager starts, whatever it has started stands on dependencies that
\* are there and ready.
DependenciesUp ==
  pc[Main] = "starting" =>
    \A n \in DOMAIN reg : \A d \in config[n].deps : d \in DOMAIN reg /\ IsReady(reg[d])

Quiet == pc[Main] = "serving" /\ \A a \in Caller : pc[a] = "idle"

\* Between operations the supervisors are those of the enabled processes, each
\* with its configuration as far as Equal compares it, as long as nothing failed
\* to start or stop and the scheduler has no jobs.
InAgreement ==
  Quiet /\ ~failed /\ jobs = {} =>
    /\ DOMAIN reg = Enabled(config)
    /\ \A n \in DOMAIN reg : Equal(sup[reg[n]].cfg, config[n])

\* A supervisor that nothing refers to has no process, unless operations overlap:
\* StartProcess looks its supervisor up and starts it later.
NoOrphan ==
  ~overlap => \A o \in Obj : sup[o].alive => \E n \in DOMAIN reg : reg[n] = o

\* When the program ends well it has stopped everything, if the graph has an
\* order and no request is in progress or has been since the shutdown began.
StopsEverything ==
  pc[Main] = "exit0" /\ ~overlap /\ ~Broken(config) =>
    /\ ~jobRuns /\ \A o \in Obj : ~sup[o].alive

\* m.mu is held while readiness is awaited, while jobs end and while processes
\* stop, whose goroutines may want it: it is always released.
LockReleased == mu # Free ~> mu = Free \/ Exited

\* SIGTERM ends the program.
TermExits == signal ~> Exited

\* When all the processes that Start started have died, none having been stopped
\* by a request, the program ends.
NoneAlive ==
  /\ pc[Main] = "serving" /\ DOMAIN reg # {}
  /\ \A n \in DOMAIN reg :
       LET s == sup[reg[n]] IN s.notifier /\ s.state = "running" /\ ~s.alive
AllDeadExits == <>[]NoneAlive => <>Exited

\* A scheduled job without a timeout, which is the default, runs for ever; a
\* Shutdown then waits for it for ever, holding m.mu.
JobHangs == <>[](jobRuns /\ ~scn.timeouts)

\* A change of the file that no debounce swallowed takes effect, unless the
\* program hangs in Shutdown.
EditsApplied ==
  ~JobHangs => []<>(Exited \/ missed \/ ~scn.watch \/ ~file.ok \/ config = file.procs)

\* The maps of the Manager and the processes that run are in step: types, the
\* supervisors against the configuration, and no process that nothing refers to.
Consistent == TypeOK /\ InAgreement /\ NoOrphan

\* The program ends when it should: on SIGTERM and when everything died, and no
\* lock held for ever is in the way, provided that every job ends by itself or
\* has a timeout: the code does not cancel the jobs that run.
Exits == ~JobHangs => LockReleased /\ TermExits /\ AllDeadExits
=============================================================================
