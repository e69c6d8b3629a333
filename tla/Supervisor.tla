----------------------------- MODULE Supervisor -----------------------------
(***************************************************************************)
(* One Supervisor of phpeek-pm (internal/process/supervisor.go): the       *)
(* instances of one configured process, the monitor goroutine of every     *)
(* instance with its restart loop, the operations Start, ScaleUp,          *)
(* ScaleDown and Stop with their stopInstance goroutines, the API          *)
(* goroutines of the Manager that request them (manager_lifecycle.go,      *)
(* manager_scaling.go) and the death notification the Manager acts on      *)
(* (manager_health.go).                                                    *)
(*                                                                         *)
(* A step is what a goroutine does between two points where another one    *)
(* can interfere: one critical section of operationMu, s.mu or inst.mu, or *)
(* one blocking call.  Time is abstracted: a timer may fire at any moment. *)
(*                                                                         *)
(* Stop's wait for the s.goroutines group is the one exception: its five    *)
(* seconds are taken to be enough for a monitor that nothing holds up, so   *)
(* that they run out only when a monitor is blocked (see Lingers).          *)
(***************************************************************************)
EXTENDS Integers, Sequences, FiniteSets, Functions

CONSTANTS
  Inst,         \* Instance objects; each one stands for one OS process started
  Caller,       \* API goroutines that issue StartProcess, StopProcess, ...
  Configs,      \* the configurations and environments to look at
  DeathCap      \* capacity of Manager.processDeathCh (10 in the code)

ApiOps  == {"StartProcess", "StopProcess", "RestartProcess", "ScaleProcess"}
Config  == [scale     : Nat,                \* config.Scale at the start
            policy    : {"always", "on-failure", "never"},
            max       : Nat,                \* MaxRestartAttempts, 0: unlimited
            oneshot   : BOOLEAN,            \* config.Type = "oneshot"
            health    : BOOLEAN,            \* config.HealthCheck # nil
            execFails : BOOLEAN,            \* exec of the command may fail
            slowBackoff : BOOLEAN,          \* backoffs outlast exec loops, see below
            pool      : Nat,                \* bound: Instance objects in use
            callers   : SUBSET Caller,      \* the goroutines that use the API
            requests  : SUBSET [op : ApiOps, n : Nat]]  \* and what they ask for

ASSUME ConstantsAssumption ==
  /\ Configs \subseteq Config
  /\ DeathCap \in Nat

VARIABLES
  conf,         \* the configuration, fixed
  \* struct Supervisor
  supState,     \* s.state
  ctx,          \* s.ctx: "nil", "live" or "cancelled"
  slots,        \* s.instances
  ready,        \* s.readinessCh is closed
  cfgScale,     \* s.config.Scale
  \* struct Instance
  istate,       \* inst.state; "none" for an object not in use
  allow,        \* inst.allowRestart
  rcount,       \* inst.restartCount
  idx,          \* the number in inst.id ("<name>-<idx>")
  \* the monitorInstance goroutine of an instance
  mon,          \* where it is
  seen,         \* its local restartCount, read when the process exited
  succ,         \* its local newInstance, during attemptRestart (else itself)
  \* the operating system
  alive,        \* processes that have not exited
  killed,       \* processes a SIGKILL was sent to, until the monitor looks
  pctx,         \* context of a process or of a waiting monitor:
                \*   "cur" s.cancel cancels it, "old" nothing does, "cancelled"
  \* operations and callers
  op,           \* the operation that holds operationMu
  stopper,      \* where the stopInstance call for an instance is
  todo,         \* what an API goroutine still has to do
  \* the Manager's view
  deathMsgs,    \* messages in processDeathCh
  allDead,      \* allDeadCh is closed
  \* history, for the properties
  caught        \* Caught has been the case

supVars   == <<supState, ctx, slots, ready, cfgScale>>
instVars  == <<istate, allow, rcount, idx>>
monVars   == <<mon, seen, succ>>
osVars    == <<alive, killed, pctx>>
opVars    == <<op, stopper, todo>>
deathVars == <<deathMsgs, allDead>>
state == <<conf, supVars, instVars, monVars, osVars, opVars, deathVars>>
vars == <<state, caught>>

-----------------------------------------------------------------------------
SupStates  == {"stopped", "starting", "running", "stopping", "failed"}
InstStates == {"none", "running", "stopping", "stopped", "failed", "completed"}
MonPcs     == {"none", "wait", "exited", "backoff", "respawn", "count",
               "replace", "check", "notify", "done"}
Contexts   == {"cur", "old", "cancelled"}
StopPcs    == {"idle", "ask", "signal", "wait", "killed", "ok", "err"}
OpKinds    == {"none", "start", "up", "upfail", "down", "cancelled", "stopping"}
Step       == [do : {"start", "stop", "up", "down", "cfg", "topup"}, n : Nat]

NoOp       == [kind |-> "none", by |-> {}, n |-> 0, list |-> <<>>]

\* Bound: restart counters saturate where the policy no longer tells them apart.
Saturate(n) ==
  LET top == IF conf.max = 0 THEN 0 ELSE conf.max + 1
  IN  IF n < top THEN n ELSE top

\* s.mu is held for writing during the whole of Start and at no other time
\* across steps.
MuFree == op.kind # "start"

\* The instances the running operation has in hand, and what else still refers
\* to an Instance object: a slot, or the monitor that is about to fill one.
InHand == Range(op.list)
Referenced(p) ==
  \/ p \in Range(slots) \cup InHand
  \/ \E o \in Inst : mon[o] \in {"count", "replace"} /\ succ[o] = p

\* An Instance object that Go's allocator may hand out: never used, or garbage,
\* and within the bound.
Fresh(p) ==
  /\ Cardinality({o \in Inst : mon[o] # "none"}) < conf.pool
  /\ mon[p] \in {"none", "done"} /\ stopper[p] = "idle"
  /\ ~Referenced(p)

\* RestartPolicy.ShouldRestart
ShouldRestart(c, n) ==
  /\ conf.policy # "never"
  /\ conf.policy = "on-failure" => c # "ok"
  /\ conf.max = 0 \/ n < conf.max

Init ==
  /\ conf \in Configs
  /\ supState = "stopped" /\ ctx = "nil" /\ slots = <<>>
  /\ ready = FALSE /\ cfgScale = conf.scale
  /\ istate = [p \in Inst |-> "none"]
  /\ allow = [p \in Inst |-> FALSE]
  /\ rcount = [p \in Inst |-> 0]
  /\ idx = [p \in Inst |-> 0]
  /\ mon = [p \in Inst |-> "none"]
  /\ seen = [p \in Inst |-> 0]
  /\ succ = [p \in Inst |-> p]
  /\ alive = {} /\ killed = {}
  /\ pctx = [p \in Inst |-> "cancelled"]
  /\ op = NoOp
  /\ stopper = [p \in Inst |-> "idle"]
  /\ todo = [c \in Caller |-> <<>>]
  /\ deathMsgs = 0 /\ allDead = FALSE /\ caught = FALSE

-----------------------------------------------------------------------------
(* startInstance *)

\* startInstance, when the command starts: the object q, the number i of its
\* id and the kind of its context c.  m is mon with what else the caller changes
\* in it.
StartInstance(q, i, c, m) ==
  /\ Fresh(q)
  /\ istate' = [istate EXCEPT ![q] = "running"]
  /\ allow' = [allow EXCEPT ![q] = TRUE]
  /\ rcount' = [rcount EXCEPT ![q] = 0]
  /\ idx' = [idx EXCEPT ![q] = i]
  /\ mon' = [m EXCEPT ![q] = "wait"]
  /\ alive' = alive \cup {q}
  /\ killed' = killed \ {q}
  /\ pctx' = [pctx EXCEPT ![q] = c]

\* What becomes of the contexts derived from s.ctx when s.cancel() runs, and
\* when Start replaces s.ctx and s.cancel without a Stop before it.
Cancelled  == [p \in Inst |-> IF pctx[p] = "cur" THEN "cancelled" ELSE pctx[p]]
Superseded == [p \in Inst |-> IF pctx[p] = "cur" THEN "old" ELSE pctx[p]]
CancelKills == killed \cup {p \in alive : pctx[p] = "cur"}

\* Objects that nothing refers to any more are wiped, as the garbage collector
\* would, so that no two states differ in garbage only.
Wipe(G) ==
  LET Blank(f, blank) == [p \in Inst |-> IF p \in G THEN blank ELSE f[p]]
  IN  /\ istate' = Blank(istate, "none") /\ allow' = Blank(allow, FALSE)
      /\ rcount' = Blank(rcount, 0) /\ idx' = Blank(idx, 0)
      /\ mon' = Blank(mon, "none") /\ seen' = Blank(seen, 0)
      /\ pctx' = Blank(pctx, "cancelled")
      /\ succ' = [p \in Inst |-> IF p \in G THEN p ELSE succ[p]]
Ended(s) == {p \in Range(s) : mon[p] = "done"}

-----------------------------------------------------------------------------
(* The operating system *)

\* A process exits: by itself at any time, or because it was killed.
ProcExit(p) ==
  /\ p \in alive
  /\ alive' = alive \ {p}
  /\ UNCHANGED <<conf, supVars, instVars, monVars, killed, pctx, opVars, deathVars>>

-----------------------------------------------------------------------------
(* monitorInstance *)

\* cmd.Wait returns; under inst.mu the state is set and restartCount read.
MonExited(p) ==
  /\ mon[p] = "wait" /\ p \notin alive
  /\ istate' = [istate EXCEPT ![p] = "stopped"]
  /\ seen' = [seen EXCEPT ![p] = rcount[p]]
  /\ mon' = [mon EXCEPT ![p] = "exited"]
  /\ UNCHANGED <<conf, supVars, allow, rcount, idx, succ, osVars, opVars, deathVars>>

\* The exit status, which nothing looks at before the two steps below do: a
\* process that was killed did not exit cleanly.
ExitCodes(p) == IF p \in killed THEN {"err"} ELSE {"ok", "err"}

\* handleOneshotExit, up to its call of checkAllInstancesDead.
MonOneshot(p) ==
  /\ mon[p] = "exited" /\ conf.oneshot
  /\ \E code \in ExitCodes(p) :
       /\ istate' = [istate EXCEPT ![p] = IF code = "ok" THEN "completed" ELSE "failed"]
       /\ ready' = (ready \/ code = "ok")
  /\ mon' = [mon EXCEPT ![p] = "check"]
  /\ killed' = killed \ {p}
  /\ UNCHANGED <<conf, supState, ctx, slots, cfgScale, allow, rcount, idx, seen, succ,
                 alive, pctx, opVars, deathVars>>

\* The restart is disabled: the goroutine ends and closes doneCh.
MonNoRestart(p) ==
  /\ mon[p] = "exited" /\ ~conf.oneshot /\ ~allow[p]
  /\ mon' = [mon EXCEPT ![p] = "done"]
  /\ killed' = killed \ {p}
  /\ UNCHANGED <<conf, supVars, instVars, seen, succ, alive, pctx, opVars, deathVars>>

\* Mutant: an instance that will not restart ends without checkAllInstancesDead.
MonDecideSilent(p) ==
  /\ mon[p] = "exited" /\ ~conf.oneshot /\ allow[p]
  /\ \E code \in ExitCodes(p) :
       /\ mon' = [mon EXCEPT ![p] = IF ShouldRestart(code, seen[p]) THEN "backoff" ELSE "done"]
       /\ pctx' = [pctx EXCEPT ![p] = IF ctx = "live" THEN "cur" ELSE "cancelled"]
  /\ killed' = killed \ {p}
  /\ UNCHANGED <<conf, supVars, instVars, seen, succ, alive, opVars, deathVars>>

\* The policy decides.  attemptRestart waits for its timer or for the context
\* that s.ctx is now; on a nil s.ctx it panics, and the deferred function
\* marks the instance failed and closes doneCh.
MonDecide(p) ==
  /\ mon[p] = "exited" /\ ~conf.oneshot /\ allow[p]
  /\ \E code \in ExitCodes(p) :
       \/ /\ ~ShouldRestart(code, seen[p])
          /\ mon' = [mon EXCEPT ![p] = "check"]
          /\ UNCHANGED <<istate, pctx>>
       \/ /\ ShouldRestart(code, seen[p]) /\ ctx # "nil"
          /\ mon' = [mon EXCEPT ![p] = "backoff"]
          /\ pctx' = [pctx EXCEPT ![p] = IF ctx = "live" THEN "cur" ELSE "cancelled"]
          /\ UNCHANGED istate
       \/ /\ ShouldRestart(code, seen[p]) /\ ctx = "nil"
          /\ mon' = [mon EXCEPT ![p] = "done"]
          /\ istate' = [istate EXCEPT ![p] = "failed"]
          /\ UNCHANGED pctx
  /\ killed' = killed \ {p}
  /\ UNCHANGED <<conf, supVars, allow, rcount, idx, seen, succ, alive, opVars, deathVars>>

\* The select of attemptRestart: either case may be taken when both are ready.
BackoffCancelled(p) ==
  /\ mon[p] = "backoff" /\ pctx[p] = "cancelled"
  /\ mon' = [mon EXCEPT ![p] = "done"]
  /\ UNCHANGED <<conf, supVars, instVars, seen, succ, osVars, opVars, deathVars>>

\* With slowBackoff the timer (a second or more) does not run out while Start
\* or ScaleUp forks its instances, nor before the monitor that started p has
\* put it into its slot.
BackoffOver(p) ==
  /\ mon[p] = "backoff"
  /\ conf.slowBackoff =>
       /\ op.kind \notin {"start", "up"}
       /\ \A o \in Inst : mon[o] \in {"count", "replace"} => succ[o] # p
  /\ mon' = [mon EXCEPT ![p] = "respawn"]
  /\ UNCHANGED <<conf, supVars, instVars, seen, succ, osVars, opVars, deathVars>>

\* s.ctx.Err() and startInstance(s.ctx, ...): a cancelled context ends the
\* attempt at either of them, a nil one panics, the exec can fail.
RespawnFails(p) ==
  /\ mon[p] = "respawn"
  /\ mon' = [mon EXCEPT ![p] = "done"]
  /\ \/ /\ ctx = "cancelled"
        /\ UNCHANGED istate
     \/ /\ ctx # "live" \/ conf.execFails
        /\ istate' = [istate EXCEPT ![p] = "failed"]
  /\ UNCHANGED <<conf, supVars, allow, rcount, idx, seen, succ, osVars, opVars, deathVars>>

\* Mutant: the new instance runs under context.Background() instead of s.ctx.
RespawnBackground(p, q) ==
  /\ mon[p] = "respawn" /\ ctx = "live"
  /\ StartInstance(q, idx[p], "old", [mon EXCEPT ![p] = "count"])
  /\ succ' = [succ EXCEPT ![p] = q]
  /\ UNCHANGED <<conf, supVars, seen, opVars, deathVars>>

Respawn(p, q) ==
  /\ mon[p] = "respawn" /\ ctx = "live"
  /\ StartInstance(q, idx[p], "cur", [mon EXCEPT ![p] = "count"])
  /\ succ' = [succ EXCEPT ![p] = q]
  /\ UNCHANGED <<conf, supVars, seen, opVars, deathVars>>

\* newInstance.restartCount = restartCount + 1, after the process runs.
SetCount(p) ==
  /\ mon[p] = "count"
  /\ rcount' = [rcount EXCEPT ![succ[p]] = Saturate(seen[p] + 1)]
  /\ mon' = [mon EXCEPT ![p] = "replace"]
  /\ UNCHANGED <<conf, supVars, istate, allow, idx, seen, succ, osVars, opVars, deathVars>>

\* Mutant: the new instance is never stored.
ReplaceNothing(p) ==
  /\ mon[p] = "replace" /\ MuFree
  /\ Wipe({p})
  /\ UNCHANGED <<conf, supVars, alive, killed, opVars, deathVars>>

\* The first slot with the same id takes the new instance; if there is none
\* the new instance is in no slot at all.
Replace(p) ==
  /\ mon[p] = "replace" /\ MuFree
  /\ LET same == {i \in DOMAIN slots : idx[slots[i]] = idx[p]}
     IN  slots' = [i \in DOMAIN slots |->
                     IF i \in same /\ \A j \in same : i <= j THEN succ[p] ELSE slots[i]]
  /\ Wipe({p})
  /\ UNCHANGED <<conf, supState, ctx, ready, cfgScale, alive, killed, opVars, deathVars>>

\* checkAllInstancesDead: the scan under s.mu, then the call of the notifier,
\* which reads len(s.instances) again after the unlock.
CheckAllDead(p) ==
  /\ mon[p] = "check" /\ MuFree
  /\ LET allDown == \A i \in DOMAIN slots : istate[slots[i]] # "running"
     IN  mon' = [mon EXCEPT ![p] = IF allDown THEN "notify" ELSE "done"]
  /\ UNCHANGED <<conf, supVars, instVars, seen, succ, osVars, opVars, deathVars>>

\* checkAllProcessesDead of a Manager whose only process this is.
ManagerAllDead ==
  allDead \/ \A i \in DOMAIN slots : istate[slots[i]] # "running"

\* NotifyProcessDeath: a message if there is room, else the check at once.
Notify(p) ==
  /\ mon[p] = "notify"
  /\ \/ slots = <<>> /\ UNCHANGED deathVars
     \/ /\ slots # <<>> /\ deathMsgs < DeathCap
        /\ deathMsgs' = deathMsgs + 1 /\ UNCHANGED allDead
     \/ /\ slots # <<>> /\ deathMsgs >= DeathCap /\ MuFree
        /\ allDead' = ManagerAllDead /\ UNCHANGED deathMsgs
  /\ IF Referenced(p)
     THEN mon' = [mon EXCEPT ![p] = "done"] /\ UNCHANGED <<instVars, seen, succ, pctx>>
     ELSE Wipe({p})
  /\ UNCHANGED <<conf, supVars, alive, killed, opVars>>

\* Mutant: a receive that does not wait for a message.
ManagerCheckUnasked ==
  /\ MuFree
  /\ deathMsgs' = deathMsgs - 1
  /\ allDead' = ManagerAllDead
  /\ UNCHANGED <<conf, supVars, instVars, monVars, osVars, opVars>>

\* The loop of MonitorProcessHealth.
ManagerCheck ==
  /\ deathMsgs > 0 /\ MuFree
  /\ deathMsgs' = deathMsgs - 1
  /\ allDead' = ManagerAllDead
  /\ UNCHANGED <<conf, supVars, instVars, monVars, osVars, opVars>>

-----------------------------------------------------------------------------
(* handleHealthStatus, with a HealthMonitor that may report anything at any   *)
(* time (HealthMonitor.tla models what it reports).  A status handled after   *)
(* s.cancel() finds processes that the cancellation has killed already.       *)

HealthPassed ==
  /\ conf.health /\ ctx = "live" /\ MuFree /\ ~ready
  /\ ready' = TRUE
  /\ UNCHANGED <<conf, supState, ctx, slots, cfgScale, instVars, monVars, osVars, opVars, deathVars>>

\* Every instance in a slot that is running is killed; its monitor restarts it.
HealthFailed ==
  /\ conf.health /\ ctx = "live" /\ MuFree
  /\ killed' = killed \cup {p \in Range(slots) \cap alive : istate[p] = "running"}
  /\ UNCHANGED <<conf, supVars, instVars, monVars, alive, pctx, opVars, deathVars>>

-----------------------------------------------------------------------------
(* stopInstance *)

\* Mutant: the restart is disabled whatever the instance does.
StopAskAlways(p) ==
  /\ stopper[p] = "ask"
  /\ istate' = [istate EXCEPT ![p] = "stopping"]
  /\ allow' = [allow EXCEPT ![p] = FALSE]
  /\ stopper' = [stopper EXCEPT ![p] = "signal"]
  /\ UNCHANGED <<conf, supVars, rcount, idx, monVars, osVars, op, todo, deathVars>>

\* Under inst.mu: nothing to do for an instance that is not running.
StopAsk(p) ==
  /\ stopper[p] = "ask"
  /\ IF istate[p] # "running"
     THEN /\ stopper' = [stopper EXCEPT ![p] = "ok"]
          /\ UNCHANGED <<istate, allow>>
     ELSE /\ istate' = [istate EXCEPT ![p] = "stopping"]
          /\ allow' = [allow EXCEPT ![p] = FALSE]
          /\ stopper' = [stopper EXCEPT ![p] = "signal"]
  /\ UNCHANGED <<conf, supVars, rcount, idx, monVars, osVars, op, todo, deathVars>>

\* The pre-stop hook and the signal; a process already reaped gives an error.
StopSignal(p) ==
  /\ stopper[p] = "signal"
  /\ \/ mon[p] = "wait" /\ stopper' = [stopper EXCEPT ![p] = "wait"]
     \/ p \notin alive  /\ stopper' = [stopper EXCEPT ![p] = "err"]
  /\ UNCHANGED <<conf, supVars, instVars, monVars, osVars, op, todo, deathVars>>

\* Mutant: the timeout sends no SIGKILL.
StopKillNothing(p) ==
  /\ stopper[p] = "wait"
  /\ stopper' = [stopper EXCEPT ![p] = "killed"]
  /\ UNCHANGED <<conf, supVars, instVars, monVars, osVars, op, todo, deathVars>>

\* The timeout: Kill fails on a process already reaped.
StopKill(p) ==
  /\ stopper[p] = "wait"
  /\ \/ /\ mon[p] = "wait"
        /\ stopper' = [stopper EXCEPT ![p] = "killed"]
        /\ killed' = killed \cup ({p} \cap alive)
     \/ /\ p \notin alive
        /\ stopper' = [stopper EXCEPT ![p] = "err"]
        /\ UNCHANGED killed
  /\ UNCHANGED <<conf, supVars, instVars, monVars, alive, pctx, op, todo, deathVars>>

\* <-instance.doneCh
StopDone(p) ==
  /\ stopper[p] \in {"wait", "killed"} /\ mon[p] = "done"
  /\ stopper' = [stopper EXCEPT ![p] = "ok"]
  /\ UNCHANGED <<conf, supVars, instVars, monVars, osVars, op, todo, deathVars>>

StoppersDone == \A p \in InHand : stopper[p] \in {"ok", "err"}
NoStopError  == \A p \in InHand : stopper[p] = "ok"

-----------------------------------------------------------------------------
(* Start, ScaleUp, ScaleDown, Stop: one of them at a time has operationMu *)

Wants(c, step) == todo[c] # <<>> /\ Head(todo[c]).do = step
Acquire(c, kind, list) ==
  /\ op.kind = "none"
  /\ op' = [kind |-> kind, by |-> {c}, n |-> Head(todo[c]).n, list |-> list]
  /\ UNCHANGED todo

\* The operation returns to its caller, which goes on or gives up.
Return(ok) ==
  /\ op' = NoOp
  /\ todo' = [c \in Caller |->
                IF c \notin op.by THEN todo[c]
                ELSE IF ok THEN Tail(todo[c]) ELSE <<>>]

StartBegin(c) ==
  /\ Wants(c, "start") /\ Acquire(c, "start", <<>>)
  /\ supState' = "starting" /\ ctx' = "live" /\ pctx' = Superseded
  /\ UNCHANGED <<conf, slots, ready, cfgScale, instVars, monVars, alive, killed,
                 stopper, deathVars>>

StartOne(q) ==
  /\ op.kind = "start" /\ op.n < cfgScale
  /\ StartInstance(q, op.n, "cur", mon)
  /\ slots' = Append(slots, q)
  /\ op' = [op EXCEPT !.n = @ + 1]
  /\ UNCHANGED <<conf, supState, ctx, ready, cfgScale, seen, succ, stopper, todo, deathVars>>

StartFails ==
  /\ op.kind = "start" /\ op.n < cfgScale /\ conf.execFails
  /\ supState' = "failed" /\ ctx' = "cancelled"
  /\ pctx' = Cancelled /\ killed' = CancelKills
  /\ Return(FALSE)
  /\ UNCHANGED <<conf, slots, ready, cfgScale, instVars, monVars, alive, stopper, deathVars>>

StartEnd ==
  /\ op.kind = "start" /\ op.n >= cfgScale
  /\ supState' = "running" /\ ready' = (ready \/ ~conf.health)
  /\ Return(TRUE)
  /\ UNCHANGED <<conf, ctx, slots, cfgScale, instVars, monVars, osVars, stopper, deathVars>>

ScaleUpBegin(c) ==
  /\ Wants(c, "up") /\ op.kind = "none"
  /\ IF Head(todo[c]).n <= Len(slots)
     THEN todo' = [todo EXCEPT ![c] = <<>>] /\ UNCHANGED op
     ELSE Acquire(c, "up", <<>>)
  /\ UNCHANGED <<conf, supVars, instVars, monVars, osVars, stopper, deathVars>>

\* With a nil s.ctx the instance runs under context.Background().
ScaleUpOne(q) ==
  /\ op.kind = "up" /\ Len(slots) + Len(op.list) < op.n /\ ctx # "cancelled"
  /\ StartInstance(q, Len(slots) + Len(op.list), IF ctx = "nil" THEN "old" ELSE "cur", mon)
  /\ op' = [op EXCEPT !.list = Append(@, q)]
  /\ UNCHANGED <<conf, supVars, seen, succ, stopper, todo, deathVars>>

ScaleUpFails ==
  /\ op.kind = "up" /\ Len(slots) + Len(op.list) < op.n
  /\ ctx = "cancelled" \/ conf.execFails
  /\ op' = [op EXCEPT !.kind = "upfail"]
  /\ UNCHANGED <<conf, supVars, instVars, monVars, osVars, stopper, todo, deathVars>>

\* The instances already started are stopped, one after the other.
ScaleUpCleanup ==
  /\ op.kind = "upfail"
  /\ IF op.list = <<>>
     THEN Return(FALSE) /\ UNCHANGED <<stopper, instVars, monVars, pctx>>
     ELSE \/ /\ stopper[Head(op.list)] = "idle"
             /\ stopper' = [stopper EXCEPT ![Head(op.list)] = "ask"]
             /\ UNCHANGED <<op, todo, instVars, monVars, pctx>>
          \/ /\ stopper[Head(op.list)] \in {"ok", "err"}
             /\ stopper' = [stopper EXCEPT ![Head(op.list)] = "idle"]
             /\ op' = [op EXCEPT !.list = Tail(@)]
             /\ Wipe(Ended(<<Head(op.list)>>))
             /\ UNCHANGED todo
  /\ UNCHANGED <<conf, supVars, alive, killed, deathVars>>

ScaleUpEnd ==
  /\ op.kind = "up" /\ Len(slots) + Len(op.list) >= op.n
  /\ slots' = slots \o op.list
  /\ Return(TRUE)
  /\ UNCHANGED <<conf, supState, ctx, ready, cfgScale, instVars, monVars, osVars, stopper, deathVars>>

\* The stopInstance goroutines of the instances in s.
AskAll(s) == stopper' = [p \in Inst |-> IF p \in Range(s) THEN "ask" ELSE stopper[p]]

ScaleDownBegin(c) ==
  /\ Wants(c, "down") /\ op.kind = "none"
  /\ LET n == Head(todo[c]).n
         tail == SubSeq(slots, n + 1, Len(slots))
     IN  IF n >= Len(slots)
         THEN todo' = [todo EXCEPT ![c] = <<>>] /\ UNCHANGED <<op, stopper>>
         ELSE Acquire(c, "down", tail) /\ AskAll(tail)
  /\ UNCHANGED <<conf, supVars, instVars, monVars, osVars, deathVars>>

\* Mutant: ScaleDown does not wait for its stopInstance goroutines.
ScaleDownEndNoWait ==
  /\ op.kind = "down"
  /\ slots' = SubSeq(slots, 1, op.n)
  /\ stopper' = [p \in Inst |-> "idle"]
  /\ Wipe(Ended(SubSeq(slots, op.n + 1, Len(slots)) \o op.list))
  /\ Return(NoStopError)
  /\ UNCHANGED <<conf, supState, ctx, ready, cfgScale, alive, killed, deathVars>>

ScaleDownEnd ==
  /\ op.kind = "down" /\ StoppersDone
  /\ slots' = SubSeq(slots, 1, op.n)
  /\ stopper' = [p \in Inst |-> "idle"]
  /\ Wipe(Ended(SubSeq(slots, op.n + 1, Len(slots)) \o op.list))
  /\ Return(NoStopError)
  /\ UNCHANGED <<conf, supState, ctx, ready, cfgScale, alive, killed, deathVars>>

\* The state is set and s.cancel() called before the instances are listed.
StopBegin(c) ==
  /\ Wants(c, "stop") /\ Acquire(c, "cancelled", <<>>)
  /\ supState' = "stopping" /\ ctx' = IF ctx = "live" THEN "cancelled" ELSE ctx
  /\ pctx' = Cancelled /\ killed' = CancelKills
  /\ UNCHANGED <<conf, slots, ready, cfgScale, instVars, monVars, alive, stopper, deathVars>>

StopInstances ==
  /\ op.kind = "cancelled"
  /\ op' = [op EXCEPT !.kind = "stopping", !.list = slots]
  /\ AskAll(slots)
  /\ UNCHANGED <<conf, supVars, instVars, monVars, osVars, todo, deathVars>>

\* The goroutines that outlast the five seconds Stop grants them: a monitor in
\* the death notifier, one whose process nobody has killed, and one in a
\* backoff that nobody cancelled.
Lingers(p) ==
  \/ mon[p] = "notify"
  \/ mon[p] = "wait" /\ p \in alive \ killed
  \/ mon[p] = "backoff" /\ pctx[p] # "cancelled"

\* Mutant: Stop does not wait for the monitor goroutines.
StopEndNoWait ==
  /\ op.kind = "stopping" /\ StoppersDone
  /\ supState' = "stopped" /\ slots' = <<>> /\ ctx' = "nil"
  /\ stopper' = [p \in Inst |-> "idle"]
  /\ Wipe(Ended(slots \o op.list))
  /\ Return(NoStopError)
  /\ UNCHANGED <<conf, ready, cfgScale, alive, killed, deathVars>>

StopEnd ==
  /\ op.kind = "stopping" /\ StoppersDone
  /\ \A p \in Inst : mon[p] \in {"none", "done"} \/ Lingers(p)
  /\ supState' = "stopped" /\ slots' = <<>> /\ ctx' = "nil"
  /\ stopper' = [p \in Inst |-> "idle"]
  /\ Wipe(Ended(slots \o op.list))
  /\ Return(NoStopError)
  /\ UNCHANGED <<conf, ready, cfgScale, alive, killed, deathVars>>

-----------------------------------------------------------------------------
(* The API goroutines: StartProcess, StopProcess, RestartProcess and         *)
(* ScaleProcess look at the supervisor first and act on it later.            *)

Do(step, n) == [do |-> step, n |-> n]

StartPlan   == IF supState = "stopped" THEN <<Do("start", 0)>> ELSE <<>>
StopPlan    == IF supState = "stopped" THEN <<>> ELSE <<Do("stop", 0)>>
RestartPlan == StopPlan \o <<Do("start", 0)>>
ScalePlan(n) ==
  LET cur == Len(slots)
  IN  CASE conf.oneshot \/ n = cur -> <<>>
        [] OTHER ->
             CASE n = 0 -> <<Do("stop", 0), Do("cfg", 0)>>
               [] cur = 0 ->
                    IF n = 1 THEN <<Do("start", 0)>> ELSE <<Do("start", 0), Do("topup", n)>>
               [] 0 < cur /\ cur < n -> <<Do("up", n), Do("cfg", n)>>
               [] OTHER -> <<Do("down", n), Do("cfg", n)>>

Plan(r) ==
  CASE r.op = "StartProcess"   -> StartPlan
    [] r.op = "StopProcess"    -> StopPlan
    [] r.op = "RestartProcess" -> RestartPlan
    [] r.op = "ScaleProcess"   -> ScalePlan(r.n)

\* scaleFromZero writes config.Scale, without a lock, before it calls Start.
Request(c, r) ==
  /\ c \in conf.callers /\ todo[c] = <<>> /\ MuFree
  /\ Plan(r) # <<>>
  /\ todo' = [todo EXCEPT ![c] = Plan(r)]
  /\ cfgScale' = IF r.op = "ScaleProcess" /\ ~conf.oneshot /\ slots = <<>> /\ r.n > 0
                 THEN r.n ELSE cfgScale
  /\ UNCHANGED <<conf, supState, ctx, slots, ready, instVars, monVars, osVars, op, stopper, deathVars>>

\* updateScaleConfig
UpdateScaleConfig(c) ==
  /\ Wants(c, "cfg") /\ c \notin op.by
  /\ cfgScale' = Head(todo[c]).n
  /\ todo' = [todo EXCEPT ![c] = Tail(@)]
  /\ UNCHANGED <<conf, supState, ctx, slots, ready, instVars, monVars, osVars, op, stopper, deathVars>>

\* The end of scaleFromZero: ScaleUp if somebody interfered.
TopUp(c) ==
  /\ Wants(c, "topup") /\ c \notin op.by /\ MuFree
  /\ todo' = [todo EXCEPT ![c] =
                IF Len(slots) < Head(@).n THEN <<Do("up", Head(@).n)>> ELSE <<>>]
  /\ UNCHANGED <<conf, supVars, instVars, monVars, osVars, op, stopper, deathVars>>

-----------------------------------------------------------------------------
Monitor(p) ==
  \/ MonExited(p) \/ MonOneshot(p) \/ MonNoRestart(p) \/ MonDecide(p)
  \/ BackoffCancelled(p) \/ BackoffOver(p) \/ RespawnFails(p)
  \/ \E q \in Inst : Respawn(p, q)
  \/ SetCount(p) \/ Replace(p) \/ CheckAllDead(p) \/ Notify(p)

StopInstance(p) == StopAsk(p) \/ StopSignal(p) \/ StopKill(p) \/ StopDone(p)

Operation ==
  \/ \E c \in Caller : StartBegin(c) \/ ScaleUpBegin(c) \/ ScaleDownBegin(c) \/ StopBegin(c)
  \/ \E q \in Inst : StartOne(q) \/ ScaleUpOne(q)
  \/ StartFails \/ StartEnd \/ ScaleUpFails \/ ScaleUpCleanup \/ ScaleUpEnd
  \/ ScaleDownEnd \/ StopInstances \/ StopEnd

Api(c) == (\E r \in conf.requests : Request(c, r)) \/ UpdateScaleConfig(c) \/ TopUp(c)

Restarting == {"backoff", "respawn", "count", "replace"}

\* The monitor of p goes on to restart it, or may still decide to.
MayRestart(p) == allow[p] /\ conf.policy # "never" /\ ~conf.oneshot
Restartable(p) == mon[p] \in Restarting \/ (mon[p] = "exited" /\ MayRestart(p))

\* ScaleDown, or the cleanup of a ScaleUp that failed, has an instance in hand
\* that is between its exit and its restart: stopInstance finds nothing to stop,
\* and the restart comes when the instance has no slot any more.
Caught == op.kind \in {"down", "upfail"} /\ \E p \in InHand : Restartable(p)

CodeStep ==
  \/ \E p \in Inst : ProcExit(p) \/ Monitor(p) \/ StopInstance(p)
  \/ Operation
  \/ \E c \in Caller : Api(c)
  \/ ManagerCheck \/ HealthPassed \/ HealthFailed
Next == CodeStep /\ caught' = (caught \/ Caught')

Spec == Init /\ [][Next]_vars

-----------------------------------------------------------------------------
(* Properties *)

\* Every variable keeps its type.
ConfTypeOK  == conf \in Configs
SupTypeOK   == /\ supState \in SupStates /\ ctx \in {"nil", "live", "cancelled"}
               /\ slots \in Seq(Inst) /\ ready \in BOOLEAN /\ cfgScale \in Nat
InstTypeOK  == /\ istate \in [Inst -> InstStates] /\ allow \in [Inst -> BOOLEAN]
               /\ rcount \in [Inst -> Nat] /\ idx \in [Inst -> Nat]
MonTypeOK   == /\ mon \in [Inst -> MonPcs] /\ seen \in [Inst -> Nat]
               /\ succ \in [Inst -> Inst]
OsTypeOK    == /\ alive \subseteq Inst /\ killed \subseteq Inst
               /\ pctx \in [Inst -> Contexts]
OpTypeOK    == op \in [kind : OpKinds, by : SUBSET Caller, n : Nat, list : Seq(Inst)]
StopTypeOK  == stopper \in [Inst -> StopPcs]
TodoTypeOK  == todo \in [Caller -> Seq(Step)]
DeathTypeOK == deathMsgs \in 0..DeathCap /\ allDead \in BOOLEAN
StateTypeOK == /\ ConfTypeOK /\ SupTypeOK /\ InstTypeOK /\ MonTypeOK /\ OsTypeOK
               /\ OpTypeOK /\ StopTypeOK /\ TodoTypeOK /\ DeathTypeOK
TypeOK == StateTypeOK /\ caught \in BOOLEAN

\* An instance that stopInstance was asked to stop while it ran is never
\* restarted: the allowRestart flag is cleared before the monitor can read it.
NoRestartAfterStop == \A p \in Inst : mon[p] \in Restarting => allow[p]

\* The remaining invariants of the supervisor need requests that come one at a
\* time, for the check of the state and the operation are not atomic; backoffs
\* that outlast the forks of Start and ScaleUp; and, but for SlotIds, that no
\* instance was dropped on its way to a restart.
OneCaller == \E c \in Caller : conf.callers \subseteq {c}
Orderly   == OneCaller /\ conf.slowBackoff
Careful   == Orderly /\ ~caught

\* The instance in slot i carries number i - 1, whatever restarts and scale
\* operations do: ids are unique and a restart replaces its own slot.
SlotIds == Orderly => \A i \in DOMAIN slots : idx[slots[i]] = i - 1

\* Every process is reachable from the supervisor, under the number of its slot:
\* in a slot, in the hands of the running operation, or held by the restart loop
\* of the instance that occupies its slot.
Reachable(p) ==
  \/ p \in Range(slots) \cup InHand
  \/ \E o \in Range(slots) \cup InHand : mon[o] \in {"count", "replace"} /\ succ[o] = p
NoOrphan ==
  /\ SlotIds
  /\ Careful => \A p \in alive : Reachable(p)

\* Once Stop has returned, none of the supervisor's processes is left.
StoppedIsQuiet == Careful /\ supState = "stopped" => alive = {}

\* A step that takes an instance out of the slots takes a dead one out.
DropsOnlyDead ==
  [][Careful => \A p \in Range(slots) : p \notin Range(slots)' => p \notin alive]_vars

\* Stop is graceful: while it runs it kills only what did not exit within the
\* shutdown timeout after the signal (health checks aside, which also kill).
GracefulStop ==
  [][supState' = "stopping" /\ ~conf.health =>
       \A p \in killed' \ killed : stopper[p] = "wait"]_vars

-----------------------------------------------------------------------------
(* Liveness: every goroutine that can go on eventually does, SIGKILL works.  *)
(* Nothing forces callers to call, healthy processes to exit or probes to    *)
(* come out one way.  A backoff timer runs on whatever else happens: strong   *)
(* fairness, for slowBackoff disables its step during the exec loops.        *)

Fairness ==
  /\ \A p \in Inst : /\ WF_state(p \in killed /\ ProcExit(p))
                     /\ WF_state(Monitor(p)) /\ SF_state(BackoffOver(p))
                     /\ WF_state(StopInstance(p))
  /\ WF_state(Operation)
  /\ WF_state(ManagerCheck)
FairSpec == Spec /\ Fairness

\* Every operation returns: Stop and ScaleDown never wait for a goroutine that
\* waits for them.
OperationsReturn == op.kind # "none" ~> op.kind = "none"

\* An instance in a backoff leaves its slot to a new one, unless the supervisor
\* is stopped first or the command no longer starts.
Recovers ==
  \A p \in Inst :
    mon[p] = "backoff" /\ p \in Range(slots)
      ~> p \notin Range(slots) \/ ctx # "live" \/ istate[p] = "failed"

\* When no instance of a started process is left and none will be restarted,
\* the Manager closes allDeadCh or an operation changes the situation.  Two
\* cases are left out, for nobody looks again after them: a ScaleDown that takes
\* the last running instance away, and a restart whose exec fails.
NeverShrinks ==
  \A r, q \in conf.requests :
    r.op = "ScaleProcess" /\ r.n > 0 => r.n >= conf.scale /\ (q.op = r.op /\ q.n > 0 => q.n = r.n)
NoneLeft ==
  /\ NeverShrinks /\ (conf.execFails => conf.policy = "never")
  /\ slots # <<>> /\ op.kind = "none" /\ supState = "running"
  /\ \A p \in Range(slots) : mon[p] = "done" /\ p \notin alive
AllDeadDetected == NoneLeft ~> allDead \/ ~NoneLeft
=============================================================================
