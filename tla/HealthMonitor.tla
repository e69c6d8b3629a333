---------------------------- MODULE HealthMonitor ----------------------------
(***************************************************************************)
(* The health checks of one process: the prober goroutine of HealthMonitor *)
(* (internal/process/healthcheck.go) with its hysteresis, the channel of   *)
(* capacity one it reports to, and the goroutine of the Supervisor that    *)
(* handles the reports (handleHealthStatus in supervisor.go), which marks  *)
(* the process ready or kills its running instances.  The instances exit   *)
(* and come back as the monitors of Supervisor.tla make them.              *)
(***************************************************************************)
EXTENDS Integers, Sequences, FiniteSets

CONSTANTS
  Slot,         \* the instances of the process, by slot
  Settings      \* the health check configurations to look at

Setting == [failureThreshold : Nat, successThreshold : Nat, initialDelay : BOOLEAN]
ASSUME SettingsAssumption == Settings \subseteq Setting

VARIABLES
  setting,      \* hm.config, fixed
  ctx,          \* the context Start was given: "live" or "cancelled"
  \* struct HealthMonitor
  fails,        \* hm.consecutiveFails
  successes,    \* hm.consecutiveSuccess
  healthy,      \* hm.currentlyHealthy
  \* the prober goroutine
  prober,       \* "delay", "wait" for the ticker, "send", "ended"
  status,       \* the HealthStatus it sends, as far as Healthy goes
  ch,           \* statusCh
  \* the goroutine of handleHealthStatus
  handler,      \* "recv", "kill" or "ended"
  victims,      \* running instances of its copy of s.instances it has yet to visit
  ready,        \* s.readinessCh is closed
  \* the instances
  up,           \* slots whose instance is in StateRunning
  doomed,       \* those among them that were sent a SIGKILL
  \* history, not in the code
  recent,       \* the latest check results, at most Window of them
  verdicts      \* the latest values of Healthy the prober came to, at most 3

hmVars   == <<fails, successes, healthy>>
instVars == <<up, doomed>>
histVars == <<recent, verdicts>>
vars == <<setting, ctx, hmVars, prober, status, ch, handler, victims, ready,
          instVars, histVars>>

Results == {"success", "failure"}
Verdict == {"healthy", "unhealthy"}
VerdictOf(well) == IF well THEN "healthy" ELSE "unhealthy"

\* A success threshold that is not set counts as 1.
SuccessThreshold == IF setting.successThreshold = 0 THEN 1 ELSE setting.successThreshold

\* Bound: the streak counters stop counting where the thresholds are reached.
Count(n, threshold) == IF n < threshold THEN n + 1 ELSE n

\* History: the last n elements of a sequence, and how many results are kept.
LastOf(n, s) == IF Len(s) <= n THEN s ELSE SubSeq(s, Len(s) - n + 1, Len(s))
Window == IF setting.failureThreshold > SuccessThreshold
          THEN setting.failureThreshold ELSE SuccessThreshold

Init ==
  /\ setting \in Settings
  /\ ctx = "live"
  /\ fails = 0 /\ successes = 0 /\ healthy = TRUE
  /\ prober = IF setting.initialDelay THEN "delay" ELSE "wait"
  /\ status = "healthy" /\ ch = <<>>
  /\ handler = "recv" /\ victims = {}
  /\ ready = FALSE
  /\ up = Slot /\ doomed = {}
  /\ recent = <<>> /\ verdicts = <<>>

-----------------------------------------------------------------------------
(* The prober *)

\* The wait for InitialDelay.
DelayOver ==
  /\ prober = "delay"
  /\ prober' = "wait"
  /\ UNCHANGED <<setting, ctx, hmVars, status, ch, handler, victims, ready, instVars, histVars>>

\* Mutant: a failure does not end the streak of successes.
CheckFailsNoReset ==
  /\ fails' = Count(fails, setting.failureThreshold)
  /\ UNCHANGED successes
  /\ LET over == fails + 1 >= setting.failureThreshold
     IN  /\ healthy' = (healthy /\ ~over)
         /\ status' = VerdictOf(~over)

\* performCheck, when the check fails.
CheckFails ==
  /\ fails' = Count(fails, setting.failureThreshold)
  /\ successes' = 0
  /\ LET over == fails + 1 >= setting.failureThreshold
     IN  /\ healthy' = (healthy /\ ~over)
         /\ status' = VerdictOf(~over)

\* Mutants: an unhealthy process needs one more success than the threshold; it
\* stays unhealthy for good.
CheckSucceedsLate ==
  /\ fails' = 0
  /\ successes' = Count(successes, SuccessThreshold)
  /\ LET well == healthy \/ successes >= SuccessThreshold
     IN  /\ healthy' = well
         /\ status' = VerdictOf(well)
CheckSucceedsNever ==
  /\ fails' = 0
  /\ successes' = Count(successes, SuccessThreshold)
  /\ UNCHANGED healthy
  /\ status' = VerdictOf(healthy)

\* performCheck, when the check succeeds.
CheckSucceeds ==
  /\ fails' = 0
  /\ successes' = Count(successes, SuccessThreshold)
  /\ LET well == healthy \/ successes + 1 >= SuccessThreshold
     IN  /\ healthy' = well
         /\ status' = VerdictOf(well)

\* The ticker fires: one check, whose result is left open.
Check ==
  /\ prober = "wait"
  /\ \E ok \in BOOLEAN :
       /\ IF ok THEN CheckSucceeds ELSE CheckFails
       /\ recent' = LastOf(Window, Append(recent, IF ok THEN "success" ELSE "failure"))
  /\ verdicts' = LastOf(3, Append(verdicts, status'))
  /\ prober' = "send"
  /\ UNCHANGED <<setting, ctx, ch, handler, victims, ready, instVars>>

\* Mutant: the channel takes a second status.
SendMore ==
  /\ prober = "send" /\ Len(ch) < 2
  /\ ch' = Append(ch, status)
  /\ prober' = "wait"
  /\ UNCHANGED <<setting, ctx, hmVars, status, handler, victims, ready, instVars, histVars>>

\* statusCh <- status
Send ==
  /\ prober = "send" /\ Len(ch) < 1
  /\ ch' = Append(ch, status)
  /\ prober' = "wait"
  /\ UNCHANGED <<setting, ctx, hmVars, status, handler, victims, ready, instVars, histVars>>

\* ctx.Done() in one of the selects: the goroutine ends and closes statusCh.
ProberEnds ==
  /\ prober \in {"delay", "wait"} /\ ctx = "cancelled"
  /\ prober' = "ended"
  /\ UNCHANGED <<setting, ctx, hmVars, status, ch, handler, victims, ready, instVars, histVars>>

-----------------------------------------------------------------------------
(* The handler *)

\* Mutant: an unhealthy status marks the process not ready and kills nothing.
ReceiveOnly ==
  /\ handler = "recv" /\ ch # <<>>
  /\ ch' = Tail(ch)
  /\ ready' = (Head(ch) = "healthy")
  /\ UNCHANGED <<setting, ctx, hmVars, prober, status, handler, victims, instVars, histVars>>

\* A healthy status marks the process ready; an unhealthy one has s.instances
\* copied, to be visited one by one.
Receive ==
  /\ handler = "recv" /\ ch # <<>>
  /\ ch' = Tail(ch)
  /\ IF Head(ch) = "healthy"
     THEN ready' = TRUE /\ UNCHANGED <<handler, victims>>
     ELSE handler' = "kill" /\ victims' = up /\ UNCHANGED ready
  /\ UNCHANGED <<setting, ctx, hmVars, prober, status, instVars, histVars>>

\* One instance of the copy, still running: killed.
Kill(s) ==
  /\ handler = "kill" /\ s \in victims
  /\ victims' = victims \ {s}
  /\ doomed' = doomed \cup {s}
  /\ UNCHANGED <<setting, ctx, hmVars, prober, status, ch, handler, ready, up, histVars>>

KillsDone ==
  /\ handler = "kill" /\ victims = {}
  /\ handler' = "recv"
  /\ UNCHANGED <<setting, ctx, hmVars, prober, status, ch, victims, ready, instVars, histVars>>

\* ctx.Done(), or the channel is closed and drained.
HandlerEnds ==
  /\ handler = "recv"
  /\ ctx = "cancelled" \/ (prober = "ended" /\ ch = <<>>)
  /\ handler' = "ended"
  /\ UNCHANGED <<setting, ctx, hmVars, prober, status, ch, victims, ready, instVars, histVars>>

-----------------------------------------------------------------------------
(* The surroundings: the instances and s.cancel() *)

\* An instance exits, by itself or killed.  The handler finds the Instance of its
\* copy no longer running, whatever takes its slot.
InstanceExits(s) ==
  /\ s \in up
  /\ up' = up \ {s} /\ doomed' = doomed \ {s} /\ victims' = victims \ {s}
  /\ UNCHANGED <<setting, ctx, hmVars, prober, status, ch, handler, ready, histVars>>

\* Its monitor puts a new instance into the slot.
InstanceRestarts(s) ==
  /\ s \notin up /\ ctx = "live"
  /\ up' = up \cup {s}
  /\ UNCHANGED <<setting, ctx, hmVars, prober, status, ch, handler, victims, ready, doomed, histVars>>

Cancel ==
  /\ ctx = "live"
  /\ ctx' = "cancelled" /\ doomed' = up
  /\ UNCHANGED <<setting, hmVars, prober, status, ch, handler, victims, ready, up, histVars>>

Prober   == DelayOver \/ Check \/ Send \/ ProberEnds
Handler  == Receive \/ (\E s \in Slot : Kill(s)) \/ KillsDone \/ HandlerEnds
Instance == \E s \in Slot : InstanceExits(s) \/ InstanceRestarts(s)

Next == Prober \/ Handler \/ Instance \/ Cancel
Spec == Init /\ [][Next]_vars

\* Both goroutines go on whenever they can.
FairSpec == Spec /\ WF_vars(Prober) /\ WF_vars(Handler)

-----------------------------------------------------------------------------
(* Properties *)

\* Every variable keeps its type.
TypeOK ==
  /\ setting \in Settings /\ ctx \in {"live", "cancelled"}
  /\ fails \in 0..setting.failureThreshold /\ successes \in 0..SuccessThreshold
  /\ healthy \in BOOLEAN
  /\ prober \in {"delay", "wait", "send", "ended"} /\ status \in Verdict
  /\ ch \in Seq(Verdict) /\ Len(ch) <= 1
  /\ handler \in {"recv", "kill", "ended"}
  /\ victims \subseteq up /\ ready \in BOOLEAN /\ up \subseteq Slot /\ doomed \subseteq up
  /\ recent \in Seq(Results) /\ Len(recent) <= Window
  /\ verdicts \in Seq(Verdict) /\ Len(verdicts) <= 3

\* The last n check results all were r.
Streak(n, r) == Len(recent) >= n /\ \A i \in 0..(n - 1) : recent[Len(recent) - i] = r

\* Hysteresis, whatever mixture of results the two counters have seen: a streak
\* of failureThreshold failures leaves the process unhealthy, a streak of
\* successThreshold successes leaves it healthy ...
StreaksDecide ==
  /\ setting.failureThreshold > 0 /\ Streak(setting.failureThreshold, "failure") => ~healthy
  /\ Streak(SuccessThreshold, "success") => healthy

\* ... and nothing else changes the verdict.
FlipsOnStreak ==
  [][/\ healthy /\ ~healthy' => Streak(setting.failureThreshold, "failure")'
     /\ ~healthy /\ healthy' => Streak(SuccessThreshold, "success")']_vars

\* The handler never kills over a verdict more than two checks old: one status
\* waits to be sent and one in the channel while it handles a third.
VerdictIsFresh == handler = "kill" => \E i \in DOMAIN verdicts : verdicts[i] = "unhealthy"

\* A process whose checks fail from some time on has every instance killed, and
\* every instance that comes back killed again.
Detects ==
  <>[](fails > 0 /\ ctx = "live") => \A s \in Slot : []<>(s \notin up \/ s \in doomed)

\* A process whose checks succeed from some time on is left in peace.
LeftInPeace == <>[](successes > 0) => <>[](handler # "kill")
=============================================================================
