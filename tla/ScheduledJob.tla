---------------------------- MODULE ScheduledJob ----------------------------
(***************************************************************************)
(* One scheduled job: ScheduledJob (internal/schedule/job.go) with its     *)
(* ExecutionHistory (history.go), the Scheduler operations that reach it   *)
(* (scheduler.go), the API requests that trigger it (internal/api), and    *)
(* the goroutines cron starts for it.  A Run is the goroutine of one       *)
(* trigger, whether it comes to execute the job or not.                    *)
(***************************************************************************)
EXTENDS Integers, Sequences, FiniteSets

CONSTANTS
  Run,          \* bound: the triggers, each used once
  HistorySize,  \* maxSize of the ExecutionHistory
  Timeouts      \* whether the job has a timeout: the cases to look at

ASSUME JobAssumption == Run \subseteq Nat /\ HistorySize \in Nat \ {0} /\ Timeouts \subseteq BOOLEAN

VARIABLES
  timeout,      \* j.Timeout > 0, fixed
  \* struct ScheduledJob
  state,        \* j.State
  currentExec,  \* j.CurrentExecID, 0 when none
  executionMu,  \* the Run that holds it, as a set
  \* struct ExecutionHistory
  entries,      \* h.entries
  nextID,       \* h.nextID
  \* the goroutines
  pc,           \* "none", "queued" for executionMu, "exec", "ended", "done"
  how,          \* "schedule", "async" or "sync"
  rctx,         \* the context it was given: "live" or "cancelled"
  execID,       \* the ID of its execution, 0 when none
  outcome,      \* "none", "ok", "failed" or "killed"
  \* the Scheduler and its cron
  scheduler,    \* "running", "stopping", "stopped" when Stop's context is done
  registered    \* the job is in s.jobs and in cron

jobVars  == <<state, currentExec, executionMu>>
histVars == <<entries, nextID>>
runVars  == <<pc, how, rctx, execID, outcome>>
vars == <<timeout, jobVars, histVars, runVars, scheduler, registered>>

Outcomes == {"none", "ok", "failed", "killed"}
Entry    == [id : Nat, ended : BOOLEAN, success : BOOLEAN]

Init ==
  /\ timeout \in Timeouts
  /\ state = "idle" /\ currentExec = 0 /\ executionMu = {}
  /\ entries = <<>> /\ nextID = 1
  /\ pc = [r \in Run |-> "none"] /\ how = [r \in Run |-> "schedule"]
  /\ rctx = [r \in Run |-> "live"] /\ execID = [r \in Run |-> 0]
  /\ outcome = [r \in Run |-> "none"]
  /\ scheduler = "running" /\ registered = TRUE

-----------------------------------------------------------------------------
(* Triggers *)

\* A new goroutine for run r, the Runs being numbered in the order they come,
\* that will call executeSync.
Spawn(r, kind) ==
  /\ pc[r] = "none" /\ \A q \in Run : q < r => pc[q] # "none"
  /\ pc' = [pc EXCEPT ![r] = "queued"]
  /\ how' = [how EXCEPT ![r] = kind]
  /\ UNCHANGED <<timeout, jobVars, histVars, rctx, execID, outcome, scheduler, registered>>

\* cron calls Run, with context.Background().
Fire(r) == scheduler = "running" /\ registered /\ Spawn(r, "schedule")

\* Trigger and TriggerSync, with the context of the request: the state is read
\* first, under a lock that is released again.
Trigger(r) == registered /\ state = "idle" /\ \E kind \in {"async", "sync"} : Spawn(r, kind)

\* The request ends: handled, for an asynchronous trigger; given up by the
\* client or timed out, for a synchronous one.
RequestEnds(r) ==
  /\ how[r] # "schedule" /\ pc[r] \notin {"none", "done"} /\ rctx[r] = "live"
  /\ rctx' = [rctx EXCEPT ![r] = "cancelled"]
  /\ UNCHANGED <<timeout, jobVars, histVars, pc, how, execID, outcome, scheduler, registered>>

-----------------------------------------------------------------------------
(* executeSync *)

\* ExecutionHistory.StartExecution: a new entry, in place of the oldest one.
StartExecution ==
  LET kept == IF Len(entries) >= HistorySize THEN Tail(entries) ELSE entries
  IN  /\ entries' = Append(kept, [id |-> nextID, ended |-> FALSE, success |-> FALSE])
      /\ nextID' = nextID + 1

\* Mutant: the entry just completed is looked for at the oldest place only.
EndExecutionOldest(id, ok) ==
  /\ entries' = [entries EXCEPT ![1] = [id |-> @.id, ended |-> TRUE, success |-> ok]]
  /\ UNCHANGED nextID

\* ExecutionHistory.EndExecution: the entry with this ID, if it is still there.
EndExecution(id, ok) ==
  /\ entries' = [i \in DOMAIN entries |->
                   IF entries[i].id = id THEN [id |-> id, ended |-> TRUE, success |-> ok]
                   ELSE entries[i]]
  /\ UNCHANGED nextID

\* Mutant: executeSync without executionMu.
BeginUnlocked(r) ==
  /\ pc[r] = "queued"
  /\ pc' = [pc EXCEPT ![r] = "exec"] /\ state' = "executing"
  /\ currentExec' = nextID /\ execID' = [execID EXCEPT ![r] = nextID]
  /\ StartExecution
  /\ UNCHANGED <<timeout, executionMu, how, rctx, outcome, scheduler, registered>>

\* The goroutine of run r ends; what it was given is forgotten.
Finish(r) ==
  /\ pc' = [pc EXCEPT ![r] = "done"]
  /\ how' = [how EXCEPT ![r] = "schedule"] /\ rctx' = [rctx EXCEPT ![r] = "live"]

\* executionMu is free: the run takes it, and executes the job unless that is
\* paused (or executing, which the mutex rules out).
Begin(r) ==
  /\ pc[r] = "queued" /\ executionMu = {}
  /\ IF state = "idle"
     THEN /\ pc' = [pc EXCEPT ![r] = "exec"] /\ executionMu' = {r} /\ state' = "executing"
          /\ currentExec' = nextID /\ execID' = [execID EXCEPT ![r] = nextID]
          /\ StartExecution
          /\ UNCHANGED <<how, rctx>>
     ELSE Finish(r) /\ UNCHANGED <<jobVars, histVars, execID>>
  /\ UNCHANGED <<timeout, outcome, scheduler, registered>>

\* Execute has returned: the process exited, or was killed because its timeout
\* ran out or its context was cancelled.
Results(r) ==
  {"ok", "failed"} \cup (IF timeout \/ rctx[r] = "cancelled" THEN {"killed"} ELSE {})
Ends(r, o) ==
  /\ pc[r] = "exec" /\ o \in Results(r)
  /\ outcome' = [outcome EXCEPT ![r] = o]
  /\ pc' = [pc EXCEPT ![r] = "ended"]
  /\ state' = "idle" /\ currentExec' = 0
  /\ UNCHANGED <<timeout, executionMu, histVars, how, rctx, execID, scheduler, registered>>

\* Mutant: executionMu is never released.
RecordKeepsLock(r) ==
  /\ pc[r] = "ended"
  /\ EndExecution(execID[r], outcome[r] = "ok")
  /\ Finish(r)
  /\ UNCHANGED <<timeout, jobVars, execID, outcome, scheduler, registered>>

\* The result goes into the history, and executionMu is released.
Record(r) ==
  /\ pc[r] = "ended"
  /\ EndExecution(execID[r], outcome[r] = "ok")
  /\ Finish(r) /\ executionMu' = {}
  /\ UNCHANGED <<timeout, state, currentExec, execID, outcome, scheduler, registered>>

-----------------------------------------------------------------------------
(* Pause, Resume; RemoveJob, Stop *)

\* Mutant: a job that executes can be paused.
PauseAny ==
  /\ state' = "paused"
  /\ UNCHANGED <<timeout, currentExec, executionMu, histVars, runVars, scheduler, registered>>

Pause ==
  /\ registered /\ state = "idle"
  /\ state' = "paused"
  /\ UNCHANGED <<timeout, currentExec, executionMu, histVars, runVars, scheduler, registered>>

Resume ==
  /\ registered /\ state = "paused"
  /\ state' = "idle"
  /\ UNCHANGED <<timeout, currentExec, executionMu, histVars, runVars, scheduler, registered>>

RemoveJob ==
  /\ registered
  /\ registered' = FALSE
  /\ UNCHANGED <<timeout, jobVars, histVars, runVars, scheduler>>

\* Scheduler.Stop: cron fires no more.
Stop ==
  /\ scheduler = "running"
  /\ scheduler' = "stopping"
  /\ UNCHANGED <<timeout, jobVars, histVars, runVars, registered>>

\* cron's goroutine that waits for the jobs cron has started.
Stopped ==
  /\ scheduler = "stopping"
  /\ \A r \in Run : how[r] = "schedule" => pc[r] \in {"none", "done"}
  /\ scheduler' = "stopped"
  /\ UNCHANGED <<timeout, jobVars, histVars, runVars, registered>>

Next ==
  \/ \E r \in Run : \/ Fire(r) \/ Trigger(r) \/ RequestEnds(r)
                    \/ Begin(r) \/ Record(r) \/ \E o \in Outcomes : Ends(r, o)
  \/ Pause \/ Resume \/ RemoveJob \/ Stop \/ Stopped

Spec == Init /\ [][Next]_vars

\* Goroutines go on; Go hands a mutex to each goroutine that waits for it; a
\* process that was killed ends.  Without a timeout a job may run for ever.
FairSpec ==
  /\ Spec
  /\ \A r \in Run : /\ SF_vars(Begin(r)) /\ WF_vars(Record(r))
                    /\ WF_vars(timeout /\ \E o \in Outcomes : Ends(r, o))
  /\ WF_vars(Stopped)

-----------------------------------------------------------------------------
(* Properties *)

\* Every variable keeps its type.
TypeOK ==
  /\ timeout \in Timeouts /\ state \in {"idle", "executing", "paused"}
  /\ currentExec \in Nat /\ executionMu \subseteq Run
  /\ entries \in Seq(Entry) /\ Len(entries) <= HistorySize /\ nextID \in Nat \ {0}
  /\ pc \in [Run -> {"none", "queued", "exec", "ended", "done"}]
  /\ how \in [Run -> {"schedule", "async", "sync"}]
  /\ rctx \in [Run -> {"live", "cancelled"}]
  /\ execID \in [Run -> Nat] /\ outcome \in [Run -> Outcomes]
  /\ scheduler \in {"running", "stopping", "stopped"} /\ registered \in BOOLEAN

\* Whatever triggers arrive together, the job executes at most once at a time,
\* and its state and CurrentExecID, which the API shows, tell which execution.
NoOverlap ==
  /\ \A r, q \in Run : pc[r] = "exec" /\ pc[q] = "exec" => r = q
  /\ state = "executing" <=> \E r \in Run : pc[r] = "exec"
  /\ \A r \in Run : pc[r] = "exec" => currentExec = execID[r]
  /\ state # "executing" => currentExec = 0

\* The history tells the truth: an entry for each of the last HistorySize
\* executions, in order, completed when the execution is, with its own result.
HistoryIsTrue ==
  /\ \A i \in DOMAIN entries : entries[i].id = nextID - 1 - (Len(entries) - i)
  /\ Len(entries) = IF nextID - 1 < HistorySize THEN nextID - 1 ELSE HistorySize
  /\ \A i \in DOMAIN entries : \E r \in Run :
       /\ execID[r] = entries[i].id
       /\ entries[i].ended <=> pc[r] = "done"
       /\ entries[i].ended => (entries[i].success <=> outcome[r] = "ok")

\* Every trigger that was accepted comes to an end, executed or skipped, and
\* Stop's context is done in the end, provided that the job has a timeout.
TriggersEnd ==
  timeout => /\ \A r \in Run : pc[r] = "queued" ~> pc[r] = "done"
             /\ scheduler = "stopping" ~> scheduler = "stopped"

\* The job implements the state machine its comment draws.
Executed == {r \in Run : pc[r] \in {"ended", "done"} /\ execID[r] # 0}
Lifecycle == INSTANCE JobLifecycle
  WITH current <- {r \in Run : pc[r] = "exec"}, executed <- Executed
ImplementsLifecycle == Lifecycle!Spec
=============================================================================
