---------------------------- MODULE JobLifecycle ----------------------------
(***************************************************************************)
(* What a scheduled job promises, as the comment on JobState in            *)
(* internal/schedule/job.go draws it: idle, executing and paused, an       *)
(* execution always completed before the next one starts or the job is     *)
(* paused, and every execution completed.                                  *)
(***************************************************************************)
CONSTANT Run          \* the triggers that may lead to an execution

VARIABLES
  state,              \* "idle", "executing" or "paused"
  current,            \* the execution in progress, as a set
  executed            \* the executions completed

vars == <<state, current, executed>>

Init == state = "idle" /\ current = {} /\ executed = {}

Execute(r) ==
  /\ state = "idle" /\ r \notin executed
  /\ state' = "executing" /\ current' = {r}
  /\ UNCHANGED executed

Complete ==
  /\ state = "executing"
  /\ state' = "idle" /\ current' = {} /\ executed' = executed \cup current

Pause  == state = "idle" /\ state' = "paused" /\ UNCHANGED <<current, executed>>
Resume == state = "paused" /\ state' = "idle" /\ UNCHANGED <<current, executed>>

Next == (\E r \in Run : Execute(r)) \/ Complete \/ Pause \/ Resume
Spec == Init /\ [][Next]_vars
=============================================================================
