---------------------------- MODULE MCSupervisor ----------------------------
(* TLC instances of Supervisor. *)
EXTENDS Supervisor, TLC

CONSTANTS a, b

Req(o, n) == [op |-> o, n |-> n]
StartOnly == {Req("StartProcess", 0)}
StartStop == StartOnly \cup {Req("StopProcess", 0)}
Restarts  == StartStop \cup {Req("RestartProcess", 0)}
ScaleTo(S) == {Req("ScaleProcess", n) : n \in S}

Base == [scale |-> 1, policy |-> "always", max |-> 0, oneshot |-> FALSE,
         health |-> FALSE, execFails |-> TRUE, slowBackoff |-> TRUE,
         pool |-> 3, callers |-> {a}, requests |-> Restarts]

\* One caller that stops, restarts and grows a process that restarts.
Growing == [Base EXCEPT !.policy = "on-failure", !.requests = StartStop \cup ScaleTo({2}),
                        !.pool = 4]
\* One caller that grows and shrinks it, even under an instance about to restart.
Shrinking == [Growing EXCEPT !.requests = StartOnly \cup ScaleTo(1..2), !.pool = 3]
Restarting1 == [Base EXCEPT !.policy = "on-failure", !.max = 1, !.health = TRUE]
\* Every operation on a process that is not restarted.
Scaling == [Base EXCEPT !.policy = "never",
                        !.requests = StartStop \cup ScaleTo(0..2)]
\* Two callers that race.
Racing == [Base EXCEPT !.callers = {a, b}, !.requests = StartStop, !.slowBackoff = FALSE]
Single == [Base EXCEPT !.oneshot = TRUE, !.requests = StartStop]
SafeConfigs == {Growing, Shrinking, Restarting1, Scaling, Racing, Single}

\* For the violation: no exec failures, as little else as possible.
Plain == [Base EXCEPT !.execFails = FALSE]
GracefulConfigs == {Plain}

\* For liveness.
LiveConfigs ==
  {[Plain EXCEPT !.requests = Restarts],
   [Plain EXCEPT !.policy = "never", !.scale = 2, !.requests = StartOnly],
   [Plain EXCEPT !.policy = "never", !.requests = StartStop],
   Scaling}

Symmetry == Permutations(Inst)
=============================================================================
