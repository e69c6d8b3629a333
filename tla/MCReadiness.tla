---------------------------- MODULE MCReadiness ----------------------------
(* TLC instances of Readiness: all modes, all processes or one of them,
   one process longrun and one oneshot, whose health checks do not pass. *)
EXTENDS Readiness
Long == {CHOOSE n \in Name : TRUE}
Sick == Name \ Long
OneOrAll == {{}, {CHOOSE n \in Name : TRUE}}
=============================================================================
