--------------------------- MODULE MCHealthMonitor ---------------------------
(* TLC instances of HealthMonitor. *)
EXTENDS HealthMonitor

Thresholds(f, s, d) == [failureThreshold |-> f, successThreshold |-> s, initialDelay |-> d]

\* Thresholds that differ either way, equal ones, and the smallest.
AllSettings == {Thresholds(2, 3, TRUE), Thresholds(3, 1, FALSE), Thresholds(2, 2, FALSE),
                Thresholds(1, 0, FALSE)}
=============================================================================
