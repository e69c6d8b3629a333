---------------------------- MODULE MCDepsGraph ----------------------------
(* TLC instances of DepsGraph: every configuration with few dependencies. *)
EXTENDS DepsGraph

CONSTANTS MaxDeps, MaxEdges   \* bounds on the dependencies of one process, and of all

Lists == UNION {[1..k -> Node] : k \in 0..MaxDeps}
Few(P) == {f \in [P -> Lists] : Cardinality({<<n, i>> \in P \X (1..MaxDeps) : i <= Len(f[n])}) <= MaxEdges}
AllConfigs ==
  UNION {[procs : {P}, enabled : SUBSET P, dependsOn : Few(P)] : P \in SUBSET Node}
=============================================================================
