----------------------------- MODULE DepsGraph -----------------------------
(***************************************************************************)
(* How a configuration becomes a startup order: the cycle check of         *)
(* Config.Validate (internal/config/config.go) over all processes, then    *)
(* the dependency graph of the enabled ones (internal/deps/graph.go), its  *)
(* validation, its own cycle check and Kahn's algorithm.  Go visits the    *)
(* keys of a map in any order: so do Root and the choice in CheckGraph.    *)
(***************************************************************************)
EXTENDS Integers, Sequences, FiniteSets

CONSTANTS
  Node,      \* the process names, in alphabetical order
  Configs    \* the configurations to look at

\* What is read of a config.Config: the processes defined, those enabled, and
\* the depends_on list of each, which may name anything, any number of times.
Config(c) ==
  /\ c.procs \subseteq Node /\ c.enabled \subseteq c.procs
  /\ c.dependsOn \in [c.procs -> Seq(Node)]

ASSUME DepsAssumption ==
  /\ Node \subseteq Nat /\ IsFiniteSet(Node)
  /\ \A c \in Configs : Config(c)

VARIABLES
  config,    \* one of Configs, fixed
  phase,     \* "config" and "graph": the two cycle checks; "sort"; or a result.
             \* "changed": after a request changed the processes, only the second
  visited, recStack,
  stack,     \* the calls of hasCycle in progress: [node, next], outermost first
  cycle,     \* the path reported
  inDegree,
  queue,     \* kept sorted in the code, hence a set here
  result

dfsVars  == <<visited, recStack, stack>>
sortVars == <<inDegree, queue, result>>
vars == <<config, phase, dfsVars, cycle, sortVars>>

Deps(n) == config.dependsOn[n]
DepSet(n) == {Deps(n)[i] : i \in DOMAIN Deps(n)}
Nodes == IF phase = "config" THEN config.procs ELSE config.enabled

Results == {"circular", "invalid", "cycle", "incomplete", "sorted"}

Init ==
  /\ config \in Configs
  /\ phase \in IF config.procs = {} THEN {"invalid", "changed"} ELSE {"config", "changed"}
  /\ visited = {} /\ recStack = {} /\ stack = <<>>
  /\ cycle = <<>>
  /\ inDegree = [n \in {} |-> 0] /\ queue = {} /\ result = <<>>

-----------------------------------------------------------------------------
(* hasCycle and hasCycleDFS: depth first *)

Searching == phase \in {"config", "graph"}
Top == stack[Len(stack)]
Below == SubSeq(stack, 1, Len(stack) - 1)
Advanced == Append(Below, [Top EXCEPT !.next = @ + 1])

Root(n) ==
  /\ Searching /\ stack = <<>>
  /\ n \in Nodes \ visited
  /\ visited' = visited \cup {n} /\ recStack' = recStack \cup {n}
  /\ stack' = <<[node |-> n, next |-> 1]>>
  /\ UNCHANGED <<config, phase, cycle, sortVars>>

\* The next dependency, if there is one.
HasNext == Searching /\ stack # <<>> /\ Top.next <= Len(Deps(Top.node))
Next1 == Deps(Top.node)[Top.next]

\* Mutant: every visited node is taken for one that is being visited.
DescendForgets ==
  /\ HasNext /\ Next1 \notin visited
  /\ visited' = visited \cup {Next1}
  /\ stack' = IF Next1 \in config.procs THEN Append(Advanced, [node |-> Next1, next |-> 1])
              ELSE Advanced
  /\ UNCHANGED <<config, phase, recStack, cycle, sortVars>>

\* A call for a dependency not yet visited.  The one for a process that is not
\* defined returns at once and leaves its mark in recStack.
Descend ==
  /\ HasNext /\ Next1 \notin visited
  /\ visited' = visited \cup {Next1} /\ recStack' = recStack \cup {Next1}
  /\ stack' = IF Next1 \in config.procs THEN Append(Advanced, [node |-> Next1, next |-> 1])
              ELSE Advanced
  /\ UNCHANGED <<config, phase, cycle, sortVars>>

Skip ==
  /\ HasNext /\ Next1 \in visited \ recStack
  /\ stack' = Advanced
  /\ UNCHANGED <<config, phase, visited, recStack, cycle, sortVars>>

\* The path is followed through parent, which is the call below.
PathFrom(n) ==
  LET k == CHOOSE k \in DOMAIN stack : stack[k].node = n
  IN  [i \in 1..(Len(stack) - k + 2) |-> IF i <= Len(stack) - k + 1 THEN stack[k + i - 1].node ELSE n]

Found ==
  /\ HasNext /\ Next1 \in recStack
  /\ IF phase = "config" THEN phase' = "circular" /\ UNCHANGED cycle
     ELSE phase' = "cycle" /\ cycle' = PathFrom(Next1)
  /\ UNCHANGED <<config, dfsVars, sortVars>>

Leave ==
  /\ Searching /\ stack # <<>> /\ Top.next > Len(Deps(Top.node))
  /\ recStack' = recStack \ {Top.node} /\ stack' = Below
  /\ UNCHANGED <<config, phase, visited, cycle, sortVars>>

-----------------------------------------------------------------------------
(* NewGraphFromConfig with Validate; TopologicalSort *)

Valid == \A n \in config.enabled : DepSet(n) \subseteq config.enabled /\ n \notin DepSet(n)

Searched(p) == phase = p /\ stack = <<>> /\ Nodes \subseteq visited

\* The configuration is accepted; the graph of its enabled processes is built.
BuildGraph ==
  /\ Searched("config") \/ phase = "changed"
  /\ phase' = IF Valid THEN "graph" ELSE "invalid"
  /\ visited' = {} /\ recStack' = {}
  /\ UNCHANGED <<config, stack, cycle, sortVars>>

\* No cycle: in-degrees, and the nodes that have none.
StartSort ==
  /\ Searched("graph")
  /\ phase' = "sort"
  /\ inDegree' = [n \in config.enabled |-> Len(Deps(n))]
  /\ queue' = {n \in config.enabled : Len(Deps(n)) = 0}
  /\ UNCHANGED <<config, dfsVars, cycle, result>>

\* Mutant: a dependent is ready when its first dependency is.
TakeEager(n) ==
  LET dependents == {d \in config.enabled : n \in DepSet(d)}
  IN  /\ phase = "sort" /\ n \in queue /\ \A m \in queue : n <= m
      /\ result' = Append(result, n)
      /\ inDegree' = [d \in config.enabled |-> IF d \in dependents THEN 0 ELSE inDegree[d]]
      /\ queue' = (queue \ {n}) \cup {d \in dependents : inDegree[d] > 0}
      /\ UNCHANGED <<config, phase, dfsVars, cycle>>

\* The first node alphabetically; each dependent has one dependency less,
\* however often its list names the node.
Take(n) ==
  LET dependents == {d \in config.enabled : n \in DepSet(d)}
  IN  /\ phase = "sort" /\ n \in queue /\ \A m \in queue : n <= m
      /\ result' = Append(result, n)
      /\ inDegree' = [d \in config.enabled |-> IF d \in dependents THEN inDegree[d] - 1 ELSE inDegree[d]]
      /\ queue' = (queue \ {n}) \cup {d \in dependents : inDegree[d] = 1}
      /\ UNCHANGED <<config, phase, dfsVars, cycle>>

EndSort ==
  /\ phase = "sort" /\ queue = {}
  /\ phase' = IF Len(result) = Cardinality(config.enabled) THEN "sorted" ELSE "incomplete"
  /\ UNCHANGED <<config, dfsVars, cycle, sortVars>>

Next ==
  \/ \E n \in Node : Root(n) \/ Take(n)
  \/ Descend \/ Skip \/ Found \/ Leave
  \/ BuildGraph \/ StartSort \/ EndSort

Spec == Init /\ [][Next]_vars
FairSpec == Spec /\ WF_vars(Next)

-----------------------------------------------------------------------------
(* Reference definitions *)

Edges(S) == {e \in S \X S : e[2] \in DepSet(e[1])}
\* Cyclic: some nonempty set in which everything depends on a member of it.
Cyclic(S) == \E C \in SUBSET S : C # {} /\ \A n \in C : \E d \in C : <<n, d>> \in Edges(S)

\* An order in which every node comes after what it depends on.
IsOrder(s) ==
  /\ \A i, j \in DOMAIN s : s[i] = s[j] => i = j
  /\ \A i \in DOMAIN s : DepSet(s[i]) \subseteq {s[j] : j \in 1..(i - 1)}

\* The first of these orders alphabetically: at each place the least node that
\* could stand there.
IsFirst(s) ==
  \A i \in DOMAIN s : \A n \in config.enabled :
    /\ n \notin {s[j] : j \in 1..(i - 1)}
    /\ DepSet(n) \subseteq {s[j] : j \in 1..(i - 1)}
    => s[i] <= n

Defined == \A n \in config.procs : DepSet(n) \subseteq config.procs
Duplicated == \E n \in config.enabled : Cardinality(DepSet(n)) < Len(Deps(n))

-----------------------------------------------------------------------------
(* Properties *)

\* Every variable keeps its type.
TypeOK ==
  /\ Config(config)
  /\ phase \in {"config", "changed", "graph", "sort"} \cup Results
  /\ visited \subseteq Node /\ recStack \subseteq visited
  /\ stack \in Seq([node : Node, next : Nat])
  /\ cycle \in Seq(Node)
  /\ phase = "sort" => inDegree \in [config.enabled -> Int]
  /\ queue \subseteq config.enabled /\ result \in Seq(config.enabled)

\* Config.Validate rejects a configuration as circular exactly when it is,
\* provided that every dependency is defined.
CircularExactly ==
  Defined => /\ phase = "circular" => Cyclic(config.procs)
             /\ Searched("config") => ~Cyclic(config.procs)

\* A circular dependency that HasCycle reports is one, step by step.
CycleIsReal ==
  phase = "cycle" =>
    /\ Len(cycle) > 1 /\ cycle[1] = cycle[Len(cycle)]
    /\ \A i \in 1..(Len(cycle) - 1) : cycle[i + 1] \in DepSet(cycle[i])

\* The startup order has every process after its dependencies, at every moment
\* of the sort.
DependenciesFirst == IsOrder(result)

\* There is one startup order for a configuration, whatever order Go visits the
\* map in: the first one alphabetically.
Deterministic == ~Duplicated => IsFirst(result)

\* The sort fails exactly for the reasons there are: something missing or
\* disabled, a cycle, or a dependency named twice.
FailsForAReason ==
  /\ phase = "sorted" =>
       /\ Valid /\ ~Cyclic(config.enabled) /\ ~Duplicated
       /\ {result[i] : i \in DOMAIN result} = config.enabled
  /\ phase = "incomplete" => Duplicated

\* The computation ends, whatever the configuration, with a result that has its
\* reason.
Settles == <>(phase \in Results /\ FailsForAReason)

\* What Validate and HasCycle say of cycles is true, and no cycle escapes them.
CyclesAreReal == CircularExactly /\ CycleIsReal

\* At every moment of the sort the order is one to start in, and the one order
\* of this configuration.
StartupOrder == TypeOK /\ DependenciesFirst /\ Deterministic
=============================================================================
