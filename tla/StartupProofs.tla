---------------------------- MODULE StartupProofs ----------------------------
(***************************************************************************)
(* Proofs about DepsGraph: for every configuration, the startup order has  *)
(* each process after its dependencies, and it is the one order that there *)
(* is, whatever order Go visits its maps in; and what the two cycle checks *)
(* say is true, and the sort fails only for a reason.                      *)
(*                                                                         *)
(* Proofs about Readiness: whatever the processes do and whoever is        *)
(* tracked, the readiness file, which says that startup is over, tells the *)
(* truth.  The two share no state; Readiness calls its initial states,     *)
(* steps and variables ReadyInit, ReadyNext and readyVars.                 *)
(***************************************************************************)
EXTENDS DepsGraph, Readiness, FiniteSetTheorems, SequenceTheorems, TLAPS

\* What the stack of the search is made of.
Frame == [node : config.procs, next : Nat \ {0}]

Taken == {result[i] : i \in DOMAIN result}

\* The frames of the search; in the search of the graph they are what recStack
\* marks, each node once.
SearchInv ==
  /\ stack \in Seq(Frame)
  /\ phase = "changed" => stack = <<>>
  /\ phase = "graph" =>
       /\ Valid
       /\ recStack = {stack[i].node : i \in DOMAIN stack}
       /\ \A i \in DOMAIN stack : stack[i].node \in config.enabled
       /\ \A i, j \in DOMAIN stack : stack[i].node = stack[j].node => i = j

\* The in-degree of a node counts its dependencies that are not taken, and the
\* queue holds the nodes that have none and are not taken themselves.
SortInv ==
  /\ phase \in {"config", "changed", "graph"} => result = <<>> /\ queue = {}
  /\ phase = "sort" =>
       /\ \A d \in config.enabled : inDegree[d] = Len(Deps(d)) - Cardinality(DepSet(d) \cap Taken)
       /\ queue = {d \in config.enabled \ Taken : inDegree[d] = 0}

DepsInv == StartupOrder /\ SearchInv /\ SortInv

-----------------------------------------------------------------------------
(* The dependencies of one process *)

LEMMA DepsTypes ==
  ASSUME Config(config), NEW d \in config.procs
  PROVE  /\ Deps(d) \in Seq(Node) /\ Len(Deps(d)) \in Nat
         /\ DOMAIN Deps(d) = 1..Len(Deps(d)) /\ DepSet(d) \subseteq Node
<1>1. Deps(d) \in Seq(Node)
  BY DEF Config, Deps
<1>2. Len(Deps(d)) \in Nat /\ DOMAIN Deps(d) = 1..Len(Deps(d))
  BY <1>1, LenProperties
<1>3. \A i \in 1..Len(Deps(d)) : Deps(d)[i] \in Node
  BY <1>1, ElementOfSeq
<1>4. QED
  BY <1>1, <1>2, <1>3 DEF DepSet

\* A dependency named twice counts twice in the list and once in the set.
LEMMA DepCount ==
  ASSUME Config(config), NEW d \in config.procs
  PROVE  /\ IsFiniteSet(DepSet(d)) /\ Cardinality(DepSet(d)) \in Nat
         /\ Cardinality(DepSet(d)) <= Len(Deps(d))
<1>1. PICK f \in Seq(Node) : f = Deps(d)
  BY DepsTypes
<1>2. DOMAIN f = 1..Len(f) /\ Len(f) \in Nat /\ f = [i \in 1..Len(f) |-> f[i]]
  BY <1>1, LenProperties
<1>3. DepSet(d) = {f[i] : i \in 1..Len(f)}
  BY <1>1, <1>2 DEF DepSet
<1>4. f \in Surjection(1..Len(f), DepSet(d))
  BY <1>2, <1>3 DEF Surjection
<1>5. IsFiniteSet(1..Len(f)) /\ Cardinality(1..Len(f)) = Len(f)
  <2>1. /\ IsFiniteSet(1..Len(f))
        /\ Cardinality(1..Len(f)) = IF 1 > Len(f) THEN 0 ELSE Len(f) - 1 + 1
    BY <1>2, FS_Interval
  <2>2. QED
    BY <1>2, <2>1
<1>6. IsFiniteSet(DepSet(d)) /\ Cardinality(DepSet(d)) <= Len(f)
  BY <1>4, <1>5, FS_Surjection
<1>7. QED
  BY <1>1, <1>6, FS_CardinalityType

\* When as many of the dependencies are in T as the list is long, all are.
LEMMA AllTaken ==
  ASSUME Config(config), NEW d \in config.procs, NEW T,
         Len(Deps(d)) - Cardinality(DepSet(d) \cap T) = 0
  PROVE  DepSet(d) \subseteq T
<1>1. /\ IsFiniteSet(DepSet(d)) /\ Cardinality(DepSet(d)) \in Nat
      /\ Cardinality(DepSet(d)) <= Len(Deps(d)) /\ Len(Deps(d)) \in Nat
  BY DepCount, DepsTypes
<1>2. PICK D : D = DepSet(d) \cap T
  OBVIOUS
<1>3. /\ D \in SUBSET DepSet(d) /\ IsFiniteSet(D) /\ Cardinality(D) <= Cardinality(DepSet(d))
      /\ Cardinality(DepSet(d)) = Cardinality(D) => DepSet(d) = D
  BY <1>1, <1>2, FS_Subset
<1>4. Cardinality(D) \in Nat
  BY <1>3, FS_CardinalityType
<1>5. Cardinality(DepSet(d)) = Cardinality(D)
  BY <1>1, <1>2, <1>3, <1>4
<1>6. QED
  BY <1>2, <1>3, <1>5

\* Without a duplicate the converse holds too.
LEMMA NoneLeft ==
  ASSUME Config(config), ~Duplicated, NEW d \in config.enabled, NEW T, DepSet(d) \subseteq T
  PROVE  Len(Deps(d)) - Cardinality(DepSet(d) \cap T) = 0
<1>1. /\ Cardinality(DepSet(d)) \in Nat /\ Len(Deps(d)) \in Nat
      /\ Cardinality(DepSet(d)) <= Len(Deps(d))
  BY DepCount, DepsTypes DEF Config
<1>2. ~(Cardinality(DepSet(d)) < Len(Deps(d)))
  BY DEF Duplicated
<1>3. DepSet(d) \cap T = DepSet(d)
  OBVIOUS
<1>4. Cardinality(DepSet(d) \cap T) = Cardinality(DepSet(d))
  BY <1>3
<1>5. Len(Deps(d)) = Cardinality(DepSet(d))
  BY <1>1, <1>2
<1>6. QED
  BY <1>1, <1>4, <1>5

\* One more node taken: one dependency less for those that depend on it.
LEMMA OneTaken ==
  ASSUME Config(config), NEW d \in config.procs, NEW T, NEW n, n \notin T
  PROVE  Cardinality(DepSet(d) \cap (T \cup {n})) =
           IF n \in DepSet(d) THEN Cardinality(DepSet(d) \cap T) + 1 ELSE Cardinality(DepSet(d) \cap T)
<1>1. PICK D : D = DepSet(d) \cap T
  OBVIOUS
<1>2. IsFiniteSet(D)
  BY <1>1, DepCount, FS_Intersection
<1>3. CASE n \in DepSet(d)
  <2>1. DepSet(d) \cap (T \cup {n}) = D \cup {n} /\ n \notin D
    BY <1>1, <1>3
  <2>2. Cardinality(D \cup {n}) = Cardinality(D) + 1
    BY <1>2, <2>1, FS_AddElement
  <2>3. QED
    BY <1>1, <1>3, <2>1, <2>2
<1>4. CASE n \notin DepSet(d)
  <2>1. DepSet(d) \cap (T \cup {n}) = D
    BY <1>1, <1>4
  <2>2. QED
    BY <1>1, <1>4, <2>1
<1>5. QED
  BY <1>3, <1>4

-----------------------------------------------------------------------------
(* One step of the sort *)

\* The set of what is taken grows by one.
LEMMA TakenGrows ==
  ASSUME NEW S, result \in Seq(S), NEW n \in S, result' = Append(result, n)
  PROVE  /\ Len(result') = Len(result) + 1 /\ Len(result) \in Nat
         /\ \A i \in 1..Len(result) : result'[i] = result[i]
         /\ result'[Len(result) + 1] = n /\ result' \in Seq(S)
         /\ DOMAIN result = 1..Len(result) /\ DOMAIN result' = 1..(Len(result) + 1)
         /\ Taken' = Taken \cup {n}
<1>1. /\ Len(result') = Len(result) + 1 /\ Len(result) \in Nat /\ result' \in Seq(S)
      /\ \A i \in 1..Len(result) : result'[i] = result[i]
      /\ result'[Len(result) + 1] = n
  BY AppendProperties, LenProperties
<1>2. DOMAIN result = 1..Len(result) /\ DOMAIN result' = 1..(Len(result) + 1)
  BY <1>1, LenProperties
<1>3. \A i : i \in 1..(Len(result) + 1) <=> i \in 1..Len(result) \/ i = Len(result) + 1
  BY <1>1
<1>4. QED
  BY <1>1, <1>2, <1>3 DEF Taken

LEMMA TakeStep ==
  ASSUME DepsAssumption, DepsInv, NEW n \in Node, Take(n)
  PROVE  /\ result' \in Seq(config.enabled) /\ inDegree' \in [config.enabled -> Int]
         /\ queue' \subseteq config.enabled
         /\ IsOrder(result)' /\ (~Duplicated => IsFirst(result)') /\ SortInv'
<1>1. /\ Config(config) /\ result \in Seq(config.enabled) /\ inDegree \in [config.enabled -> Int]
      /\ phase = "sort" /\ config' = config /\ phase' = "sort"
      /\ n \in queue /\ (\A m \in queue : n <= m) /\ result' = Append(result, n)
  BY DEF DepsInv, StartupOrder, TypeOK, Take
<1>2. /\ \A d \in config.enabled : inDegree[d] = Len(Deps(d)) - Cardinality(DepSet(d) \cap Taken)
      /\ queue = {d \in config.enabled \ Taken : inDegree[d] = 0}
  BY <1>1 DEF DepsInv, SortInv
<1>3. /\ \A d : DepSet(d)' = DepSet(d) /\ Deps(d)' = Deps(d)
      /\ config.enabled \subseteq config.procs
  BY <1>1 DEF DepSet, Deps, Config
<1>4. n \in config.enabled /\ n \notin Taken /\ inDegree[n] = 0
  BY <1>1, <1>2
<1>5. /\ Len(result') = Len(result) + 1 /\ Len(result) \in Nat
      /\ \A i \in 1..Len(result) : result'[i] = result[i]
      /\ result'[Len(result) + 1] = n /\ result' \in Seq(config.enabled)
      /\ DOMAIN result = 1..Len(result) /\ DOMAIN result' = 1..(Len(result) + 1)
      /\ Taken' = Taken \cup {n}
  BY <1>1, <1>4, TakenGrows
<1>6. DepSet(n) \subseteq Taken
  BY <1>1, <1>2, <1>3, <1>4, AllTaken
<1>7. Taken = {result[j] : j \in 1..Len(result)}
  BY <1>5 DEF Taken
<1>8. IsOrder(result)'
  <2>1. IsOrder(result)
    BY DEF DepsInv, StartupOrder, DependenciesFirst
  <2>2. ASSUME NEW i \in 1..(Len(result) + 1), NEW j \in 1..(Len(result) + 1), result'[i] = result'[j]
        PROVE  i = j
    <3>1. CASE i \in 1..Len(result) /\ j \in 1..Len(result)
      BY <1>5, <2>1, <2>2, <3>1 DEF IsOrder
    <3>2. CASE i = Len(result) + 1 /\ j \in 1..Len(result)
      BY <1>4, <1>5, <1>7, <2>2, <3>2
    <3>3. CASE j = Len(result) + 1 /\ i \in 1..Len(result)
      BY <1>4, <1>5, <1>7, <2>2, <3>3
    <3>4. QED
      BY <1>5, <3>1, <3>2, <3>3
  <2>3. ASSUME NEW i \in 1..(Len(result) + 1)
        PROVE  DepSet(result'[i]) \subseteq {result'[j] : j \in 1..(i - 1)}
    <3>1. CASE i \in 1..Len(result)
      <4>1. DepSet(result[i]) \subseteq {result[j] : j \in 1..(i - 1)}
        BY <1>5, <2>1, <3>1 DEF IsOrder
      <4>2. \A j \in 1..(i - 1) : j \in 1..Len(result)
        BY <1>5, <3>1
      <4>3. QED
        BY <1>5, <3>1, <4>1, <4>2
    <3>2. CASE i = Len(result) + 1
      <4>1. i - 1 = Len(result)
        BY <1>5, <3>2
      <4>2. {result'[j] : j \in 1..(i - 1)} = Taken
        BY <1>5, <1>7, <4>1
      <4>3. QED
        BY <1>5, <1>6, <3>2, <4>2
    <3>3. QED
      BY <1>5, <3>1, <3>2
  <2>4. QED
    BY <1>3, <1>5, <2>2, <2>3 DEF IsOrder
<1>9. ~Duplicated => IsFirst(result)'
  <2> SUFFICES ASSUME ~Duplicated, NEW i \in 1..(Len(result) + 1), NEW m \in config.enabled,
                      m \notin {result'[j] : j \in 1..(i - 1)},
                      DepSet(m) \subseteq {result'[j] : j \in 1..(i - 1)}
               PROVE  result'[i] <= m
    BY <1>1, <1>3, <1>5 DEF IsFirst
  <2>1. CASE i \in 1..Len(result)
    <3>1. IsFirst(result)
      BY DEF DepsInv, StartupOrder, Deterministic
    <3>2. \A j \in 1..(i - 1) : j \in 1..Len(result)
      BY <1>5, <2>1
    <3>3. {result'[j] : j \in 1..(i - 1)} = {result[j] : j \in 1..(i - 1)}
      BY <1>5, <3>2
    <3>4. result[i] <= m
      BY <1>5, <2>1, <3>1, <3>3 DEF IsFirst
    <3>5. QED
      BY <1>5, <2>1, <3>4
  <2>2. CASE i = Len(result) + 1
    <3>1. i - 1 = Len(result)
      BY <1>5, <2>2
    <3>2. {result'[j] : j \in 1..(i - 1)} = Taken
      BY <1>5, <1>7, <3>1
    <3>3. inDegree[m] = 0
      BY <1>1, <1>2, <3>2, NoneLeft
    <3>4. m \in queue
      BY <1>2, <3>2, <3>3
    <3>5. QED
      BY <1>1, <1>5, <2>2, <3>4
  <2>3. QED
    BY <1>5, <2>1, <2>2
<1>10. \A d \in config.enabled : d \in Taken => n \notin DepSet(d)
  <2> SUFFICES ASSUME NEW d \in Taken PROVE n \notin DepSet(d)
    OBVIOUS
  <2>1. PICK i \in 1..Len(result) : d = result[i]
    BY <1>7
  <2>2. DepSet(d) \subseteq {result[j] : j \in 1..(i - 1)}
    BY <1>5, <2>1 DEF DepsInv, StartupOrder, DependenciesFirst, IsOrder
  <2>3. \A j \in 1..(i - 1) : j \in 1..Len(result)
    BY <1>5, <2>1
  <2>4. QED
    BY <1>4, <1>7, <2>2, <2>3
<1>11. \A d \in config.enabled : inDegree[d] = 0 => n \notin DepSet(d)
  BY <1>1, <1>2, <1>3, <1>4, AllTaken
<1>12. /\ inDegree' = [d \in config.enabled |-> IF n \in DepSet(d) THEN inDegree[d] - 1 ELSE inDegree[d]]
       /\ queue' = (queue \ {n}) \cup {d \in config.enabled : n \in DepSet(d) /\ inDegree[d] = 1}
  BY DEF Take
<1>13. inDegree' \in [config.enabled -> Int] /\ queue' \subseteq config.enabled
  BY <1>1, <1>2, <1>12
<1>14. ASSUME NEW d \in config.enabled
       PROVE  inDegree'[d] = Len(Deps(d)) - Cardinality(DepSet(d) \cap Taken')
  <2>1. PICK c, e : c = Cardinality(DepSet(d) \cap Taken) /\ e = Cardinality(DepSet(d) \cap Taken')
    OBVIOUS
  <2>2. e = IF n \in DepSet(d) THEN c + 1 ELSE c
    BY <1>1, <1>3, <1>4, <1>5, <2>1, OneTaken
  <2>3. c \in Nat
    BY <1>1, <1>3, <2>1, DepCount, FS_Intersection, FS_CardinalityType
  <2>4. inDegree[d] = Len(Deps(d)) - c /\ Len(Deps(d)) \in Nat
    BY <1>1, <1>2, <1>3, <2>1, DepsTypes
  <2>5. inDegree'[d] = Len(Deps(d)) - e
    BY <1>12, <2>2, <2>3, <2>4
  <2>6. QED
    BY <2>1, <2>5
<1>15. ASSUME NEW d \in config.enabled
       PROVE  d \in queue' <=> d \notin Taken' /\ inDegree'[d] = 0
  <2>1. inDegree[d] \in Int
    BY <1>1
  <2>2. CASE n \in DepSet(d)
    <3>1. d # n /\ d \notin Taken /\ d \notin queue
      BY <1>2, <1>4, <1>6, <1>10, <1>11, <2>2
    <3>2. inDegree'[d] = inDegree[d] - 1 /\ (d \in queue' <=> inDegree[d] = 1)
      BY <1>12, <2>2, <3>1
    <3>3. QED
      BY <1>5, <2>1, <3>1, <3>2
  <2>3. CASE n \notin DepSet(d)
    <3>1. inDegree'[d] = inDegree[d] /\ (d \in queue' <=> d \in queue /\ d # n)
      BY <1>12, <2>3
    <3>2. QED
      BY <1>2, <1>5, <3>1
  <2>4. QED
    BY <2>2, <2>3
<1>16. queue' = {d \in config.enabled \ Taken' : inDegree'[d] = 0}
  BY <1>13, <1>15
<1>17. SortInv'
  BY <1>1, <1>3, <1>14, <1>16 DEF SortInv
<1>18. QED
  BY <1>5, <1>8, <1>9, <1>13, <1>17
-----------------------------------------------------------------------------
(* One step of the search *)

LEMMA StackTop ==
  ASSUME stack \in Seq(Frame), stack # <<>>
  PROVE  /\ Len(stack) \in Nat \ {0} /\ DOMAIN stack = 1..Len(stack)
         /\ Top \in Frame /\ Below \in Seq(Frame)
         /\ Len(Below) = Len(stack) - 1 /\ DOMAIN Below = 1..(Len(stack) - 1)
         /\ \A i \in 1..(Len(stack) - 1) : Below[i] = stack[i]
<1>1. PICK n : n = Len(stack)
  OBVIOUS
<1>2. n \in Nat \ {0} /\ DOMAIN stack = 1..n
  BY <1>1, LenProperties, EmptySeq
<1>3. \A i \in 1..n : stack[i] \in Frame
  BY <1>1, ElementOfSeq
<1>4. PICK b : b = SubSeq(stack, 1, n - 1)
  OBVIOUS
<1>5. /\ b \in Seq(Frame) /\ Len(b) = (IF 1 <= n - 1 THEN (n - 1) - 1 + 1 ELSE 0)
      /\ \A i \in 1..((n - 1) - 1 + 1) : b[i] = stack[1 + i - 1]
  <2>1. \A i \in 1..(n - 1) : i \in 1..n
    BY <1>2
  <2>2. QED
    BY <1>1, <1>2, <1>3, <1>4, <2>1, SubSeqProperties
<1>6. Len(b) = n - 1 /\ \A i \in 1..(n - 1) : b[i] = stack[i]
  BY <1>2, <1>5
<1>7. DOMAIN b = 1..(n - 1)
  BY <1>5, <1>6, LenProperties
<1>8. QED
  BY <1>1, <1>2, <1>3, <1>4, <1>5, <1>6, <1>7 DEF Top, Below

\* The call on top goes on to its next dependency; the calls are the same.
LEMMA Advance ==
  ASSUME stack \in Seq(Frame), stack # <<>>
  PROVE  /\ Advanced \in Seq(Frame) /\ Len(Advanced) = Len(stack) /\ DOMAIN Advanced = DOMAIN stack
         /\ \A i \in DOMAIN stack : Advanced[i].node = stack[i].node
         /\ \A i \in DOMAIN stack :
              Advanced[i].next = IF i = Len(stack) THEN stack[i].next + 1 ELSE stack[i].next
<1>1. PICK n : n = Len(stack)
  OBVIOUS
<1>2. /\ n \in Nat \ {0} /\ DOMAIN stack = 1..n /\ Top \in Frame /\ Below \in Seq(Frame)
      /\ Len(Below) = n - 1 /\ \A i \in 1..(n - 1) : Below[i] = stack[i]
  BY <1>1, StackTop
<1>3. PICK t : t = [Top EXCEPT !.next = @ + 1]
  OBVIOUS
<1>4. t \in Frame /\ t.node = stack[n].node /\ t.next = stack[n].next + 1
  <2>1. PICK u \in Frame : u = Top
    BY <1>2
  <2>2. t = [u EXCEPT !.next = u.next + 1]
    BY <1>3, <2>1
  <2>3. u.node \in config.procs /\ u.next + 1 \in Nat \ {0}
    BY <2>1 DEF Frame
  <2>4. t \in Frame /\ t.node = u.node /\ t.next = u.next + 1
    BY <2>1, <2>2, <2>3 DEF Frame
  <2>5. QED
    BY <1>1, <2>1, <2>4 DEF Top
<1>5. Advanced = Append(Below, t)
  BY <1>3 DEF Advanced
<1>6. /\ Advanced \in Seq(Frame) /\ Len(Advanced) = Len(Below) + 1
      /\ \A i \in 1..Len(Below) : Advanced[i] = Below[i]
      /\ Advanced[Len(Below) + 1] = t
  BY <1>2, <1>4, <1>5, AppendProperties
<1>7. Len(Advanced) = n /\ DOMAIN Advanced = 1..n
  BY <1>2, <1>6, LenProperties
<1>8. ASSUME NEW i \in 1..n
      PROVE  /\ Advanced[i].node = stack[i].node
             /\ Advanced[i].next = IF i = n THEN stack[i].next + 1 ELSE stack[i].next
  <2>1. CASE i \in 1..(n - 1)
    BY <1>2, <1>6, <2>1
  <2>2. CASE i = n
    BY <1>2, <1>4, <1>6, <2>2
  <2>3. QED
    BY <1>2, <2>1, <2>2
<1>9. QED
  BY <1>1, <1>2, <1>6, <1>7, <1>8

\* The dependency looked at next is a process name, and in the search of the
\* graph a node of it.
LEMMA NextNode ==
  ASSUME DepsInv, HasNext
  PROVE  /\ Next1 \in Node /\ (phase = "graph" => Next1 \in config.enabled)
         /\ stack \in Seq(Frame) /\ stack # <<>> /\ phase \in {"config", "graph"}
<1>1. /\ Config(config) /\ stack \in Seq(Frame) /\ stack # <<>> /\ phase \in {"config", "graph"}
      /\ Top.next <= Len(Deps(Top.node))
  BY DEF DepsInv, StartupOrder, TypeOK, SearchInv, HasNext, Searching
<1>2. Top \in Frame /\ Len(stack) \in DOMAIN stack /\ Top = stack[Len(stack)]
  BY <1>1, StackTop DEF Top
<1>3. Top.node \in config.procs /\ Top.next \in Nat \ {0}
  BY <1>2 DEF Frame
<1>4. /\ Deps(Top.node) \in Seq(Node) /\ Len(Deps(Top.node)) \in Nat
      /\ DOMAIN Deps(Top.node) = 1..Len(Deps(Top.node)) /\ DepSet(Top.node) \subseteq Node
  BY <1>1, <1>3, DepsTypes
<1>5. Top.next \in DOMAIN Deps(Top.node)
  BY <1>1, <1>3, <1>4
<1>6. Next1 \in DepSet(Top.node)
  BY <1>5 DEF Next1, DepSet
<1>7. ASSUME phase = "graph" PROVE Next1 \in config.enabled
  BY <1>2, <1>6, <1>7 DEF DepsInv, SearchInv, Valid
<1>8. QED
  BY <1>1, <1>4, <1>6, <1>7

\* While the search goes on the sort has not begun.
LEMMA NotYetSorting ==
  ASSUME DepsInv, phase \in {"config", "changed", "graph"}, phase' # "sort", UNCHANGED <<config, sortVars>>
  PROVE  /\ DependenciesFirst' /\ Deterministic' /\ SortInv' /\ Config(config)' /\ (Valid' <=> Valid)
         /\ queue' \subseteq config'.enabled /\ result' \in Seq(config'.enabled)
<1>1. /\ Config(config) /\ DependenciesFirst /\ Deterministic /\ result = <<>> /\ queue = {}
      /\ result \in Seq(config.enabled)
  BY DEF DepsInv, StartupOrder, TypeOK, SortInv
<1>2. config' = config /\ result' = <<>> /\ queue' = {}
  BY <1>1 DEF sortVars
<1>3. (\A d : Deps(d)' = Deps(d) /\ DepSet(d)' = DepSet(d)) /\ (Valid' <=> Valid)
  BY <1>2 DEF Deps, DepSet, Valid
<1>4. Duplicated' <=> Duplicated
  BY <1>2, <1>3 DEF Duplicated
<1>5. IsOrder(result)' <=> IsOrder(result)
  BY <1>1, <1>2, <1>3 DEF IsOrder
<1>6. IsFirst(result)' <=> IsFirst(result)
  BY <1>1, <1>2, <1>3 DEF IsFirst
<1>7. DependenciesFirst' /\ Deterministic'
  BY <1>1, <1>4, <1>5, <1>6 DEF DependenciesFirst, Deterministic
<1>8. SortInv'
  BY <1>2 DEF SortInv
<1>9. QED
  BY <1>1, <1>2, <1>3, <1>7, <1>8
\* What is left to prove of a step of the search: the types of its own
\* variables, and what the stack and the marks have to do with each other.
SearchTypes ==
  /\ visited \subseteq Node /\ recStack \subseteq visited /\ cycle \in Seq(Node)

LEMMA SearchStep ==
  ASSUME DepsInv, phase \in {"config", "changed", "graph"},
         phase' \in {"config", "graph"} \cup Results,
         UNCHANGED <<config, sortVars>>, SearchTypes', SearchInv'
  PROVE  DepsInv'
<1>1. phase' # "sort"
  BY DEF Results
<1>2. /\ DependenciesFirst' /\ Deterministic' /\ SortInv' /\ Config(config)'
      /\ queue' \subseteq config'.enabled /\ result' \in Seq(config'.enabled)
  BY <1>1, NotYetSorting
<1>3. stack' \in Seq([node : Node, next : Nat])
  <2>1. Frame' \subseteq [node : Node, next : Nat]
    BY <1>2 DEF Frame, Config
  <2>2. stack' \in Seq(Frame')
    BY DEF SearchInv
  <2>3. QED
    BY <2>1, <2>2, SeqMonotonic
<1>4. TypeOK'
  BY <1>1, <1>2, <1>3 DEF TypeOK, SearchTypes
<1>5. QED
  BY <1>2, <1>4 DEF DepsInv, StartupOrder

\* A call more: its node is new on the stack.
LEMMA Pushed ==
  ASSUME DepsInv, NEW s \in Seq(Frame), NEW n \in config.procs, DOMAIN s = DOMAIN stack,
         \A i \in DOMAIN stack : s[i].node = stack[i].node,
         n \notin visited, phase = "graph" => n \in config.enabled,
         stack' = Append(s, [node |-> n, next |-> 1]), recStack' = recStack \cup {n},
         phase \in {"config", "graph"}, UNCHANGED <<config, phase>>
  PROVE  SearchInv'
<1>1. PICK f \in Frame : f = [node |-> n, next |-> 1]
  BY DEF Frame
<1>2. PICK m \in Nat : m = Len(s) /\ DOMAIN s = 1..m
  BY LenProperties
<1>3. /\ stack' \in Seq(Frame) /\ Len(stack') = m + 1
      /\ \A i \in 1..m : stack'[i] = s[i]
      /\ stack'[m + 1] = f
  BY <1>1, <1>2, AppendProperties
<1>4. DOMAIN stack' = 1..(m + 1)
  BY <1>3, LenProperties
<1>5. (\A i \in 1..m : stack'[i].node = stack[i].node) /\ stack'[m + 1].node = n /\ DOMAIN stack = 1..m
  BY <1>1, <1>2, <1>3
<1>6. ASSUME phase = "graph"
      PROVE  /\ Valid' /\ recStack' = {stack'[i].node : i \in 1..(m + 1)}
             /\ \A i \in 1..(m + 1) : stack'[i].node \in config.enabled
             /\ \A i, j \in 1..(m + 1) : stack'[i].node = stack'[j].node => i = j
  <2>1. /\ Valid /\ recStack = {stack[i].node : i \in 1..m} /\ recStack \subseteq visited
        /\ \A i \in 1..m : stack[i].node \in config.enabled
        /\ \A i, j \in 1..m : stack[i].node = stack[j].node => i = j
    BY <1>5, <1>6 DEF DepsInv, SearchInv, StartupOrder, TypeOK
  <2>2. Valid'
    BY <2>1 DEF Valid, DepSet, Deps
  <2>3. \A i : i \in 1..(m + 1) <=> i \in 1..m \/ i = m + 1
    BY <1>2
  <2>4. recStack' = {stack'[i].node : i \in 1..(m + 1)}
    BY <1>5, <2>1, <2>3
  <2>5. \A i \in 1..(m + 1) : stack'[i].node \in config.enabled
    BY <1>5, <1>6, <2>1, <2>3
  <2>6. \A i \in 1..m : stack'[i].node # n
    BY <1>5, <2>1
  <2>7. \A i, j \in 1..(m + 1) : stack'[i].node = stack'[j].node => i = j
    BY <1>5, <2>1, <2>3, <2>6
  <2>8. QED
    BY <2>2, <2>4, <2>5, <2>7
<1>7. Frame' = Frame
  BY DEF Frame
<1>8. QED
  BY <1>3, <1>4, <1>6, <1>7 DEF SearchInv

LEMMA RootStep == ASSUME DepsInv, NEW n \in Node, Root(n) PROVE DepsInv'
<1>1. /\ Config(config) /\ phase \in {"config", "graph"} /\ stack = <<>> /\ n \in Nodes \ visited
      /\ visited \subseteq Node /\ recStack \subseteq visited /\ cycle \in Seq(Node)
  BY DEF Root, Searching, DepsInv, StartupOrder, TypeOK
<1>2. n \in config.procs /\ (phase = "graph" => n \in config.enabled)
  BY <1>1 DEF Nodes, Config
<1>3. stack' = Append(stack, [node |-> n, next |-> 1])
  BY <1>1 DEF Root
<1>4. stack \in Seq(Frame)
  BY DEF DepsInv, SearchInv
<1>5. SearchInv'
  BY <1>1, <1>2, <1>3, <1>4, Pushed DEF Root
<1>6. SearchTypes'
  BY <1>1 DEF Root, SearchTypes
<1>7. QED
  BY <1>1, <1>5, <1>6, SearchStep DEF Root

\* The calls are the same, and the marks.
LEMMA Kept ==
  ASSUME DepsInv, stack # <<>>, phase \in {"config", "graph"}, stack' = Advanced,
         phase = "graph" => recStack' = recStack, UNCHANGED <<config, phase>>
  PROVE  SearchInv'
<1>1. /\ Advanced \in Seq(Frame) /\ DOMAIN Advanced = DOMAIN stack
      /\ \A i \in DOMAIN stack : Advanced[i].node = stack[i].node
  BY Advance DEF DepsInv, SearchInv
<1>2. Frame' = Frame /\ (Valid' <=> Valid)
  BY DEF Frame, Valid, DepSet, Deps
<1>3. ASSUME phase = "graph"
      PROVE  /\ Valid' /\ recStack' = {stack'[i].node : i \in DOMAIN stack'}
             /\ \A i \in DOMAIN stack' : stack'[i].node \in config.enabled
             /\ \A i, j \in DOMAIN stack' : stack'[i].node = stack'[j].node => i = j
  BY <1>1, <1>2, <1>3 DEF DepsInv, SearchInv
<1>4. QED
  BY <1>1, <1>2, <1>3 DEF SearchInv

LEMMA DescendStep == ASSUME DepsInv, Descend PROVE DepsInv'
<1>1. /\ Next1 \in Node /\ (phase = "graph" => Next1 \in config.enabled)
      /\ stack \in Seq(Frame) /\ stack # <<>> /\ phase \in {"config", "graph"}
  BY NextNode DEF Descend
<1>2. /\ Config(config) /\ visited \subseteq Node /\ recStack \subseteq visited /\ cycle \in Seq(Node)
  BY DEF DepsInv, StartupOrder, TypeOK
<1>3. PICK n : n = Next1
  OBVIOUS
<1>4. SearchInv'
  <2>1. CASE n \in config.procs
    <3>1. stack' = Append(Advanced, [node |-> n, next |-> 1])
      BY <1>3, <2>1 DEF Descend
    <3>2. /\ Advanced \in Seq(Frame) /\ DOMAIN Advanced = DOMAIN stack
          /\ \A i \in DOMAIN stack : Advanced[i].node = stack[i].node
      BY <1>1, Advance
    <3>3. PICK s \in Seq(Frame) : s = Advanced
      BY <3>2
    <3>4. QED
      BY <1>1, <1>3, <2>1, <3>1, <3>2, <3>3, Pushed DEF Descend
  <2>2. CASE n \notin config.procs
    <3>1. phase # "graph"
      BY <1>1, <1>2, <1>3, <2>2 DEF Config
    <3>2. QED
      BY <1>1, <1>3, <2>2, <3>1, Kept DEF Descend
  <2>3. QED
    BY <2>1, <2>2
<1>5. SearchTypes'
  BY <1>1, <1>2 DEF Descend, SearchTypes
<1>6. QED
  BY <1>1, <1>4, <1>5, SearchStep DEF Descend

LEMMA SkipStep == ASSUME DepsInv, Skip PROVE DepsInv'
<1>1. stack # <<>> /\ phase \in {"config", "graph"}
  BY NextNode DEF Skip
<1>2. SearchInv'
  BY <1>1, Kept DEF Skip
<1>3. SearchTypes'
  BY DEF Skip, SearchTypes, DepsInv, StartupOrder, TypeOK
<1>4. QED
  BY <1>1, <1>2, <1>3, SearchStep DEF Skip

\* The path reported starts and ends at the node found and follows the stack.
LEMMA FoundStep == ASSUME DepsInv, Found PROVE DepsInv'
<1>1. Next1 \in Node /\ stack \in Seq(Frame) /\ stack # <<>> /\ phase \in {"config", "graph"}
  BY NextNode DEF Found
<1>2. /\ Config(config) /\ visited \subseteq Node /\ recStack \subseteq visited /\ cycle \in Seq(Node)
      /\ visited' = visited /\ recStack' = recStack /\ stack' = stack /\ config' = config
      /\ phase' \in {"circular", "cycle"}
  BY DEF DepsInv, StartupOrder, TypeOK, Found, dfsVars
<1>3. CASE phase = "config"
  <2>1. cycle' \in Seq(Node)
    BY <1>2, <1>3 DEF Found
  <2>2. SearchInv'
    BY <1>1, <1>2 DEF SearchInv, Frame
  <2>3. QED
    BY <1>1, <1>2, <2>1, <2>2, SearchStep DEF Found, SearchTypes, Results
<1>4. CASE phase = "graph"
  <2>1. PICK m \in Nat : m = Len(stack) /\ DOMAIN stack = 1..m
    BY <1>1, StackTop
  <2>2. \A i \in 1..m : stack[i].node \in Node
    <3>1. \A i \in 1..m : stack[i] \in Frame
      BY <1>1, <2>1, ElementOfSeq
    <3>2. QED
      BY <1>2, <3>1 DEF Frame, Config
  <2>3. PICK n \in Node : n = Next1
    BY <1>1
  <2>4. \E i \in 1..m : stack[i].node = n
    BY <1>4, <2>1, <2>3 DEF DepsInv, SearchInv, Found
  <2>5. PICK k : k = CHOOSE j \in 1..m : stack[j].node = n
    OBVIOUS
  <2>6. k \in 1..m
    BY <2>4, <2>5
  <2>7. cycle' = [i \in 1..(m - k + 2) |-> IF i <= m - k + 1 THEN stack[k + i - 1].node ELSE n]
    BY <1>4, <2>1, <2>3, <2>5 DEF Found, PathFrom
  <2>8. m - k + 2 \in Nat /\ \A i \in 1..(m - k + 2) : i <= m - k + 1 => k + i - 1 \in 1..m
    BY <2>6
  <2>9. cycle' \in Seq(Node)
    BY <2>2, <2>7, <2>8, IsASeq
  <2>10. SearchInv'
    BY <1>1, <1>2 DEF SearchInv, Frame
  <2>11. QED
    BY <1>1, <1>2, <2>9, <2>10, SearchStep DEF Found, SearchTypes, Results
<1>5. QED
  BY <1>1, <1>3, <1>4
\* A call returns: its node goes from the stack, and its mark.
LEMMA LeaveStep == ASSUME DepsInv, Leave PROVE DepsInv'
<1>1. /\ Config(config) /\ phase \in {"config", "graph"} /\ stack # <<>> /\ stack \in Seq(Frame)
      /\ visited \subseteq Node /\ recStack \subseteq visited /\ cycle \in Seq(Node)
      /\ stack' = Below /\ recStack' = recStack \ {Top.node} /\ UNCHANGED <<config, phase, visited, cycle>>
  BY DEF Leave, Searching, DepsInv, StartupOrder, TypeOK, SearchInv
<1>2. PICK m \in Nat \ {0} : m = Len(stack) /\ DOMAIN stack = 1..m
  BY <1>1, StackTop
<1>3. /\ stack' \in Seq(Frame) /\ DOMAIN stack' = 1..(m - 1)
      /\ \A i \in 1..(m - 1) : stack'[i] = stack[i]
  BY <1>1, <1>2, StackTop
<1>4. Top = stack[m]
  BY <1>2 DEF Top
<1>5. \A i : i \in 1..m <=> i \in 1..(m - 1) \/ i = m
  BY <1>2
<1>6. m \notin 1..(m - 1)
  BY <1>2
<1>7. ASSUME phase = "graph"
      PROVE  /\ Valid' /\ recStack' = {stack'[i].node : i \in 1..(m - 1)}
             /\ \A i \in 1..(m - 1) : stack'[i].node \in config.enabled
             /\ \A i, j \in 1..(m - 1) : stack'[i].node = stack'[j].node => i = j
  <2>1. /\ Valid /\ recStack = {stack[i].node : i \in 1..m}
        /\ \A i \in 1..m : stack[i].node \in config.enabled
        /\ \A i, j \in 1..m : stack[i].node = stack[j].node => i = j
    BY <1>2, <1>7 DEF DepsInv, SearchInv
  <2>2. Valid'
    BY <1>1, <2>1 DEF Valid, DepSet, Deps
  <2>3. \A i \in 1..(m - 1) : stack[i].node # stack[m].node
    BY <1>5, <1>6, <2>1
  <2>4. recStack' = {stack'[i].node : i \in 1..(m - 1)}
    BY <1>1, <1>3, <1>4, <1>5, <2>1, <2>3
  <2>5. QED
    BY <1>3, <1>5, <2>1, <2>2, <2>4
<1>8. SearchInv'
  BY <1>1, <1>3, <1>7 DEF SearchInv, Frame
<1>9. SearchTypes'
  BY <1>1 DEF SearchTypes
<1>10. QED
  BY <1>1, <1>8, <1>9, SearchStep DEF Leave

LEMMA BuildStep == ASSUME DepsInv, BuildGraph PROVE DepsInv'
<1>1. /\ Config(config) /\ phase \in {"config", "changed"} /\ stack = <<>> /\ stack' = <<>>
      /\ visited' = {} /\ recStack' = {} /\ cycle' = cycle /\ cycle \in Seq(Node) /\ config' = config
      /\ phase' = IF Valid THEN "graph" ELSE "invalid"
  BY DEF BuildGraph, Searched, DepsInv, StartupOrder, TypeOK, SearchInv
<1>2. Valid' <=> Valid
  BY <1>1 DEF Valid, DepSet, Deps
<1>3. stack' \in Seq(Frame') /\ DOMAIN stack' = {}
  BY <1>1
<1>4. SearchInv'
  BY <1>1, <1>2, <1>3 DEF SearchInv
<1>5. SearchTypes'
  BY <1>1 DEF SearchTypes
<1>6. QED
  BY <1>1, <1>4, <1>5, SearchStep DEF BuildGraph, Results

-----------------------------------------------------------------------------
(* The sort *)

\* What a step of the sort leaves to prove.
LEMMA SortStep ==
  ASSUME DepsInv, phase \in {"graph", "sort"}, phase' \in {"sort"} \cup Results, UNCHANGED <<config, dfsVars, cycle>>,
         phase' = "sort" => inDegree' \in [config.enabled -> Int],
         queue' \subseteq config.enabled, result' \in Seq(config.enabled),
         IsOrder(result)', ~Duplicated => IsFirst(result)', SortInv'
  PROVE  DepsInv'
<1>1. /\ Config(config)' /\ Frame' = Frame /\ (Duplicated' <=> Duplicated)
      /\ config' = config /\ stack' = stack /\ visited' = visited /\ recStack' = recStack /\ cycle' = cycle
  BY DEF DepsInv, StartupOrder, TypeOK, Frame, Duplicated, Deps, DepSet, dfsVars
<1>2. DependenciesFirst' /\ Deterministic'
  BY <1>1 DEF DependenciesFirst, Deterministic
<1>3. phase' \notin {"changed", "graph"}
  BY DEF Results
<1>4. SearchInv'
  BY <1>1, <1>3 DEF DepsInv, SearchInv
<1>5. TypeOK'
  BY <1>1 DEF DepsInv, StartupOrder, TypeOK
<1>6. QED
  BY <1>2, <1>4, <1>5 DEF DepsInv, StartupOrder

LEMMA StartSortStep == ASSUME DepsInv, StartSort PROVE DepsInv'
<1>1. /\ Config(config) /\ phase = "graph" /\ phase' = "sort" /\ config' = config /\ result = <<>> /\ result' = <<>>
      /\ inDegree' = [d \in config.enabled |-> Len(Deps(d))]
      /\ queue' = {d \in config.enabled : Len(Deps(d)) = 0}
  BY DEF StartSort, Searched, DepsInv, StartupOrder, TypeOK, SortInv
<1>2. \A d \in config.enabled : Len(Deps(d)) \in Nat
  BY <1>1, DepsTypes DEF Config
<1>3. Taken' = {} /\ DOMAIN result' = {}
  BY <1>1 DEF Taken
<1>4. IsOrder(result)' /\ IsFirst(result)'
  BY <1>3 DEF IsOrder, IsFirst
<1>5. SortInv'
  <2>1. \A d : DepSet(d)' = DepSet(d) /\ Deps(d)' = Deps(d)
    BY <1>1 DEF DepSet, Deps
  <2>2. Cardinality({}) = 0
    BY FS_EmptySet
  <2>3. \A d \in config.enabled : DepSet(d) \cap Taken' = {}
    BY <1>3
  <2>4. ASSUME NEW d \in config.enabled
        PROVE  inDegree'[d] = Len(Deps(d)) - Cardinality(DepSet(d) \cap Taken')
    <3>1. PICK c, l : c = Cardinality(DepSet(d) \cap Taken') /\ l = Len(Deps(d))
      OBVIOUS
    <3>2. c = 0
      BY <2>2, <2>3, <3>1
    <3>3. l \in Nat /\ inDegree'[d] = l
      BY <1>1, <1>2, <3>1
    <3>4. inDegree'[d] = l - c
      BY <3>2, <3>3
    <3>5. QED
      BY <3>1, <3>4
  <2>5. queue' = {d \in config.enabled \ Taken' : inDegree'[d] = 0}
    BY <1>1, <1>3
  <2>6. QED
    BY <1>1, <2>1, <2>4, <2>5 DEF SortInv
<1>6. inDegree' \in [config.enabled -> Int] /\ queue' \subseteq config.enabled
  BY <1>1, <1>2
<1>7. result' \in Seq(config.enabled)
  BY <1>1
<1>8. QED
  BY <1>1, <1>4, <1>5, <1>6, <1>7, SortStep DEF StartSort

LEMMA EndSortStep == ASSUME DepsInv, EndSort PROVE DepsInv'
<1>1. /\ Config(config) /\ phase = "sort" /\ phase' \in {"sorted", "incomplete"}
      /\ queue \subseteq config.enabled /\ result \in Seq(config.enabled) /\ DependenciesFirst /\ Deterministic
      /\ UNCHANGED <<config, queue, result>>
  BY DEF EndSort, DepsInv, StartupOrder, TypeOK, sortVars
<1>2. \A d : Deps(d)' = Deps(d) /\ DepSet(d)' = DepSet(d)
  BY <1>1 DEF Deps, DepSet
<1>3. IsOrder(result)' /\ (~Duplicated => IsFirst(result)')
  BY <1>1, <1>2 DEF DependenciesFirst, Deterministic, IsOrder, IsFirst
<1>4. SortInv'
  BY <1>1 DEF SortInv
<1>5. QED
  BY <1>1, <1>3, <1>4, SortStep DEF EndSort, Results

-----------------------------------------------------------------------------
(* The invariant *)

LEMMA DepsStart == ASSUME DepsAssumption, Init PROVE DepsInv
<1>1. /\ Config(config) /\ phase \in {"config", "changed", "invalid"}
      /\ visited = {} /\ recStack = {} /\ stack = <<>> /\ cycle = <<>> /\ queue = {} /\ result = <<>>
  BY DEF DepsAssumption, Init
<1>2. DOMAIN result = {} /\ DOMAIN stack = {}
  BY <1>1
<1>3. DependenciesFirst /\ Deterministic
  BY <1>2 DEF DependenciesFirst, Deterministic, IsOrder, IsFirst
<1>4. SearchInv /\ SortInv
  BY <1>1 DEF SearchInv, SortInv
<1>5. TypeOK
  BY <1>1 DEF TypeOK, Results
<1>6. QED
  BY <1>3, <1>4, <1>5 DEF DepsInv, StartupOrder

LEMMA DepsStutters == ASSUME DepsInv, UNCHANGED vars PROVE DepsInv'
<1>1. UNCHANGED <<config, phase, visited, recStack, stack, cycle, inDegree, queue, result>>
  BY DEF vars, dfsVars, sortVars
<1>2. \A d : Deps(d)' = Deps(d) /\ DepSet(d)' = DepSet(d)
  BY <1>1 DEF Deps, DepSet
<1>3. (Valid' <=> Valid) /\ (Duplicated' <=> Duplicated) /\ Taken' = Taken /\ Frame' = Frame
  BY <1>1, <1>2 DEF Valid, Duplicated, Taken, Frame
<1>4. TypeOK' /\ SearchInv' /\ SortInv'
  BY <1>1, <1>2, <1>3 DEF DepsInv, StartupOrder, TypeOK, SearchInv, SortInv
<1>5. DependenciesFirst' /\ Deterministic'
  BY <1>1, <1>2, <1>3 DEF DepsInv, StartupOrder, DependenciesFirst, Deterministic, IsOrder, IsFirst
<1>6. QED
  BY <1>4, <1>5 DEF DepsInv, StartupOrder

\* The order of internal/deps/graph.go is one to start in, and the one order of
\* its configuration, together with what the induction needs: the frames of the
\* search are its marks, and the in-degrees count what is not yet taken.
THEOREM DepsInvariant == Spec => []DepsInv
<1>1. Init => DepsInv
  BY DepsAssumption, DepsStart
<1>2. DepsInv /\ [Next]_vars => DepsInv'
  <2> SUFFICES ASSUME DepsInv, [Next]_vars PROVE DepsInv'
    OBVIOUS
  <2>1. ASSUME NEW n \in Node, Root(n) PROVE DepsInv'
    BY <2>1, RootStep
  <2>2. ASSUME NEW n \in Node, Take(n) PROVE DepsInv'
    <3>1. phase = "sort" /\ phase' = "sort" /\ UNCHANGED <<config, dfsVars, cycle>>
      BY <2>2 DEF Take
    <3>2. QED
      BY <2>2, <3>1, DepsAssumption, TakeStep, SortStep
  <2>3. CASE Descend
    BY <2>3, DescendStep
  <2>4. CASE Skip
    BY <2>4, SkipStep
  <2>5. CASE Found
    BY <2>5, FoundStep
  <2>6. CASE Leave
    BY <2>6, LeaveStep
  <2>7. CASE BuildGraph
    BY <2>7, BuildStep
  <2>8. CASE StartSort
    BY <2>8, StartSortStep
  <2>9. CASE EndSort
    BY <2>9, EndSortStep
  <2>10. CASE UNCHANGED vars
    BY <2>10, DepsStutters
  <2>11. QED
    BY <2>1, <2>2, <2>3, <2>4, <2>5, <2>6, <2>7, <2>8, <2>9, <2>10 DEF Next
<1>3. QED
  BY <1>1, <1>2, PTL DEF Spec

\* At every moment of the sort the order has each process after everything it
\* depends on, and it is the first such order alphabetically, for every
\* configuration and every order in which Go visits its maps.
THEOREM StartupOrderAlways == Spec => []StartupOrder
<1>1. DepsInv => StartupOrder
  BY DEF DepsInv
<1>2. QED
  BY <1>1, DepsInvariant, PTL

-----------------------------------------------------------------------------
(* Cycles *)

\* Every member of C depends on a member of C: what Cyclic looks for.
Rounds(C) == C # {} /\ \A n \in C : \E d \in C : d \in DepSet(n)

\* A search in which every dependency is one of the nodes searched.
Exact == phase = "graph" \/ (phase = "config" /\ Defined)

\* What the search has left for good.
Done == visited \ recStack

\* The marks are the calls in progress, each node once.
Marks ==
  /\ visited \subseteq Nodes
  /\ recStack = {stack[i].node : i \in DOMAIN stack}
  /\ \A i, j \in DOMAIN stack : stack[i].node = stack[j].node => i = j
\* A call is for a dependency of the call below.
Linked == \A i \in DOMAIN stack : i > 1 => stack[i].node \in DepSet(stack[i - 1].node)
\* The dependencies a call has looked at are done, or are the call above.
Explored ==
  \A i \in DOMAIN stack : \A j \in 1..(stack[i].next - 1) :
    \/ Deps(stack[i].node)[j] \in Done
    \/ i < Len(stack) /\ Deps(stack[i].node)[j] = stack[i + 1].node
\* What is done depends on what is done, and has no cycle.
Finished == /\ \A n \in Done : DepSet(n) \subseteq Done
            /\ \A C \in SUBSET Done : ~Rounds(C)
PathInv == Marks /\ Linked /\ Explored /\ Finished

\* A node is taken when all its dependencies are, each named once.
TakenOnce == phase = "sort" => \A d \in Taken : Cardinality(DepSet(d)) = Len(Deps(d))

CycleInv ==
  /\ Exact => PathInv
  /\ phase = "circular" /\ Defined => Cyclic(config.procs)
  /\ CycleIsReal
  /\ phase = "sort" => Valid /\ ~Cyclic(config.enabled)
  /\ TakenOnce /\ FailsForAReason

\* The configuration is fixed, and what is defined from it.
LEMMA Same ==
  ASSUME config' = config
  PROVE  /\ \A d : Deps(d)' = Deps(d) /\ DepSet(d)' = DepSet(d)
         /\ Valid' <=> Valid
         /\ Defined' <=> Defined
         /\ Duplicated' <=> Duplicated
         /\ \A C : Rounds(C)' <=> Rounds(C)
         /\ Cyclic(config.procs)' <=> Cyclic(config.procs)
         /\ Cyclic(config.enabled)' <=> Cyclic(config.enabled)
<1>1. \A d : Deps(d)' = Deps(d) /\ DepSet(d)' = DepSet(d)
  BY DEF Deps, DepSet
<1>2. (Valid' <=> Valid) /\ (Defined' <=> Defined) /\ (Duplicated' <=> Duplicated)
  BY <1>1 DEF Valid, Defined, Duplicated
<1>3. \A C : Rounds(C)' <=> Rounds(C)
  BY <1>1 DEF Rounds
<1>4. \A S : Edges(S)' = Edges(S)
  BY <1>1 DEF Edges
<1>5. (Cyclic(config.procs)' <=> Cyclic(config.procs)) /\ (Cyclic(config.enabled)' <=> Cyclic(config.enabled))
  BY <1>4 DEF Cyclic
<1>6. QED
  BY <1>1, <1>2, <1>3, <1>5

LEMMA CyclicIs == ASSUME NEW S PROVE Cyclic(S) <=> \E C \in SUBSET S : Rounds(C)
<1>1. ASSUME NEW C \in SUBSET S, NEW n \in C, NEW d \in C
      PROVE  <<n, d>> \in Edges(S) <=> d \in DepSet(n)
  BY <1>1 DEF Edges
<1>2. QED
  BY <1>1 DEF Cyclic, Rounds

\* The nodes of an exact search: the calls in progress are for some of them, and
\* each depends on some of them only.
LEMMA ExactSearch ==
  ASSUME DepsInv, Exact
  PROVE  /\ phase \in {"config", "graph"} /\ stack \in Seq(Frame)
         /\ Len(stack) \in Nat /\ DOMAIN stack = 1..Len(stack)
         /\ Nodes \subseteq config.procs /\ recStack \subseteq visited
         /\ \A n \in Nodes : DepSet(n) \subseteq Nodes
         /\ \A i \in DOMAIN stack : stack[i].node \in Nodes /\ stack[i].next \in Nat \ {0}
<1>1. /\ Config(config) /\ stack \in Seq(Frame) /\ recStack \subseteq visited /\ phase \in {"config", "graph"}
  BY DEF DepsInv, StartupOrder, TypeOK, SearchInv, Exact
<1>2. Nodes \subseteq config.procs
  BY <1>1 DEF Nodes, Config
<1>3. \A n \in Nodes : DepSet(n) \subseteq Nodes
  BY <1>1 DEF Exact, Nodes, Defined, Valid, DepsInv, SearchInv
<1>4. Len(stack) \in Nat /\ DOMAIN stack = 1..Len(stack)
  BY <1>1, LenProperties
<1>5. \A i \in DOMAIN stack : stack[i] \in Frame
  BY <1>1, <1>4, ElementOfSeq
<1>6. \A i \in DOMAIN stack : stack[i].node \in config.procs /\ stack[i].next \in Nat \ {0}
  BY <1>5 DEF Frame
<1>7. \A i \in DOMAIN stack : stack[i].node \in Nodes
  BY <1>1, <1>6 DEF Nodes, DepsInv, SearchInv
<1>8. QED
  BY <1>1, <1>2, <1>3, <1>4, <1>6, <1>7

\* Where the search has not reached a verdict there is only the path to prove.
LEMMA StillSearching ==
  ASSUME phase' \in {"config", "changed", "graph", "invalid"}, Exact' => PathInv'
  PROVE  CycleInv'
BY DEF CycleInv, CycleIsReal, TakenOnce, FailsForAReason

\* A call more, for the dependency that the call below has reached.
LEMMA PathGrows ==
  ASSUME DepsInv, Exact, PathInv, NEW s \in Seq(Frame), NEW n \in Nodes, NEW m \in Nat,
         m = Len(stack), Len(s) = m, \A i \in 1..m : s[i].node = stack[i].node,
         n \notin visited, m > 0 => n \in DepSet(stack[m].node),
         \A i \in 1..m : \A j \in 1..(s[i].next - 1) :
           \/ Deps(s[i].node)[j] \in Done
           \/ i < m /\ Deps(s[i].node)[j] = s[i + 1].node
           \/ i = m /\ Deps(s[i].node)[j] = n,
         stack' = Append(s, [node |-> n, next |-> 1]),
         visited' = visited \cup {n}, recStack' = recStack \cup {n}, UNCHANGED <<config, phase>>
  PROVE  PathInv'
<1>1. PICK f \in Frame : f = [node |-> n, next |-> 1]
  BY ExactSearch DEF Frame
<1>2. /\ stack' \in Seq(Frame) /\ Len(stack') = m + 1
      /\ \A i \in 1..m : stack'[i] = s[i]
      /\ stack'[m + 1] = f
  BY <1>1, AppendProperties
<1>3. DOMAIN stack' = 1..(m + 1) /\ DOMAIN stack = 1..m /\ m + 1 \notin 1..m
  BY <1>2, LenProperties, ExactSearch
<1>4. \A i : i \in 1..(m + 1) <=> i \in 1..m \/ i = m + 1
  OBVIOUS
<1>5. (\A i \in 1..m : stack'[i].node = stack[i].node) /\ stack'[m + 1].node = n /\ stack'[m + 1].next = 1
  BY <1>1, <1>2
<1>6. \A d : Deps(d)' = Deps(d) /\ DepSet(d)' = DepSet(d)
  BY Same
<1>7. Nodes' = Nodes
  BY DEF Nodes
<1>8. n \notin recStack /\ Done' = Done
  BY ExactSearch DEF Done
<1>9. Marks'
  <2>1. /\ visited \subseteq Nodes /\ recStack = {stack[i].node : i \in 1..m}
        /\ \A i, j \in 1..m : stack[i].node = stack[j].node => i = j
    BY <1>3 DEF PathInv, Marks
  <2>2. recStack' = {stack'[i].node : i \in 1..(m + 1)}
    BY <1>4, <1>5, <2>1
  <2>3. \A i \in 1..m : stack'[i].node # n
    BY <1>5, <1>8, <2>1
  <2>4. \A i, j \in 1..(m + 1) : stack'[i].node = stack'[j].node => i = j
    BY <1>4, <1>5, <2>1, <2>3
  <2>5. QED
    BY <1>3, <1>7, <2>1, <2>2, <2>4 DEF Marks
<1>10. Linked'
  <2>1. ASSUME NEW i \in 1..(m + 1), i > 1 PROVE stack'[i].node \in DepSet(stack'[i - 1].node)
    <3>1. CASE i \in 1..m
      <4>1. i - 1 \in 1..m
        BY <2>1, <3>1
      <4>2. stack[i].node \in DepSet(stack[i - 1].node)
        BY <1>3, <2>1, <3>1 DEF PathInv, Linked
      <4>3. QED
        BY <1>5, <3>1, <4>1, <4>2
    <3>2. CASE i = m + 1
      <4>1. i - 1 = m /\ m \in 1..m
        BY <2>1, <3>2
      <4>2. QED
        BY <1>5, <3>2, <4>1
    <3>3. QED
      BY <1>4, <3>1, <3>2
  <2>2. QED
    BY <1>3, <1>6, <2>1 DEF Linked
<1>11. Explored'
  <2>1. ASSUME NEW i \in 1..(m + 1), NEW j \in 1..(stack'[i].next - 1)
        PROVE  \/ Deps(stack'[i].node)[j] \in Done
               \/ i < m + 1 /\ Deps(stack'[i].node)[j] = stack'[i + 1].node
    <3>1. CASE i \in 1..m
      <4>1. stack'[i] = s[i] /\ i < m + 1
        BY <1>2, <3>1
      <4>2. j \in 1..(s[i].next - 1)
        BY <4>1
      <4>3. \/ Deps(s[i].node)[j] \in Done
            \/ i < m /\ Deps(s[i].node)[j] = s[i + 1].node
            \/ i = m /\ Deps(s[i].node)[j] = n
        BY <3>1, <4>2
      <4>4. CASE i < m /\ Deps(s[i].node)[j] = s[i + 1].node
        <5>1. i + 1 \in 1..m
          BY <3>1, <4>4
        <5>2. QED
          BY <1>2, <4>1, <4>4, <5>1
      <4>5. CASE i = m /\ Deps(s[i].node)[j] = n
        BY <1>5, <4>1, <4>5
      <4>6. QED
        BY <4>1, <4>3, <4>4, <4>5
    <3>2. CASE i = m + 1
      BY <1>5, <3>2
    <3>3. QED
      BY <1>4, <3>1, <3>2
  <2>2. QED
    BY <1>2, <1>3, <1>6, <1>8, <2>1 DEF Explored
<1>12. Finished'
  <2>1. /\ \A d \in Done : DepSet(d) \subseteq Done
        /\ \A C \in SUBSET Done : ~Rounds(C)
    BY DEF PathInv, Finished
  <2>2. \A C : Rounds(C)' <=> Rounds(C)
    BY Same
  <2>3. QED
    BY <1>6, <1>8, <2>1, <2>2 DEF Finished
<1>13. QED
  BY <1>9, <1>10, <1>11, <1>12 DEF PathInv

LEMMA ExactAgain == ASSUME UNCHANGED <<config, phase>> PROVE Exact' <=> Exact
<1>1. Defined' <=> Defined
  BY Same
<1>2. QED
  BY <1>1 DEF Exact

LEMMA RootPath == ASSUME DepsInv, CycleInv, NEW n \in Node, Root(n) PROVE CycleInv'
<1>1. /\ UNCHANGED <<config, phase>> /\ phase \in {"config", "graph"} /\ stack = <<>> /\ n \in Nodes \ visited
      /\ visited' = visited \cup {n} /\ recStack' = recStack \cup {n}
      /\ stack' = Append(stack, [node |-> n, next |-> 1])
  BY DEF Root, Searching
<1>2. ASSUME Exact PROVE PathInv'
  <2>1. PathInv /\ stack \in Seq(Frame) /\ Len(stack) = 0
    BY <1>1, <1>2, ExactSearch DEF CycleInv
  <2>2. PICK s \in Seq(Frame) : s = stack
    BY <2>1
  <2>3. PICK m \in Nat : m = 0
    OBVIOUS
  <2>4. m = Len(stack) /\ Len(s) = m /\ ~(m > 0) /\ \A i \in 1..m : FALSE
    BY <2>1, <2>2, <2>3
  <2>5. stack' = Append(s, [node |-> n, next |-> 1])
    BY <1>1, <2>2
  <2>6. n \in Nodes /\ n \notin visited
    BY <1>1
  <2>7. QED
    BY <1>1, <1>2, <2>1, <2>4, <2>5, <2>6, PathGrows
<1>3. Exact' => PathInv'
  BY <1>1, <1>2, ExactAgain
<1>4. QED
  BY <1>1, <1>3, StillSearching

\* The next dependency of the call on top: a node, and one of that call's.
LEMMA NextOfTop ==
  ASSUME DepsInv, Exact, HasNext
  PROVE  /\ stack # <<>> /\ Len(stack) \in 1..Len(stack)
         /\ Next1 = Deps(stack[Len(stack)].node)[stack[Len(stack)].next]
         /\ Next1 \in DepSet(stack[Len(stack)].node) /\ Next1 \in Nodes
<1>1. /\ Config(config) /\ stack # <<>> /\ stack \in Seq(Frame) /\ Top.next <= Len(Deps(Top.node))
  BY DEF DepsInv, StartupOrder, TypeOK, SearchInv, HasNext
<1>2. Len(stack) \in 1..Len(stack) /\ DOMAIN stack = 1..Len(stack) /\ Top = stack[Len(stack)]
  BY <1>1, StackTop DEF Top
<1>3. /\ Top.node \in Nodes /\ Top.next \in Nat \ {0} /\ Nodes \subseteq config.procs
      /\ DepSet(Top.node) \subseteq Nodes
  BY <1>2, ExactSearch
<1>4. Len(Deps(Top.node)) \in Nat /\ DOMAIN Deps(Top.node) = 1..Len(Deps(Top.node))
  BY <1>1, <1>3, DepsTypes
<1>5. Top.next \in DOMAIN Deps(Top.node)
  BY <1>1, <1>3, <1>4
<1>6. Next1 \in DepSet(Top.node)
  BY <1>5 DEF Next1, DepSet
<1>7. QED
  BY <1>1, <1>2, <1>3, <1>6 DEF Next1

\* What the call on top has looked at once it has gone on.
LEMMA AdvancedExplored ==
  ASSUME DepsInv, Exact, PathInv, HasNext,
         NEW i \in 1..Len(stack), NEW j \in 1..(Advanced[i].next - 1)
  PROVE  \/ Deps(Advanced[i].node)[j] \in Done
         \/ i < Len(stack) /\ Deps(Advanced[i].node)[j] = Advanced[i + 1].node
         \/ i = Len(stack) /\ Deps(Advanced[i].node)[j] = Next1
<1>1. PICK m \in Nat : m = Len(stack)
  BY ExactSearch
<1>2. /\ DOMAIN stack = 1..m /\ i \in 1..m
      /\ \A k \in 1..m : Advanced[k].node = stack[k].node /\ stack[k].next \in Nat
      /\ Advanced[i].next = IF i = m THEN stack[i].next + 1 ELSE stack[i].next
  BY <1>1, ExactSearch, NextOfTop, Advance
<1>3. CASE j \in 1..(stack[i].next - 1)
  <2>1. \/ Deps(stack[i].node)[j] \in Done
        \/ i < m /\ Deps(stack[i].node)[j] = stack[i + 1].node
    BY <1>1, <1>2, <1>3 DEF PathInv, Explored
  <2>2. i < m => i + 1 \in 1..m
    BY <1>2
  <2>3. QED
    BY <1>1, <1>2, <2>1, <2>2
<1>4. CASE j \notin 1..(stack[i].next - 1)
  <2>1. i = m /\ j = stack[i].next
    BY <1>2, <1>4
  <2>2. QED
    BY <1>1, <1>2, <2>1, NextOfTop
<1>5. QED
  BY <1>3, <1>4

LEMMA DescendPath == ASSUME DepsInv, CycleInv, Descend PROVE CycleInv'
<1>1. /\ UNCHANGED <<config, phase>> /\ HasNext /\ phase \in {"config", "graph"} /\ Next1 \notin visited
      /\ visited' = visited \cup {Next1} /\ recStack' = recStack \cup {Next1}
      /\ Next1 \in config.procs => stack' = Append(Advanced, [node |-> Next1, next |-> 1])
  BY DEF Descend, HasNext, Searching
<1>2. ASSUME Exact PROVE PathInv'
  <2>1. PICK n : n = Next1
    OBVIOUS
  <2>2. /\ PathInv /\ stack # <<>> /\ stack \in Seq(Frame) /\ n \in Nodes /\ n \in config.procs
        /\ n \in DepSet(stack[Len(stack)].node) /\ Len(stack) \in Nat /\ DOMAIN stack = 1..Len(stack)
    BY <1>1, <1>2, <2>1, ExactSearch, NextOfTop DEF CycleInv
  <2>3. PICK s : s = Advanced
    OBVIOUS
  <2>4. s \in Seq(Frame) /\ Len(s) = Len(stack) /\ \A i \in 1..Len(stack) : s[i].node = stack[i].node
    BY <2>2, <2>3, Advance
  <2>5. \A i \in 1..Len(stack) : \A j \in 1..(s[i].next - 1) :
          \/ Deps(s[i].node)[j] \in Done
          \/ i < Len(stack) /\ Deps(s[i].node)[j] = s[i + 1].node
          \/ i = Len(stack) /\ Deps(s[i].node)[j] = n
    BY <1>1, <1>2, <2>1, <2>2, <2>3, AdvancedExplored
  <2>6. stack' = Append(s, [node |-> n, next |-> 1]) /\ n \notin visited
    BY <1>1, <2>1, <2>2, <2>3
  <2>7. visited' = visited \cup {n} /\ recStack' = recStack \cup {n}
    BY <1>1, <2>1
  <2>8. QED
    BY <1>1, <1>2, <2>2, <2>4, <2>5, <2>6, <2>7, PathGrows
<1>3. Exact' => PathInv'
  BY <1>1, <1>2, ExactAgain
<1>4. QED
  BY <1>1, <1>3, StillSearching

LEMMA SkipPath == ASSUME DepsInv, CycleInv, Skip PROVE CycleInv'
<1>1. /\ UNCHANGED <<config, phase, visited, recStack>> /\ HasNext /\ phase \in {"config", "graph"}
      /\ stack' = Advanced /\ Next1 \in Done
  BY DEF Skip, HasNext, Searching, Done
<1>2. ASSUME Exact PROVE PathInv'
  <2>1. PICK m \in Nat : m = Len(stack) /\ DOMAIN stack = 1..m
    BY <1>2, ExactSearch
  <2>2. PathInv /\ stack # <<>> /\ stack \in Seq(Frame)
    BY <1>1, <1>2, ExactSearch, NextOfTop DEF CycleInv
  <2>3. Len(stack') = m /\ DOMAIN stack' = 1..m /\ \A i \in 1..m : stack'[i].node = stack[i].node
    BY <1>1, <2>1, <2>2, Advance
  <2>4. Nodes' = Nodes /\ Done' = Done /\ \A d : Deps(d)' = Deps(d) /\ DepSet(d)' = DepSet(d)
    BY <1>1, Same DEF Nodes, Done
  <2>5. Marks'
    BY <1>1, <2>1, <2>2, <2>3, <2>4 DEF PathInv, Marks
  <2>6. Linked'
    <3>1. \A i \in 1..m : i > 1 => i - 1 \in 1..m
      OBVIOUS
    <3>2. QED
      BY <2>1, <2>2, <2>3, <2>4, <3>1 DEF PathInv, Linked
  <2>7. Explored'
    <3>1. \A i \in 1..m : \A j \in 1..(stack'[i].next - 1) :
            \/ Deps(stack'[i].node)[j] \in Done
            \/ i < m /\ Deps(stack'[i].node)[j] = stack'[i + 1].node
      BY <1>1, <1>2, <2>1, <2>2, AdvancedExplored
    <3>2. QED
      BY <2>3, <2>4, <3>1 DEF Explored
  <2>8. Finished'
    <3>1. \A C : Rounds(C)' <=> Rounds(C)
      BY <1>1, Same
    <3>2. QED
      BY <2>2, <2>4, <3>1 DEF PathInv, Finished
  <2>9. QED
    BY <2>5, <2>6, <2>7, <2>8 DEF PathInv
<1>3. Exact' => PathInv'
  BY <1>1, <1>2, ExactAgain
<1>4. QED
  BY <1>1, <1>3, StillSearching

\* A set of nodes that are all done, but one that depends on nothing else: no
\* cycle.
LEMMA OneMoreDone ==
  ASSUME Finished, NEW n, n \notin Done, DepSet(n) \subseteq Done, NEW C \in SUBSET (Done \cup {n})
  PROVE  ~Rounds(C)
<1>1. SUFFICES ASSUME Rounds(C) PROVE FALSE
  OBVIOUS
<1>2. (\A d \in Done : DepSet(d) \subseteq Done) /\ \A D \in SUBSET Done : ~Rounds(D)
  BY DEF Finished
<1>3. C # {} /\ \A c \in C : \E d \in C : d \in DepSet(c)
  BY <1>1 DEF Rounds
<1>4. \A c \in C : \E d \in C \ {n} : d \in DepSet(c)
  BY <1>2, <1>3
<1>5. Rounds(C \ {n})
  BY <1>3, <1>4 DEF Rounds
<1>6. QED
  BY <1>2, <1>5

LEMMA LeavePath == ASSUME DepsInv, CycleInv, Leave PROVE CycleInv'
<1>1. /\ UNCHANGED <<config, phase, visited>> /\ phase \in {"config", "graph"} /\ stack # <<>>
      /\ Top.next > Len(Deps(Top.node)) /\ recStack' = recStack \ {Top.node} /\ stack' = Below
  BY DEF Leave, Searching
<1>2. ASSUME Exact PROVE PathInv'
  <2>1. PICK m \in Nat \ {0} : m = Len(stack) /\ DOMAIN stack = 1..m
    BY <1>1, <1>2, ExactSearch, StackTop
  <2>2. PathInv /\ Config(config) /\ stack \in Seq(Frame) /\ Top = stack[m] /\ recStack \subseteq visited
    BY <1>2, <2>1, ExactSearch DEF CycleInv, DepsInv, StartupOrder, TypeOK, Top
  <2>3. Len(stack') = m - 1 /\ DOMAIN stack' = 1..(m - 1) /\ \A i \in 1..(m - 1) : stack'[i] = stack[i]
    BY <1>1, <2>1, <2>2, StackTop
  <2>4. PICK n : n = stack[m].node
    OBVIOUS
  <2>5. m \in 1..m /\ n \in Nodes /\ n \in config.procs
    BY <1>2, <2>1, <2>4, ExactSearch
  <2>6. /\ recStack = {stack[i].node : i \in 1..m}
        /\ \A i, j \in 1..m : stack[i].node = stack[j].node => i = j
    BY <2>1, <2>2 DEF PathInv, Marks
  <2>7. n \in recStack /\ n \notin Done /\ n \in visited
    BY <2>2, <2>4, <2>5, <2>6 DEF Done
  <2>8. Done' = Done \cup {n}
    BY <1>1, <2>2, <2>4, <2>7 DEF Done
  <2>9. Nodes' = Nodes /\ \A d : Deps(d)' = Deps(d) /\ DepSet(d)' = DepSet(d)
    BY <1>1, Same DEF Nodes
  <2>10. \A i : i \in 1..m <=> i \in 1..(m - 1) \/ i = m
    BY <2>1
  <2>11. m \notin 1..(m - 1)
    BY <2>1
  <2>12. Marks'
    <3>1. \A i \in 1..(m - 1) : stack[i].node # n
      BY <2>4, <2>6, <2>10, <2>11
    <3>2. recStack' = {stack'[i].node : i \in 1..(m - 1)}
      BY <1>1, <2>2, <2>3, <2>4, <2>6, <2>10, <3>1
    <3>3. visited' \subseteq Nodes'
      BY <1>1, <2>2, <2>9 DEF PathInv, Marks
    <3>4. QED
      BY <2>3, <2>6, <2>10, <3>2, <3>3 DEF Marks
  <2>13. Linked'
    <3>1. \A i \in 1..(m - 1) : i > 1 => i - 1 \in 1..(m - 1)
      BY <2>1
    <3>2. QED
      BY <2>1, <2>2, <2>3, <2>9, <2>10, <3>1 DEF PathInv, Linked
  <2>14. Explored'
    <3>1. ASSUME NEW i \in 1..(m - 1), NEW j \in 1..(stack'[i].next - 1)
          PROVE  \/ Deps(stack'[i].node)[j] \in Done'
                 \/ i < m - 1 /\ Deps(stack'[i].node)[j] = stack'[i + 1].node
      <4>1. stack'[i] = stack[i] /\ j \in 1..(stack[i].next - 1) /\ i \in 1..m
        BY <2>3, <2>10
      <4>2. \/ Deps(stack[i].node)[j] \in Done
            \/ i < m /\ Deps(stack[i].node)[j] = stack[i + 1].node
        BY <2>1, <2>2, <4>1 DEF PathInv, Explored
      <4>3. CASE i + 1 = m
        BY <2>4, <2>8, <4>1, <4>2, <4>3
      <4>4. CASE i + 1 # m
        <5>1. i < m - 1 /\ i + 1 \in 1..(m - 1)
          BY <4>4
        <5>2. QED
          BY <2>3, <2>8, <4>1, <4>2, <5>1
      <4>5. QED
        BY <4>3, <4>4
    <3>2. QED
      BY <2>3, <2>9, <3>1 DEF Explored
  <2>15. DepSet(n) \subseteq Done
    <3>1. Len(Deps(n)) \in Nat /\ DOMAIN Deps(n) = 1..Len(Deps(n)) /\ stack[m].next \in Nat
      BY <1>2, <2>1, <2>2, <2>5, DepsTypes, ExactSearch
    <3>2. \A j \in 1..(stack[m].next - 1) : Deps(n)[j] \in Done
      BY <2>1, <2>2, <2>4, <2>5 DEF PathInv, Explored
    <3>3. stack[m].next > Len(Deps(n))
      BY <1>1, <2>2, <2>4
    <3>4. \A j \in 1..Len(Deps(n)) : j \in 1..(stack[m].next - 1)
      BY <3>1, <3>3
    <3>5. QED
      BY <3>1, <3>2, <3>4 DEF DepSet
  <2>16. Finished'
    <3>1. \A C : Rounds(C)' <=> Rounds(C)
      BY <1>1, Same
    <3>2. Finished
      BY <2>2 DEF PathInv
    <3>3. \A C \in SUBSET (Done \cup {n}) : ~Rounds(C)
      BY <2>7, <2>15, <3>2, OneMoreDone
    <3>4. \A d \in Done \cup {n} : DepSet(d) \subseteq Done \cup {n}
      BY <2>15, <3>2 DEF Finished
    <3>5. QED
      BY <2>8, <2>9, <3>1, <3>3, <3>4 DEF Finished
  <2>17. QED
    BY <2>12, <2>13, <2>14, <2>16 DEF PathInv
<1>3. Exact' => PathInv'
  BY <1>1, <1>2, ExactAgain
<1>4. QED
  BY <1>1, <1>3, StillSearching

\* A dependency on a call in progress closes a circle of calls.
LEMMA Loop ==
  ASSUME DepsInv, Exact, PathInv, HasNext, NEW k \in 1..Len(stack), stack[k].node = Next1
  PROVE  Cyclic(Nodes)
<1>1. PICK m \in Nat : m = Len(stack)
  BY ExactSearch
<1>2. /\ DOMAIN stack = 1..m /\ k \in 1..m /\ m \in 1..m
      /\ stack[k].node \in DepSet(stack[m].node)
  BY <1>1, ExactSearch, NextOfTop
<1>3. PICK C : C = {stack[i].node : i \in k..m}
  OBVIOUS
<1>4. \A i \in k..m : i \in 1..m
  BY <1>2
<1>5. C \in SUBSET Nodes
  BY <1>2, <1>3, <1>4, ExactSearch
<1>6. \A i \in k..m : \E d \in C : d \in DepSet(stack[i].node)
  <2>1. ASSUME NEW i \in k..m PROVE \E d \in C : d \in DepSet(stack[i].node)
    <3>1. CASE i = m
      <4>1. k \in k..m
        BY <1>2
      <4>2. stack[k].node \in C
        BY <1>3, <4>1
      <4>3. QED
        BY <1>2, <3>1, <4>2
    <3>2. CASE i # m
      <4>1. i + 1 \in k..m /\ i + 1 \in 1..m /\ i + 1 > 1 /\ (i + 1) - 1 = i
        BY <1>2, <3>2
      <4>2. stack[i + 1].node \in DepSet(stack[i].node)
        BY <1>2, <4>1 DEF PathInv, Linked
      <4>3. QED
        BY <1>3, <4>1, <4>2
    <3>3. QED
      BY <3>1, <3>2
  <2>2. QED
    BY <2>1
<1>7. Rounds(C)
  <2>1. k \in k..m
    BY <1>2
  <2>2. C # {}
    BY <1>3, <2>1
  <2>3. QED
    BY <1>3, <1>6, <2>2 DEF Rounds
<1>8. QED
  BY <1>5, <1>7, CyclicIs

\* What the search of the graph reports is the path from the call found up to
\* the call on top, and back.
LEMMA PathReal ==
  ASSUME DepsInv, Exact, PathInv, Found, phase = "graph"
  PROVE  /\ Len(cycle') > 1 /\ cycle'[1] = cycle'[Len(cycle')]
         /\ \A i \in 1..(Len(cycle') - 1) : cycle'[i + 1] \in DepSet(cycle'[i])
<1>1. HasNext /\ Next1 \in recStack /\ cycle' = PathFrom(Next1) /\ cycle' \in Seq(Node')
  BY FoundStep DEF Found, DepsInv, StartupOrder, TypeOK
<1>2. PICK m \in Nat : m = Len(stack)
  BY ExactSearch
<1>3. PICK n : n = Next1
  OBVIOUS
<1>4. DOMAIN stack = 1..m /\ n \in DepSet(stack[m].node)
  BY <1>1, <1>2, <1>3, ExactSearch, NextOfTop
<1>5. \E i \in 1..m : stack[i].node = n
  BY <1>1, <1>3, <1>4 DEF PathInv, Marks
<1>6. PICK k : k = CHOOSE j \in 1..m : stack[j].node = n
  OBVIOUS
<1>7. k \in 1..m /\ stack[k].node = n
  BY <1>5, <1>6
<1>8. cycle' = [i \in 1..(m - k + 2) |-> IF i <= m - k + 1 THEN stack[k + i - 1].node ELSE n]
  BY <1>1, <1>2, <1>3, <1>4, <1>6 DEF PathFrom
<1>9. PICK l \in Nat : l = m - k + 2
  BY <1>7
<1>10. Len(cycle') = l /\ l > 1
  <2>1. PICK c \in Seq(Node) : c = cycle'
    BY <1>1
  <2>2. DOMAIN c = 1..Len(c) /\ Len(c) \in Nat
    BY <2>1, LenProperties
  <2>3. 1..Len(c) = 1..l /\ l > 1
    BY <1>7, <1>8, <1>9, <2>1, <2>2
  <2>4. PICK a \in Nat : a = Len(c)
    BY <2>2
  <2>5. l \in 1..a
    <3>1. l \in 1..l
      BY <2>3
    <3>2. QED
      BY <2>3, <2>4, <3>1
  <2>6. a \in 1..l
    <3>1. a \in 1..a
      BY <2>3, <2>5
    <3>2. QED
      BY <2>3, <2>4, <3>1
  <2>7. a = l
    BY <2>5, <2>6
  <2>8. QED
    BY <2>1, <2>3, <2>4, <2>7
<1>11. \A i \in 1..l : cycle'[i] = IF i <= l - 1 THEN stack[k + i - 1].node ELSE n
  <2>1. l = m - k + 2 /\ \A i \in 1..l : i <= m - k + 1 <=> i <= l - 1
    BY <1>7, <1>9
  <2>2. QED
    BY <1>8, <2>1
<1>12. cycle'[1] = n /\ cycle'[l] = n
  <2>1. 1 \in 1..l /\ 1 <= l - 1 /\ k + 1 - 1 = k
    BY <1>7, <1>9, <1>10
  <2>2. l \in 1..l /\ ~(l <= l - 1)
    BY <1>10
  <2>3. QED
    BY <1>7, <1>11, <2>1, <2>2
<1>13. ASSUME NEW i \in 1..(l - 1) PROVE cycle'[i + 1] \in DepSet(cycle'[i])
  <2>1. cycle'[i] = stack[k + i - 1].node
    BY <1>11
  <2>2. CASE i = l - 1
    <3>1. k + i - 1 = m /\ i + 1 = l
      BY <1>7, <1>9, <2>2
    <3>2. QED
      BY <1>4, <1>12, <2>1, <3>1
  <2>3. CASE i # l - 1
    <3>1. i + 1 \in 1..l /\ i + 1 <= l - 1
      BY <1>9, <2>3
    <3>2. cycle'[i + 1] = stack[k + (i + 1) - 1].node
      BY <1>11, <3>1
    <3>3. PICK j : j = k + i
      OBVIOUS
    <3>4. j \in 1..m /\ j > 1 /\ k + (i + 1) - 1 = j /\ k + i - 1 = j - 1
      BY <1>7, <1>9, <2>3, <3>3
    <3>5. stack[j].node \in DepSet(stack[j - 1].node)
      BY <1>4, <3>4 DEF PathInv, Linked
    <3>6. QED
      BY <2>1, <3>2, <3>4, <3>5
  <2>4. QED
    BY <2>2, <2>3
<1>14. QED
  BY <1>10, <1>12, <1>13

LEMMA FoundPath == ASSUME DepsInv, CycleInv, Found PROVE CycleInv'
<1>1. /\ HasNext /\ phase \in {"config", "graph"} /\ config' = config /\ Next1 \in recStack
      /\ phase = "config" => phase' = "circular"
      /\ phase = "graph" => phase' = "cycle"
  BY DEF Found, HasNext, Searching
<1>2. ~Exact' /\ TakenOnce' /\ FailsForAReason' /\ phase' # "sort"
  BY <1>1 DEF Exact, TakenOnce, FailsForAReason
<1>3. ASSUME phase = "config", Defined PROVE Cyclic(config.procs)
  <2>1. Exact
    BY <1>3 DEF Exact
  <2>2. PathInv
    BY <2>1 DEF CycleInv
  <2>3. DOMAIN stack = 1..Len(stack)
    BY <2>1, ExactSearch
  <2>4. PICK k \in 1..Len(stack) : stack[k].node = Next1
    BY <1>1, <2>2, <2>3 DEF PathInv, Marks
  <2>5. Cyclic(Nodes)
    BY <1>1, <2>1, <2>2, <2>4, Loop
  <2>6. QED
    BY <1>3, <2>5 DEF Nodes
<1>4. phase' = "circular" /\ Defined' => Cyclic(config.procs)'
  BY <1>1, <1>3, Same
<1>5. CycleIsReal'
  <2>1. ASSUME phase = "graph"
        PROVE  /\ Len(cycle') > 1 /\ cycle'[1] = cycle'[Len(cycle')]
               /\ \A i \in 1..(Len(cycle') - 1) : cycle'[i + 1] \in DepSet(cycle'[i])
    <3>1. Exact /\ PathInv
      BY <2>1 DEF Exact, CycleInv
    <3>2. QED
      BY <2>1, <3>1, PathReal
  <2>2. \A d : DepSet(d)' = DepSet(d)
    BY <1>1, Same
  <2>3. phase' = "cycle" => phase = "graph"
    BY <1>1
  <2>4. QED
    BY <2>1, <2>2, <2>3 DEF CycleIsReal
<1>6. QED
  BY <1>2, <1>4, <1>5 DEF CycleInv

\* A search that has marked every node and has no call in progress found no
\* cycle, because there is none.
LEMMA NoneFound ==
  ASSUME DepsInv, CycleInv, Exact, stack = <<>>, Nodes \subseteq visited
  PROVE  ~Cyclic(Nodes)
<1>1. PathInv /\ DOMAIN stack = {}
  BY DEF CycleInv
<1>2. recStack = {}
  BY <1>1 DEF PathInv, Marks
<1>3. Nodes \subseteq Done
  BY <1>2 DEF Done
<1>4. \A C \in SUBSET Nodes : ~Rounds(C)
  BY <1>1, <1>3 DEF PathInv, Finished
<1>5. QED
  BY <1>4, CyclicIs

LEMMA BuildPath == ASSUME DepsInv, CycleInv, BuildGraph PROVE CycleInv'
<1>1. stack' = <<>> /\ visited' = {} /\ recStack' = {} /\ phase' \in {"graph", "invalid"}
  BY DEF BuildGraph, Searched, DepsInv, SearchInv
<1>2. Marks' /\ Linked' /\ Explored'
  BY <1>1 DEF Marks, Linked, Explored
<1>3. Done' = {}
  BY <1>1 DEF Done
<1>4. \A C \in SUBSET {} : ~Rounds(C)'
  BY DEF Rounds
<1>5. Finished'
  BY <1>3, <1>4 DEF Finished
<1>6. QED
  BY <1>1, <1>2, <1>5, StillSearching DEF PathInv

LEMMA StartSortPath == ASSUME DepsInv, CycleInv, StartSort PROVE CycleInv'
<1>1. /\ phase = "graph" /\ phase' = "sort" /\ config' = config /\ stack = <<>> /\ Nodes \subseteq visited
      /\ result' = result /\ result = <<>>
  BY DEF StartSort, Searched, DepsInv, SortInv
<1>2. Exact /\ Valid
  BY <1>1 DEF Exact, DepsInv, SearchInv
<1>3. ~Cyclic(config.enabled)
  <2>1. ~Cyclic(Nodes)
    BY <1>1, <1>2, NoneFound
  <2>2. QED
    BY <1>1, <2>1 DEF Nodes
<1>4. Valid' /\ ~Cyclic(config.enabled)'
  BY <1>1, <1>2, <1>3, Same
<1>5. Taken' = {}
  BY <1>1 DEF Taken
<1>6. ~Exact' /\ CycleIsReal' /\ TakenOnce' /\ FailsForAReason'
  BY <1>1, <1>5 DEF Exact, CycleIsReal, TakenOnce, FailsForAReason
<1>7. QED
  BY <1>1, <1>4, <1>6 DEF CycleInv

\* A node is taken when its in-degree, counted down once for each node it
\* depends on, has reached zero from the length of its list.
LEMMA TakePath == ASSUME DepsInv, CycleInv, NEW n \in Node, Take(n) PROVE CycleInv'
<1>1. /\ phase = "sort" /\ phase' = "sort" /\ config' = config /\ n \in queue /\ result' = Append(result, n)
      /\ Config(config) /\ result \in Seq(config.enabled)
  BY DEF Take, DepsInv, StartupOrder, TypeOK
<1>2. n \in config.enabled /\ n \in config.procs
      /\ 0 = Len(Deps(n)) - Cardinality(DepSet(n) \cap Taken)
  BY <1>1 DEF DepsInv, SortInv, Config
<1>3. DepSet(n) \subseteq Taken
  BY <1>1, <1>2, AllTaken
<1>4. DepSet(n) \cap Taken = DepSet(n)
  BY <1>3
<1>5. Cardinality(DepSet(n)) \in Nat /\ Len(Deps(n)) \in Nat
  BY <1>1, <1>2, DepCount, DepsTypes
<1>6. 0 = Len(Deps(n)) - Cardinality(DepSet(n))
  BY <1>2, <1>4
<1>7. Cardinality(DepSet(n)) = Len(Deps(n))
  BY <1>5, <1>6
<1>8. Taken' = Taken \cup {n}
  BY <1>1, <1>2, TakenGrows
<1>9. \A d : Deps(d)' = Deps(d) /\ DepSet(d)' = DepSet(d)
  BY <1>1, Same
<1>10. TakenOnce'
  BY <1>1, <1>7, <1>8, <1>9 DEF CycleInv, TakenOnce
<1>11. Valid' /\ ~Cyclic(config.enabled)'
  BY <1>1, Same DEF CycleInv
<1>12. ~Exact' /\ CycleIsReal' /\ FailsForAReason'
  BY <1>1 DEF Exact, CycleIsReal, FailsForAReason
<1>13. QED
  BY <1>1, <1>10, <1>11, <1>12 DEF CycleInv

\* A complete order holds every node, and an order is complete if nothing is
\* left out of it.
LEMMA Complete ==
  ASSUME Config(config), result \in Seq(config.enabled), IsOrder(result)
  PROVE  Len(result) = Cardinality(config.enabled) <=> Taken = config.enabled
<1>1. IsFiniteSet(config.enabled)
  BY DepsAssumption, FS_Subset DEF Config
<1>2. PICK n \in Nat : n = Len(result) /\ DOMAIN result = 1..n
  BY LenProperties
<1>3. \A i \in 1..n : result[i] \in config.enabled
  BY <1>2, ElementOfSeq
<1>4. PICK f : f = result
  OBVIOUS
<1>5. f \in [1..n -> config.enabled]
  BY <1>2, <1>3, <1>4, LenProperties
<1>6. f \in Injection(1..n, config.enabled)
  BY <1>2, <1>4, <1>5 DEF IsOrder, Injection, IsInjective
<1>7. Cardinality(1..n) = n
  <2>1. Cardinality(1..n) = IF 1 > n THEN 0 ELSE n - 1 + 1
    BY FS_Interval
  <2>2. QED
    BY <2>1
<1>8. n = Cardinality(config.enabled) <=> f \in Surjection(1..n, config.enabled)
  BY <1>1, <1>6, <1>7, FS_Injection
<1>9. f \in Surjection(1..n, config.enabled) <=> Taken = config.enabled
  BY <1>2, <1>3, <1>4, <1>5 DEF Surjection, Taken
<1>10. QED
  BY <1>2, <1>8, <1>9

\* A sort that has nothing left in the queue and has not taken every node is
\* stuck on nodes that wait for each other, or on one named twice.
LEMMA Stuck ==
  ASSUME DepsInv, CycleInv, phase = "sort", queue = {}, Taken # config.enabled
  PROVE  Duplicated
<1>1. SUFFICES ASSUME ~Duplicated PROVE FALSE
  OBVIOUS
<1>2. /\ Config(config) /\ result \in Seq(config.enabled) /\ Valid /\ ~Cyclic(config.enabled)
      /\ \A d \in config.enabled : inDegree[d] = Len(Deps(d)) - Cardinality(DepSet(d) \cap Taken)
      /\ queue = {d \in config.enabled \ Taken : inDegree[d] = 0}
  BY DEF DepsInv, StartupOrder, TypeOK, SortInv, CycleInv
<1>3. PICK C : C = config.enabled \ Taken
  OBVIOUS
<1>4. Taken \subseteq config.enabled
  <2>1. DOMAIN result = 1..Len(result)
    BY <1>2, LenProperties
  <2>2. \A i \in 1..Len(result) : result[i] \in config.enabled
    BY <1>2, ElementOfSeq
  <2>3. QED
    BY <2>1, <2>2 DEF Taken
<1>5. C # {} /\ C \in SUBSET config.enabled
  BY <1>3, <1>4
<1>6. ASSUME NEW d \in C PROVE \E e \in C : e \in DepSet(d)
  <2>1. d \in config.enabled /\ inDegree[d] # 0
    BY <1>2, <1>3
  <2>2. ~(DepSet(d) \subseteq Taken)
    BY <1>1, <1>2, <2>1, NoneLeft
  <2>3. DepSet(d) \subseteq config.enabled
    BY <1>2, <2>1 DEF Valid
  <2>4. QED
    BY <1>3, <2>2, <2>3
<1>7. Rounds(C)
  BY <1>5, <1>6 DEF Rounds
<1>8. QED
  BY <1>2, <1>5, <1>7, CyclicIs

LEMMA EndSortPath == ASSUME DepsInv, CycleInv, EndSort PROVE CycleInv'
<1>1. /\ phase = "sort" /\ queue = {} /\ config' = config /\ result' = result
      /\ phase' = IF Len(result) = Cardinality(config.enabled) THEN "sorted" ELSE "incomplete"
  BY DEF EndSort, sortVars
<1>2. /\ Config(config) /\ result \in Seq(config.enabled) /\ IsOrder(result)
      /\ Valid /\ ~Cyclic(config.enabled) /\ TakenOnce
  BY <1>1 DEF DepsInv, StartupOrder, TypeOK, DependenciesFirst, CycleInv
<1>3. Len(result) = Cardinality(config.enabled) <=> Taken = config.enabled
  BY <1>2, Complete
<1>4. ASSUME phase' = "sorted" PROVE ~Duplicated /\ Taken = config.enabled
  <2>1. Taken = config.enabled
    BY <1>1, <1>3, <1>4
  <2>2. ASSUME NEW d \in config.enabled PROVE ~(Cardinality(DepSet(d)) < Len(Deps(d)))
    <3>1. Cardinality(DepSet(d)) = Len(Deps(d))
      BY <1>1, <1>2, <2>1 DEF TakenOnce
    <3>2. Len(Deps(d)) \in Nat
      BY <1>2, DepsTypes DEF Config
    <3>3. QED
      BY <3>1, <3>2
  <2>3. QED
    BY <2>1, <2>2 DEF Duplicated
<1>5. ASSUME phase' = "incomplete" PROVE Duplicated
  BY <1>1, <1>3, <1>5, Stuck
<1>6. FailsForAReason'
  <2>1. /\ Valid' <=> Valid
        /\ Cyclic(config.enabled)' <=> Cyclic(config.enabled)
        /\ Duplicated' <=> Duplicated
    BY <1>1, Same
  <2>2. {result'[i] : i \in DOMAIN result'} = Taken /\ config'.enabled = config.enabled
    BY <1>1 DEF Taken
  <2>3. phase' = "sorted" => Valid' /\ ~Cyclic(config.enabled)' /\ ~Duplicated' /\ Taken = config'.enabled
    BY <1>2, <1>4, <2>1, <2>2
  <2>4. phase' = "incomplete" => Duplicated'
    BY <1>5, <2>1
  <2>5. QED
    BY <2>2, <2>3, <2>4 DEF FailsForAReason
<1>7. ~Exact' /\ CycleIsReal' /\ TakenOnce' /\ phase' \notin {"circular", "sort"}
  BY <1>1 DEF Exact, CycleIsReal, TakenOnce
<1>8. QED
  BY <1>6, <1>7 DEF CycleInv

LEMMA CycleStart == ASSUME DepsInv, Init PROVE CycleInv
<1>1. phase \in {"config", "changed", "invalid"} /\ visited = {} /\ recStack = {} /\ stack = <<>>
  BY DEF Init
<1>2. Done = {} /\ \A C \in SUBSET {} : ~Rounds(C)
  BY <1>1 DEF Done, Rounds
<1>3. PathInv
  BY <1>1, <1>2 DEF PathInv, Marks, Linked, Explored, Finished
<1>4. QED
  BY <1>1, <1>3 DEF CycleInv, CycleIsReal, TakenOnce, FailsForAReason

LEMMA CycleStutters == ASSUME CycleInv, UNCHANGED vars PROVE CycleInv'
<1>1. UNCHANGED <<config, phase, visited, recStack, stack, cycle, result>>
  BY DEF vars, dfsVars, sortVars
<1>2. /\ \A d : Deps(d)' = Deps(d) /\ DepSet(d)' = DepSet(d)
      /\ (Valid' <=> Valid) /\ (Defined' <=> Defined) /\ (Duplicated' <=> Duplicated)
      /\ \A C : Rounds(C)' <=> Rounds(C)
      /\ Cyclic(config.procs)' <=> Cyclic(config.procs)
      /\ Cyclic(config.enabled)' <=> Cyclic(config.enabled)
  BY <1>1, Same
<1>3. Done' = Done /\ Nodes' = Nodes /\ Taken' = Taken /\ (Exact' <=> Exact)
  BY <1>1, <1>2 DEF Done, Nodes, Taken, Exact
<1>4. PathInv' <=> PathInv
  <2>1. (Marks' <=> Marks) /\ (Linked' <=> Linked)
    BY <1>1, <1>2, <1>3 DEF Marks, Linked
  <2>2. Explored' <=> Explored
    BY <1>1, <1>2, <1>3 DEF Explored
  <2>3. Finished' <=> Finished
    BY <1>2, <1>3 DEF Finished
  <2>4. QED
    BY <2>1, <2>2, <2>3 DEF PathInv
<1>5. CycleIsReal' <=> CycleIsReal
  BY <1>1, <1>2 DEF CycleIsReal
<1>6. (TakenOnce' <=> TakenOnce) /\ (FailsForAReason' <=> FailsForAReason)
  BY <1>1, <1>2, <1>3 DEF TakenOnce, FailsForAReason
<1>7. QED
  BY <1>1, <1>2, <1>3, <1>4, <1>5, <1>6 DEF CycleInv

\* What the two cycle checks rest on: a node that the search has left depends on
\* nodes it has left, among which there is no cycle, and the calls in progress
\* are a path of dependencies.
THEOREM CycleInvariant == Spec => []CycleInv
<1>1. Init /\ DepsInv => CycleInv
  BY CycleStart
<1>2. DepsInv /\ CycleInv /\ [Next]_vars => CycleInv'
  <2> SUFFICES ASSUME DepsInv, CycleInv, [Next]_vars PROVE CycleInv'
    OBVIOUS
  <2>1. ASSUME NEW n \in Node, Root(n) PROVE CycleInv'
    BY <2>1, RootPath
  <2>2. ASSUME NEW n \in Node, Take(n) PROVE CycleInv'
    BY <2>2, TakePath
  <2>3. CASE Descend
    BY <2>3, DescendPath
  <2>4. CASE Skip
    BY <2>4, SkipPath
  <2>5. CASE Found
    BY <2>5, FoundPath
  <2>6. CASE Leave
    BY <2>6, LeavePath
  <2>7. CASE BuildGraph
    BY <2>7, BuildPath
  <2>8. CASE StartSort
    BY <2>8, StartSortPath
  <2>9. CASE EndSort
    BY <2>9, EndSortPath
  <2>10. CASE UNCHANGED vars
    BY <2>10, CycleStutters
  <2>11. QED
    BY <2>1, <2>2, <2>3, <2>4, <2>5, <2>6, <2>7, <2>8, <2>9, <2>10 DEF Next
<1>3. QED
  BY <1>1, <1>2, DepsInvariant, PTL DEF Spec

\* For every configuration, and whatever order Go visits its maps in: with every
\* dependency defined, Config.Validate rejects it as circular exactly when it
\* is, and the cycle that HasCycle reports follows real dependencies back to
\* where it starts.
THEOREM CyclesAlwaysReal == Spec => []CyclesAreReal
<1>1. DepsInv /\ CycleInv => CyclesAreReal
  <2> SUFFICES ASSUME DepsInv, CycleInv PROVE CyclesAreReal
    OBVIOUS
  <2>1. ASSUME Defined, Searched("config") PROVE ~Cyclic(config.procs)
    <3>1. Exact /\ phase = "config" /\ stack = <<>> /\ Nodes \subseteq visited
      BY <2>1 DEF Exact, Searched
    <3>2. ~Cyclic(Nodes)
      BY <3>1, NoneFound
    <3>3. QED
      BY <3>1, <3>2 DEF Nodes
  <2>2. CircularExactly
    BY <2>1 DEF CircularExactly, CycleInv
  <2>3. QED
    BY <2>2 DEF CyclesAreReal, CycleInv
<1>2. QED
  BY <1>1, DepsInvariant, CycleInvariant, PTL

\* The sort ends with an order of every enabled process only if nothing is
\* missing, disabled, circular or named twice, and without an order only if a
\* process names a dependency twice: never for want of trying, whatever the
\* configuration.
THEOREM FailuresHaveReasons == Spec => []FailsForAReason
<1>1. CycleInv => FailsForAReason
  BY DEF CycleInv
<1>2. QED
  BY <1>1, CycleInvariant, PTL

-----------------------------------------------------------------------------
(* The readiness file *)

\* Before monitoring begins nothing is tracked and nothing is ready.
NotBegun == poller = "off" => DOMAIN status = {} /\ ~isReady

\* Outside a poll no supervisor is left to look at.
PollIdle == poller # "polling" => todo = {}

ReadinessInv == FileIsTrue /\ NotBegun /\ PollIdle

Flags == /\ isReady \in BOOLEAN /\ file \in BOOLEAN /\ stopped \in BOOLEAN
         /\ closed \in BOOLEAN /\ ioError \in BOOLEAN /\ late \in BOOLEAN

LEMMA FlagTypes == ReadyTypeOK => Flags
BY DEF ReadyTypeOK, Flags

\* A file operation that succeeds does what it should.
LEMMA FileSet ==
  ASSUME NEW p \in BOOLEAN, Flags, SetFile(p)
  PROVE  /\ file' \in BOOLEAN /\ ioError' \in BOOLEAN
         /\ ~ioError' => ~ioError /\ (file' <=> p)
<1>1. CASE file' = p /\ ioError' = ioError
  BY <1>1 DEF Flags
<1>2. CASE file' = file /\ ioError' = TRUE
  BY <1>2 DEF Flags
<1>3. QED
  BY <1>1, <1>2 DEF SetFile

\* An evaluation makes isReady what is known and brings the file in line.
LEMMA EvaluationRight ==
  ASSUME Flags, NEW st, Evaluate(st)
  PROVE  /\ isReady' \in BOOLEAN /\ file' \in BOOLEAN /\ ioError' \in BOOLEAN
         /\ isReady' <=> AllReady(st)
         /\ ~ioError' => ~ioError
         /\ (~ioError => (file <=> isReady)) => (~ioError' => (file' <=> isReady'))
<1>1. isReady' \in BOOLEAN /\ (isReady' <=> AllReady(st))
  BY DEF Evaluate, AllReady
<1>2. CASE isReady' = isReady
  BY <1>1, <1>2 DEF Evaluate, Flags
<1>3. CASE isReady' # isReady
  BY <1>1, <1>3, FileSet DEF Evaluate
<1>4. QED
  BY <1>1, <1>2, <1>3

-----------------------------------------------------------------------------
(* Updates: Report and RemoveProcess *)

\* What an update or removal does to the tracked processes and the file.
UpdateRight ==
  /\ DOMAIN status' \subseteq Name /\ \A n \in DOMAIN status' : status'[n] \in Statuses
  /\ isReady' \in BOOLEAN /\ file' \in BOOLEAN /\ ioError' \in BOOLEAN
  /\ isReady' <=> AllReady(status')
  /\ ~ioError' => ~ioError
  /\ (~ioError => (file <=> isReady)) => (~ioError' => (file' <=> isReady'))

LEMMA UpdateIsRight ==
  ASSUME ReadyTypeOK, ReadyIsKnown, NEW n \in Name, NEW s \in Statuses, Update(n, s)
  PROVE  UpdateRight
<1>1. Flags
  BY FlagTypes
<1>2. CASE UNCHANGED ready
  <2>1. UNCHANGED <<status, isReady, file, ioError>>
    BY <1>2 DEF ready
  <2>2. isReady <=> AllReady(status)
    BY DEF ReadyIsKnown, AllReady
  <2>3. QED
    BY <1>1, <2>1, <2>2 DEF UpdateRight, ReadyTypeOK, Flags
<1>3. CASE /\ status' = [m \in DOMAIN status \cup {n} |-> IF m = n THEN s ELSE status[m]]
           /\ Evaluate(status')
  <2>1. DOMAIN status' \subseteq Name /\ \A m \in DOMAIN status' : status'[m] \in Statuses
    BY <1>3 DEF ReadyTypeOK
  <2>2. QED
    BY <1>1, <1>3, <2>1, EvaluationRight DEF UpdateRight
<1>4. QED
  BY <1>2, <1>3 DEF Update

LEMMA MappedType ==
  ASSUME NEW s, NEW has
  PROVE  Mapped(s, has) \in Statuses
BY DEF Mapped, Statuses, Unknown

\* An update keeps everything true, also one that comes after Stop.
LEMMA UpdateKeeps ==
  ASSUME ReadinessInv, UpdateRight, poller # "off", UNCHANGED <<mode, filter, sups, stopped, closed>>,
         late' = (late \/ stopped), poller' = poller,
         todo' \subseteq todo, seen' = <<>> \/ (seen' = seen /\ todo' = todo)
  PROVE  ReadinessInv'
<1>1. Flags /\ Flags'
  BY FlagTypes DEF ReadinessInv, FileIsTrue, UpdateRight, Flags
<1>2. ReadyTypeOK'
  BY <1>1 DEF ReadinessInv, FileIsTrue, ReadyTypeOK, UpdateRight, sups, Flags
<1>3. ReadyIsKnown'
  BY DEF UpdateRight, ReadyIsKnown, AllReady, IsProcessReady
<1>4. FileFollows'
  BY <1>1 DEF ReadinessInv, FileIsTrue, FileFollows, UpdateRight, Flags
<1>5. GoneAfterStop'
  BY <1>1 DEF ReadinessInv, FileIsTrue, GoneAfterStop, Flags
<1>6. NotBegun' /\ PollIdle'
  BY DEF ReadinessInv, NotBegun, PollIdle
<1>7. QED
  BY <1>2, <1>3, <1>4, <1>5, <1>6 DEF ReadinessInv, FileIsTrue

-----------------------------------------------------------------------------
(* The inductive invariant *)

LEMMA InitInv == ReadinessAssumption /\ ReadyInit => ReadinessInv
<1> SUFFICES ASSUME ReadinessAssumption, ReadyInit PROVE ReadinessInv
  OBVIOUS
<1>1. DOMAIN status = {}
  BY DEF ReadyInit
<1>2. Flags
  BY DEF ReadyInit, Flags
<1>3. ReadyTypeOK
  BY <1>1, <1>2 DEF ReadyInit, ReadyTypeOK, Flags
<1>4. ReadyIsKnown /\ FileFollows /\ GoneAfterStop /\ NotBegun /\ PollIdle
  BY <1>1 DEF ReadyInit, ReadyIsKnown, FileFollows, GoneAfterStop, NotBegun, PollIdle
<1>5. QED
  BY <1>3, <1>4 DEF ReadinessInv, FileIsTrue

\* The steps of the poller and the supervisors that leave the tracked processes,
\* the file and the Stop alone.
LEMMA ReadyKept ==
  ASSUME ReadinessInv, UNCHANGED <<mode, ready, stopped, late>>,
         ReadyTypeOK', PollIdle', poller' = "off" <=> poller = "off"
  PROVE  ReadinessInv'
BY DEF ReadinessInv, FileIsTrue, ReadyIsKnown, IsProcessReady, FileFollows, GoneAfterStop, NotBegun, ready

LEMMA PollSteps ==
  ASSUME ReadinessInv, Tick \/ PollEnd \/ PollerEnds \/ Shutdown \/ \E n \in Name : Read(n)
  PROVE  ReadinessInv'
<1>1. ReadyTypeOK
  BY DEF ReadinessInv, FileIsTrue
<1>2. UNCHANGED <<mode, filter, sups, ready, stopped, late>> /\ (poller' = "off" <=> poller = "off")
  BY DEF Tick, PollEnd, PollerEnds, Shutdown, Read
<1>3. Flags'
  <2>1. UNCHANGED <<isReady, file, stopped, ioError, late>> /\ (closed' = closed \/ closed' = TRUE)
    BY <1>2 DEF Tick, PollEnd, PollerEnds, Shutdown, Read, ready
  <2>2. QED
    BY <1>1, <2>1, FlagTypes DEF Flags
<1>4. ReadyTypeOK'
  <2>1. CASE Tick
    BY <1>1, <1>2, <1>3, <2>1 DEF Tick, ReadyTypeOK, sups, ready, Flags
  <2>2. CASE PollEnd \/ PollerEnds \/ Shutdown
    BY <1>1, <1>2, <1>3, <2>2 DEF PollEnd, PollerEnds, Shutdown, ReadyTypeOK, sups, ready, Flags
  <2>3. ASSUME NEW n \in Name, Read(n) PROVE ReadyTypeOK'
    BY <1>1, <1>2, <1>3, <2>3 DEF Read, ReadyTypeOK, sups, ready, Flags
  <2>4. QED
    BY <2>1, <2>2, <2>3
<1>5. PollIdle'
  BY DEF ReadinessInv, PollIdle, Tick, PollEnd, PollerEnds, Shutdown, Read
<1>6. QED
  BY <1>2, <1>4, <1>5, ReadyKept

LEMMA SupervisorSteps ==
  ASSUME ReadinessInv, NEW n \in Name, Supervise(n) \/ Register(n) \/ Unregister(n)
  PROVE  ReadinessInv'
<1>1. ReadyTypeOK
  BY DEF ReadinessInv, FileIsTrue
<1>2. UNCHANGED <<mode, filter, ready, stopped, poller, todo, seen, closed, late>>
  BY DEF Supervise, Becomes, Register, Unregister
<1>3. ReadyTypeOK'
  <2>1. /\ state' \in [Name -> {"stopped", "running", "failed", "stopping"}]
        /\ insts' \in [Name -> BOOLEAN]
    BY <1>1 DEF ReadyTypeOK, Supervise, Becomes, Register, Unregister
  <2>2. reg' \subseteq Name /\ (reg' = reg \/ poller # "polling")
    BY <1>1 DEF ReadyTypeOK, Supervise, Becomes, Register, Unregister
  <2>3. todo \subseteq reg'
    BY <1>1, <2>2 DEF ReadyTypeOK, Supervise, Becomes, Register, Unregister, ReadinessInv, PollIdle
  <2>4. QED
    BY <1>1, <1>2, <2>1, <2>2, <2>3 DEF ReadyTypeOK, ready
<1>4. QED
  BY <1>2, <1>3, ReadyKept DEF ReadinessInv, PollIdle

LEMMA ReportStep ==
  ASSUME ReadinessInv, Report
  PROVE  ReadinessInv'
<1>1. ReadyTypeOK /\ ReadyIsKnown
  BY DEF ReadinessInv, FileIsTrue
<1>2. seen[1] \in Name /\ poller = "polling"
  BY <1>1 DEF ReadyTypeOK, Report
<1>3. UpdateRight
  BY <1>1, <1>2, MappedType, UpdateIsRight DEF Report
<1>4. /\ UNCHANGED <<mode, filter, sups, stopped, poller, closed>>
      /\ late' = (late \/ stopped) /\ seen' = <<>> /\ todo' \subseteq todo
  BY DEF Report
<1>5. QED
  BY <1>2, <1>3, <1>4, UpdateKeeps

LEMMA RemoveStep ==
  ASSUME ReadinessInv, NEW n \in Name, RemoveProcess(n)
  PROVE  ReadinessInv'
<1>1. ReadyTypeOK
  BY DEF ReadinessInv, FileIsTrue
<1>2. /\ status' = [m \in DOMAIN status \ {n} |-> status[m]] /\ Evaluate(status')
      /\ UNCHANGED <<mode, filter, sups, stopped, poller, todo, seen, closed>>
      /\ late' = (late \/ stopped) /\ poller # "off"
  BY DEF RemoveProcess
<1>3. DOMAIN status' \subseteq Name /\ \A m \in DOMAIN status' : status'[m] \in Statuses
  BY <1>1, <1>2 DEF ReadyTypeOK
<1>4. UpdateRight
  BY <1>1, <1>2, <1>3, FlagTypes, EvaluationRight DEF UpdateRight
<1>5. QED
  BY <1>2, <1>4, UpdateKeeps

LEMMA StartStep ==
  ASSUME ReadinessAssumption, ReadinessInv, Start
  PROVE  ReadinessInv'
<1>1. /\ ReadyTypeOK /\ Flags /\ DOMAIN status = {} /\ ~isReady /\ ~stopped /\ GoneAfterStop
  BY FlagTypes DEF ReadinessInv, FileIsTrue, NotBegun, Start
<1>2. /\ file' \in BOOLEAN /\ ioError' \in BOOLEAN /\ (~ioError' => ~file')
  BY <1>1, FileSet DEF Start
<1>3. /\ status' = [n \in Tracked |-> Unknown] /\ poller' = "idle" /\ poller = "off"
      /\ UNCHANGED <<mode, filter, sups, isReady, stopped, todo, seen, closed, late>>
  BY DEF Start
<1>4. Tracked \subseteq Name
  BY <1>1 DEF Tracked, ReadyTypeOK, ReadinessAssumption
<1>5. ReadyTypeOK'
  <2>1. DOMAIN status' \subseteq Name /\ \A n \in DOMAIN status' : status'[n] \in Statuses
    BY <1>3, <1>4 DEF Statuses
  <2>2. QED
    BY <1>1, <1>2, <1>3, <2>1 DEF ReadyTypeOK, sups, Flags
<1>6. ReadyIsKnown'
  BY <1>1, <1>3 DEF ReadyIsKnown, IsProcessReady, Unknown
<1>7. FileFollows' /\ GoneAfterStop' /\ NotBegun' /\ PollIdle'
  BY <1>1, <1>2, <1>3 DEF ReadinessInv, FileFollows, GoneAfterStop, NotBegun, PollIdle
<1>8. QED
  BY <1>5, <1>6, <1>7 DEF ReadinessInv, FileIsTrue

LEMMA StopStep ==
  ASSUME ReadinessInv, Stop
  PROVE  ReadinessInv'
<1>1. ReadyTypeOK /\ Flags /\ ReadyIsKnown
  BY FlagTypes DEF ReadinessInv, FileIsTrue
<1>2. /\ file' \in BOOLEAN /\ ioError' \in BOOLEAN /\ (~ioError' => ~file')
  BY <1>1, FileSet DEF Stop
<1>3. /\ stopped' = TRUE
      /\ UNCHANGED <<mode, filter, sups, status, isReady, poller, todo, seen, closed, late>>
  BY DEF Stop
<1>4. ReadyTypeOK'
  BY <1>1, <1>2, <1>3 DEF ReadyTypeOK, sups, Flags
<1>5. ReadyIsKnown'
  BY <1>1, <1>3 DEF ReadyIsKnown, IsProcessReady
<1>6. FileFollows' /\ GoneAfterStop' /\ NotBegun' /\ PollIdle'
  BY <1>2, <1>3 DEF ReadinessInv, FileFollows, GoneAfterStop, NotBegun, PollIdle
<1>7. QED
  BY <1>4, <1>5, <1>6 DEF ReadinessInv, FileIsTrue

LEMMA StutterStep ==
  ASSUME ReadinessInv, UNCHANGED readyVars
  PROVE  ReadinessInv'
<1>1. UNCHANGED <<mode, filter, reg, state, insts, status, isReady, file, ioError, stopped,
                  poller, todo, seen, closed, late>>
  BY DEF readyVars, sups, ready
<1>2. QED
  BY <1>1 DEF ReadinessInv, FileIsTrue, ReadyTypeOK, ReadyIsKnown, IsProcessReady, FileFollows,
     GoneAfterStop, NotBegun, PollIdle

\* What StartReadinessMonitor, the poller, the readiness manager and Stop do to the
\* file: it is there exactly when all that is tracked was found ready, for any
\* number of processes, filter and mode, as long as the file system obeys.
THEOREM FileIsAlwaysTrue == ReadySpec => []FileIsTrue
<1>1. ReadyInit => ReadinessInv
  BY ReadinessAssumption, InitInv
<1>2. ReadinessInv /\ [ReadyNext]_readyVars => ReadinessInv'
  BY ReadinessAssumption, StartStep, StopStep, ReportStep, RemoveStep, PollSteps, SupervisorSteps,
     StutterStep DEF ReadyNext, Poll
<1>3. ReadinessInv => FileIsTrue
  BY DEF ReadinessInv
<1>4. QED
  BY <1>1, <1>2, <1>3, PTL DEF ReadySpec
=============================================================================
