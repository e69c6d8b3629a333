------------------------------ MODULE ApiProofs ------------------------------
(***************************************************************************)
(* Proofs about RateLimiter and Api, for every set of clients, requests,   *)
(* settings and slots.  The limiter implements a token bucket per client;  *)
(* only calls that are due reach the Manager, answers are true, a Stop     *)
(* without errors has waited for everyone, and the server uses its limiter *)
(* so that each client still sees a token bucket.                          *)
(***************************************************************************)
EXTENDS Api, TLAPS

-----------------------------------------------------------------------------
(* The rate limiter.  The inductive invariant says what makes the shared   *)
(* visitor objects harmless: no two clients share one, a request that      *)
(* waits for a bucket holds its client's one unless it is marked as lost,  *)
(* and then it holds one nobody else will find; and a bucket has not been  *)
(* used later than its visitor was seen, so that one that is forgotten is  *)
(* full.                                                                   *)

Unshared ==
  \A k, l \in Known : table[k] = table[l] => k = l

HeldOnes ==
  \A s \in Slot : Holding(s) =>
    /\ held[s] \in Visitor
    /\ s \notin lost => held[s] = table[who[s]]
    /\ s \in lost => \A k \in Known : held[s] # table[k]

LostHold == \A s \in lost : Holding(s)

SeenLast ==
  /\ \A v \in InUse : heap[v].seen <= heap[v].since
  /\ \A s \in Slot : at[s] = "take" => heap[held[s]].seen = 0

LInv == LimiterTypeOK /\ Unshared /\ HeldOnes /\ LostHold /\ SeenLast

USE LimiterAssumption

-----------------------------------------------------------------------------
(* Arithmetic of a refill                                                  *)

Object == [tokens : 0..Burst, since : 0..(Idle + 1), seen : 0..(Idle + 1)]

(* Products of natural numbers.                                            *)
LEMMA Products ==
  ASSUME NEW a \in Nat, NEW b \in Nat
  PROVE  /\ a * b \in Nat
         /\ (a + 1) * b = a * b + b
         /\ \A c \in Nat : a <= c => a * b <= c * b
<1>1. a * b \in Nat
  OBVIOUS
<1>2. (a + 1) * b = a * b + b
  OBVIOUS
<1>3. ASSUME NEW c \in Nat, a <= c
      PROVE  a * b <= c * b
  BY <1>3, Z3
<1>4. QED
  BY <1>1, <1>2, <1>3

(* A refill gives a level.                                                 *)
LEMMA RefillLevel ==
  ASSUME NEW o \in Object
  PROVE  Refilled(o) \in 0..Burst
<1>1. o.since * Rate \in Nat
  BY Products DEF Object
<1>2. QED
  BY <1>1 DEF Object, Refilled, Least

(* With no time passed, a refill adds nothing.                             *)
LEMMA RefillNothing ==
  ASSUME NEW o \in Object, o.since = 0
  PROVE  Refilled(o) = o.tokens
<1>1. o.since * Rate = 0
  OBVIOUS
<1>2. QED
  BY <1>1 DEF Object, Refilled, Least

(* A bucket not used for more than Idle is full.                           *)
LEMMA RefillFull ==
  ASSUME NEW o \in Object, o.since > Idle
  PROVE  Refilled(o) = Burst
<1>1. o.since \in Nat /\ Idle <= o.since
  BY DEF Object
<1>2. Idle * Rate <= o.since * Rate
  BY <1>1, Products
<1>3. o.since * Rate \in Nat /\ Idle * Rate \in Nat
  BY <1>1, Products
<1>4. QED
  BY <1>2, <1>3 DEF Object, Refilled, Least

(* A unit of time adds Rate tokens to what a refill gives.                 *)
LEMMA RefillTick ==
  ASSUME NEW o \in Object,
         NEW p \in Object, p.tokens = o.tokens, p.since = Older(o.since)
  PROVE  Refilled(p) = Least(Burst, Refilled(o) + Rate)
<1>1. CASE o.since > Idle
  <2>1. Refilled(o) = Burst /\ Refilled(p) = Burst
    BY <1>1, RefillFull DEF Older
  <2>2. QED
    BY <2>1 DEF Least
<1>2. CASE ~(o.since > Idle)
  <2>1. p.since = o.since + 1 /\ o.since \in Nat
    BY <1>2 DEF Older, Object
  <2>2. p.since * Rate = o.since * Rate + Rate /\ o.since * Rate \in Nat
    BY <2>1, Products
  <2>3. QED
    BY <2>2 DEF Refilled, Least, Object
<1>3. QED
  BY <1>1, <1>2

-----------------------------------------------------------------------------
(* The inductive invariant                                                 *)

(* Objects, and those that can be told from a new one's address.           *)
LEMMA HeapObject ==
  ASSUME LimiterTypeOK, NEW v \in Visitor
  PROVE  heap[v] \in Object
BY DEF LimiterTypeOK, Object

LEMMA NewObject == NewVisitor \in Object
BY DEF NewVisitor, Object

(* What a bucket becomes when it is used.                                  *)
LEMMA UsedObject ==
  ASSUME NEW o \in Object, NEW t \in 0..Burst
  PROVE  /\ [tokens |-> t, since |-> 0, seen |-> o.seen] \in Object
         /\ Refilled([tokens |-> t, since |-> 0, seen |-> o.seen]) = t
<1> DEFINE p == [tokens |-> t, since |-> 0, seen |-> o.seen]
<1>1. p \in Object /\ p.since = 0 /\ p.tokens = t
  BY DEF Object
<1>2. Refilled(p) = t
  <2> HIDE DEF p
  <2> QED
    BY <1>1, RefillNothing
<1>3. QED
  BY <1>1, <1>2

(* What a visitor becomes as time passes is an object again.               *)
LEMMA OlderAge ==
  ASSUME NEW a \in 0..(Idle + 1)
  PROVE  Older(a) \in 0..(Idle + 1) /\ a <= Older(a)
BY DEF Older

(* A fresh address is free, and only the table and the request get it.     *)
LEMMA UnusedFree ==
  ASSUME Visitor \ InUse # {}
  PROVE  Unused \in Visitor /\ Unused \notin InUse
BY DEF Unused

LEMMA InitInv == LimiterInit => LInv
<1> SUFFICES ASSUME LimiterInit PROVE LInv
  OBVIOUS
<1>1. LimiterTypeOK
  <2>1. NewVisitor \in Object
    BY NewObject
  <2>2. QED
    BY <2>1 DEF LimiterInit, LimiterTypeOK, Steps, Object
<1>2. Known = {} /\ \A s \in Slot : ~Holding(s)
  BY DEF LimiterInit, Known, Holding
<1>3. InUse = {} /\ lost = {}
  BY <1>2 DEF InUse, LimiterInit
<1>4. \A s \in Slot : at[s] # "take"
  BY DEF LimiterInit
<1>5. QED
  BY <1>1, <1>2, <1>3, <1>4 DEF LInv, Unshared, HeldOnes, LostHold, SeenLast

(* Types are kept.                                                         *)
LEMMA TypeStep ==
  ASSUME LInv, [LimiterNext]_lvars
  PROVE  LimiterTypeOK'
<1> USE DEF LInv
<1>1. CASE Tick
  <2>1. \A v \in Visitor : heap'[v] \in Object
    <3> SUFFICES ASSUME NEW v \in Visitor PROVE heap'[v] \in Object
      OBVIOUS
    <3>1. heap[v] \in Object
      BY HeapObject
    <3>2. Older(heap[v].since) \in 0..(Idle + 1) /\ Older(heap[v].seen) \in 0..(Idle + 1)
      BY <3>1, OlderAge DEF Object
    <3>3. [heap[v] EXCEPT !.since = Older(@), !.seen = Older(@)] \in Object
      BY <3>1, <3>2 DEF Object
    <3>4. QED
      BY <1>1, <3>3, NewObject DEF Tick
  <2>2. heap' \in [Visitor -> Object]
    BY <1>1, <2>1 DEF Tick
  <2>3. QED
    BY <1>1, <2>2 DEF Tick, LimiterTypeOK, Object
<1>2. CASE Cleanup
  BY <1>2 DEF Cleanup, ForgetAll, Stale, Known, LimiterTypeOK
<1>3. CASE StopCleaner \/ CleanerEnds
  BY <1>3 DEF StopCleaner, CleanerEnds, LimiterTypeOK
<1>4. CASE Renew
  BY <1>4 DEF Renew, LimiterTypeOK, Steps
<1>5. ASSUME NEW s \in Slot, NEW k \in Client, Arrive(s, k)
      PROVE  LimiterTypeOK'
  BY <1>5 DEF Arrive, LimiterTypeOK, Steps
<1>6. ASSUME NEW s \in Slot, Lookup(s)
      PROVE  LimiterTypeOK'
  BY <1>6 DEF Lookup, LimiterTypeOK, Steps, Known
<1>7. ASSUME NEW s \in Slot, Insert(s)
      PROVE  LimiterTypeOK'
  <2>1. CASE who[s] \in Known
    BY <1>7, <2>1 DEF Insert, LimiterTypeOK, Steps, Known
  <2>2. CASE who[s] \notin Known
    <3>1. AddVisitor(s) /\ Unused \in Visitor
      BY <1>7, <2>2, UnusedFree DEF Insert, AddVisitor
    <3>2. heap' \in [Visitor -> Object]
      BY <3>1, NewObject DEF AddVisitor, LimiterTypeOK, Object
    <3>3. table' \in [Client -> Visitor \cup {None}] /\ held' \in [Slot -> Visitor \cup {None}]
      BY <3>1 DEF AddVisitor, LimiterTypeOK
    <3>4. QED
      BY <1>7, <3>2, <3>3 DEF Insert, LimiterTypeOK, Steps, Object
  <2>3. QED
    BY <2>1, <2>2
<1>8. ASSUME NEW s \in Slot, Stamp(s)
      PROVE  LimiterTypeOK'
  <2>1. held[s] \in Visitor
    BY <1>8 DEF Stamp, HeldOnes, Holding
  <2>2. [heap[held[s]] EXCEPT !.seen = 0] \in Object
    BY <2>1, HeapObject DEF Object
  <2>3. heap' \in [Visitor -> Object]
    BY <1>8, <2>1, <2>2 DEF Stamp, LimiterTypeOK, Object
  <2>4. QED
    BY <1>8, <2>3 DEF Stamp, LimiterTypeOK, Steps, Object
<1>9. ASSUME NEW s \in Slot, Take(s)
      PROVE  LimiterTypeOK'
  <2>1. held[s] \in Visitor
    BY <1>9 DEF Take, HeldOnes, Holding
  <2> DEFINE o == heap[held[s]]
  <2>2. o \in Object /\ Refilled(o) \in 0..Burst
    BY <2>1, HeapObject, RefillLevel
  <2> DEFINE t == IF Refilled(o) >= 1 THEN Refilled(o) - 1 ELSE Refilled(o)
  <2>3. t \in 0..Burst
    BY <2>2
  <2>4. [tokens |-> t, since |-> 0, seen |-> o.seen] \in Object
    <3> HIDE DEF t, o
    <3> QED
      BY <2>2, <2>3, UsedObject
  <2>5. heap' \in [Visitor -> Object]
    BY <1>9, <2>1, <2>4 DEF Take, LimiterTypeOK, Object
  <2>6. QED
    BY <1>9, <2>5 DEF Take, LimiterTypeOK, Steps, Object
<1>10. ASSUME NEW s \in Slot, Leave(s)
       PROVE  LimiterTypeOK'
  BY <1>10 DEF Leave, LimiterTypeOK, Steps
<1>11. CASE UNCHANGED lvars
  BY <1>11 DEF lvars, LimiterTypeOK
<1>12. QED
  BY <1>1, <1>2, <1>3, <1>4, <1>5, <1>6, <1>7, <1>8, <1>9, <1>10, <1>11 DEF LimiterNext

Rest == Unshared /\ HeldOnes /\ LostHold /\ SeenLast

(* A step that leaves the table, the objects and the requests alone.       *)
LEMMA RestKept ==
  ASSUME LInv, UNCHANGED <<table, heap, at, who, held, lost>>
  PROVE  Rest'
BY DEF LInv, Rest, Unshared, HeldOnes, LostHold, SeenLast, Known, Holding, InUse

LEMMA TickRest ==
  ASSUME LInv, Tick
  PROVE  Rest'
<1>1. UNCHANGED <<table, at, who, held, lost>>
  BY DEF Tick
<1>2. Known' = Known /\ InUse' = InUse /\ \A s \in Slot : Holding(s)' = Holding(s)
  BY <1>1 DEF Known, InUse, Holding
<1>3. Unshared' /\ LostHold'
  BY <1>1, <1>2 DEF LInv, Unshared, LostHold, LimiterTypeOK
<1>7. HeldOnes'
  BY <1>1, <1>2 DEF LInv, HeldOnes
<1>4. ASSUME NEW v \in InUse
      PROVE  heap'[v].seen <= heap'[v].since
  <2>1. v \in Visitor
    BY DEF InUse, Known, LInv, HeldOnes, LimiterTypeOK
  <2>2. heap[v] \in Object /\ heap[v].seen <= heap[v].since
    BY <2>1, HeapObject DEF LInv, SeenLast
  <2>3. heap'[v].since = Older(heap[v].since) /\ heap'[v].seen = Older(heap[v].seen)
    BY <2>1, <2>2 DEF Tick, Object
  <2>4. QED
    BY <2>2, <2>3 DEF Older, Object
<1>5. SeenLast'
  BY <1>1, <1>2, <1>4 DEF SeenLast, Tick
<1>8. QED
  BY <1>3, <1>5, <1>7 DEF Rest

LEMMA CleanupRest ==
  ASSUME LInv, Cleanup
  PROVE  Rest'
<1>1. Stale \subseteq Known /\ Known' = Known \ Stale
  BY DEF Cleanup, ForgetAll, Stale, Known, LInv, LimiterTypeOK
<1>2. \A k \in Known' : table'[k] = table[k]
  BY <1>1 DEF Cleanup, ForgetAll, Known
<1>3. UNCHANGED <<heap, at, who, held>> /\ \A s \in Slot : Holding(s)' = Holding(s)
  BY DEF Cleanup, ForgetAll, Holding
<1>4. lost' = lost \cup {s \in Slot : Holding(s) /\ held[s] \in {table[k] : k \in Stale}}
  BY DEF Cleanup, ForgetAll
<1>5. Unshared' /\ LostHold'
  BY <1>1, <1>2, <1>3, <1>4 DEF LInv, Unshared, LostHold, LimiterTypeOK
<1>6. ASSUME NEW s \in Slot, Holding(s)
      PROVE  /\ s \notin lost' => held[s] = table'[who[s]]
             /\ s \in lost' => \A k \in Known' : held[s] # table'[k]
  <2>1. ASSUME s \notin lost'
        PROVE  held[s] = table'[who[s]]
    <3>1. held[s] = table[who[s]] /\ held[s] \in Visitor /\ who[s] \in Client
      BY <1>4, <1>6, <2>1 DEF LInv, HeldOnes, LimiterTypeOK
    <3>2. who[s] \in Known
      BY <3>1 DEF Known
    <3>3. who[s] \notin Stale
      BY <1>4, <1>6, <2>1, <3>1
    <3>4. QED
      BY <1>1, <1>2, <3>1, <3>2, <3>3
  <2>2. ASSUME s \in lost, NEW k \in Known'
        PROVE  held[s] # table'[k]
    BY <1>1, <1>2, <1>6, <2>2 DEF LInv, HeldOnes
  <2>3. ASSUME s \in lost', s \notin lost, NEW k \in Known'
        PROVE  held[s] # table'[k]
    <3>1. PICK d \in Stale : held[s] = table[d]
      BY <1>4, <2>3
    <3>2. d # k /\ d \in Known /\ k \in Known
      BY <1>1
    <3>3. QED
      BY <1>2, <3>1, <3>2 DEF LInv, Unshared
  <2>4. QED
    BY <2>1, <2>2, <2>3
<1>7. HeldOnes'
  BY <1>3, <1>6 DEF LInv, HeldOnes
<1>8. InUse' \subseteq InUse
  BY <1>1, <1>2, <1>3 DEF InUse
<1>9. SeenLast'
  BY <1>3, <1>8 DEF LInv, SeenLast
<1>10. QED
  BY <1>5, <1>7, <1>9 DEF Rest

LEMMA RenewRest ==
  ASSUME LInv, Renew
  PROVE  Rest'
<1>1. Known' = {} /\ \A s \in Slot : ~Holding(s)' /\ at'[s] # "take"
  BY DEF Renew, Known, Holding
<1>2. InUse' = {} /\ lost' = {}
  BY <1>1 DEF InUse, Renew
<1>3. QED
  BY <1>1, <1>2 DEF Rest, Unshared, HeldOnes, LostHold, SeenLast

(* Arrive and Leave: requests that hold nothing before and after.          *)
LEMMA OutsideRest ==
  ASSUME LInv, NEW s \in Slot,
         (\E k \in Client : Arrive(s, k)) \/ Leave(s)
  PROVE  Rest'
<1>1. UNCHANGED <<table, heap, held, lost>> /\ \A t \in Slot \ {s} : who'[t] = who[t] /\ at'[t] = at[t]
  BY DEF Arrive, Leave, LInv, LimiterTypeOK
<1>2. ~Holding(s) /\ ~Holding(s)' /\ at'[s] # "take"
  BY DEF Arrive, Leave, LInv, LimiterTypeOK, Holding
<1>3. \A t \in Slot : Holding(t)' = Holding(t) /\ (at'[t] = "take" => at[t] = "take")
  BY <1>1, <1>2 DEF Holding
<1>4. Known' = Known
  BY <1>1 DEF Known
<1>5. InUse' = InUse
  BY <1>1, <1>3, <1>4 DEF InUse
<1>6. HeldOnes'
  <2> SUFFICES ASSUME NEW t \in Slot, Holding(t)'
               PROVE  /\ held'[t] \in Visitor
                      /\ t \notin lost' => held'[t] = table'[who'[t]]
                      /\ t \in lost' => \A k \in Known' : held'[t] # table'[k]
    BY DEF HeldOnes
  <2>1. t # s /\ Holding(t)
    BY <1>2, <1>3
  <2>2. QED
    BY <1>1, <1>4, <2>1 DEF LInv, HeldOnes
<1>7. Unshared' /\ LostHold'
  BY <1>1, <1>3, <1>4 DEF LInv, Unshared, LostHold, LimiterTypeOK
<1>8. SeenLast'
  BY <1>1, <1>3, <1>5 DEF LInv, SeenLast
<1>9. QED
  BY <1>6, <1>7, <1>8 DEF Rest

(* Lookup, and Insert of a client that is known by now: the request takes  *)
(* the table's visitor, or goes on without one.                            *)
LEMMA FindRest ==
  ASSUME LInv, NEW s \in Slot,
         UNCHANGED <<table, heap, who, lost>>, ~Holding(s), at'[s] # "take",
         \A t \in Slot \ {s} : at'[t] = at[t] /\ held'[t] = held[t],
         Holding(s)' => who[s] \in Known /\ held'[s] = table[who[s]]
  PROVE  Rest'
<1>1. Known' = Known /\ s \notin lost
  BY DEF Known, LInv, LostHold
<1>2. \A t \in Slot \ {s} : Holding(t)' = Holding(t)
  BY DEF Holding
<1>3. HeldOnes'
  <2> SUFFICES ASSUME NEW t \in Slot, Holding(t)'
               PROVE  /\ held'[t] \in Visitor
                      /\ t \notin lost' => held'[t] = table'[who'[t]]
                      /\ t \in lost' => \A k \in Known' : held'[t] # table'[k]
    BY DEF HeldOnes
  <2>1. CASE t = s
    BY <1>1, <2>1 DEF Known, LInv, LimiterTypeOK
  <2>2. CASE t # s
    BY <1>1, <1>2, <2>2 DEF LInv, HeldOnes
  <2>3. QED
    BY <2>1, <2>2
<1>4. InUse' \subseteq InUse
  <2> SUFFICES ASSUME NEW v \in InUse' PROVE v \in InUse
    OBVIOUS
  <2>1. CASE \E k \in Known' : v = table'[k]
    BY <1>1, <2>1 DEF InUse
  <2>2. ASSUME NEW t \in Slot, Holding(t)', v = held'[t]
        PROVE  v \in InUse
    <3>1. CASE t = s
      BY <2>2, <3>1 DEF InUse
    <3>2. CASE t # s
      BY <1>2, <2>2, <3>2 DEF InUse
    <3>3. QED
      BY <3>1, <3>2
  <2>3. QED
    BY <2>1, <2>2 DEF InUse
<1>5. \A t \in Slot : at'[t] = "take" => at[t] = "take" /\ held'[t] = held[t]
  OBVIOUS
<1>6. SeenLast'
  BY <1>4, <1>5 DEF LInv, SeenLast
<1>7. Unshared' /\ LostHold'
  BY <1>1, <1>2 DEF LInv, Unshared, LostHold, LimiterTypeOK
<1>8. QED
  BY <1>3, <1>6, <1>7 DEF Rest

(* What a new visitor changes.                                             *)
LEMMA AddFacts ==
  ASSUME LInv, NEW s \in Slot, who[s] \notin Known, AddVisitor(s)
  PROVE  /\ Unused \in Visitor /\ Unused \notin InUse
         /\ table'[who[s]] = Unused /\ held'[s] = Unused
         /\ Known' = Known \cup {who[s]}
         /\ \A k \in Known : table'[k] = table[k] /\ table[k] # Unused
         /\ \A t \in Slot \ {s} : held'[t] = held[t] /\ (Holding(t) => held[t] # Unused)
         /\ heap'[Unused] = NewVisitor
         /\ \A v \in Visitor : v # Unused => heap'[v] = heap[v]
<1>1. Unused \in Visitor /\ Unused \notin InUse
  BY UnusedFree DEF AddVisitor
<1>2. who[s] \in Client /\ Unused # None
  BY <1>1 DEF LInv, LimiterTypeOK
<1>3. table' = [table EXCEPT ![who[s]] = Unused] /\ held' = [held EXCEPT ![s] = Unused]
        /\ heap' = [heap EXCEPT ![Unused] = NewVisitor]
  BY DEF AddVisitor
<1>4. table'[who[s]] = Unused /\ held'[s] = Unused
  BY <1>2, <1>3 DEF LInv, LimiterTypeOK
<1>5. Known' = Known \cup {who[s]}
  BY <1>2, <1>3 DEF Known, LInv, LimiterTypeOK
<1>6. \A k \in Known : table'[k] = table[k] /\ table[k] # Unused
  BY <1>1, <1>3 DEF InUse, Known, LInv, LimiterTypeOK
<1>7. \A t \in Slot \ {s} : held'[t] = held[t] /\ (Holding(t) => held[t] # Unused)
  BY <1>1, <1>3 DEF InUse, LInv, LimiterTypeOK
<1>8. heap'[Unused] = NewVisitor /\ \A v \in Visitor : v # Unused => heap'[v] = heap[v]
  BY <1>1, <1>3 DEF LInv, LimiterTypeOK
<1>9. QED
  BY <1>1, <1>4, <1>5, <1>6, <1>7, <1>8

LEMMA AddRest ==
  ASSUME LInv, NEW s \in Slot, Insert(s), who[s] \notin Known
  PROVE  Rest'
<1>1. AddVisitor(s) /\ UNCHANGED <<who, lost>> /\ at' = [at EXCEPT ![s] = "stamp"] /\ ~Holding(s)
  BY DEF Insert, Holding
<1>2. at'[s] = "stamp" /\ Holding(s)' /\ s \notin lost /\ \A t \in Slot \ {s} : at'[t] = at[t]
  BY <1>1 DEF LInv, LimiterTypeOK, Holding, LostHold
<1>3. \A t \in Slot \ {s} : Holding(t)' = Holding(t)
  BY <1>2 DEF Holding
<1>4. Unshared'
  BY <1>1, AddFacts DEF LInv, Unshared
<1>5. LostHold'
  BY <1>1, <1>2, <1>3 DEF LInv, LostHold, LimiterTypeOK
<1>6. HeldOnes'
  <2> SUFFICES ASSUME NEW t \in Slot, Holding(t)'
               PROVE  /\ held'[t] \in Visitor
                      /\ t \notin lost' => held'[t] = table'[who'[t]]
                      /\ t \in lost' => \A k \in Known' : held'[t] # table'[k]
    BY DEF HeldOnes
  <2>1. CASE t = s
    BY <1>1, <1>2, <2>1, AddFacts
  <2>2. CASE t # s
    <3>1. Holding(t) /\ held'[t] = held[t] /\ held[t] # Unused /\ held[t] \in Visitor
      BY <1>1, <1>3, <2>2, AddFacts DEF LInv, HeldOnes
    <3>2. ASSUME t \notin lost
          PROVE  held[t] = table'[who[t]]
      <4>1. held[t] = table[who[t]] /\ who[t] \in Known
        BY <3>1, <3>2 DEF LInv, HeldOnes, LimiterTypeOK, Known
      <4>2. QED
        BY <1>1, <4>1, AddFacts
    <3>3. ASSUME t \in lost, NEW k \in Known'
          PROVE  held[t] # table'[k]
      <4>1. CASE k \in Known
        BY <1>1, <3>1, <3>3, <4>1, AddFacts DEF LInv, HeldOnes
      <4>2. CASE k = who[s]
        BY <1>1, <3>1, <4>2, AddFacts
      <4>3. QED
        BY <1>1, <4>1, <4>2, AddFacts
    <3>4. QED
      BY <1>1, <3>1, <3>2, <3>3
  <2>3. QED
    BY <2>1, <2>2
<1>7. ASSUME NEW v \in InUse'
      PROVE  heap'[v].seen <= heap'[v].since
  <2>1. v \in InUse \cup {Unused}
    <3>1. CASE \E k \in Known' : v = table'[k]
      BY <1>1, <3>1, AddFacts DEF InUse
    <3>2. ASSUME NEW t \in Slot, Holding(t)', v = held'[t]
          PROVE  v \in InUse \cup {Unused}
      <4>1. CASE t = s
        BY <1>1, <3>2, <4>1, AddFacts
      <4>2. CASE t # s
        BY <1>1, <1>3, <3>2, <4>2, AddFacts DEF InUse
      <4>3. QED
        BY <4>1, <4>2
    <3>3. QED
      BY <3>1, <3>2, <1>7 DEF InUse
  <2>2. CASE v = Unused
    BY <1>1, <2>2, AddFacts DEF NewVisitor
  <2>3. CASE v # Unused
    <3>1. v \in InUse /\ v \in Visitor
      BY <2>1, <2>3 DEF InUse, Known, LInv, HeldOnes, LimiterTypeOK
    <3>2. QED
      BY <1>1, <2>3, <3>1, AddFacts DEF LInv, SeenLast
  <2>4. QED
    BY <2>2, <2>3
<1>8. ASSUME NEW t \in Slot, at'[t] = "take"
      PROVE  heap'[held'[t]].seen = 0
  <2>1. t # s /\ at[t] = "take" /\ Holding(t)
    BY <1>2, <1>8 DEF Holding
  <2>2. held'[t] = held[t] /\ held[t] # Unused /\ held[t] \in Visitor
    BY <1>1, <2>1, AddFacts DEF LInv, HeldOnes
  <2>3. QED
    BY <1>1, <2>1, <2>2, AddFacts DEF LInv, SeenLast
<1>9. SeenLast'
  BY <1>7, <1>8 DEF SeenLast
<1>10. QED
  BY <1>4, <1>5, <1>6, <1>9 DEF Rest

LEMMA StampRest ==
  ASSUME LInv, NEW s \in Slot, Stamp(s)
  PROVE  Rest'
<1>1. Holding(s) /\ held[s] \in Visitor
  BY DEF Stamp, Holding, LInv, HeldOnes
<1>2. UNCHANGED <<table, who, held, lost>> /\ at'[s] = "take"
        /\ \A t \in Slot \ {s} : at'[t] = at[t]
  BY DEF Stamp, LInv, LimiterTypeOK
<1>3. Known' = Known /\ \A t \in Slot : Holding(t)' = Holding(t)
  BY <1>1, <1>2 DEF Known, Holding
<1>4. InUse' = InUse
  BY <1>2, <1>3 DEF InUse
<1>5. /\ heap'[held[s]].seen = 0 /\ heap'[held[s]].since = heap[held[s]].since
      /\ \A v \in Visitor : v # held[s] => heap'[v] = heap[v]
  BY <1>1, HeapObject DEF Stamp, LInv, LimiterTypeOK
<1>6. \A v \in InUse : v \in Visitor /\ heap[v] \in Object
  BY HeapObject DEF InUse, Known, LInv, HeldOnes, LimiterTypeOK
<1>7. \A v \in InUse' : heap'[v].seen <= heap'[v].since
  BY <1>1, <1>4, <1>5, <1>6 DEF LInv, SeenLast, Object
<1>8. ASSUME NEW t \in Slot, at'[t] = "take"
      PROVE  heap'[held'[t]].seen = 0
  <2>1. CASE held[t] = held[s]
    BY <1>2, <1>5, <2>1
  <2>2. CASE held[t] # held[s]
    <3>1. at[t] = "take" /\ held[t] \in Visitor
      BY <1>2, <1>8, <2>2 DEF LInv, HeldOnes, Holding
    <3>2. QED
      BY <1>2, <1>5, <2>2, <3>1 DEF LInv, SeenLast
  <2>3. QED
    BY <2>1, <2>2
<1>9. SeenLast'
  BY <1>7, <1>8 DEF SeenLast
<1>10. HeldOnes'
  BY <1>2, <1>3 DEF LInv, HeldOnes
<1>11. Unshared' /\ LostHold'
  BY <1>2, <1>3 DEF LInv, Unshared, LostHold, LimiterTypeOK
<1>12. QED
  BY <1>9, <1>10, <1>11 DEF Rest

(* What taking a token does to the bucket.                                 *)
LEMMA TakeFacts ==
  ASSUME LInv, NEW s \in Slot, Take(s)
  PROVE  /\ held[s] \in Visitor /\ Holding(s) /\ ~Holding(s)'
         /\ heap[held[s]] \in Object /\ Refilled(heap[held[s]]) \in 0..Burst
         /\ Refilled(heap'[held[s]]) =
              IF Refilled(heap[held[s]]) >= 1 THEN Refilled(heap[held[s]]) - 1
                                              ELSE Refilled(heap[held[s]])
         /\ heap'[held[s]].seen = 0 /\ heap'[held[s]].since = 0
         /\ \A v \in Visitor : v # held[s] => heap'[v] = heap[v]
         /\ at'[s] = IF Refilled(heap[held[s]]) >= 1 THEN "pass" ELSE "limit"
         /\ \A t \in Slot \ {s} : at'[t] = at[t] /\ held'[t] = held[t]
<1> DEFINE o == heap[held[s]]
           t == IF Refilled(o) >= 1 THEN Refilled(o) - 1 ELSE Refilled(o)
           p == [tokens |-> t, since |-> 0, seen |-> o.seen]
<1>1. Holding(s) /\ held[s] \in Visitor /\ at[s] = "take" /\ o.seen = 0
  BY DEF Take, Holding, LInv, HeldOnes, SeenLast
<1>2. o \in Object /\ Refilled(o) \in 0..Burst
  BY <1>1, HeapObject, RefillLevel DEF LInv
<1>3. heap' = [heap EXCEPT ![held[s]] = p]
  BY DEF Take
<1>4. heap'[held[s]] = p /\ \A v \in Visitor : v # held[s] => heap'[v] = heap[v]
  <2> HIDE DEF p
  <2> QED
    BY <1>1, <1>3 DEF LInv, LimiterTypeOK
<1>5. t \in 0..Burst
  BY <1>2
<1>6. Refilled(p) = t
  <2> HIDE DEF o, t
  <2> QED
    BY <1>2, <1>5, UsedObject
<1>7. at' = [at EXCEPT ![s] = IF Refilled(o) >= 1 THEN "pass" ELSE "limit"]
        /\ held' = [held EXCEPT ![s] = None]
  BY DEF Take
<1>8. at'[s] = IF Refilled(o) >= 1 THEN "pass" ELSE "limit"
  BY <1>7 DEF LInv, LimiterTypeOK
<1>9. \A q \in Slot \ {s} : at'[q] = at[q] /\ held'[q] = held[q]
  BY <1>7 DEF LInv, LimiterTypeOK
<1>10. ~Holding(s)'
  BY <1>8 DEF Holding
<1>11. p.seen = 0 /\ p.since = 0
  BY <1>1
<1>12. QED
  <2> HIDE DEF p
  <2> QED
    BY <1>1, <1>2, <1>4, <1>6, <1>8, <1>9, <1>10, <1>11

LEMMA TakeRest ==
  ASSUME LInv, NEW s \in Slot, Take(s)
  PROVE  Rest'
<1>1. UNCHANGED <<table, who>> /\ lost' = lost \ {s}
  BY DEF Take
<1>2. Known' = Known /\ \A t \in Slot \ {s} : Holding(t)' = Holding(t)
  BY <1>1, TakeFacts DEF Known, Holding
<1>3. Unshared' /\ LostHold'
  BY <1>1, <1>2 DEF LInv, Unshared, LostHold, LimiterTypeOK
<1>4. HeldOnes'
  <2> SUFFICES ASSUME NEW t \in Slot, Holding(t)'
               PROVE  /\ held'[t] \in Visitor
                      /\ t \notin lost' => held'[t] = table'[who'[t]]
                      /\ t \in lost' => \A k \in Known' : held'[t] # table'[k]
    BY DEF HeldOnes
  <2>1. t # s /\ Holding(t) /\ held'[t] = held[t] /\ (t \in lost' <=> t \in lost)
    BY <1>1, <1>2, TakeFacts
  <2>2. QED
    BY <1>1, <1>2, <2>1 DEF LInv, HeldOnes
<1>5. InUse' \subseteq InUse
  <2> SUFFICES ASSUME NEW v \in InUse' PROVE v \in InUse
    OBVIOUS
  <2>1. CASE \E k \in Known' : v = table'[k]
    BY <1>1, <1>2, <2>1 DEF InUse
  <2>2. ASSUME NEW t \in Slot, Holding(t)', v = held'[t]
        PROVE  v \in InUse
    BY <1>2, <2>2, TakeFacts DEF InUse
  <2>3. QED
    BY <2>1, <2>2 DEF InUse
<1>6. \A v \in InUse' : heap'[v].seen <= heap'[v].since
  <2> SUFFICES ASSUME NEW v \in InUse' PROVE heap'[v].seen <= heap'[v].since
    OBVIOUS
  <2>1. v \in InUse
    BY <1>5
  <2>2. v \in Visitor
    BY <2>1 DEF InUse, Known, LInv, HeldOnes, LimiterTypeOK
  <2>3. CASE v = held[s]
    BY <2>3, TakeFacts
  <2>4. CASE v # held[s]
    BY <2>1, <2>2, <2>4, TakeFacts DEF LInv, SeenLast
  <2>5. QED
    BY <2>3, <2>4
<1>7. ASSUME NEW t \in Slot, at'[t] = "take"
      PROVE  heap'[held'[t]].seen = 0
  <2>1. t # s /\ at[t] = "take" /\ held'[t] = held[t] /\ held[t] \in Visitor
    BY <1>7, TakeFacts DEF Holding, LInv, HeldOnes
  <2>2. QED
    BY <2>1, TakeFacts DEF LInv, SeenLast
<1>8. SeenLast'
  BY <1>6, <1>7 DEF SeenLast
<1>9. QED
  BY <1>3, <1>4, <1>8 DEF Rest

LEMMA StepInv == LInv /\ [LimiterNext]_lvars => LInv'
<1> SUFFICES ASSUME LInv, [LimiterNext]_lvars PROVE LInv'
  OBVIOUS
<1>1. Rest'
  <2>1. CASE Tick
    BY <2>1, TickRest
  <2>2. CASE Cleanup
    BY <2>2, CleanupRest
  <2>3. CASE StopCleaner \/ CleanerEnds
    BY <2>3, RestKept DEF StopCleaner, CleanerEnds
  <2>4. CASE Renew
    BY <2>4, RenewRest
  <2>5. ASSUME NEW s \in Slot, (\E k \in Client : Arrive(s, k)) \/ Leave(s)
        PROVE  Rest'
    BY <2>5, OutsideRest
  <2>6. ASSUME NEW s \in Slot, Lookup(s)
        PROVE  Rest'
    <3>1. UNCHANGED <<table, heap, who, lost>> /\ ~Holding(s) /\ at'[s] # "take"
      BY <2>6 DEF Lookup, Holding, LInv, LimiterTypeOK
    <3>2. \A t \in Slot \ {s} : at'[t] = at[t] /\ held'[t] = held[t]
      BY <2>6 DEF Lookup, LInv, LimiterTypeOK
    <3>3. Holding(s)' => who[s] \in Known /\ held'[s] = table[who[s]]
      BY <2>6 DEF Lookup, Holding, LInv, LimiterTypeOK
    <3>4. QED
      BY <3>1, <3>2, <3>3, FindRest
  <2>7. ASSUME NEW s \in Slot, Insert(s)
        PROVE  Rest'
    <3>1. CASE who[s] \in Known
      <4>1. UNCHANGED <<table, heap, who, lost>> /\ ~Holding(s) /\ at'[s] # "take"
        BY <2>7, <3>1 DEF Insert, Holding, LInv, LimiterTypeOK
      <4>2. \A t \in Slot \ {s} : at'[t] = at[t] /\ held'[t] = held[t]
        BY <2>7, <3>1 DEF Insert, LInv, LimiterTypeOK
      <4>3. held'[s] = table[who[s]]
        BY <2>7, <3>1 DEF Insert, LInv, LimiterTypeOK
      <4>4. QED
        BY <3>1, <4>1, <4>2, <4>3, FindRest
    <3>2. CASE who[s] \notin Known
      BY <2>7, <3>2, AddRest
    <3>3. QED
      BY <3>1, <3>2
  <2>8. ASSUME NEW s \in Slot, Stamp(s)
        PROVE  Rest'
    BY <2>8, StampRest
  <2>9. ASSUME NEW s \in Slot, Take(s)
        PROVE  Rest'
    BY <2>9, TakeRest
  <2>10. CASE UNCHANGED lvars
    BY <2>10, RestKept DEF lvars
  <2>11. QED
    BY <2>1, <2>2, <2>3, <2>4, <2>5, <2>6, <2>7, <2>8, <2>9, <2>10 DEF LimiterNext
<1>2. QED
  BY <1>1, TypeStep DEF LInv, Rest

(* What ties the requests that wait for a bucket to the table (server.go,  *)
(* allow against cleanupVisitors).                                         *)
THEOREM LimiterInvariant == LimiterSpec => []LInv
<1>1. QED
  BY InitInv, StepInv, PTL DEF LimiterSpec

(* Whatever the clients, the burst and the rate: the table, the visitors   *)
(* and the requests in flight have their types, and a level never exceeds  *)
(* the burst (server.go, rateLimiter and tokenBucket).                     *)
THEOREM LimiterTypes == LimiterSpec => []LimiterTypeOK
<1>1. LInv => LimiterTypeOK
  BY DEF LInv
<1>2. QED
  BY <1>1, LimiterInvariant, PTL

-----------------------------------------------------------------------------
(* The refinement                                                          *)

Levels == [k \in Client |-> Level(k)]
Phases == [s \in Slot |-> Phase(s)]

LEMMA LevelType ==
  ASSUME LimiterTypeOK, NEW k \in Client
  PROVE  Level(k) \in 0..Burst
<1>1. CASE table[k] = None
  BY <1>1 DEF Level
<1>2. CASE table[k] # None
  <2>1. heap[table[k]] \in Object
    BY <1>2, HeapObject DEF LimiterTypeOK
  <2>2. QED
    BY <1>2, <2>1, RefillLevel DEF Level
<1>3. QED
  BY <1>1, <1>2

(* Every table, every object a client knows and every phase unchanged.     *)
LEMMA SameLevels ==
  ASSUME \A k \in Client : table'[k] = table[k] /\ (table[k] # None => heap'[table[k]] = heap[table[k]])
  PROVE  Levels' = Levels
<1>1. \A k \in Client : Level(k)' = Level(k)
  BY DEF Level, Refilled
<1>2. QED
  BY <1>1 DEF Levels

LEMMA InitRefines == LimiterInit => Bucket!AInit
<1> SUFFICES ASSUME LimiterInit PROVE Bucket!AInit
  OBVIOUS
<1>1. \A k \in Client : Level(k) = Burst
  BY DEF LimiterInit, Level
<1>2. \A s \in Slot : Phase(s) = "idle"
  BY DEF LimiterInit, Phase
<1>3. QED
  BY <1>1, <1>2 DEF LimiterInit, Bucket!AInit

LEMMA TickRefines == LInv /\ Tick => Bucket!ATick
<1> SUFFICES ASSUME LInv, Tick PROVE Bucket!ATick
  OBVIOUS
<1>1. ASSUME NEW k \in Client
      PROVE  Level(k)' = Least(Burst, Level(k) + Rate)
  <2>1. table'[k] = table[k]
    BY DEF Tick
  <2>2. CASE table[k] = None
    BY <2>1, <2>2 DEF Level, Least
  <2>3. CASE table[k] # None
    <3> DEFINE v == table[k]
    <3>1. v \in Visitor /\ v \in InUse
      BY <2>3 DEF LInv, LimiterTypeOK, InUse, Known
    <3>2. heap[v] \in Object
      BY <3>1, HeapObject DEF LInv
    <3>3. heap'[v] \in Object
      BY <3>1, TypeStep DEF LimiterTypeOK, Object, LimiterNext
    <3>4. heap'[v].tokens = heap[v].tokens /\ heap'[v].since = Older(heap[v].since)
      BY <3>1, <3>2 DEF Tick, Object
    <3>5. Level(k)' = Refilled(heap'[v]) /\ Level(k) = Refilled(heap[v])
      BY <2>1, <2>3 DEF Level, Refilled
    <3>6. QED
      <4> HIDE DEF v
      <4> QED
        BY <3>2, <3>3, <3>4, <3>5, RefillTick
  <2>4. QED
    BY <2>2, <2>3
<1>2. \A k \in Client : Bucket!Least(Burst, Levels[k] + Rate) = Least(Burst, Level(k) + Rate)
  BY DEF Bucket!Least, Least, Levels
<1>3. Levels' = [k \in Client |-> Bucket!Least(Burst, Levels[k] + Rate)]
  BY <1>1, <1>2 DEF Levels
<1>4. Phases' = Phases /\ UNCHANGED <<who, lost, life>>
  BY DEF Tick, Phases, Phase
<1>5. QED
  BY <1>3, <1>4 DEF Bucket!ATick, Levels, Phases

LEMMA CleanupRefines ==
  ASSUME LInv, Cleanup
  PROVE  \E S \in SUBSET Slot : Bucket!ALose(S)
<1> DEFINE L == {s \in Slot : Holding(s) /\ held[s] \in {table[k] : k \in Stale}}
<1>1. lost' = lost \cup L /\ UNCHANGED <<heap, at, who, life>>
  BY DEF Cleanup, ForgetAll
<1>2. ASSUME NEW k \in Stale
      PROVE  Level(k) = Burst /\ table'[k] = None /\ k \in Client
  <2>1. k \in Known /\ table[k] \in Visitor /\ table[k] # None /\ table[k] \in InUse
    BY DEF Stale, Known, LInv, LimiterTypeOK, InUse
  <2>2. heap[table[k]] \in Object /\ heap[table[k]].since > Idle
    BY <2>1, HeapObject DEF Stale, LInv, SeenLast, Object
  <2>3. QED
    BY <2>1, <2>2, RefillFull DEF Level, Cleanup, ForgetAll, Known
<1>3. ASSUME NEW k \in Client
      PROVE  Level(k)' = Level(k)
  <2>1. CASE k \in Stale
    BY <1>2, <2>1 DEF Level
  <2>2. CASE k \notin Stale
    BY <1>1, <2>2 DEF Level, Refilled, Cleanup, ForgetAll
  <2>3. QED
    BY <2>1, <2>2
<1>4. ASSUME NEW s \in L
      PROVE  Phase(s) = "wait" /\ Level(who[s]) = Burst /\ who[s] \in Client
  <2>1. PICK k \in Stale : held[s] = table[k]
    OBVIOUS
  <2>2. s \in Slot /\ Holding(s) /\ k \in Known
    BY DEF Stale
  <2>3. s \notin lost
    BY <2>1, <2>2 DEF LInv, HeldOnes
  <2>4. held[s] = table[who[s]] /\ who[s] \in Known
    BY <2>2, <2>3 DEF LInv, HeldOnes, LimiterTypeOK, Known
  <2>5. who[s] = k
    BY <2>1, <2>2, <2>4 DEF LInv, Unshared
  <2>6. QED
    BY <1>2, <2>2, <2>5 DEF Phase, Holding
<1>5. Levels' = Levels /\ Phases' = Phases
  BY <1>1, <1>3 DEF Levels, Phases, Phase
<1>6. L \in SUBSET Slot
  OBVIOUS
<1>7. Bucket!ALose(L)
  BY <1>1, <1>4, <1>5 DEF Bucket!ALose, Levels, Phases
<1>8. QED
  BY <1>6, <1>7

LEMMA RenewRefines == LInv /\ Renew => Bucket!ARenew
<1> SUFFICES ASSUME LInv, Renew PROVE Bucket!ARenew
  OBVIOUS
<1>1. Levels' = [k \in Client |-> Burst]
  BY DEF Renew, Levels, Level
<1>2. Phases' = [s \in Slot |-> "idle"]
  BY DEF Renew, Phases, Phase
<1>3. QED
  BY <1>1, <1>2 DEF Bucket!ARenew, Renew, Levels, Phases

LEMMA ArriveRefines ==
  ASSUME LInv, NEW s \in Slot, NEW k \in Client, Arrive(s, k)
  PROVE  Bucket!AArrive(s, k)
<1>1. Levels' = Levels
  BY SameLevels DEF Arrive
<1>2. Phases[s] = "idle" /\ Phases' = [Phases EXCEPT ![s] = "wait"]
  BY DEF Arrive, Phases, Phase, LInv, LimiterTypeOK
<1>3. QED
  BY <1>1, <1>2 DEF Bucket!AArrive, Arrive, Levels, Phases

LEMMA LeaveRefines ==
  ASSUME LInv, NEW s \in Slot, Leave(s)
  PROVE  Bucket!ALeave(s)
<1>1. Levels' = Levels
  BY SameLevels DEF Leave
<1>2. Phases[s] \in {"pass", "limit"} /\ Phases' = [Phases EXCEPT ![s] = "idle"]
  BY DEF Leave, Phases, Phase, LInv, LimiterTypeOK
<1>3. QED
  BY <1>1, <1>2 DEF Bucket!ALeave, Leave, Levels, Phases

(* Steps the promise does not see.                                         *)
LEMMA WithinRefines ==
  ASSUME LInv, NEW s \in Slot, Lookup(s) \/ Insert(s) \/ Stamp(s)
  PROVE  UNCHANGED <<Levels, Phases, who, lost, life>>
<1>1. UNCHANGED <<who, lost, life>>
  BY DEF Lookup, Insert, Stamp
<1>2. Phases' = Phases
  BY DEF Lookup, Insert, Stamp, Phases, Phase, LInv, LimiterTypeOK
<1>3. CASE Lookup(s)
  <2>1. Levels' = Levels
    BY <1>3, SameLevels DEF Lookup
  <2>2. QED
    BY <1>1, <1>2, <2>1
<1>4. CASE Insert(s)
  <2>1. CASE who[s] \in Known
    <3>1. Levels' = Levels
      BY <1>4, <2>1, SameLevels DEF Insert
    <3>2. QED
      BY <1>1, <1>2, <3>1
  <2>2. CASE who[s] \notin Known
    <3>1. AddVisitor(s)
      BY <1>4, <2>2 DEF Insert
    <3>2. ASSUME NEW k \in Client
          PROVE  Level(k)' = Level(k)
      <4>1. CASE k = who[s]
        <5>1. Level(k) = Burst
          BY <2>2, <4>1 DEF Level, Known, LInv, LimiterTypeOK
        <5>2. table'[k] # None /\ heap'[table'[k]] = NewVisitor
          BY <2>2, <3>1, <4>1, AddFacts
        <5>3. Refilled(NewVisitor) = Burst
          BY NewObject, RefillNothing DEF NewVisitor
        <5>4. QED
          BY <5>1, <5>2, <5>3 DEF Level, Refilled
      <4>2. CASE k # who[s]
        <5>1. table'[k] = table[k]
          BY <3>1, <4>2 DEF AddVisitor, LInv, LimiterTypeOK
        <5>2. CASE table[k] = None
          BY <5>1, <5>2 DEF Level
        <5>3. CASE table[k] # None
          <6>1. k \in Known /\ table[k] \in Visitor
            BY <5>3 DEF Known, LInv, LimiterTypeOK
          <6>2. heap'[table[k]] = heap[table[k]]
            BY <2>2, <3>1, <6>1, AddFacts
          <6>3. QED
            BY <5>1, <6>2 DEF Level, Refilled
        <5>4. QED
          BY <5>2, <5>3
      <4>3. QED
        BY <4>1, <4>2
    <3>3. Levels' = Levels
      BY <3>2 DEF Levels
    <3>4. QED
      BY <1>1, <1>2, <3>3
  <2>3. QED
    BY <2>1, <2>2
<1>5. CASE Stamp(s)
  <2>1. held[s] \in Visitor
    BY <1>5 DEF Stamp, Holding, LInv, HeldOnes
  <2>2. ASSUME NEW v \in Visitor
        PROVE  Refilled(heap'[v]) = Refilled(heap[v])
    <3>1. heap'[v].tokens = heap[v].tokens /\ heap'[v].since = heap[v].since
      BY <1>5, <2>1, HeapObject DEF Stamp, LInv, LimiterTypeOK
    <3>2. QED
      BY <3>1 DEF Refilled
  <2>3. \A k \in Client : Level(k)' = Level(k)
    BY <1>5, <2>2 DEF Stamp, Level, Refilled, LInv, LimiterTypeOK
  <2>4. Levels' = Levels
    BY <2>3 DEF Levels
  <2>5. QED
    BY <1>1, <1>2, <2>4
<1>6. QED
  BY <1>3, <1>4, <1>5

LEMMA TakeRefines ==
  ASSUME LInv, NEW s \in Slot, Take(s)
  PROVE  Bucket!APass(s) \/ Bucket!ARefuse(s) \/ Bucket!AStray(s)
<1> DEFINE v == held[s]
           R == Refilled(heap[v])
<1>1. UNCHANGED <<table, who, life>> /\ lost' = lost \ {s}
  BY DEF Take
<1>2. Phases[s] = "wait" /\ Phases' = [Phases EXCEPT ![s] = at'[s]]
        /\ at'[s] = (IF R >= 1 THEN "pass" ELSE "limit")
  <2>1. at[s] = "take" /\ at'[s] = (IF R >= 1 THEN "pass" ELSE "limit")
    BY TakeFacts DEF Take
  <2>2. \A t \in Slot \ {s} : at'[t] = at[t]
    BY TakeFacts
  <2>3. \A t \in Slot \ {s} : Phase(t)' = Phase(t)
    BY <2>2 DEF Phase
  <2>4. Phase(s)' = at'[s]
    BY <2>1 DEF Phase
  <2>5. QED
    BY <2>1, <2>3, <2>4 DEF Phases, Phase
<1>3. v \in Visitor /\ R \in 0..Burst
        /\ Refilled(heap'[v]) = (IF R >= 1 THEN R - 1 ELSE R)
        /\ \A u \in Visitor : u # v => heap'[u] = heap[u]
  BY TakeFacts
<1>4. \A k \in Client : table[k] # v => Level(k)' = Level(k)
  BY <1>1, <1>3 DEF Level, Refilled, LInv, LimiterTypeOK
<1>5. CASE s \in lost
  <2>1. \A k \in Client : table[k] # v
    BY <1>3, <1>5, TakeFacts DEF LInv, HeldOnes, Known
  <2>2. Levels' = Levels
    BY <1>4, <2>1 DEF Levels
  <2>3. at'[s] \in {"pass", "limit"}
    BY <1>2
  <2>4. Bucket!AStray(s)
    BY <1>1, <1>2, <1>5, <2>2, <2>3 DEF Bucket!AStray, Levels, Phases
  <2>5. QED
    BY <2>4
<1>6. CASE s \notin lost
  <2>1. PICK c \in Client : c = who[s]
    BY DEF LInv, LimiterTypeOK
  <2>2. table[c] = v /\ c \in Known
    BY <1>3, <1>6, <2>1, TakeFacts DEF LInv, HeldOnes, LimiterTypeOK, Known
  <2>3. PICK r \in 0..Burst : r = R
    BY <1>3
  <2>4. Level(c) = r /\ Level(c)' = (IF r >= 1 THEN r - 1 ELSE r)
    BY <1>1, <1>3, <2>2, <2>3 DEF Level, Refilled, Known
  <2>5. \A k \in Client \ {c} : Level(k)' = Level(k)
    BY <1>3, <1>4, <2>2 DEF LInv, Unshared, Known
  <2>6. lost' = lost
    BY <1>1, <1>6
  <2>7. Levels[c] = r /\ Levels' = [Levels EXCEPT ![c] = IF r >= 1 THEN r - 1 ELSE r]
    BY <2>4, <2>5 DEF Levels
  <2>8. CASE r >= 1
    <3>1. Levels' = [Levels EXCEPT ![c] = @ - 1]
      BY <2>7, <2>8
    <3>2. Bucket!APass(s)
      BY <1>1, <1>2, <1>6, <2>1, <2>3, <2>6, <2>7, <2>8, <3>1 DEF Bucket!APass, Levels, Phases
    <3>3. QED
      BY <3>2
  <2>9. CASE ~(r >= 1)
    <3>1. r = 0 /\ Levels' = Levels
      BY <2>3, <2>4, <2>5, <2>9 DEF Levels
    <3>2. Bucket!ARefuse(s)
      BY <1>1, <1>2, <1>6, <2>1, <2>3, <2>6, <2>7, <2>9, <3>1 DEF Bucket!ARefuse, Levels, Phases
    <3>3. QED
      BY <3>2
  <2>10. QED
    BY <2>8, <2>9
<1>7. QED
  BY <1>5, <1>6

LEMMA StepRefines == LInv /\ [LimiterNext]_lvars => [Bucket!ANext]_(Bucket!avars)
<1> SUFFICES ASSUME LInv, [LimiterNext]_lvars
             PROVE  Bucket!ANext \/ UNCHANGED <<Levels, Phases, who, lost, life>>
  BY DEF Bucket!avars, Levels, Phases
<1>1. CASE Tick
  BY <1>1, TickRefines DEF Bucket!ANext
<1>2. CASE Cleanup
  BY <1>2, CleanupRefines DEF Bucket!ANext
<1>3. CASE StopCleaner \/ CleanerEnds
  BY <1>3, SameLevels DEF StopCleaner, CleanerEnds, Phases, Phase
<1>4. CASE Renew
  BY <1>4, RenewRefines DEF Bucket!ANext
<1>5. ASSUME NEW s \in Slot, NEW k \in Client, Arrive(s, k)
      PROVE  Bucket!ANext
  BY <1>5, ArriveRefines DEF Bucket!ANext
<1>6. ASSUME NEW s \in Slot, Lookup(s) \/ Insert(s) \/ Stamp(s)
      PROVE  UNCHANGED <<Levels, Phases, who, lost, life>>
  BY <1>6, WithinRefines
<1>7. ASSUME NEW s \in Slot, Take(s)
      PROVE  Bucket!ANext
  BY <1>7, TakeRefines DEF Bucket!ANext
<1>8. ASSUME NEW s \in Slot, Leave(s)
      PROVE  Bucket!ANext
  BY <1>8, LeaveRefines DEF Bucket!ANext
<1>9. CASE UNCHANGED lvars
  BY <1>9, SameLevels DEF lvars, Phases, Phase
<1>10. QED
  BY <1>1, <1>2, <1>3, <1>4, <1>5, <1>6, <1>7, <1>8, <1>9 DEF LimiterNext

(* The table of shared visitors, the buckets refilled only when they are   *)
(* used and the goroutine that deletes visitors (rateLimiter.allow,        *)
(* tokenBucket.allow, cleanupVisitors) are one token bucket per client     *)
(* that is always there, for any number of clients and requests.           *)
THEOREM LimiterImplementsBucket == LimiterSpec => ImplementsBucket
<1>1. LInv /\ [LimiterNext]_lvars => [Bucket!ANext]_(Bucket!avars)
  BY StepRefines
<1>2. QED
  BY <1>1, InitRefines, LimiterInvariant, PTL DEF LimiterSpec, ImplementsBucket, Bucket!ASpec

-----------------------------------------------------------------------------
(* The server *)

\* The access list lets q through, if one stands before its listener.
Admitted(c, q) ==
  q.via = "tcp" /\ c.acl \in {"allow", "deny"} =>
    q.origin # "unreadable" /\ ((c.acl = "allow") = (q.origin = "listed"))

\* Call k is one that q may make.
Due(c, q, k) ==
  /\ c.auth => q.token
  /\ Admitted(c, q)
  /\ k \in Changes => q.verb # "GET"

\* The answer n is true of call k, which ended in r.
Told(k, r, late, n) ==
  /\ n \in {200, 201} => k = NoCall \/ r = "ok"
  /\ n = 202 => k = "trigger" /\ r = "ok"
  /\ n \in {400, 401, 403, 405, 429, 503} => k = NoCall
  /\ n = 500 => r \in {"missing", "error", "panic"}
  /\ n = Cut => late

Statuses == {Cut, 200, 201, 202, 400, 401, 403, 404, 405, 429, 500, 503}

\* What is known of the request q in a slot, at w on its way, under settings c.
SlotOK(c, w, q, k, r, late, n) ==
  /\ w \in Ways /\ late \in BOOLEAN /\ n \in Statuses
  /\ IF w = "free" THEN q = NoReq ELSE q \in Request[c.sends]
  /\ w \notin {"work", "answer"} => k = NoCall /\ ~late
  /\ w # "answer" => r = "none" /\ n = Cut
  /\ r # "none" => k # NoCall
  /\ w \in {"limit", "auth", "handle"} => Admitted(c, q)
  /\ w = "handle" => q.path = "health" \/ (c.auth => q.token)
  /\ w = "work" => k # NoCall
  /\ k # NoCall => Due(c, q, k)
  /\ w = "answer" => Told(k, r, late, n)

SlotInv(s) == SlotOK(conf, way[s], req[s], call[s], result[s], slow[s], status[s])

SlotTypes ==
  /\ way \in [Slot -> Ways] /\ slow \in [Slot -> BOOLEAN] /\ status \in [Slot -> Statuses]
  /\ DOMAIN req = Slot /\ DOMAIN call = Slot /\ DOMAIN result = Slot

RequestInv == SlotTypes /\ \A s \in Slot : SlotInv(s)

AfterTCP == {"close socket", "drain socket", "file", "stopped"}

\* The listeners: closed for good once Stop has come to them, and then nobody is
\* in flight whom no error was reported for.
ServerInv ==
  /\ conf \in Scenario
  /\ run \in {"boot", "tcp", "without", "serving", "manager", "manager only", "limiter",
              "close tcp", "drain tcp", "close socket", "drain socket", "file", "stopped", "exit"}
  /\ tcp \in {"off", "pending", "open", "failed", "closed"}
  /\ sock \in {"off", "pending", "open", "closed"}
  /\ file \in BOOLEAN /\ reloader \in BOOLEAN
  /\ ctx \in {"none", "live", "expired"} /\ errs \subseteq {"TCP", "socket"}
  /\ run = "boot" => sock = "off"
  /\ sock # "off" => conf.socket
  /\ sock \in {"pending", "open"} => file
  /\ run \in AfterTCP \cup {"drain tcp"} => tcp = "closed"
  /\ run \in {"drain socket", "file", "stopped"} => sock \in {"off", "closed"}
  /\ run = "stopped" /\ sock = "closed" => ~file

DrainInv ==
  /\ run \in AfterTCP /\ "TCP" \notin errs => InFlight("tcp") = {}
  /\ run \in {"file", "stopped"} /\ "socket" \notin errs => InFlight("socket") = {}

ApiInv == RequestInv /\ ServerInv /\ DrainInv

USE ApiAssumption

-----------------------------------------------------------------------------
(* Routing *)

\* What a route leads to is an answer of the handler's own, or a call that the
\* verb allows.
RouteOK(q, r) ==
  /\ r.call = NoCall => r.status \in {200, 400, 404, 405, 503}
  /\ r.call \in Changes => q.verb # "GET"

LEMMA RespondOK ==
  ASSUME NEW q, NEW n \in {200, 400, 404, 405, 503}
  PROVE  RouteOK(q, Respond(n)) /\ Respond(n).call = NoCall
BY DEF RouteOK, Respond, NoCall, Changes

LEMMA CallOK ==
  ASSUME NEW q, NEW k, k \in Changes => q.verb # "GET", k # NoCall
  PROVE  RouteOK(q, Call(k))
BY DEF RouteOK, Call

\* Calls that change nothing are allowed to everyone.
LEMMA LookOK ==
  ASSUME NEW q, NEW k, k \notin Changes, k # NoCall
  PROVE  RouteOK(q, Call(k))
BY CallOK DEF Changes

LEMMA NeedsOK ==
  ASSUME NEW q, NEW ok, NEW r, RouteOK(q, r)
  PROVE  RouteOK(q, Needs(ok, r))
BY RespondOK DEF Needs

LEMMA OnlyOK ==
  ASSUME NEW q, NEW v, NEW r, q.verb = v => RouteOK(q, r)
  PROVE  RouteOK(q, Only(v, q, r))
BY RespondOK DEF Only

LEMMA GetOK ==
  ASSUME NEW q
  PROVE  RouteOK(q, GetRoute(q))
<1>1. CASE q.action = ""
  BY <1>1, LookOK DEF GetRoute, Changes, NoCall
<1>2. CASE q.action \in {"logs", "schedule", "schedule/history"}
  BY <1>2, LookOK DEF GetRoute, Changes, NoCall
<1>3. CASE q.action \notin {"", "logs", "schedule", "schedule/history"}
  <2>1. GetRoute(q) = Respond(400)
    BY <1>3 DEF GetRoute
  <2>2. QED
    BY <2>1, RespondOK
<1>4. QED
  BY <1>1, <1>2, <1>3

LEMMA PostOK ==
  ASSUME NEW q, q.verb # "GET"
  PROVE  RouteOK(q, PostRoute(q))
<1>1. CASE q.action \in {"restart", "stop", "start"}
  BY <1>1, CallOK DEF PostRoute, NoCall
<1>2. CASE q.action = "scale"
  <2>1. RouteOK(q, ScaleRoute(q))
    <3>1. CASE q.body \in {"delta", "desired"}
      BY <3>1, CallOK DEF ScaleRoute, NoCall
    <3>2. CASE q.body \notin {"delta", "desired"}
      BY <3>2, RespondOK DEF ScaleRoute
    <3>3. QED
      BY <3>1, <3>2
  <2>2. QED
    BY <1>2, <2>1 DEF PostRoute
<1>3. CASE q.action \in {"schedule/pause", "schedule/resume"}
  BY <1>3, CallOK DEF PostRoute, NoCall
<1>4. CASE q.action = "schedule/trigger"
  <2>1. RouteOK(q, TriggerRoute(q))
    BY CallOK DEF TriggerRoute, NoCall
  <2>2. QED
    BY <1>4, <2>1 DEF PostRoute
<1>5. CASE q.action \notin {"restart", "stop", "start", "scale", "schedule/pause",
                            "schedule/resume", "schedule/trigger"}
  BY <1>5, RespondOK DEF PostRoute
<1>6. QED
  BY <1>1, <1>2, <1>3, <1>4, <1>5

LEMMA ProcessOK ==
  ASSUME NEW q, q.named \in BOOLEAN
  PROVE  RouteOK(q, ProcessRoute(q))
<1>1. CASE q.verb \notin {"GET", "POST", "PUT", "DELETE"}
  BY <1>1, RespondOK DEF ProcessRoute
<1>2. CASE q.verb \in {"GET", "POST", "PUT", "DELETE"} /\ ~q.named
  BY <1>2, RespondOK DEF ProcessRoute
<1>3. CASE q.verb = "GET" /\ q.named
  BY <1>3, GetOK DEF ProcessRoute
<1>4. CASE q.verb = "POST" /\ q.named
  BY <1>4, PostOK DEF ProcessRoute
<1>5. CASE q.verb = "PUT" /\ q.named
  <2>1. RouteOK(q, UpdateRoute(q))
    BY <1>5, CallOK, NeedsOK DEF UpdateRoute, NoCall
  <2>2. QED
    BY <1>5, <2>1 DEF ProcessRoute
<1>6. CASE q.verb = "DELETE" /\ q.named
  BY <1>6, CallOK DEF ProcessRoute, NoCall
<1>7. QED
  BY <1>1, <1>2, <1>3, <1>4, <1>5, <1>6

LEMMA ListOK ==
  ASSUME NEW q
  PROVE  RouteOK(q, ListRoute(q))
<1>1. CASE q.verb = "POST"
  <2>1. RouteOK(q, AddRoute(q))
    BY <1>1, CallOK, NeedsOK DEF AddRoute, NoCall
  <2>2. QED
    BY <1>1, <2>1 DEF ListRoute
<1>2. CASE q.verb # "POST"
  BY <1>2, LookOK, OnlyOK DEF ListRoute, Changes, NoCall
<1>3. QED
  BY <1>1, <1>2

LEMMA ConfigOK ==
  ASSUME NEW q
  PROVE  RouteOK(q, ConfigRoute(q))
<1>1. q.verb = "POST" => RouteOK(q, Call(IF q.path = "config/save" THEN "save" ELSE "reload"))
  BY CallOK DEF NoCall
<1>2. QED
  BY <1>1, OnlyOK DEF ConfigRoute

LEMMA MetricsOK ==
  ASSUME NEW q
  PROVE  RouteOK(q, MetricsRoute(q)) /\ RouteOK(q, OneshotRoute(q))
<1>1. RouteOK(q, Call("metrics")) /\ RouteOK(q, Call("oneshots")) /\ RouteOK(q, Respond(503))
  <2>1. RouteOK(q, Call("metrics")) /\ RouteOK(q, Call("oneshots"))
    BY LookOK DEF Changes, NoCall
  <2>2. QED
    BY <2>1, RespondOK
<1>2. RouteOK(q, Needs(q.body # "garbled", Call("metrics")))
      /\ RouteOK(q, Needs(q.body # "garbled", Call("oneshots")))
  BY <1>1, NeedsOK
<1>3. QED
  BY <1>1, <1>2, OnlyOK DEF MetricsRoute, OneshotRoute

\* Every route is right, and health calls nothing.
LEMMA RouteRight ==
  ASSUME NEW q, q.named \in BOOLEAN
  PROVE  /\ RouteOK(q, Route(q))
         /\ Route(q).call # NoCall => q.path # "health"
         /\ q.path = "elsewhere" => Route(q).status = 404
<1>1. CASE q.path = "health"
  <2>1. Route(q) \in {Respond(200), Respond(405)}
    BY <1>1 DEF Route, Only
  <2>2. QED
    BY <1>1, <2>1, RespondOK
<1>2. CASE q.path = "processes"
  BY <1>2, ListOK DEF Route
<1>3. CASE q.path = "process"
  BY <1>3, ProcessOK DEF Route
<1>4. CASE q.path = "logs"
  <2>1. RouteOK(q, Only("GET", q, Call("stack logs")))
    BY LookOK, OnlyOK DEF Changes, NoCall
  <2>2. QED
    BY <1>4, <2>1 DEF Route
<1>5. CASE q.path \in {"config/save", "config/reload"}
  BY <1>5, ConfigOK DEF Route
<1>6. CASE q.path \in {"metrics", "oneshot"}
  BY <1>6, MetricsOK DEF Route
<1>7. CASE q.path \notin {"health", "processes", "process", "logs", "config/save", "config/reload",
                          "metrics", "oneshot"}
  <2>1. Route(q) = Respond(404) /\ Respond(404).status = 404
    BY <1>7 DEF Route, Respond
  <2>2. QED
    BY <1>7, <2>1, RespondOK
<1>8. QED
  BY <1>1, <1>2, <1>3, <1>4, <1>5, <1>6, <1>7

\* The status of a call that has ended says how.
LEMMA StatusRight ==
  ASSUME NEW c, NEW r \in Results
  PROVE  /\ StatusOf(c, r) \in {200, 201, 202, 404, 500}
         /\ StatusOf(c, r) \in {200, 201} => r = "ok"
         /\ StatusOf(c, r) = 202 => c = "trigger" /\ r = "ok"
         /\ StatusOf(c, r) = 500 => r # "ok"
<1>1. CASE r = "ok"
  BY <1>1 DEF StatusOf
<1>2. CASE r = "panic"
  BY <1>2 DEF StatusOf
<1>3. CASE r \in {"missing", "error"}
  BY <1>3 DEF StatusOf
<1>4. QED
  BY <1>1, <1>2, <1>3 DEF Results

-----------------------------------------------------------------------------
(* A request on its way: each step changes one slot. *)

Others(s) ==
  \A t \in Slot \ {s} :
    /\ way'[t] = way[t] /\ req'[t] = req[t] /\ call'[t] = call[t]
    /\ result'[t] = result[t] /\ slow'[t] = slow[t] /\ status'[t] = status[t]

LEMMA OneSlot ==
  ASSUME RequestInv, NEW s \in Slot, conf' = conf, SlotTypes', Others(s),
         SlotOK(conf, way'[s], req'[s], call'[s], result'[s], slow'[s], status'[s])
  PROVE  RequestInv'
<1>1. ASSUME NEW t \in Slot
      PROVE  SlotInv(t)'
  <2>1. CASE t = s
    BY <2>1 DEF SlotInv
  <2>2. CASE t # s
    BY <2>2 DEF SlotInv, RequestInv, Others
  <2>3. QED
    BY <2>1, <2>2
<1>2. QED
  BY <1>1 DEF RequestInv

\* What is known of a request whose slot is in use.
LEMMA SlotKnown ==
  ASSUME RequestInv, conf \in Scenario, NEW s \in Slot
  PROVE  /\ SlotTypes
         /\ SlotOK(conf, way[s], req[s], call[s], result[s], slow[s], status[s])
         /\ way[s] # "free" =>
              /\ req[s] \in Request[conf.sends] /\ req[s].named \in BOOLEAN
              /\ req[s].key \in Client
<1>1. SlotTypes /\ SlotOK(conf, way[s], req[s], call[s], result[s], slow[s], status[s])
  BY DEF RequestInv, SlotInv
<1>2. way[s] # "free" => req[s] \in Request[conf.sends]
  BY <1>1 DEF SlotOK
<1>3. conf.sends \in DOMAIN Request
  OBVIOUS
<1>4. QED
  BY <1>1, <1>2, <1>3

LEMMA AcceptRight ==
  ASSUME RequestInv, conf \in Scenario, NEW s \in Slot, NEW q \in Request[conf.sends], Accept(s, q)
  PROVE  RequestInv'
<1>1. SlotTypes
  BY SlotKnown
<1>2. q.via \in {"tcp", "socket"}
  OBVIOUS
<1>3. PICK w \in {"acl", "limit"} :
        /\ way' = [way EXCEPT ![s] = w]
        /\ w = "limit" => ~(q.via = "tcp" /\ conf.acl \in {"allow", "deny"})
  BY DEF Accept, Goes
<1>4. /\ conf' = conf /\ SlotTypes' /\ Others(s)
  BY <1>1, <1>3 DEF Accept, svars, SlotTypes, Others, Ways, Statuses
<1>5. /\ way'[s] = w /\ req'[s] = q /\ call'[s] = NoCall /\ result'[s] = "none"
      /\ slow'[s] = FALSE /\ status'[s] = Cut
  BY <1>1, <1>3 DEF Accept, SlotTypes
<1>6. SlotOK(conf, w, q, NoCall, "none", FALSE, Cut)
  <2>1. w = "limit" => Admitted(conf, q)
    BY <1>3 DEF Admitted
  <2>2. w \in Ways /\ Cut \in Statuses /\ w \notin {"free", "work", "answer", "auth", "handle"}
    BY <1>3 DEF Ways, Statuses
  <2>3. QED
    BY <2>1, <2>2, <1>3 DEF SlotOK
<1>7. QED
  BY <1>4, <1>5, <1>6, OneSlot

\* A step that sends a request on changes nothing else of it.
LEMMA GoesOn ==
  ASSUME RequestInv, conf \in Scenario, NEW s \in Slot, NEW w \in {"limit", "auth", "handle"},
         way[s] \in {"acl", "limit", "auth", "handle"},
         Goes(s, w), UNCHANGED <<svars, req, call, result, slow, status>>,
         Admitted(conf, req[s]),
         w = "handle" => req[s].path = "health" \/ (conf.auth => req[s].token)
  PROVE  RequestInv'
<1>1. /\ SlotTypes
      /\ SlotOK(conf, way[s], req[s], call[s], result[s], slow[s], status[s])
  BY SlotKnown
<1>2. conf' = conf /\ SlotTypes' /\ Others(s)
  BY <1>1 DEF Goes, svars, SlotTypes, Others, Ways
<1>3. /\ way'[s] = w /\ req'[s] = req[s] /\ call'[s] = call[s] /\ result'[s] = result[s]
      /\ slow'[s] = slow[s] /\ status'[s] = status[s]
  BY <1>1 DEF Goes, SlotTypes
<1>4. SlotOK(conf, w, req[s], call[s], result[s], slow[s], status[s])
  BY <1>1 DEF SlotOK, Ways
<1>5. QED
  BY <1>2, <1>3, <1>4, OneSlot

\* The middleware answers without a call.
LEMMA AnsweredEarly ==
  ASSUME RequestInv, conf \in Scenario, NEW s \in Slot,
         way[s] \in {"acl", "limit", "auth", "handle"},
         NEW n \in {200, 400, 401, 403, 404, 405, 429, 503},
         Answers(s, n), UNCHANGED <<svars, req, call, result, slow>>
  PROVE  RequestInv'
<1>1. /\ SlotTypes
      /\ SlotOK(conf, way[s], req[s], call[s], result[s], slow[s], status[s])
  BY SlotKnown
<1>2. n \in Statuses /\ n # Cut /\ n # 500
  BY DEF Statuses, Cut
<1>3. conf' = conf /\ SlotTypes' /\ Others(s)
  BY <1>1, <1>2 DEF Answers, Goes, svars, SlotTypes, Others, Ways
<1>4. /\ way'[s] = "answer" /\ req'[s] = req[s] /\ call'[s] = call[s] /\ result'[s] = result[s]
      /\ slow'[s] = slow[s] /\ status'[s] = n
  BY <1>1 DEF Answers, Goes, SlotTypes
<1>5. call[s] = NoCall /\ result[s] = "none" /\ slow[s] \in BOOLEAN /\ req[s] \in Request[conf.sends]
  BY <1>1 DEF SlotOK
<1>6. Told(call[s], result[s], slow[s], n)
  BY <1>2, <1>5 DEF Told
<1>7. SlotOK(conf, "answer", req[s], call[s], result[s], slow[s], n)
  BY <1>2, <1>5, <1>6 DEF SlotOK, Ways
<1>8. QED
  BY <1>3, <1>4, <1>7, OneSlot

LEMMA AdmitRight ==
  ASSUME RequestInv, conf \in Scenario, NEW s \in Slot, Admit(s)
  PROVE  RequestInv'
<1>1. CASE req[s].origin # "unreadable" /\ IsAllowed(req[s]) /\ Goes(s, "limit") /\ UNCHANGED status
  <2>1. Admitted(conf, req[s])
    BY <1>1 DEF IsAllowed, Admitted
  <2>2. QED
    BY <1>1, <2>1, GoesOn DEF Admit
<1>2. CASE \E n \in {400, 403} : Answers(s, n)
  BY <1>2, AnsweredEarly DEF Admit
<1>3. QED
  BY <1>1, <1>2 DEF Admit

LEMMA HeedRight ==
  ASSUME RequestInv, conf \in Scenario, NEW s \in Slot, Heed(s)
  PROVE  RequestInv'
<1>1. Admitted(conf, req[s])
  BY SlotKnown DEF Heed, SlotOK
<1>2. CASE at[s] = "limit"
  BY <1>2, AnsweredEarly DEF Heed
<1>3. CASE at[s] # "limit"
  BY <1>1, <1>3, GoesOn DEF Heed
<1>4. QED
  BY <1>2, <1>3

LEMMA StrayRight ==
  ASSUME RequestInv, conf \in Scenario, NEW s \in Slot, Stray(s)
  PROVE  RequestInv'
<1>1. req[s].named \in BOOLEAN
  BY SlotKnown DEF Stray
<1>2. Route(req[s]).status = 404
  BY <1>1, RouteRight DEF Stray
<1>3. QED
  BY <1>2, AnsweredEarly DEF Stray

LEMMA AuthRight ==
  ASSUME RequestInv, conf \in Scenario, NEW s \in Slot, Auth(s)
  PROVE  RequestInv'
<1>1. Admitted(conf, req[s])
  BY SlotKnown DEF Auth, SlotOK
<1>2. CASE conf.auth /\ ~req[s].token
  BY <1>2, AnsweredEarly DEF Auth
<1>3. CASE ~(conf.auth /\ ~req[s].token)
  BY <1>1, <1>3, GoesOn DEF Auth
<1>4. QED
  BY <1>2, <1>3

LEMMA HandleRight ==
  ASSUME RequestInv, conf \in Scenario, NEW s \in Slot, Handle(s)
  PROVE  RequestInv'
<1>1. /\ SlotTypes
      /\ SlotOK(conf, way[s], req[s], call[s], result[s], slow[s], status[s])
      /\ req[s].named \in BOOLEAN
  BY SlotKnown DEF Handle
<1>2. PICK r : r = Route(req[s])
  OBVIOUS
<1>3. RouteOK(req[s], r) /\ (r.call # NoCall => req[s].path # "health")
  BY <1>1, <1>2, RouteRight
<1>4. CASE r.call = NoCall
  <2>1. r.status \in {200, 400, 404, 405, 503}
    BY <1>3, <1>4 DEF RouteOK
  <2>2. Answers(s, r.status) /\ UNCHANGED <<svars, req, call, result, slow>>
    BY <1>2, <1>4 DEF Handle
  <2>3. QED
    BY <2>1, <2>2, AnsweredEarly DEF Handle
<1>5. CASE r.call # NoCall
  <2>1. /\ Goes(s, "work") /\ call' = [call EXCEPT ![s] = r.call]
        /\ UNCHANGED <<svars, req, result, slow, status>>
    BY <1>2, <1>5 DEF Handle
  <2>2. conf' = conf /\ SlotTypes' /\ Others(s)
    BY <1>1, <2>1 DEF Goes, svars, SlotTypes, Others, Ways
  <2>3. /\ way'[s] = "work" /\ req'[s] = req[s] /\ call'[s] = r.call /\ result'[s] = result[s]
        /\ slow'[s] = slow[s] /\ status'[s] = status[s]
    BY <1>1, <2>1 DEF Goes, SlotTypes
  <2>4. Due(conf, req[s], r.call)
    BY <1>1, <1>3, <1>5 DEF Due, RouteOK, SlotOK, Handle
  <2>5. SlotOK(conf, "work", req[s], r.call, result[s], slow[s], status[s])
    BY <1>1, <1>5, <2>4 DEF SlotOK, Ways, Handle
  <2>6. QED
    BY <2>2, <2>3, <2>5, OneSlot
<1>6. QED
  BY <1>4, <1>5

LEMMA TimeoutRight ==
  ASSUME RequestInv, conf \in Scenario, NEW s \in Slot, WriteTimeout(s)
  PROVE  RequestInv'
<1>1. /\ SlotTypes
      /\ SlotOK(conf, way[s], req[s], call[s], result[s], slow[s], status[s])
  BY SlotKnown
<1>2. conf' = conf /\ SlotTypes' /\ Others(s)
  BY <1>1 DEF WriteTimeout, svars, SlotTypes, Others
<1>3. /\ way'[s] = "work" /\ req'[s] = req[s] /\ call'[s] = call[s] /\ result'[s] = result[s]
      /\ slow'[s] = TRUE /\ status'[s] = status[s]
  BY <1>1 DEF WriteTimeout, SlotTypes
<1>4. SlotOK(conf, "work", req[s], call[s], result[s], TRUE, status[s])
  BY <1>1 DEF SlotOK, WriteTimeout
<1>5. QED
  BY <1>2, <1>3, <1>4, OneSlot

LEMMA FinishRight ==
  ASSUME RequestInv, conf \in Scenario, NEW s \in Slot, NEW r \in Results, Finish(s, r)
  PROVE  RequestInv'
<1>1. /\ SlotTypes
      /\ SlotOK(conf, way[s], req[s], call[s], result[s], slow[s], status[s])
  BY SlotKnown
<1>2. PICK n : n = IF slow[s] THEN Cut ELSE StatusOf(call[s], r)
  OBVIOUS
<1>3. /\ call[s] # NoCall /\ slow[s] \in BOOLEAN /\ req[s] \in Request[conf.sends]
      /\ Due(conf, req[s], call[s])
  BY <1>1 DEF SlotOK, Finish
<1>4. r \in {"ok", "missing", "error", "panic"}
  BY DEF Results
<1>5. n \in Statuses /\ Told(call[s], r, slow[s], n)
  <2>1. CASE slow[s]
    BY <1>2, <2>1 DEF Told, Statuses, Cut
  <2>2. CASE ~slow[s]
    BY <1>2, <1>3, <1>4, <2>2, StatusRight DEF Told, Statuses, Cut
  <2>3. QED
    BY <2>1, <2>2
<1>6. /\ Answers(s, n) /\ result' = [result EXCEPT ![s] = r]
      /\ UNCHANGED <<svars, req, call, slow>>
  BY <1>2 DEF Finish
<1>7. conf' = conf /\ SlotTypes' /\ Others(s)
  BY <1>1, <1>5, <1>6 DEF Answers, Goes, svars, SlotTypes, Others, Ways
<1>8. /\ way'[s] = "answer" /\ req'[s] = req[s] /\ call'[s] = call[s] /\ result'[s] = r
      /\ slow'[s] = slow[s] /\ status'[s] = n
  BY <1>1, <1>6 DEF Answers, Goes, SlotTypes
<1>9. SlotOK(conf, "answer", req[s], call[s], r, slow[s], n)
  BY <1>3, <1>4, <1>5 DEF SlotOK, Ways
<1>10. QED
  BY <1>7, <1>8, <1>9, OneSlot

LEMMA DoneRight ==
  ASSUME RequestInv, conf \in Scenario, NEW s \in Slot, Done(s)
  PROVE  RequestInv'
<1>1. SlotTypes
  BY SlotKnown
<1>2. conf' = conf /\ SlotTypes' /\ Others(s)
  BY <1>1 DEF Done, Goes, svars, SlotTypes, Others, Ways, Statuses
<1>3. /\ way'[s] = "free" /\ req'[s] = NoReq /\ call'[s] = NoCall /\ result'[s] = "none"
      /\ slow'[s] = FALSE /\ status'[s] = Cut
  BY <1>1 DEF Done, Goes, SlotTypes
<1>4. SlotOK(conf, "free", NoReq, NoCall, "none", FALSE, Cut)
  BY DEF SlotOK, Ways, Statuses
<1>5. QED
  BY <1>2, <1>3, <1>4, OneSlot

-----------------------------------------------------------------------------
(* Requests and the server's life *)

\* While nobody comes, nobody new is in flight.
LEMMA DrainKept ==
  ASSUME DrainInv, UNCHANGED <<run, errs>>,
         \A t \in Slot : way'[t] # "free" => way[t] # "free" /\ req'[t] = req[t]
  PROVE  DrainInv'
<1>1. ASSUME NEW via, InFlight(via) = {}
      PROVE  InFlight(via)' = {}
  BY <1>1 DEF InFlight
<1>2. QED
  BY <1>1 DEF DrainInv

\* Who comes does so by a listener that is open, hence not after it was closed.
LEMMA DrainAccept ==
  ASSUME ApiInv, NEW s \in Slot, NEW q \in Request[conf.sends], Accept(s, q)
  PROVE  DrainInv'
<1>1. SlotTypes /\ conf \in Scenario
  BY DEF ApiInv, RequestInv, ServerInv
<1>2. q.via \in {"tcp", "socket"}
  BY <1>1
<1>3. run' = run /\ errs' = errs /\ req' = [req EXCEPT ![s] = q]
  BY DEF Accept, svars
<1>4. ASSUME NEW via, via # q.via, InFlight(via) = {}
      PROVE  InFlight(via)' = {}
  <2>1. \A t \in Slot : way'[t] # "free" /\ req'[t].via = via => t # s /\ way[t] # "free" /\ req[t].via = via
    BY <1>1, <1>3, <1>4 DEF Accept, Goes, SlotTypes
  <2>2. QED
    BY <1>4, <2>1 DEF InFlight
<1>5. CASE q.via = "tcp"
  <2>1. tcp = "open" /\ run \notin AfterTCP
    BY <1>5 DEF Accept, ApiInv, ServerInv
  <2>2. QED
    BY <1>3, <1>4, <1>5, <2>1 DEF DrainInv, ApiInv
<1>6. CASE q.via = "socket"
  <2>1. sock = "open" /\ run \notin {"file", "stopped"}
    BY <1>6 DEF Accept, ApiInv, ServerInv
  <2>2. QED
    BY <1>3, <1>4, <1>6, <2>1 DEF DrainInv, ApiInv
<1>7. QED
  BY <1>2, <1>5, <1>6

LEMMA ServerKept ==
  ASSUME ServerInv, UNCHANGED svars
  PROVE  ServerInv'
BY DEF ServerInv, svars

LEMMA RequestsKept ==
  ASSUME RequestInv, conf' = conf, UNCHANGED rvars
  PROVE  RequestInv'
BY DEF RequestInv, SlotInv, SlotTypes, rvars

\* A step of a request leaves the server alone.
LEMMA SlotStep ==
  ASSUME ApiInv, NEW s \in Slot,
         \/ \E q \in Request[conf.sends] : Accept(s, q)
         \/ Proceed(s) \/ WriteTimeout(s) \/ \E r \in Results : Finish(s, r)
  PROVE  ApiInv'
<1> USE DEF ApiInv
<1>1. conf \in Scenario /\ SlotTypes
  BY DEF ServerInv, RequestInv
<1>2. CASE \E q \in Request[conf.sends] : Accept(s, q)
  <2>1. PICK q \in Request[conf.sends] : Accept(s, q)
    BY <1>2
  <2>2. ServerInv'
    BY <2>1, ServerKept DEF Accept
  <2>3. QED
    BY <1>1, <2>1, <2>2, AcceptRight, DrainAccept
<1>3. CASE \/ (Lookup(s) \/ Insert(s) \/ Stamp(s) \/ Take(s)) /\ UNCHANGED <<svars, rvars>>
           \/ Ask(s)
  <2>1. UNCHANGED <<svars, rvars>>
    BY <1>3 DEF Ask
  <2>2. RequestInv' /\ ServerInv'
    BY <2>1, RequestsKept, ServerKept DEF svars
  <2>3. DrainInv'
    BY <2>1, DrainKept DEF svars, rvars
  <2>4. QED
    BY <2>2, <2>3
<1>4. CASE Admit(s) \/ Heed(s) \/ Stray(s) \/ Auth(s) \/ Handle(s) \/ WriteTimeout(s)
           \/ \E r \in Results : Finish(s, r)
  <2>1. RequestInv'
    BY <1>1, <1>4, AdmitRight, HeedRight, StrayRight, AuthRight, HandleRight, TimeoutRight, FinishRight
  <2>2. UNCHANGED svars /\ req' = req /\ way[s] # "free"
    BY <1>4 DEF Admit, Heed, Stray, Auth, Handle, WriteTimeout, Finish
  <2>3. \E w : way' = [way EXCEPT ![s] = w] \/ way' = way
    BY <1>4 DEF Admit, Heed, Stray, Auth, Handle, WriteTimeout, Finish, Answers, Goes
  <2>4. \A t \in Slot : way'[t] # "free" => way[t] # "free"
    BY <1>1, <2>2, <2>3 DEF SlotTypes
  <2>5. QED
    BY <2>1, <2>2, <2>4, ServerKept, DrainKept DEF svars
<1>5. CASE Done(s)
  <2>1. RequestInv' /\ UNCHANGED svars
    BY <1>1, <1>5, DoneRight DEF Done
  <2>2. \A t \in Slot : way'[t] # "free" => way[t] # "free" /\ req'[t] = req[t]
    BY <1>1, <1>5 DEF Done, Goes, SlotTypes
  <2>3. QED
    BY <2>1, <2>2, ServerKept, DrainKept DEF svars
<1>6. QED
  BY <1>2, <1>3, <1>4, <1>5 DEF Proceed

\* The server's own steps leave the requests alone.
LEMMA ServerStep ==
  ASSUME ApiInv,
         \/ StartSocket \/ StartTCP \/ Serve \/ ShutDownManager
         \/ Expire \/ ManagerDown \/ Stop \/ Exit
  PROVE  ApiInv'
<1>1. UNCHANGED <<conf, rvars>>
  BY DEF StartSocket, StartTCP, Serve, ServeTCP, ServeSocket, ShutDownManager, Expire,
         ManagerDown, Stop, StopLimiter, StopReloader, CloseTCP, DrainTCP, CloseSocket,
         DrainSocket, RemoveFile, Exit, svars
<1>2. RequestInv'
  BY <1>1, RequestsKept DEF ApiInv
<1>3. \A via : InFlight(via)' = InFlight(via)
  BY <1>1 DEF InFlight, rvars
<1>4. conf \in Scenario /\ conf.socket \in BOOLEAN
  BY DEF ApiInv, ServerInv
<1> USE DEF ApiInv
<1>5. CASE StartSocket
  <2>1. ServerInv'
    BY <1>1, <1>4, <1>5 DEF StartSocket, Stage, ServerInv, AfterTCP
  <2>2. QED
    BY <1>2, <1>5, <2>1 DEF StartSocket, Stage, DrainInv, AfterTCP
<1>6. CASE StartTCP
  <2>1. ServerInv'
    BY <1>1, <1>6 DEF StartTCP, ServerInv, AfterTCP
  <2>2. QED
    BY <1>2, <1>6, <2>1 DEF StartTCP, DrainInv, AfterTCP
<1>7. CASE Serve
  <2>1. ServerInv'
    BY <1>1, <1>7 DEF Serve, ServeTCP, ServeSocket, ServerInv, AfterTCP
  <2>2. run' = run /\ errs' = errs
    BY <1>7 DEF Serve, ServeTCP, ServeSocket
  <2>3. QED
    BY <1>2, <1>3, <2>1, <2>2 DEF DrainInv
<1>8. CASE ShutDownManager
  <2>1. ServerInv'
    BY <1>1, <1>8 DEF ShutDownManager, ServerInv, AfterTCP
  <2>2. QED
    BY <1>2, <1>8, <2>1 DEF ShutDownManager, DrainInv, AfterTCP
<1>9. CASE Expire
  <2>1. ServerInv'
    BY <1>1, <1>9 DEF Expire, ServerInv, AfterTCP
  <2>2. QED
    BY <1>2, <1>3, <1>9, <2>1 DEF Expire, DrainInv
<1>10. CASE ManagerDown
  <2>1. ServerInv'
    BY <1>1, <1>10 DEF ManagerDown, Stage, ServerInv, AfterTCP
  <2>2. QED
    BY <1>2, <1>10, <2>1 DEF ManagerDown, Stage, DrainInv, AfterTCP
<1>11. CASE StopLimiter \/ UNCHANGED svars
  <2>1. UNCHANGED svars
    BY <1>11 DEF StopLimiter
  <2>2. QED
    BY <1>2, <1>3, <2>1, ServerKept DEF DrainInv, svars
<1>12. CASE StopReloader
  <2>1. ServerInv'
    BY <1>1, <1>12 DEF StopReloader, Stage, ServerInv, AfterTCP
  <2>2. QED
    BY <1>2, <1>12, <2>1 DEF StopReloader, Stage, DrainInv, AfterTCP
<1>13. CASE CloseTCP
  <2>1. ServerInv'
    BY <1>1, <1>13 DEF CloseTCP, Stage, ServerInv, AfterTCP
  <2>2. QED
    BY <1>2, <1>13, <2>1 DEF CloseTCP, Stage, DrainInv, AfterTCP
<1>14. CASE DrainTCP
  <2>1. ServerInv'
    BY <1>1, <1>14 DEF DrainTCP, Drain, Stage, ServerInv, AfterTCP
  <2>2. "TCP" \notin errs' => InFlight("tcp") = {}
    BY <1>14 DEF DrainTCP, Drain, Drained
  <2>3. QED
    BY <1>2, <1>3, <1>14, <2>1, <2>2 DEF DrainTCP, Stage, DrainInv
<1>15. CASE CloseSocket
  <2>1. ServerInv'
    BY <1>1, <1>15 DEF CloseSocket, Stage, ServerInv, AfterTCP
  <2>2. QED
    BY <1>2, <1>3, <1>15, <2>1 DEF CloseSocket, Stage, DrainInv, AfterTCP
<1>16. CASE DrainSocket
  <2>1. ServerInv'
    BY <1>1, <1>16 DEF DrainSocket, Drain, Stage, ServerInv, AfterTCP
  <2>2. "socket" \notin errs' => InFlight("socket") = {}
    BY <1>16 DEF DrainSocket, Drain, Drained
  <2>3. "TCP" \notin errs' => "TCP" \notin errs
    BY <1>16 DEF DrainSocket, Drain
  <2>4. QED
    BY <1>2, <1>3, <1>16, <2>1, <2>2, <2>3 DEF DrainSocket, Stage, DrainInv, AfterTCP
<1>17. CASE RemoveFile
  <2>1. ServerInv'
    BY <1>1, <1>4, <1>17 DEF RemoveFile, Stage, ServerInv, AfterTCP
  <2>2. QED
    BY <1>2, <1>3, <1>17, <2>1 DEF RemoveFile, Stage, DrainInv, AfterTCP
<1>18. CASE Exit
  <2>1. ServerInv'
    BY <1>1, <1>18 DEF Exit, Stage, ServerInv, AfterTCP
  <2>2. QED
    BY <1>2, <1>18, <2>1 DEF Exit, Stage, DrainInv, AfterTCP
<1>19. CASE Stop
  <2>1. CASE CleanerEnds /\ UNCHANGED <<svars, rvars>>
    BY <1>11, <2>1
  <2>2. QED
    BY <1>11, <1>12, <1>13, <1>14, <1>15, <1>16, <1>17, <1>19, <2>1 DEF Stop
<1>20. QED
  BY <1>5, <1>6, <1>7, <1>8, <1>9, <1>10, <1>18, <1>19, Zenon

\* A new run of the program has no requests.
LEMMA FreshSlots ==
  ASSUME conf \in Scenario
  PROVE  SlotOK(conf, "free", NoReq, NoCall, "none", FALSE, Cut)
BY DEF SlotOK, Ways, Statuses

LEMMA RebootStep ==
  ASSUME ApiInv, Reboot
  PROVE  ApiInv'
<1>1. conf' = conf /\ conf \in Scenario
  BY DEF Reboot, ApiInv, ServerInv
<1>2. RequestInv'
  BY <1>1, FreshSlots DEF Reboot, RequestInv, SlotInv, SlotTypes, Ways, Statuses
<1>3. ServerInv'
  BY <1>1 DEF Reboot, Stage, ApiInv, ServerInv, AfterTCP
<1>4. QED
  BY <1>2, <1>3 DEF Reboot, Stage, ApiInv, DrainInv, AfterTCP

LEMMA ApiInitInv == ApiInit => ApiInv
<1> SUFFICES ASSUME ApiInit
             PROVE  ApiInv
  OBVIOUS
<1>1. conf \in Scenario /\ conf.socket \in BOOLEAN
  BY DEF ApiInit
<1>2. RequestInv
  BY <1>1, FreshSlots DEF ApiInit, RequestInv, SlotInv, SlotTypes, Ways, Statuses
<1>3. ServerInv
  BY <1>1 DEF ApiInit, ServerInv, AfterTCP
<1>4. QED
  BY <1>2, <1>3 DEF ApiInit, ApiInv, DrainInv, AfterTCP

LEMMA ApiStepInv == ApiInv /\ [ApiNext]_apivars => ApiInv'
<1> SUFFICES ASSUME ApiInv, [ApiNext]_apivars
             PROVE  ApiInv'
  OBVIOUS
<1>1. CASE UNCHANGED <<svars, rvars>>
  <2>1. RequestInv' /\ ServerInv' /\ DrainInv'
    BY <1>1, RequestsKept, ServerKept, DrainKept DEF svars, rvars, ApiInv
  <2>2. QED
    BY <2>1 DEF ApiInv
<1>2. CASE Reboot
  BY <1>2, RebootStep
<1>3. CASE \E s \in Slot :
             \/ \E q \in Request[conf.sends] : Accept(s, q)
             \/ Proceed(s) \/ WriteTimeout(s) \/ \E r \in Results : Finish(s, r)
  BY <1>3, SlotStep
<1>4. CASE StartSocket \/ StartTCP \/ Serve \/ ShutDownManager \/ Expire \/ ManagerDown \/ Stop \/ Exit
  BY <1>4, ServerStep
<1>5. QED
  BY <1>1, <1>2, <1>3, <1>4 DEF ApiNext, apivars

(* What is known of every request on its way, of the listeners, and of who *)
(* may still be in flight.                                                 *)
THEOREM ApiInvariant == ApiSpec => []ApiInv
<1>1. ApiInit => ApiInv
  BY ApiInitInv
<1>2. ApiInv /\ [ApiNext]_apivars => ApiInv'
  BY ApiStepInv
<1>3. QED
  BY <1>1, <1>2, PTL DEF ApiSpec

-----------------------------------------------------------------------------
(* The server and its limiter *)

\* Whatever the server does is to the limiter a step of its own, or none.
LEMMA LimiterSees ==
  ASSUME ApiInv, [ApiNext]_apivars
  PROVE  [LimiterNext]_lvars
<1>1. CASE UNCHANGED lvars
  BY <1>1
<1>2. CASE Tick \/ Cleanup \/ StopCleaner \/ CleanerEnds \/ Renew
  BY <1>2 DEF LimiterNext
<1>3. CASE \E s \in Slot : Lookup(s) \/ Insert(s) \/ Stamp(s) \/ Take(s) \/ Leave(s)
  BY <1>3 DEF LimiterNext
<1>4. CASE \E s \in Slot : Ask(s)
  <2>1. PICK s \in Slot : Ask(s)
    BY <1>4
  <2>2. way[s] # "free" /\ Arrive(s, req[s].key)
    BY <2>1 DEF Ask
  <2>3. req[s].key \in Client
    BY <2>2, SlotKnown DEF ApiInv, ServerInv
  <2>4. QED
    BY <2>2, <2>3 DEF LimiterNext
<1>5. CASE \E s \in Slot : Proceed(s)
  <2>1. PICK s \in Slot : Proceed(s)
    BY <1>5
  <2>2. CASE Admit(s) \/ Stray(s) \/ Auth(s) \/ Handle(s) \/ Done(s)
    BY <1>1, <2>2 DEF Admit, Stray, Auth, Handle, Done
  <2>3. CASE Ask(s)
    BY <1>4, <2>3
  <2>4. CASE Heed(s)
    BY <1>3, <2>4 DEF Heed
  <2>5. CASE Lookup(s) \/ Insert(s) \/ Stamp(s) \/ Take(s)
    BY <1>3, <2>5
  <2>6. QED
    BY <2>1, <2>2, <2>3, <2>4, <2>5 DEF Proceed
<1>6. CASE \E s \in Slot :
             \/ \E q \in Request[conf.sends] : Accept(s, q)
             \/ WriteTimeout(s) \/ \E r \in Results : Finish(s, r)
  BY <1>1, <1>6 DEF Accept, WriteTimeout, Finish
<1>7. CASE StartSocket \/ StartTCP \/ Serve \/ ShutDownManager \/ Expire \/ ManagerDown \/ Exit
  BY <1>1, <1>7 DEF StartSocket, StartTCP, Serve, ServeTCP, ServeSocket, ShutDownManager, Expire,
                    ManagerDown, Exit
<1>8. CASE Stop
  <2>1. CASE StopReloader \/ CloseTCP \/ DrainTCP \/ CloseSocket \/ DrainSocket \/ RemoveFile
    BY <1>1, <2>1 DEF StopReloader, CloseTCP, DrainTCP, CloseSocket, DrainSocket, RemoveFile
  <2>2. CASE StopLimiter \/ CleanerEnds
    BY <1>2, <2>2 DEF StopLimiter
  <2>3. QED
    BY <1>8, <2>1, <2>2 DEF Stop
<1>9. CASE Reboot
  BY <1>2, <1>9 DEF Reboot
<1>10. CASE UNCHANGED apivars
  BY <1>1, <1>10 DEF apivars
<1>11. QED
  BY <1>2, <1>5, <1>6, <1>7, <1>8, <1>9, <1>10 DEF ApiNext

(* Under the middleware, over stops and new starts, the limiter behaves as *)
(* RateLimiter says.                                                       *)
THEOREM ServerUsesLimiter == ApiSpec => LimiterSpec
<1>1. ApiInit => LimiterInit
  BY DEF ApiInit
<1>2. ApiInv /\ [ApiNext]_apivars => [LimiterNext]_lvars
  BY LimiterSees
<1>3. QED
  BY <1>1, <1>2, ApiInvariant, PTL DEF ApiSpec, LimiterSpec

(* Hence every client of the whole server sees a token bucket of its own.  *)
THEOREM ServerImplementsBucket == ApiSpec => ImplementsBucket
BY ServerUsesLimiter, LimiterImplementsBucket

-----------------------------------------------------------------------------
(* The properties of Api *)

LEMMA InvConsistent ==
  ASSUME ApiInv, LimiterTypeOK
  PROVE  ApiConsistent
<1>1. RequestInv /\ ServerInv
  BY DEF ApiInv
<1>2. conf \in Scenario /\ SlotTypes
  BY <1>1 DEF ServerInv, RequestInv
<1>3. \A s \in Slot : SlotOK(conf, way[s], req[s], call[s], result[s], slow[s], status[s])
  BY <1>1, SlotKnown DEF ServerInv
<1>4. \A s \in Slot : /\ (way[s] = "free") = (req[s] = NoReq)
                      /\ (result[s] # "none") => (call[s] # NoCall)
                      /\ (way[s] = "work") => call[s] # NoCall
  <2>1. \A q \in Request[conf.sends] : q.via # "none"
    BY <1>2
  <2>2. \A q \in Request[conf.sends] : q # NoReq
    BY <2>1 DEF NoReq
  <2>3. QED
    BY <1>3, <2>2 DEF SlotOK
<1>5. ApiTypeOK
  BY <1>1, <1>2, <1>4 DEF ApiTypeOK, ServerInv, SlotTypes, Statuses
<1>6. CallsAreDue
  <2>1. ASSUME NEW s \in Slot, call[s] # NoCall
        PROVE  Due(conf, req[s], call[s])
    BY <1>3, <2>1 DEF SlotOK
  <2>2. QED
    BY <2>1 DEF CallsAreDue, Due, Admitted, IsAllowed
<1>7. QED
  BY <1>5, <1>6 DEF ApiConsistent

(* Types, and: whatever is sent, by whichever listener and under whichever *)
(* settings, no call reaches the Manager that token, access list (if it    *)
(* could be parsed) and verb do not allow.                                 *)
THEOREM AlwaysConsistent == ApiSpec => []ApiConsistent
<1>1. ApiInv /\ LimiterTypeOK => ApiConsistent
  BY InvConsistent
<1>2. ApiSpec => []LimiterTypeOK
  BY ServerUsesLimiter, LimiterTypes
<1>3. QED
  BY <1>1, <1>2, ApiInvariant, PTL

(* An answer that reaches the client is true of the call that was made; of *)
(* a trigger, 202 says that it was taken.                                  *)
THEOREM AnswersAlwaysTell == ApiSpec => []AnswersTell
<1>1. ApiInv => AnswersTell
  <2>1. SUFFICES ASSUME ApiInv, NEW s \in Slot, way[s] = "answer"
                 PROVE  Told(call[s], result[s], slow[s], status[s])
    BY DEF AnswersTell, Told
  <2>2. QED
    BY <2>1, SlotKnown DEF ApiInv, ServerInv, SlotOK
<1>2. QED
  BY <1>1, ApiInvariant, PTL

(* A Stop without an error has waited for every request, and no socket     *)
(* file is left of a listener that was served.                             *)
THEOREM StopAlwaysClean == ApiSpec => []StopLeavesNothing
<1>1. ApiInv => StopLeavesNothing
  BY DEF ApiInv, ServerInv, DrainInv, AfterTCP, StopLeavesNothing, CleanStopDrains, FileFollowsSocket
<1>2. QED
  BY <1>1, ApiInvariant, PTL
=============================================================================
