----------------------------- MODULE RateLimiter -----------------------------
(***************************************************************************)
(* The rate limiter of the management API (internal/api/server.go): a      *)
(* table of visitors behind a read-write lock, a token bucket per visitor  *)
(* behind a lock of its own, and a goroutine that forgets the visitors     *)
(* nobody has seen for Idle units of time.                                 *)
(*                                                                         *)
(* A bucket is refilled only when it is used, from the time since its last *)
(* use: `since' and `seen' are those ages, counted up to Idle + 1 and no   *)
(* further.  The goroutine may run at any moment, not only at every        *)
(* cleanupInterval.  Time does not pass for a request that has stamped its *)
(* visitor and is about to take a token (Tick): the code needs it to do    *)
(* that within the ten minutes of Idle less the two seconds of a refill.   *)
(***************************************************************************)
EXTENDS Integers

CONSTANTS
  Client,     \* values of the key: X-Forwarded-For, X-Real-IP or RemoteAddr
  Slot,       \* requests in flight, one per slot
  Visitor,    \* addresses of visitor objects
  None,       \* no visitor: nil
  Burst, Rate,
  Idle        \* the age at which a visitor is forgotten: ten minutes

(* newRateLimiter(100, 200) and ten minutes: forgetting a visitor must not *)
(* give it more tokens than waiting would have.                            *)
ASSUME LimiterAssumption ==
  /\ Burst \in Nat \ {0} /\ Rate \in Nat /\ Idle \in Nat
  /\ Idle * Rate >= Burst
  /\ None \notin Visitor /\ Client # {}

VARIABLES
  table,      \* rateLimiter.visitors
  heap,       \* the visitor objects
  at,         \* where each request is in allow
  who,        \* the key it is counted under
  held,       \* its local variable v
  lost,       \* requests whose v was deleted from the table meanwhile
  cleaner,    \* the goroutine cleanupVisitors
  life        \* how often the program was started again

lvars == <<table, heap, at, who, held, lost, cleaner, life>>

Least(a, b) == IF a < b THEN a ELSE b

Steps == {"idle", "lookup", "insert", "stamp", "take", "pass", "limit"}

(* Requests past the table: they hold a visitor and not a lock.            *)
Holding(s) == at[s] \in {"stamp", "take"}

Known == {k \in Client : table[k] # None}

InUse == {table[k] : k \in Known} \cup {held[s] : s \in {t \in Slot : Holding(t)}}

Refilled(o) == Least(Burst, o.tokens + o.since * Rate)

NewVisitor == [tokens |-> Burst, since |-> 0, seen |-> 0]

LimiterInit ==
  /\ table = [k \in Client |-> None]
  /\ at = [s \in Slot |-> "idle"]
  /\ held = [s \in Slot |-> None]
  /\ lost = {}
  /\ cleaner = "on"
  /\ heap = [v \in Visitor |-> NewVisitor]
  /\ who = [s \in Slot |-> CHOOSE k \in Client : TRUE]
  /\ life = 0

-----------------------------------------------------------------------------
(* rateLimiter.allow, step by step                                         *)

Arrive(s, k) ==
  /\ at[s] = "idle"
  /\ at' = [at EXCEPT ![s] = "lookup"]
  /\ who' = [who EXCEPT ![s] = k]
  /\ UNCHANGED <<table, heap, held, lost, cleaner, life>>

(* Under the read lock.                                                    *)
Lookup(s) ==
  /\ at[s] = "lookup"
  /\ IF who[s] \in Known
     THEN /\ held' = [held EXCEPT ![s] = table[who[s]]]
          /\ at' = [at EXCEPT ![s] = "stamp"]
     ELSE /\ at' = [at EXCEPT ![s] = "insert"]
          /\ UNCHANGED held
  /\ UNCHANGED <<table, heap, who, lost, cleaner, life>>

(* An address nothing refers to.                                           *)
Unused == CHOOSE v \in Visitor : v \notin InUse

AddVisitor(s) ==
  /\ Visitor \ InUse # {}
  /\ heap' = [heap EXCEPT ![Unused] = NewVisitor]
  /\ table' = [table EXCEPT ![who[s]] = Unused]
  /\ held' = [held EXCEPT ![s] = Unused]

InsertBlind(s) ==
  /\ at[s] = "insert"
  /\ AddVisitor(s)
  /\ at' = [at EXCEPT ![s] = "stamp"]
  /\ UNCHANGED <<who, lost, cleaner, life>>

(* Under the write lock, which looks again.                                *)
Insert(s) ==
  /\ at[s] = "insert"
  /\ \/ /\ who[s] \in Known
        /\ held' = [held EXCEPT ![s] = table[who[s]]]
        /\ UNCHANGED <<table, heap>>
     \/ /\ who[s] \notin Known
        /\ AddVisitor(s)
  /\ at' = [at EXCEPT ![s] = "stamp"]
  /\ UNCHANGED <<who, lost, cleaner, life>>

(* v.lastSeen = time.Now(), under no lock.                                 *)
Stamp(s) ==
  /\ at[s] = "stamp"
  /\ heap' = [heap EXCEPT ![held[s]].seen = 0]
  /\ at' = [at EXCEPT ![s] = "take"]
  /\ UNCHANGED <<table, who, held, lost, cleaner, life>>

(* tokenBucket.allow, under the bucket's lock.                             *)
Take(s) ==
  /\ at[s] = "take"
  /\ LET o == heap[held[s]]
         enough == Refilled(o) >= 1
     IN /\ heap' = [heap EXCEPT ![held[s]] =
              [tokens |-> IF enough THEN Refilled(o) - 1 ELSE Refilled(o),
               since |-> 0, seen |-> o.seen]]
        /\ at' = [at EXCEPT ![s] = IF enough THEN "pass" ELSE "limit"]
  /\ lost' = lost \ {s}
  /\ held' = [held EXCEPT ![s] = None]
  /\ UNCHANGED <<table, who, cleaner, life>>

(* The caller has its answer.                                              *)
Leave(s) ==
  /\ at[s] \in {"pass", "limit"}
  /\ at' = [at EXCEPT ![s] = "idle"]
  /\ UNCHANGED <<table, heap, who, held, lost, cleaner, life>>

-----------------------------------------------------------------------------
(* The clock, the goroutine and the limiter's own life                     *)

Older(age) == IF age > Idle THEN age ELSE age + 1

Tick ==
  /\ \A s \in Slot : at[s] # "take"
  /\ heap' = [v \in Visitor |->
       IF v \in InUse THEN [heap[v] EXCEPT !.since = Older(@), !.seen = Older(@)]
                      ELSE NewVisitor]
  /\ UNCHANGED <<table, at, who, held, lost, cleaner, life>>

Stale == {k \in Known : heap[table[k]].seen > Idle}

ForgetAll(D) ==
  /\ cleaner # "off"
  /\ D # {}
  /\ table' = [k \in Client |-> IF k \in D THEN None ELSE table[k]]
  /\ lost' = lost \cup {s \in Slot : Holding(s) /\ held[s] \in {table[k] : k \in D}}
  /\ UNCHANGED <<heap, at, who, held, cleaner, life>>

(* One tick of cleanupVisitors; with nobody stale it changes nothing.      *)
Cleanup == ForgetAll(Stale)

(* stop: closes stopCh and waits.                                          *)
StopCleaner ==
  /\ cleaner = "on"
  /\ cleaner' = "ending"
  /\ UNCHANGED <<table, heap, at, who, held, lost, life>>

CleanerEnds ==
  /\ cleaner = "ending"
  /\ cleaner' = "off"
  /\ UNCHANGED <<table, heap, at, who, held, lost, life>>

(* The program is started again, with a limiter of its own.                *)
Renew ==
  /\ table' = [k \in Client |-> None]
  /\ at' = [s \in Slot |-> "idle"]
  /\ held' = [s \in Slot |-> None]
  /\ lost' = {}
  /\ cleaner' = "on"
  /\ life' = life + 1
  /\ UNCHANGED <<heap, who>>

LimiterNext ==
  \/ Tick \/ Cleanup \/ StopCleaner \/ CleanerEnds \/ Renew
  \/ \E s \in Slot :
       \/ \E k \in Client : Arrive(s, k)
       \/ Lookup(s) \/ Insert(s) \/ Stamp(s) \/ Take(s) \/ Leave(s)

LimiterSpec == LimiterInit /\ [][LimiterNext]_lvars

-----------------------------------------------------------------------------
(* Properties                                                              *)

LimiterTypeOK ==
  /\ table \in [Client -> Visitor \cup {None}]
  /\ heap \in [Visitor -> [tokens : 0..Burst, since : 0..(Idle + 1), seen : 0..(Idle + 1)]]
  /\ at \in [Slot -> Steps]
  /\ who \in [Slot -> Client]
  /\ held \in [Slot -> Visitor \cup {None}]
  /\ lost \subseteq Slot
  /\ cleaner \in {"on", "ending", "off"}
  /\ life \in Nat

(* What a client could take now: a client the table does not know would    *)
(* get a full bucket.                                                      *)
Level(k) == IF table[k] = None THEN Burst ELSE Refilled(heap[table[k]])

Phase(s) == IF at[s] \in {"lookup", "insert", "stamp", "take"} THEN "wait" ELSE at[s]

Bucket == INSTANCE TokenBucket WITH
  bucket <- [k \in Client |-> Level(k)],
  phase <- [s \in Slot |-> Phase(s)],
  strays <- lost

(* The lazily refilled, shared and garbage-collected buckets are one       *)
(* bucket per client that is always there: two first requests of a client  *)
(* that race for the table share one, a forgotten visitor had refilled,    *)
(* and nobody is refused with a token left.                                *)
ImplementsBucket == Bucket!ASpec
=============================================================================
