----------------------------- MODULE TokenBucket -----------------------------
(***************************************************************************)
(* What rate limiting promises a client of the management API: a bucket    *)
(* of Burst tokens that is always there, refilled by Rate at every unit of *)
(* time, and one token for every request let through.  The one exception   *)
(* is named: while a client's bucket is full the limiter may lose track of *)
(* requests that are waiting for it, and those are let through or refused  *)
(* without touching the bucket.                                            *)
(***************************************************************************)
EXTENDS Integers

CONSTANTS Client, Slot, Burst, Rate

VARIABLES bucket, phase, who, strays, life

avars == <<bucket, phase, who, strays, life>>

Least(a, b) == IF a < b THEN a ELSE b

AInit ==
  /\ bucket = [k \in Client |-> Burst]
  /\ phase = [s \in Slot |-> "idle"]
  /\ who \in [Slot -> Client]
  /\ strays = {}
  /\ life = 0

(* A request of client k asks for a token.                                 *)
AArrive(s, k) ==
  /\ phase[s] = "idle"
  /\ phase' = [phase EXCEPT ![s] = "wait"]
  /\ who' = [who EXCEPT ![s] = k]
  /\ UNCHANGED <<bucket, strays, life>>

(* It takes one, or there is none.                                         *)
APass(s) ==
  /\ phase[s] = "wait" /\ s \notin strays /\ bucket[who[s]] >= 1
  /\ phase' = [phase EXCEPT ![s] = "pass"]
  /\ bucket' = [bucket EXCEPT ![who[s]] = @ - 1]
  /\ UNCHANGED <<who, strays, life>>

ARefuse(s) ==
  /\ phase[s] = "wait" /\ s \notin strays /\ bucket[who[s]] = 0
  /\ phase' = [phase EXCEPT ![s] = "limit"]
  /\ UNCHANGED <<bucket, who, strays, life>>

AStray(s) ==
  /\ phase[s] = "wait" /\ s \in strays
  /\ \E v \in {"pass", "limit"} : phase' = [phase EXCEPT ![s] = v]
  /\ strays' = strays \ {s}
  /\ UNCHANGED <<bucket, who, life>>

ALeave(s) ==
  /\ phase[s] \in {"pass", "limit"}
  /\ phase' = [phase EXCEPT ![s] = "idle"]
  /\ UNCHANGED <<bucket, who, strays, life>>

ATick ==
  /\ bucket' = [k \in Client |-> Least(Burst, bucket[k] + Rate)]
  /\ UNCHANGED <<phase, who, strays, life>>

ALose(S) ==
  /\ \A s \in S : phase[s] = "wait" /\ bucket[who[s]] = Burst
  /\ strays' = strays \cup S
  /\ UNCHANGED <<bucket, phase, who, life>>

(* The program is started again: its limiter knows no client.              *)
ARenew ==
  /\ bucket' = [k \in Client |-> Burst]
  /\ phase' = [s \in Slot |-> "idle"]
  /\ strays' = {}
  /\ life' = life + 1
  /\ UNCHANGED who

ANext ==
  \/ ATick \/ ARenew
  \/ \E S \in SUBSET Slot : ALose(S)
  \/ \E s \in Slot :
       \/ \E k \in Client : AArrive(s, k)
       \/ APass(s) \/ ARefuse(s) \/ AStray(s) \/ ALeave(s)

ASpec == AInit /\ [][ANext]_avars
=============================================================================
