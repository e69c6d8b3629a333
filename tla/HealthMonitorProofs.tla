------------------------- MODULE HealthMonitorProofs -------------------------
(***************************************************************************)
(* Proofs about HealthMonitor: its types, that the two counters decide     *)
(* exactly on streaks of results, and that the handler acts on a verdict   *)
(* at most two checks old, for all thresholds and any number of instances. *)
(***************************************************************************)
EXTENDS HealthMonitor, SequenceTheorems, TLAPS

\* The last n elements of s are all r.
EndsIn(s, n, r) == Len(s) >= n /\ \A i \in 0..(n - 1) : s[Len(s) - i] = r

\* The element k places before the last one of s is v.
Ago(s, k, v) == Len(s) > k /\ s[Len(s) - k] = v

\* Each counter says how long the streak of its kind is, as far as it counts.
CountInv ==
  /\ EndsIn(recent, fails, "failure") /\ EndsIn(recent, successes, "success")
  /\ \A n \in 0..setting.failureThreshold : EndsIn(recent, n, "failure") => fails >= n
  /\ \A n \in 0..SuccessThreshold : EndsIn(recent, n, "success") => successes >= n

\* The statuses on their way from the prober to the handler are the latest
\* verdicts, in their order.
Sending == IF prober = "send" THEN 1 ELSE 0
PipeInv ==
  /\ prober = "send" => Ago(verdicts, 0, status)
  /\ ch # <<>> => Ago(verdicts, Sending, ch[1])
  /\ handler = "kill" => Ago(verdicts, Sending + Len(ch), "unhealthy")

HealthInv == TypeOK /\ CountInv /\ StreaksDecide /\ PipeInv

-----------------------------------------------------------------------------
(* Sequences *)

\* t is s with x appended and all but the last w elements dropped.
Follows(t, s, x, w) ==
  /\ Len(t) = (IF Len(s) < w THEN Len(s) + 1 ELSE w)
  /\ t[Len(t)] = x
  /\ \A i \in 1..(Len(t) - 1) : t[Len(t) - i] = s[Len(s) - i + 1]

LEMMA LastOfAppend ==
  ASSUME NEW S, NEW s \in Seq(S), NEW x \in S, NEW w \in Nat \ {0},
         NEW t, t = LastOf(w, Append(s, x))
  PROVE  t \in Seq(S) /\ Follows(t, s, x, w)
<1>0. PICK a : a = Append(s, x)
  OBVIOUS
<1>1. /\ a \in Seq(S) /\ Len(a) = Len(s) + 1 /\ Len(s) \in Nat
      /\ a[Len(s) + 1] = x /\ \A j \in 1..Len(s) : a[j] = s[j]
  BY <1>0, AppendProperties, LenProperties
<1>2. CASE Len(a) <= w
  <2>1. t = a
    BY <1>0, <1>1, <1>2 DEF LastOf
  <2>2. \A i \in 1..(Len(a) - 1) : Len(a) - i = Len(s) - i + 1 /\ Len(s) - i + 1 \in 1..Len(s)
    BY <1>1
  <2>3. QED
    BY <1>1, <1>2, <2>1, <2>2 DEF Follows
<1>3. CASE Len(a) > w
  <2>1. t = SubSeq(a, Len(a) - w + 1, Len(a))
    <3>1. LastOf(w, a) = SubSeq(a, Len(a) - w + 1, Len(a))
      BY <1>1, <1>3 DEF LastOf
    <3>2. QED
      BY <1>0, <3>1
  <2>2. /\ t \in Seq(S) /\ Len(t) = w
        /\ \A j \in 1..w : t[j] = a[Len(a) - w + j]
    <3>1. \A j \in (Len(a) - w + 1)..Len(a) : a[j] \in S
      BY <1>1, <1>3, ElementOfSeq
    <3>2. QED
      BY <1>1, <1>3, <2>1, <3>1, SubSeqProperties
  <2>3. \A i \in 1..(w - 1) : w - i \in 1..w /\ Len(a) - w + (w - i) = Len(s) - i + 1
                              /\ Len(s) - i + 1 \in 1..Len(s)
    BY <1>1, <1>3
  <2>4. \A i \in 1..(w - 1) : t[w - i] = s[Len(s) - i + 1]
    BY <1>1, <2>2, <2>3
  <2>5. t[w] = x
    BY <1>1, <2>2
  <2>6. QED
    BY <1>1, <1>3, <2>2, <2>4, <2>5 DEF Follows
<1>4. QED
  BY <1>1, <1>2, <1>3

\* A streak in the new sequence is one longer than the streak before, and of the
\* new element.
LEMMA StreakShrinks ==
  ASSUME NEW S, NEW s \in Seq(S), NEW t \in Seq(S), NEW x, NEW w \in Nat \ {0}, NEW r,
         NEW n \in Nat, Follows(t, s, x, w), EndsIn(t, n + 1, r)
  PROVE  r = x /\ EndsIn(s, n, r)
<1>1. Len(s) \in Nat /\ Len(t) \in Nat
  BY LenProperties
<1>2. Len(t) >= n + 1 /\ \A i \in 0..n : t[Len(t) - i] = r
  BY DEF EndsIn
<1>3. r = x
  <2>1. t[Len(t) - 0] = r /\ Len(t) - 0 = Len(t)
    BY <1>1, <1>2
  <2>2. QED
    BY <2>1 DEF Follows
<1>4. Len(s) >= n
  BY <1>1, <1>2 DEF Follows
<1>5. ASSUME NEW i \in 0..(n - 1)
      PROVE  s[Len(s) - i] = r
  <2>1. i + 1 \in 1..(Len(t) - 1) /\ i + 1 \in 0..n /\ Len(s) - (i + 1) + 1 = Len(s) - i
    BY <1>1, <1>2
  <2>2. t[Len(t) - (i + 1)] = r /\ t[Len(t) - (i + 1)] = s[Len(s) - (i + 1) + 1]
    BY <1>2, <2>1 DEF Follows
  <2>3. QED
    BY <2>1, <2>2
<1>6. QED
  BY <1>3, <1>4, <1>5 DEF EndsIn

LEMMA StreakGrows ==
  ASSUME NEW S, NEW s \in Seq(S), NEW t \in Seq(S), NEW x, NEW w \in Nat \ {0},
         NEW n \in Nat, n < w, Follows(t, s, x, w), EndsIn(s, n, x)
  PROVE  EndsIn(t, n + 1, x)
<1>1. Len(s) \in Nat /\ Len(t) \in Nat
  BY LenProperties
<1>2. Len(s) >= n /\ \A i \in 0..(n - 1) : s[Len(s) - i] = x
  BY DEF EndsIn
<1>3. Len(t) >= n + 1
  BY <1>1, <1>2 DEF Follows
<1>4. ASSUME NEW i \in 0..n
      PROVE  t[Len(t) - i] = x
  <2>1. CASE i = 0
    BY <1>1, <2>1 DEF Follows
  <2>2. CASE i # 0
    <3>1. i \in 1..(Len(t) - 1) /\ i - 1 \in 0..(n - 1) /\ Len(s) - (i - 1) = Len(s) - i + 1
      BY <1>1, <1>3, <2>2
    <3>2. s[Len(s) - (i - 1)] = x /\ t[Len(t) - i] = s[Len(s) - i + 1]
      BY <1>2, <3>1 DEF Follows
    <3>3. QED
      BY <3>1, <3>2
  <2>3. QED
    BY <2>1, <2>2
<1>5. \A i \in 0..((n + 1) - 1) : t[Len(t) - i] = x
  BY <1>4
<1>6. QED
  BY <1>3, <1>5 DEF EndsIn

\* The end of a streak is a streak.
LEMMA StreakEnd ==
  ASSUME NEW S, NEW s \in Seq(S), NEW r, NEW n \in Nat, NEW m \in Nat,
         m <= n, EndsIn(s, n, r)
  PROVE  EndsIn(s, m, r)
BY LenProperties DEF EndsIn

\* Nothing and everything: the empty streak is always there.
LEMMA NoStreak ==
  ASSUME NEW S, NEW s \in Seq(S), NEW r
  PROVE  EndsIn(s, 0, r)
BY LenProperties DEF EndsIn

\* A counter that is not 0 has a predecessor.
LEMMA Predecessor ==
  ASSUME NEW n \in Nat, NEW w \in Nat, n <= w, NEW c \in 0..n, NEW d \in 0..n, d > 0, d <= c + 1
  PROVE  \E k \in Nat : d = k + 1 /\ k <= c /\ k < w
<1>1. d - 1 \in Nat /\ d = (d - 1) + 1 /\ d - 1 <= c /\ d - 1 < w
  OBVIOUS
<1>2. QED
  BY <1>1

LEMMA ThresholdTypes ==
  ASSUME SettingsAssumption, setting \in Settings
  PROVE  /\ setting.failureThreshold \in Nat /\ SuccessThreshold \in Nat \ {0}
         /\ Window \in Nat \ {0}
         /\ setting.failureThreshold <= Window /\ SuccessThreshold <= Window
<1>1. setting.failureThreshold \in Nat /\ setting.successThreshold \in Nat
  BY DEF SettingsAssumption, Setting
<1>2. SuccessThreshold \in Nat \ {0}
  BY <1>1 DEF SuccessThreshold
<1>3. QED
  BY <1>1, <1>2 DEF Window

-----------------------------------------------------------------------------
(* One check *)

\* What CountInv, StreaksDecide and FlipsOnStreak need from a step with a check.
CountsRight ==
  /\ fails' \in 0..setting.failureThreshold /\ successes' \in 0..SuccessThreshold
  /\ healthy' \in BOOLEAN /\ status' \in Verdict
  /\ EndsIn(recent', fails', "failure") /\ EndsIn(recent', successes', "success")
  /\ \A n \in 0..setting.failureThreshold : EndsIn(recent', n, "failure") => fails' >= n
  /\ \A n \in 0..SuccessThreshold : EndsIn(recent', n, "success") => successes' >= n
  /\ setting.failureThreshold > 0 /\ EndsIn(recent', setting.failureThreshold, "failure") => ~healthy'
  /\ EndsIn(recent', SuccessThreshold, "success") => healthy'
  /\ healthy /\ ~healthy' => EndsIn(recent', setting.failureThreshold, "failure")
  /\ ~healthy /\ healthy' => EndsIn(recent', SuccessThreshold, "success")

LEMMA SuccessCounts ==
  ASSUME SettingsAssumption, TypeOK, CountInv, CheckSucceeds,
         recent' \in Seq(Results), Follows(recent', recent, "success", Window)
  PROVE  CountsRight
<1>1. /\ setting.failureThreshold \in Nat /\ SuccessThreshold \in Nat \ {0}
      /\ Window \in Nat \ {0} /\ SuccessThreshold <= Window
  BY ThresholdTypes DEF TypeOK
<1>2. /\ recent \in Seq(Results) /\ healthy \in BOOLEAN
      /\ successes \in 0..SuccessThreshold
  BY DEF TypeOK
<1>3. /\ fails' = 0
      /\ successes' = IF successes < SuccessThreshold THEN successes + 1 ELSE successes
      /\ healthy' = (healthy \/ successes + 1 >= SuccessThreshold) /\ status' = VerdictOf(healthy')
  BY DEF CheckSucceeds, Count
<1>4. successes' \in 1..SuccessThreshold /\ successes' <= successes + 1
  BY <1>1, <1>2, <1>3
<1>5. EndsIn(recent', successes', "success")
  <2>1. PICK k \in Nat : successes' = k + 1 /\ k <= successes /\ k < Window
    BY <1>1, <1>2, <1>4, Predecessor
  <2>2. EndsIn(recent, successes, "success") /\ successes \in Nat
    BY <1>1, <1>2 DEF CountInv
  <2>3. EndsIn(recent, k, "success")
    BY <1>2, <2>1, <2>2, StreakEnd
  <2>4. EndsIn(recent', k + 1, "success")
    BY <1>1, <1>2, <2>1, <2>3, StreakGrows
  <2>5. QED
    BY <2>1, <2>4
<1>6. ASSUME NEW n \in Nat \ {0}
      PROVE  ~EndsIn(recent', n, "failure")
  <2>1. PICK k \in Nat : n = k + 1
    <3>1. n - 1 \in Nat /\ n = (n - 1) + 1
      OBVIOUS
    <3>2. QED
      BY <3>1
  <2>2. CASE EndsIn(recent', k + 1, "failure")
    <3>1. "failure" = "success" /\ EndsIn(recent, k, "failure")
      BY <1>1, <1>2, <2>1, <2>2, StreakShrinks
    <3>2. QED
      BY <3>1
  <2>3. QED
    BY <2>1, <2>2
<1>7. ASSUME NEW n \in 1..SuccessThreshold, EndsIn(recent', n, "success")
      PROVE  successes >= n - 1
  <2>1. n - 1 \in Nat /\ (n - 1) + 1 = n /\ n - 1 \in 0..SuccessThreshold
    BY <1>1
  <2>2. EndsIn(recent, n - 1, "success")
    BY <1>1, <1>2, <1>7, <2>1, StreakShrinks
  <2>3. QED
    BY <2>1, <2>2 DEF CountInv
<1>8. EndsIn(recent', 0, "failure")
  BY NoStreak
<1>9. \A n \in 0..setting.failureThreshold : EndsIn(recent', n, "failure") => fails' >= n
  BY <1>1, <1>3, <1>6
<1>10. \A n \in 0..SuccessThreshold : EndsIn(recent', n, "success") => successes' >= n
  BY <1>1, <1>2, <1>3, <1>4, <1>7
<1>11. EndsIn(recent', SuccessThreshold, "success") => healthy'
  <2>1. SuccessThreshold \in 1..SuccessThreshold
    BY <1>1
  <2>2. EndsIn(recent', SuccessThreshold, "success") => successes >= SuccessThreshold - 1
    BY <1>7, <2>1
  <2>3. EndsIn(recent', SuccessThreshold, "success") => successes + 1 >= SuccessThreshold
    BY <1>1, <1>2, <2>2
  <2>4. QED
    BY <1>3, <2>3
<1>12. ~healthy /\ healthy' => EndsIn(recent', SuccessThreshold, "success")
  BY <1>1, <1>2, <1>3, <1>5
<1>13. ~(healthy /\ ~healthy')
  BY <1>3
<1>14. /\ fails' \in 0..setting.failureThreshold /\ successes' \in 0..SuccessThreshold
       /\ healthy' \in BOOLEAN /\ status' \in Verdict
  BY <1>1, <1>3, <1>4 DEF VerdictOf, Verdict
<1>15. setting.failureThreshold > 0 => ~EndsIn(recent', setting.failureThreshold, "failure")
  BY <1>1, <1>6
<1>16. QED
  BY <1>3, <1>5, <1>8, <1>9, <1>10, <1>11, <1>12, <1>13, <1>14, <1>15 DEF CountsRight

LEMMA FailureCounts ==
  ASSUME SettingsAssumption, TypeOK, CountInv, CheckFails,
         recent' \in Seq(Results), Follows(recent', recent, "failure", Window)
  PROVE  CountsRight
<1> DEFINE F == setting.failureThreshold
<1>1. /\ F \in Nat /\ SuccessThreshold \in Nat \ {0}
      /\ Window \in Nat \ {0} /\ F <= Window
  BY ThresholdTypes DEF TypeOK
<1>2. recent \in Seq(Results) /\ healthy \in BOOLEAN /\ fails \in 0..F
  BY DEF TypeOK
<1>3. /\ successes' = 0
      /\ fails' = IF fails < F THEN fails + 1 ELSE fails
      /\ healthy' = (healthy /\ ~(fails + 1 >= F)) /\ status' = VerdictOf(~(fails + 1 >= F))
  BY DEF CheckFails, Count
<1> HIDE DEF F
<1>4. fails' \in 0..F /\ (F > 0 => fails' > 0) /\ fails' <= fails + 1
  BY <1>1, <1>2, <1>3
<1>5. EndsIn(recent', fails', "failure")
  <2>1. CASE fails' = 0
    BY <2>1, NoStreak
  <2>2. CASE fails' > 0
    <3>1. PICK k \in Nat : fails' = k + 1 /\ k <= fails /\ k < Window
      BY <1>1, <1>2, <1>4, <2>2, Predecessor
    <3>2. EndsIn(recent, fails, "failure") /\ fails \in Nat
      BY <1>1, <1>2 DEF CountInv
    <3>3. EndsIn(recent, k, "failure")
      BY <1>2, <3>1, <3>2, StreakEnd
    <3>4. EndsIn(recent', k + 1, "failure")
      BY <1>1, <1>2, <3>1, <3>3, StreakGrows
    <3>5. QED
      BY <3>1, <3>4
  <2>3. QED
    BY <1>1, <1>4, <2>1, <2>2
<1>6. ASSUME NEW n \in Nat \ {0}
      PROVE  ~EndsIn(recent', n, "success")
  <2>1. PICK k \in Nat : n = k + 1
    <3>1. n - 1 \in Nat /\ n = (n - 1) + 1
      OBVIOUS
    <3>2. QED
      BY <3>1
  <2>2. CASE EndsIn(recent', k + 1, "success")
    <3>1. "success" = "failure" /\ EndsIn(recent, k, "success")
      BY <1>1, <1>2, <2>1, <2>2, StreakShrinks
    <3>2. QED
      BY <3>1
  <2>3. QED
    BY <2>1, <2>2
<1>7. ASSUME NEW n \in 1..F, EndsIn(recent', n, "failure")
      PROVE  fails >= n - 1
  <2>1. n - 1 \in Nat /\ (n - 1) + 1 = n /\ n - 1 \in 0..F
    BY <1>1
  <2>2. EndsIn(recent, n - 1, "failure")
    BY <1>1, <1>2, <1>7, <2>1, StreakShrinks
  <2>3. QED
    BY <2>1, <2>2 DEF CountInv, F
<1>8. EndsIn(recent', 0, "success")
  BY NoStreak
<1>9. \A n \in 0..F : EndsIn(recent', n, "failure") => fails' >= n
  BY <1>1, <1>2, <1>3, <1>4, <1>7
<1>10. \A n \in 0..SuccessThreshold : EndsIn(recent', n, "success") => successes' >= n
  BY <1>1, <1>3, <1>6
<1>11. F > 0 /\ EndsIn(recent', F, "failure") => ~healthy'
  <2>1. F > 0 => F \in 1..F
    BY <1>1
  <2>2. F > 0 /\ EndsIn(recent', F, "failure") => fails >= F - 1
    BY <1>7, <2>1
  <2>3. F > 0 /\ EndsIn(recent', F, "failure") => fails + 1 >= F
    BY <1>1, <1>2, <2>2
  <2>4. QED
    BY <1>3, <2>3
<1>12. healthy /\ ~healthy' => EndsIn(recent', F, "failure")
  <2>1. fails + 1 >= F => fails' = F
    BY <1>1, <1>2, <1>3
  <2>2. QED
    BY <1>3, <1>5, <2>1
<1>13. ~(~healthy /\ healthy')
  BY <1>3
<1>14. /\ fails' \in 0..F /\ successes' \in 0..SuccessThreshold
       /\ healthy' \in BOOLEAN /\ status' \in Verdict
  BY <1>1, <1>3, <1>4 DEF VerdictOf, Verdict
<1>15. ~EndsIn(recent', SuccessThreshold, "success")
  BY <1>1, <1>6
<1>16. QED
  BY <1>3, <1>5, <1>8, <1>9, <1>10, <1>11, <1>12, <1>13, <1>14, <1>15 DEF CountsRight, F

-----------------------------------------------------------------------------
(* The inductive invariant *)

\* A check leaves one of the two kinds of result at the end of recent, and its
\* verdict at the end of verdicts.
LEMMA CheckResult ==
  ASSUME SettingsAssumption, TypeOK, CountInv, Check
  PROVE  /\ CountsRight
         /\ recent' \in Seq(Results) /\ Len(recent') <= Window
         /\ verdicts' \in Seq(Verdict) /\ Len(verdicts') <= 3
         /\ Follows(verdicts', verdicts, status', 3)
<1>1. /\ recent \in Seq(Results) /\ Len(recent) <= Window /\ Len(recent) \in Nat
      /\ verdicts \in Seq(Verdict) /\ Len(verdicts) <= 3 /\ Len(verdicts) \in Nat
      /\ Window \in Nat \ {0}
  BY ThresholdTypes, LenProperties DEF TypeOK
<1>2. verdicts' = LastOf(3, Append(verdicts, status'))
  BY DEF Check
<1>3. CASE CheckSucceeds /\ recent' = LastOf(Window, Append(recent, "success"))
  <2>1. recent' \in Seq(Results) /\ Follows(recent', recent, "success", Window)
    BY <1>1, <1>3, LastOfAppend DEF Results
  <2>2. CountsRight
    BY <1>3, <2>1, SuccessCounts
  <2>3. QED
    <3>1. status' \in Verdict
      BY <2>2 DEF CountsRight
    <3>2. verdicts' \in Seq(Verdict) /\ Follows(verdicts', verdicts, status', 3)
      BY <1>1, <1>2, <3>1, LastOfAppend
    <3>3. Len(recent') <= Window /\ Len(verdicts') <= 3
      BY <1>1, <2>1, <3>2 DEF Follows
    <3>4. QED
      BY <2>1, <2>2, <3>2, <3>3
<1>4. CASE CheckFails /\ recent' = LastOf(Window, Append(recent, "failure"))
  <2>1. recent' \in Seq(Results) /\ Follows(recent', recent, "failure", Window)
    BY <1>1, <1>4, LastOfAppend DEF Results
  <2>2. CountsRight
    BY <1>4, <2>1, FailureCounts
  <2>3. QED
    <3>1. status' \in Verdict
      BY <2>2 DEF CountsRight
    <3>2. verdicts' \in Seq(Verdict) /\ Follows(verdicts', verdicts, status', 3)
      BY <1>1, <1>2, <3>1, LastOfAppend
    <3>3. Len(recent') <= Window /\ Len(verdicts') <= 3
      BY <1>1, <2>1, <3>2 DEF Follows
    <3>4. QED
      BY <2>1, <2>2, <3>2, <3>3
<1>5. QED
  BY <1>3, <1>4 DEF Check

LEMMA InitInv ==
  ASSUME SettingsAssumption, Init
  PROVE  HealthInv
<1>1. /\ setting.failureThreshold \in Nat /\ SuccessThreshold \in Nat \ {0}
      /\ Window \in Nat \ {0}
  BY ThresholdTypes DEF Init
<1>2. recent = <<>> /\ Len(recent) = 0 /\ \A S : recent \in Seq(S)
  BY EmptySeq DEF Init
<1>3. TypeOK
  <2>1. ch = <<>> /\ ch \in Seq(Verdict) /\ Len(ch) = 0 /\ verdicts \in Seq(Verdict) /\ Len(verdicts) = 0
    BY EmptySeq DEF Init
  <2>2. recent \in Seq(Results) /\ Len(recent) <= Window
    BY <1>1, <1>2
  <2>3. fails \in 0..setting.failureThreshold /\ successes \in 0..SuccessThreshold
    BY <1>1 DEF Init
  <2>4. healthy \in BOOLEAN /\ ready \in BOOLEAN
    BY DEF Init
  <2>5. /\ setting \in Settings /\ ctx = "live" /\ prober \in {"delay", "wait"} /\ status \in Verdict
        /\ handler = "recv" /\ victims \subseteq up /\ up \subseteq Slot /\ doomed \subseteq up
    BY DEF Init, Verdict
  <2>6. QED
    BY <2>1, <2>2, <2>3, <2>4, <2>5 DEF TypeOK
<1>4. \A n \in Nat : \A r : EndsIn(recent, n, r) => n = 0
  BY <1>2 DEF EndsIn
<1>5. CountInv
  <2>1. \A r : EndsIn(recent, 0, r)
    BY <1>2 DEF EndsIn
  <2>2. QED
    BY <1>1, <1>4, <2>1 DEF CountInv, Init
<1>6. StreaksDecide
  <2>1. \A n \in Nat : \A r : Streak(n, r) => n = 0
    BY <1>2 DEF Streak
  <2>2. QED
    BY <1>1, <2>1 DEF StreaksDecide
<1>7. PipeInv
  BY DEF Init, PipeInv
<1>8. QED
  BY <1>3, <1>5, <1>6, <1>7 DEF HealthInv

\* The other steps leave the counters alone ...
LEMMA CountersKept ==
  ASSUME CountInv, StreaksDecide, UNCHANGED <<setting, hmVars, recent>>
  PROVE  CountInv' /\ StreaksDecide'
BY DEF CountInv, StreaksDecide, Streak, EndsIn, hmVars, SuccessThreshold

LEMMA TypeStep ==
  ASSUME SettingsAssumption, TypeOK, CountInv, [Next]_vars
  PROVE  TypeOK'
<1>1. CASE Check
  <2>1. /\ CountsRight /\ UNCHANGED <<setting, ctx, ch, handler, victims, ready, instVars>>
        /\ prober' = "send" /\ recent' \in Seq(Results) /\ Len(recent') <= Window
        /\ verdicts' \in Seq(Verdict) /\ Len(verdicts') <= 3
    BY <1>1, CheckResult DEF Check
  <2>2. SuccessThreshold' = SuccessThreshold /\ Window' = Window
    BY <2>1 DEF SuccessThreshold, Window
  <2>3. QED
    BY <2>1, <2>2 DEF TypeOK, CountsRight, instVars
<1>2. CASE UNCHANGED <<setting, hmVars, histVars>> /\ (Send \/ Receive)
  <2>1. CASE Send
    <3>1. Append(ch, status) \in Seq(Verdict) /\ Len(Append(ch, status)) <= 1
      BY <2>1, AppendProperties, LenProperties DEF TypeOK, Send
    <3>2. QED
      BY <1>2, <2>1, <3>1 DEF TypeOK, Send, hmVars, histVars, instVars, SuccessThreshold, Window
  <2>2. CASE Receive
    <3>1. Tail(ch) \in Seq(Verdict) /\ Len(Tail(ch)) <= 1
      BY <2>2, HeadTailProperties, LenProperties DEF TypeOK, Receive
    <3>2. QED
      BY <1>2, <2>2, <3>1 DEF TypeOK, Receive, hmVars, histVars, instVars, SuccessThreshold, Window
  <2>3. QED
    BY <1>2, <2>1, <2>2
<1>3. CASE UNCHANGED vars
  BY <1>3 DEF TypeOK, vars, hmVars, histVars, instVars, SuccessThreshold, Window
<1>4. CASE DelayOver \/ ProberEnds \/ KillsDone \/ HandlerEnds \/ Cancel
  BY <1>4 DEF TypeOK, DelayOver, ProberEnds, KillsDone, HandlerEnds, Cancel,
     hmVars, histVars, instVars, SuccessThreshold, Window
<1>5. CASE (\E s \in Slot : Kill(s)) \/ Instance
  BY <1>5 DEF TypeOK, Kill, Instance, InstanceExits, InstanceRestarts,
     hmVars, histVars, instVars, SuccessThreshold, Window
<1>6. QED
  BY <1>1, <1>2, <1>3, <1>4, <1>5 DEF Next, Prober, Handler, Send, Receive

\* ... and what is on its way grows at one end and shrinks at the other.
LEMMA AgoStep ==
  ASSUME NEW S, NEW s \in Seq(S), NEW t \in Seq(S), NEW x, Follows(t, s, x, 3),
         NEW k \in 0..1, NEW v, Ago(s, k, v)
  PROVE  Ago(t, k + 1, v)
<1>1. Len(s) \in Nat /\ Len(t) \in Nat /\ Len(s) > k /\ s[Len(s) - k] = v
  BY LenProperties DEF Ago
<1>2. Len(t) > k + 1
  BY <1>1 DEF Follows
<1>3. k + 1 \in 1..(Len(t) - 1) /\ Len(s) - (k + 1) + 1 = Len(s) - k
  BY <1>1, <1>2
<1>4. t[Len(t) - (k + 1)] = s[Len(s) - (k + 1) + 1]
  BY <1>3 DEF Follows
<1>5. QED
  BY <1>1, <1>2, <1>3, <1>4 DEF Ago

LEMMA PipeStep ==
  ASSUME SettingsAssumption, TypeOK, CountInv, PipeInv, [Next]_vars
  PROVE  PipeInv'
<1>1. /\ verdicts \in Seq(Verdict) /\ ch \in Seq(Verdict) /\ Len(ch) \in 0..1
      /\ Len(verdicts) \in Nat
  <2>1. verdicts \in Seq(Verdict) /\ ch \in Seq(Verdict) /\ Len(ch) <= 1
    BY DEF TypeOK
  <2>2. Len(ch) \in Nat /\ Len(verdicts) \in Nat
    BY <2>1, LenProperties
  <2>3. \A n \in Nat : n <= 1 => n \in 0..1
    OBVIOUS
  <2>4. QED
    BY <2>1, <2>2, <2>3
<1>2. CASE Check
  <2>1. /\ prober = "wait" /\ prober' = "send" /\ ch' = ch /\ handler' = handler
        /\ verdicts' \in Seq(Verdict) /\ Follows(verdicts', verdicts, status', 3)
    BY <1>2, CheckResult DEF Check
  <2>2. Sending = 0 /\ Sending' = 1
    BY <2>1 DEF Sending
  <2>3. Ago(verdicts', 0, status')
    <3>1. PICK t \in Seq(Verdict) : t = verdicts'
      BY <2>1
    <3>2. Follows(t, verdicts, status', 3) /\ Len(t) \in Nat
      BY <2>1, <3>1, LenProperties
    <3>3. Len(t) > 0 /\ Len(t) - 0 = Len(t)
      BY <1>1, <3>2 DEF Follows
    <3>4. QED
      BY <3>1, <3>2, <3>3 DEF Ago, Follows
  <2>4. ch # <<>> => Ago(verdicts', 1, ch[1])
    <3>1. ch # <<>> => Ago(verdicts, 0, ch[1])
      BY <2>2 DEF PipeInv
    <3>2. ch # <<>> => Ago(verdicts', 0 + 1, ch[1])
      BY <1>1, <2>1, <3>1, AgoStep
    <3>3. QED
      BY <3>2
  <2>5. handler = "kill" => Ago(verdicts', 1 + Len(ch), "unhealthy")
    <3>1. PICK k \in 0..1 : k = Len(ch)
      BY <1>1
    <3>2. handler = "kill" => Ago(verdicts, k, "unhealthy")
      BY <2>2, <3>1 DEF PipeInv
    <3>3. handler = "kill" => Ago(verdicts', k + 1, "unhealthy")
      BY <1>1, <2>1, <3>2, AgoStep
    <3>4. k + 1 = 1 + Len(ch)
      BY <3>1
    <3>5. QED
      BY <3>3, <3>4
  <2>6. QED
    BY <2>1, <2>2, <2>3, <2>4, <2>5 DEF PipeInv
<1>3. CASE Send
  <2>1. ch = <<>> /\ Len(ch) = 0
    BY <1>1, <1>3, EmptySeq DEF Send
  <2>2. ch' = Append(ch, status) /\ Len(ch') = 1 /\ ch'[1] = status
    BY <1>1, <1>3, <2>1, AppendProperties DEF Send, TypeOK
  <2>3. Sending = 1 /\ Sending' = 0 /\ UNCHANGED <<verdicts, handler>> /\ prober' # "send"
    BY <1>3 DEF Send, Sending, histVars
  <2>4. QED
    BY <1>3, <2>1, <2>2, <2>3 DEF PipeInv, Send
<1>4. CASE Receive
  <2>1. ch # <<>> /\ Head(ch) = ch[1] /\ ch[1] \in Verdict /\ Len(ch) = 1
    BY <1>1, <1>4, EmptySeq, HeadTailProperties DEF Receive
  <2>2. ch' = <<>> /\ Len(ch') = 0
    BY <1>1, <1>4, <2>1, HeadTailProperties, EmptySeq DEF Receive
  <2>3. Ago(verdicts, Sending, ch[1]) /\ Sending' = Sending /\ Sending \in 0..1
    BY <1>4, <2>1 DEF PipeInv, Receive, Sending
  <2>4. /\ UNCHANGED <<verdicts, prober, status>> /\ handler \in {"recv"}
        /\ handler' = "kill" => ch[1] = "unhealthy"
    BY <1>4, <2>1 DEF Receive, histVars, Verdict
  <2>5. QED
    BY <1>4, <2>2, <2>3, <2>4 DEF PipeInv
<1>5. CASE UNCHANGED <<prober, status, ch, handler, verdicts>>
  BY <1>5 DEF PipeInv, Sending
<1>6. CASE DelayOver \/ ProberEnds \/ KillsDone \/ HandlerEnds
  BY <1>6 DEF PipeInv, Sending, DelayOver, ProberEnds, KillsDone, HandlerEnds, histVars
<1>7. QED
  BY <1>2, <1>3, <1>4, <1>5, <1>6
     DEF Next, vars, Prober, Handler, Instance, Kill, Cancel, InstanceExits, InstanceRestarts, histVars

LEMMA StepInv ==
  ASSUME SettingsAssumption, HealthInv, [Next]_vars
  PROVE  HealthInv'
<1>1. CASE Check
  <2>1. CountsRight /\ setting' = setting
    BY <1>1, CheckResult DEF HealthInv, Check
  <2>2. SuccessThreshold' = SuccessThreshold
    BY <2>1 DEF SuccessThreshold
  <2>3. CountInv'
    BY <2>1, <2>2 DEF CountInv, CountsRight
  <2>4. StreaksDecide'
    BY <2>1, <2>2 DEF StreaksDecide, Streak, EndsIn, CountsRight
  <2>5. QED
    BY <2>3, <2>4, TypeStep, PipeStep DEF HealthInv
<1>2. CASE ~Check
  <2>1. UNCHANGED <<setting, hmVars, recent>>
    BY <1>2 DEF Next, vars, Prober, Handler, Instance, DelayOver, Send, ProberEnds, Receive, Kill,
       KillsDone, HandlerEnds, InstanceExits, InstanceRestarts, Cancel, histVars
  <2>2. QED
    BY <2>1, CountersKept, TypeStep, PipeStep DEF HealthInv
<1>3. QED
  BY <1>1, <1>2

\* The counters of performCheck as streaks, and the verdicts on their way to the
\* handler as the latest ones.
THEOREM HealthInvariant == Spec => []HealthInv
<1>1. Init => HealthInv
  BY SettingsAssumption, InitInv
<1>2. HealthInv /\ [Next]_vars => HealthInv'
  BY SettingsAssumption, StepInv
<1>3. QED
  BY <1>1, <1>2, PTL DEF Spec

\* The monitor and the handler keep their types, for all settings and any number
\* of instances.
THEOREM HealthTypes == Spec => []TypeOK
<1>1. HealthInv => TypeOK
  BY DEF HealthInv
<1>2. QED
  BY <1>1, HealthInvariant, PTL

\* performCheck: a full streak of failures leaves the process unhealthy and a full
\* streak of successes leaves it healthy, for all thresholds.
THEOREM StreaksAlwaysDecide == Spec => []StreaksDecide
<1>1. HealthInv => StreaksDecide
  BY DEF HealthInv
<1>2. QED
  BY <1>1, HealthInvariant, PTL

\* performCheck: nothing but a full streak changes the verdict, for all thresholds.
THEOREM OnlyStreaksFlip == Spec => FlipsOnStreak
<1>1. HealthInv /\ [Next]_vars =>
        [/\ healthy /\ ~healthy' => Streak(setting.failureThreshold, "failure")'
         /\ ~healthy /\ healthy' => Streak(SuccessThreshold, "success")']_vars
  <2> SUFFICES ASSUME HealthInv, Next
               PROVE  /\ healthy /\ ~healthy' => Streak(setting.failureThreshold, "failure")'
                      /\ ~healthy /\ healthy' => Streak(SuccessThreshold, "success")'
    OBVIOUS
  <2>1. CASE Check
    <3>1. CountsRight /\ setting' = setting
      BY <2>1, SettingsAssumption, CheckResult DEF HealthInv, Check
    <3>2. SuccessThreshold' = SuccessThreshold
      BY <3>1 DEF SuccessThreshold
    <3>3. QED
      BY <3>1, <3>2 DEF CountsRight, Streak, EndsIn
  <2>2. CASE ~Check
    BY <2>2 DEF Next, Prober, Handler, Instance, DelayOver, Send, ProberEnds, Receive, Kill,
       KillsDone, HandlerEnds, InstanceExits, InstanceRestarts, Cancel, hmVars
  <2>3. QED
    BY <2>1, <2>2
<1>2. QED
  BY <1>1, HealthInvariant, PTL DEF Spec, FlipsOnStreak

\* handleHealthStatus never kills over a verdict that two later ones have replaced
\* twice over: an unhealthy one is among the latest three.
THEOREM VerdictStaysFresh == Spec => []VerdictIsFresh
<1>1. HealthInv => VerdictIsFresh
  <2> SUFFICES ASSUME HealthInv, handler = "kill"
               PROVE  \E i \in DOMAIN verdicts : verdicts[i] = "unhealthy"
    BY DEF VerdictIsFresh
  <2>1. PICK k : k = Sending + Len(ch) /\ Ago(verdicts, k, "unhealthy")
    BY DEF HealthInv, PipeInv
  <2>2. Len(ch) \in Nat /\ Sending \in Nat /\ Len(verdicts) \in Nat /\ verdicts \in Seq(Verdict)
    BY LenProperties DEF HealthInv, TypeOK, Sending
  <2>3. Len(verdicts) - k \in 1..Len(verdicts) /\ verdicts[Len(verdicts) - k] = "unhealthy"
    BY <2>1, <2>2 DEF Ago
  <2>4. DOMAIN verdicts = 1..Len(verdicts)
    BY <2>2, LenProperties
  <2>5. QED
    BY <2>3, <2>4
<1>2. QED
  BY <1>1, HealthInvariant, PTL
=============================================================================
