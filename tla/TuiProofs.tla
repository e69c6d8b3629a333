------------------------------ MODULE TuiProofs ------------------------------
(***************************************************************************)
(* Proofs about Tui: what the keys act on is what the screen shows, there  *)
(* is a way back from every view, and what the form submits is complete.   *)
(*                                                                         *)
(* Both hold because of one invariant, TuiInv.  Its parts: Shape says of   *)
(* the model which fields fit together, and every handler keeps it (Good); *)
(* Form, within it, says what a form must have by the step it is at; Items *)
(* says that every command and message on its way is right; and a timer    *)
(* runs while logs are in view.                                            *)
(*                                                                         *)
(* The three functions over texts are recursive: that they have the value  *)
(* they describe, and what it is like, is proved by induction over a set   *)
(* of numbers.                                                             *)
(***************************************************************************)
EXTENDS Tui, FiniteSetTheorems, SequenceTheorems, WellFoundedInduction, TLAPS

-----------------------------------------------------------------------------
(* Induction *)

(* Every non-empty set of naturals has a smallest member.                  *)
LEMMA LeastNat ==
  ASSUME NEW T, T \subseteq Nat, T # {}
  PROVE  \E x \in T : \A y \in T : ~(y < x)
<1>1. IsWellFoundedOn(OpToRel(<, Nat), Nat)
  BY NatLessThanWellFounded
<1>2. \A x, y \in Nat : <<y, x>> \in OpToRel(<, Nat) <=> y < x
  BY DEF OpToRel
<1>3. PICK R : IsWellFoundedOn(R, Nat) /\ \A x, y \in Nat : <<y, x>> \in R <=> y < x
  <2>. DEFINE R == OpToRel(<, Nat)
  <2>1. IsWellFoundedOn(R, Nat) /\ \A x, y \in Nat : <<y, x>> \in R <=> y < x
    BY <1>1, <1>2
  <2>. HIDE DEF R
  <2>. QED
    BY <2>1
<1>4. IsWellFoundedOn(R, Nat)
  BY <1>3
<1>5. \E x \in T : \A y \in T : ~(<<y, x>> \in R)
  BY <1>4, WFMin
<1>. QED
  BY <1>3, <1>5

(* Induction, as a fact about sets of numbers.                             *)
LEMMA SetInduction ==
  ASSUME NEW T \in SUBSET Nat, 0 \in T, \A n \in T : n + 1 \in T
  PROVE  T = Nat
<1>1. SUFFICES ASSUME Nat \ T # {} PROVE FALSE
  OBVIOUS
<1>2. PICK x \in Nat \ T : \A y \in Nat \ T : ~(y < x)
  BY <1>1, LeastNat
<1>3. x \in Nat /\ x # 0 /\ x - 1 \in Nat /\ x - 1 < x
  OBVIOUS
<1>4. x - 1 \in T
  BY <1>2, <1>3
<1>. QED
  BY <1>3, <1>4

-----------------------------------------------------------------------------
(* The three functions over texts *)

(* What the proofs need of sequences.                                      *)
LEMMA One ==
  ASSUME NEW X, NEW x \in X
  PROVE  <<x>> \in Seq(X)
OBVIOUS

(* The last and the rest of one that is not empty.                         *)
LEMMA Ends ==
  ASSUME NEW X, NEW t \in Seq(X), t # <<>>
  PROVE  Last(t) \in X /\ Front(t) \in Seq(X)
<1>1. PICK k \in Nat : k = Len(t) /\ k > 0
  BY LenProperties, EmptySeq
<1>2. Last(t) \in X
  BY <1>1, ElementOfSeq DEF Last
<1>3. \A j \in 1..(k - 1) : t[j] \in X
  BY <1>1, ElementOfSeq
<1>4. SubSeq(t, 1, k - 1) \in Seq(X)
  BY <1>3, SubSeqProperties
<1>. QED
  BY <1>1, <1>2, <1>4 DEF Front

(* One more.                                                               *)
LEMMA Longer ==
  ASSUME NEW X, NEW s \in Seq(X), NEW x \in X
  PROVE  Append(s, x) \in Seq(X) /\ Append(s, x) # <<>>
BY AppendProperties

(* Two together.                                                           *)
LEMMA Joined ==
  ASSUME NEW X, NEW s \in Seq(X), NEW t \in Seq(X)
  PROVE  s \o t \in Seq(X)
BY ConcatProperties

(* f is a function of i that is built from its value at i - 1.             *)
Builds(f, base, step, n) ==
  f = [i \in 0..n |-> IF i = 0 THEN base ELSE step[<<f[i - 1], i>>]]

(* Each value of g is in V when the one before is.                         *)
Inherits(g, V, n) == g[0] \in V /\ \A i \in 1..n : g[i - 1] \in V => g[i] \in V

(* A function of i that is built from its value at i - 1 exists, whatever  *)
(* the step does.                                                          *)
LEMMA Recursive ==
  ASSUME NEW V, NEW base \in V, NEW n \in Nat, NEW step \in [V \X (1..n) -> V]
  PROVE  \E f \in [0..n -> V] : Builds(f, base, step, n)
<1>. DEFINE Rec(f, k) == /\ f \in [0..k -> V] /\ f[0] = base
                         /\ \A i \in 1..k : f[i] = step[<<f[i - 1], i>>]
            Has(j) == \E f : Rec(f, j)
            T == {j \in Nat : j <= n => Has(j)}
<1>1. 0 \in T
  <2>. DEFINE f == [i \in 0..0 |-> base]
  <2>1. f \in [0..0 -> V] /\ f[0] = base /\ \A i \in 1..0 : FALSE
    OBVIOUS
  <2>. HIDE DEF f
  <2>2. Rec(f, 0)
    BY <2>1
  <2>. QED
    BY <2>2
<1>2. ASSUME NEW j \in T PROVE j + 1 \in T
  <2>0. j \in Nat /\ (j <= n => Has(j))
    <3>. HIDE DEF Has
    <3>. QED
      OBVIOUS
  <2>1. SUFFICES ASSUME j + 1 <= n PROVE Has(j + 1)
    <3>. HIDE DEF Has
    <3>. QED
      BY <2>0
  <2>2. PICK f : Rec(f, j)
    <3>1. Has(j)
      BY <2>0, <2>1
    <3>. QED
      BY ONLY <3>1
  <2>3. f[j] \in V /\ j + 1 \in 1..n
    BY <2>1, <2>2
  <2>4. PICK v \in V : v = step[<<f[j], j + 1>>]
    BY <2>3
  <2>. DEFINE g == [i \in 0..(j + 1) |-> IF i = j + 1 THEN v ELSE f[i]]
  <2>5. g \in [0..(j + 1) -> V]
    BY <2>2
  <2>6. g[0] = base /\ \A i \in 1..(j + 1) : g[i] = step[<<g[i - 1], i>>]
    <3>1. g[0] = base
      BY <2>2
    <3>2. ASSUME NEW i \in 1..(j + 1) PROVE g[i] = step[<<g[i - 1], i>>]
      <4>1. i - 1 \in 0..j /\ g[i - 1] = f[i - 1]
        OBVIOUS
      <4>2. CASE i = j + 1
        <5>1. g[i] = v /\ i - 1 = j
          BY <4>2
        <5>. HIDE DEF g
        <5>. QED
          BY <2>4, <4>1, <4>2, <5>1
      <4>3. CASE i # j + 1
        <5>1. g[i] = f[i] /\ i \in 1..j
          BY <4>3
        <5>. HIDE DEF g
        <5>. QED
          BY <2>2, <4>1, <5>1
      <4>. QED
        BY <4>2, <4>3
    <3>. QED
      BY <3>1, <3>2
  <2>7. Rec(g, j + 1)
    BY <2>5, <2>6
  <2>. QED
    BY <2>7
<1>3. T \in SUBSET Nat
  OBVIOUS
<1>. HIDE DEF T
<1>4. n \in T
  BY <1>1, <1>2, <1>3, SetInduction
<1>5. PICK f : Rec(f, n)
  <2>1. Has(n)
    <3>. HIDE DEF Has
    <3>. QED
      BY <1>4 DEF T
  <2>. QED
    BY <2>1
<1>6. f = [i \in 0..n |-> IF i = 0 THEN base ELSE step[<<f[i - 1], i>>]]
  BY <1>5
<1>. QED
  BY <1>5, <1>6 DEF Builds

(* What each value of a function inherits from the one before all have.    *)
LEMMA Inherited ==
  ASSUME NEW V, NEW n \in Nat, NEW g, Inherits(g, V, n)
  PROVE  \A i \in 0..n : g[i] \in V
<1>. DEFINE T == {j \in Nat : j <= n => g[j] \in V}
<1>1. 0 \in T
  BY DEF Inherits
<1>2. ASSUME NEW j \in T PROVE j + 1 \in T
  <2>1. SUFFICES ASSUME j + 1 <= n PROVE g[j + 1] \in V
    OBVIOUS
  <2>2. g[j] \in V /\ j + 1 \in 1..n /\ (j + 1) - 1 = j
    BY <2>1
  <2>. QED
    BY <2>2 DEF Inherits
<1>3. T \in SUBSET Nat
  OBVIOUS
<1>4. T = Nat
  <2>. HIDE DEF T
  <2>. QED
    BY <1>1, <1>2, <1>3, SetInduction
<1>. QED
  BY <1>4

(* fmt.Sscanf of digits gives a natural number.                            *)
LEMMA ScannedType ==
  ASSUME NEW ds \in Seq(Digit)
  PROVE  Scanned(ds) \in Nat
<1>1. PICK n \in Nat : n = Len(ds)
  BY LenProperties
<1>2. \A i \in 1..n : DigitValue[ds[i]] \in Nat
  <2>1. \A d \in Digit : DigitValue[d] \in Nat
    BY DEF Digit, DigitValue
  <2>. QED
    BY <1>1, <2>1, ElementOfSeq
<1>3. \E v : v = [i \in 0..n |-> IF i = 0 THEN 0 ELSE 10 * v[i - 1] + DigitValue[ds[i]]]
  <2>. DEFINE step == [p \in Nat \X (1..n) |-> 10 * p[1] + DigitValue[ds[p[2]]]]
  <2>1. step \in [Nat \X (1..n) -> Nat]
    BY <1>2
  <2>2. \A u \in Nat, i \in 1..n : step[<<u, i>>] = 10 * u + DigitValue[ds[i]]
    OBVIOUS
  <2>. HIDE DEF step
  <2>3. PICK f \in [0..n -> Nat] : Builds(f, 0, step, n)
    BY ONLY <2>1, n \in Nat, 0 \in Nat, Recursive
  <2>4. ASSUME NEW i \in 0..n, i # 0 PROVE step[<<f[i - 1], i>>] = 10 * f[i - 1] + DigitValue[ds[i]]
    <3>1. i - 1 \in 0..n /\ i \in 1..n
      BY <2>4
    <3>. QED
      BY <2>2, <3>1
  <2>5. f = [i \in 0..n |-> IF i = 0 THEN 0 ELSE 10 * f[i - 1] + DigitValue[ds[i]]]
    BY <2>3, <2>4 DEF Builds
  <2>. QED
    BY <2>5, Zenon
<1>. DEFINE v == CHOOSE v : v = [i \in 0..Len(ds) |-> IF i = 0 THEN 0 ELSE 10 * v[i - 1] + DigitValue[ds[i]]]
<1>4. v = [i \in 0..n |-> IF i = 0 THEN 0 ELSE 10 * v[i - 1] + DigitValue[ds[i]]]
  BY <1>1, <1>3
<1>5. Scanned(ds) = v[n]
  BY <1>1 DEF Scanned
<1>. HIDE DEF v
<1>6. v[0] \in Nat /\ \A i \in 1..n : v[i - 1] \in Nat => v[i] \in Nat
  BY <1>2, <1>4
<1>7. v[n] \in Nat
  <2>1. Inherits(v, Nat, n)
    BY ONLY <1>6 DEF Inherits
  <2>2. \A i \in 0..n : v[i] \in Nat
    BY ONLY <2>1, n \in Nat, Inherited
  <2>. QED
    BY <2>2
<1>. QED
  BY <1>5, <1>7

(* strings.Join gives a text.                                              *)
LEMMA JoinType ==
  ASSUME NEW args \in Seq(Seq(Char))
  PROVE  Join(args) \in Seq(Char)
<1>1. PICK n \in Nat : n = Len(args)
  BY LenProperties
<1>2. \A i \in 1..n : args[i] \in Seq(Char)
  BY <1>1, ElementOfSeq
<1>. DEFINE Word(t, i) == IF i = 1 THEN args[1] ELSE t \o <<" ">> \o args[i]
<1>3. ASSUME NEW t \in Seq(Char), NEW i \in 1..n PROVE Word(t, i) \in Seq(Char)
  <2>1. <<" ">> \in Seq(Char)
    <3>1. " " \in Char
      BY ONLY DEF Char
    <3>. QED
      BY ONLY <3>1, One
  <2>2. t \o <<" ">> \in Seq(Char)
    BY ONLY <2>1, t \in Seq(Char), Joined
  <2>3. args[i] \in Seq(Char)
    BY <1>2
  <2>4. (t \o <<" ">>) \o args[i] \in Seq(Char)
    BY ONLY <2>2, <2>3, Joined
  <2>. QED
    BY ONLY <2>3, <2>4
<1>. HIDE DEF Word
<1>4. \E j : j = [i \in 0..n |-> IF i = 0 THEN <<>> ELSE Word(j[i - 1], i)]
  <2>. DEFINE step == [p \in Seq(Char) \X (1..n) |-> Word(p[1], p[2])]
  <2>1. step \in [Seq(Char) \X (1..n) -> Seq(Char)]
    BY <1>3
  <2>2. \A u \in Seq(Char), i \in 1..n : step[<<u, i>>] = Word(u, i)
    OBVIOUS
  <2>. HIDE DEF step
  <2>3. PICK f \in [0..n -> Seq(Char)] : Builds(f, <<>>, step, n)
    <3>1. <<>> \in Seq(Char)
      OBVIOUS
    <3>. QED
      BY ONLY <2>1, <3>1, n \in Nat, Recursive
  <2>4. ASSUME NEW i \in 0..n, i # 0 PROVE step[<<f[i - 1], i>>] = Word(f[i - 1], i)
    <3>1. i - 1 \in 0..n /\ i \in 1..n
      BY <2>4
    <3>. QED
      BY <2>2, <3>1
  <2>5. f = [i \in 0..n |-> IF i = 0 THEN <<>> ELSE Word(f[i - 1], i)]
    BY <2>3, <2>4 DEF Builds
  <2>. QED
    BY <2>5, Zenon
<1>. DEFINE v == CHOOSE v : v = [i \in 0..Len(args) |->
                   IF i = 0 THEN <<>> ELSE IF i = 1 THEN args[1] ELSE v[i - 1] \o <<" ">> \o args[i]]
<1>5. v = [i \in 0..n |-> IF i = 0 THEN <<>> ELSE Word(v[i - 1], i)]
  BY <1>1, <1>4 DEF Word
<1>6. Join(args) = v[n]
  BY <1>1 DEF Join
<1>. HIDE DEF v
<1>7. Inherits(v, Seq(Char), n)
  <2>1. v[0] \in Seq(Char)
    BY ONLY <1>5, n \in Nat
  <2>2. ASSUME NEW i \in 1..n, v[i - 1] \in Seq(Char) PROVE v[i] \in Seq(Char)
    <3>1. v[i] = Word(v[i - 1], i)
      BY ONLY <1>5, n \in Nat, i \in 1..n
    <3>. QED
      BY ONLY <1>3, <2>2, <3>1, i \in 1..n
  <2>. QED
    BY ONLY <2>1, <2>2 DEF Inherits
<1>8. v[n] \in Seq(Char)
  <2>1. \A i \in 0..n : v[i] \in Seq(Char)
    BY ONLY <1>7, n \in Nat, Inherited
  <2>. QED
    BY ONLY <2>1, n \in Nat
<1>. QED
  BY <1>6, <1>8

(* strings.Fields of a text that is not blank gives at least one word.     *)
LEMMA FieldsSome ==
  ASSUME NEW line \in Seq(Char), \E i \in DOMAIN line : line[i] # " "
  PROVE  Fields(line) # <<>>
<1>1. PICK n \in Nat : n = Len(line)
  BY LenProperties
<1>2. \A i \in 1..n : line[i] \in Char
  BY <1>1, ElementOfSeq
<1>. DEFINE Word(t, i) ==
        IF line[i] = " " THEN t
        ELSE IF t = <<>> \/ line[i - 1] = " " THEN Append(t, <<line[i]>>)
        ELSE Append(Front(t), Append(Last(t), line[i]))
            W == Seq(Seq(Char))
<1>3. ASSUME NEW t \in W, NEW i \in 1..n
      PROVE  /\ Word(t, i) \in W
             /\ line[i] = " " => Word(t, i) = t
             /\ line[i] # " " => Word(t, i) # <<>>
  <2>1. CASE line[i] = " "
    BY <2>1
  <2>2. CASE line[i] # " " /\ (t = <<>> \/ line[i - 1] = " ")
    <3>1. Word(t, i) = Append(t, <<line[i]>>)
      BY ONLY <2>2
    <3>2. line[i] \in Char
      BY <1>2
    <3>3. <<line[i]>> \in Seq(Char)
      BY ONLY <3>2, One
    <3>4. Append(t, <<line[i]>>) \in W /\ Append(t, <<line[i]>>) # <<>>
      BY ONLY <3>3, t \in W, Longer
    <3>. QED
      BY ONLY <2>2, <3>1, <3>4
  <2>3. CASE line[i] # " " /\ ~(t = <<>> \/ line[i - 1] = " ")
    <3>1. Word(t, i) = Append(Front(t), Append(Last(t), line[i]))
      BY ONLY <2>3
    <3>2. Last(t) \in Seq(Char) /\ Front(t) \in W
      BY ONLY <2>3, t \in W, Ends
    <3>3. Append(Last(t), line[i]) \in Seq(Char)
      <4>1. line[i] \in Char
        BY <1>2
      <4>. QED
        BY ONLY <3>2, <4>1, Longer
    <3>4. /\ Append(Front(t), Append(Last(t), line[i])) \in W
          /\ Append(Front(t), Append(Last(t), line[i])) # <<>>
      BY ONLY <3>2, <3>3, Longer
    <3>. QED
      BY ONLY <2>3, <3>1, <3>4
  <2>. QED
    BY <2>1, <2>2, <2>3
<1>. HIDE DEF Word, W
<1>4. <<>> \in W
  BY ONLY DEF W
<1>5. \E j : j = [i \in 0..n |-> IF i = 0 THEN <<>> ELSE Word(j[i - 1], i)]
  <2>. DEFINE step == [p \in W \X (1..n) |-> Word(p[1], p[2])]
  <2>1. step \in [W \X (1..n) -> W]
    BY <1>3
  <2>2. \A u \in W, i \in 1..n : step[<<u, i>>] = Word(u, i)
    OBVIOUS
  <2>. HIDE DEF step
  <2>3. PICK f \in [0..n -> W] : Builds(f, <<>>, step, n)
    BY ONLY <1>4, <2>1, n \in Nat, Recursive
  <2>4. ASSUME NEW i \in 0..n, i # 0 PROVE step[<<f[i - 1], i>>] = Word(f[i - 1], i)
    <3>1. i - 1 \in 0..n /\ i \in 1..n
      BY ONLY <2>4, i \in 0..n, n \in Nat
    <3>2. f[i - 1] \in W
      BY ONLY <2>3, <3>1
    <3>. QED
      BY ONLY <2>2, <3>1, <3>2
  <2>5. f = [i \in 0..n |-> IF i = 0 THEN <<>> ELSE Word(f[i - 1], i)]
    BY <2>3, <2>4 DEF Builds
  <2>. QED
    BY <2>5, Zenon
<1>. DEFINE v == CHOOSE v : v = [i \in 0..Len(line) |->
                   IF i = 0 THEN <<>>
                   ELSE IF line[i] = " " THEN v[i - 1]
                   ELSE IF v[i - 1] = <<>> \/ line[i - 1] = " " THEN Append(v[i - 1], <<line[i]>>)
                   ELSE Append(Front(v[i - 1]), Append(Last(v[i - 1]), line[i]))]
<1>6. v = [i \in 0..n |-> IF i = 0 THEN <<>> ELSE Word(v[i - 1], i)]
  BY <1>1, <1>5 DEF Word
<1>7. Fields(line) = v[n]
  BY <1>1 DEF Fields
<1>. HIDE DEF v
<1>8. \A i \in 0..n : v[i] \in W
  <2>1. v[0] \in W /\ \A i \in 1..n : v[i - 1] \in W => v[i] \in W
    <3>1. v[0] \in W
      BY ONLY <1>4, <1>6, n \in Nat
    <3>2. ASSUME NEW i \in 1..n, v[i - 1] \in W PROVE v[i] \in W
      <4>1. v[i] = Word(v[i - 1], i)
        BY ONLY <1>6, n \in Nat, i \in 1..n
      <4>. QED
        BY ONLY <1>3, <3>2, <4>1, i \in 1..n
    <3>. QED
      BY ONLY <3>1, <3>2
  <2>2. Inherits(v, W, n)
    BY ONLY <2>1 DEF Inherits
  <2>. QED
    BY ONLY <2>2, n \in Nat, Inherited
<1>9. PICK k \in 1..n : line[k] # " "
  <2>1. DOMAIN line = 1..n
    BY <1>1, LenProperties
  <2>. QED
    BY ONLY <2>1, \E i \in DOMAIN line : line[i] # " "
<1>. DEFINE T == {j \in Nat : k + j <= n => v[k + j] # <<>>}
<1>10. 0 \in T
  <2>1. v[k] = Word(v[k - 1], k) /\ v[k - 1] \in W
    BY ONLY <1>6, <1>8, n \in Nat, k \in 1..n
  <2>2. v[k] # <<>>
    BY ONLY <1>3, <1>9, <2>1, k \in 1..n
  <2>3. k + 0 = k
    BY ONLY k \in 1..n, n \in Nat
  <2>. QED
    BY ONLY <2>2, <2>3
<1>11. ASSUME NEW j \in T PROVE j + 1 \in T
  <2>1. ASSUME k + (j + 1) <= n PROVE v[k + (j + 1)] # <<>>
    <3>1. PICK i \in 1..n : i = k + (j + 1) /\ i - 1 = k + j
      BY ONLY <2>1, n \in Nat, k \in 1..n, j \in T
    <3>2. v[i] = Word(v[i - 1], i) /\ v[i - 1] \in W
      BY ONLY <1>6, <1>8, n \in Nat, i \in 1..n
    <3>3. v[i - 1] # <<>>
      BY ONLY <3>1, j \in T, n \in Nat, k \in 1..n
    <3>4. v[i] # <<>>
      BY ONLY <1>3, <3>2, <3>3, i \in 1..n
    <3>. QED
      BY ONLY <3>1, <3>4
  <2>2. j + 1 \in Nat
    BY ONLY j \in T
  <2>. QED
    BY ONLY <2>1, <2>2
<1>12. T \in SUBSET Nat
  OBVIOUS
<1>13. T = Nat
  <2>. HIDE DEF T
  <2>. QED
    BY <1>10, <1>11, <1>12, SetInduction
<1>14. n - k \in T /\ k + (n - k) = n
  <2>1. n - k \in Nat /\ k + (n - k) = n
    BY ONLY n \in Nat, k \in 1..n
  <2>. QED
    BY ONLY <1>13, <2>1
<1>. QED
  BY ONLY <1>7, <1>14, n \in Nat

-----------------------------------------------------------------------------
(* The order of the rows *)

(* The members below n.                                                    *)
Before(S, n) == {o \in S : o < n}

(* Sets that can be sorted.                                                *)
Numbers(S) == S \subseteq Nat /\ IsFiniteSet(S)

(* Finitely many are before any number.                                    *)
LEMMA BeforeSize ==
  ASSUME NEW S, Numbers(S), NEW n
  PROVE  IsFiniteSet(Before(S, n)) /\ Cardinality(Before(S, n)) \in Nat
<1>1. Before(S, n) \in SUBSET S /\ IsFiniteSet(S)
  BY DEF Before, Numbers
<1>2. IsFiniteSet(Before(S, n))
  BY <1>1, FS_Subset
<1>. QED
  BY <1>2, FS_CardinalityType

(* The larger of two members has more before it.                           *)
LEMMA MoreBefore ==
  ASSUME NEW S, Numbers(S), NEW a \in S, NEW b \in S, a < b
  PROVE  Cardinality(Before(S, a)) < Cardinality(Before(S, b))
<1>1. a \in Nat /\ b \in Nat
  BY DEF Numbers
<1>2. Before(S, a) \in SUBSET (Before(S, b) \ {a}) /\ a \in Before(S, b)
  <2>1. a \in Before(S, b)
    BY DEF Before
  <2>2. ASSUME NEW o \in Before(S, a) PROVE o \in Before(S, b) \ {a}
    <3>1. o \in S /\ o < a /\ o \in Nat
      BY <2>2 DEF Before, Numbers
    <3>. QED
      BY <1>1, <3>1 DEF Before
  <2>. QED
    BY <2>1, <2>2
<1>3. PICK c \in Nat : c = Cardinality(Before(S, b)) /\ IsFiniteSet(Before(S, b))
  BY BeforeSize
<1>4. IsFiniteSet(Before(S, b) \ {a}) /\ Cardinality(Before(S, b) \ {a}) = c - 1
  BY <1>2, <1>3, FS_RemoveElement
<1>5. Cardinality(Before(S, a)) <= c - 1
  BY <1>2, <1>4, FS_Subset
<1>6. Cardinality(Before(S, a)) \in Nat
  BY BeforeSize
<1>. QED
  BY <1>3, <1>5, <1>6

(* So for each place there is one with that many before it.                *)
LEMMA RankOnto ==
  ASSUME NEW S, Numbers(S), NEW i \in 1..Cardinality(S)
  PROVE  \E n \in S : Cardinality(Before(S, n)) = i - 1
<1>1. PICK c \in Nat : c = Cardinality(S)
  BY FS_CardinalityType DEF Numbers
<1>2. ASSUME NEW e \in S PROVE Cardinality(Before(S, e)) \in 0..(c - 1)
  <2>1. Before(S, e) \in SUBSET (S \ {e})
    BY DEF Before, Numbers
  <2>2. IsFiniteSet(S \ {e}) /\ Cardinality(S \ {e}) = c - 1
    BY <1>1, FS_RemoveElement DEF Numbers
  <2>3. Cardinality(Before(S, e)) <= c - 1
    BY <2>1, <2>2, FS_Subset
  <2>. QED
    BY <1>1, <2>3, BeforeSize
<1>. DEFINE rank == [e \in S |-> Cardinality(Before(S, e))]
<1>3. rank \in Injection(S, 0..(c - 1))
  <2>1. rank \in [S -> 0..(c - 1)]
    BY <1>2
  <2>2. ASSUME NEW e \in S, NEW f \in S, rank[e] = rank[f] PROVE e = f
    <3>1. e \in Nat /\ f \in Nat
      BY DEF Numbers
    <3>2. e < f => rank[e] < rank[f]
      BY MoreBefore
    <3>3. f < e => rank[f] < rank[e]
      BY MoreBefore
    <3>4. rank[e] \in 0..(c - 1)
      BY <1>2
    <3>. QED
      BY <1>1, <2>2, <3>1, <3>2, <3>3, <3>4
  <2>. QED
    BY <2>1, <2>2 DEF Injection, IsInjective
<1>4. IsFiniteSet(0..(c - 1)) /\ Cardinality(0..(c - 1)) = c
  <2>1. PICK a, b \in Int : a = 0 /\ b = c - 1
    BY <1>1
  <2>2. IsFiniteSet(a..b) /\ Cardinality(a..b) = IF a > b THEN 0 ELSE b - a + 1
    BY <2>1, FS_Interval
  <2>3. (IF a > b THEN 0 ELSE b - a + 1) = c
    BY <1>1, <2>1
  <2>. QED
    BY <2>1, <2>2, <2>3, Zenon
<1>5. rank \in Surjection(S, 0..(c - 1))
  <2>. HIDE DEF rank
  <2>1. IsFiniteSet(S)
    BY DEF Numbers
  <2>. QED
    BY <1>1, <1>3, <1>4, <2>1, FS_Injection
<1>6. i - 1 \in 0..(c - 1)
  BY <1>1
<1>7. \E e \in S : rank[e] = i - 1
  BY <1>5, <1>6 DEF Surjection
<1>. QED
  BY <1>7

(* sort.Slice: a list of members, of the set's size.                       *)
LEMMA SortedType ==
  ASSUME NEW S, Numbers(S)
  PROVE  /\ Cardinality(S) \in Nat
         /\ Sorted(S) \in [1..Cardinality(S) -> S]
         /\ Sorted(S) \in Seq(Nat)
         /\ Len(Sorted(S)) = Cardinality(S)
<1>1. PICK c \in Nat : c = Cardinality(S)
  BY FS_CardinalityType DEF Numbers
<1>2. ASSUME NEW i \in 1..c
      PROVE  (CHOOSE n \in S : Cardinality({o \in S : o < n}) = i - 1) \in S
  <2>1. \E n \in S : Cardinality({o \in S : o < n}) = i - 1
    BY <1>1, RankOnto DEF Before
  <2>. QED
    BY <2>1, Zenon
<1>3. Sorted(S) \in [1..c -> S]
  BY <1>1, <1>2 DEF Sorted
<1>4. Sorted(S) \in [1..c -> Nat]
  BY <1>3 DEF Numbers
<1>. QED
  <2>. HIDE DEF Sorted
  <2>1. Sorted(S) \in Seq(Nat)
    BY ONLY <1>4, c \in Nat
  <2>2. Len(Sorted(S)) = c
    BY ONLY <1>4, <2>1, c \in Nat
  <2>. QED
    BY <1>1, <1>3, <2>1, <2>2

-----------------------------------------------------------------------------
(* Selection *)

(* A selection is cut to the length of the table.                          *)
LEMMA ClampType ==
  ASSUME NEW i \in Int, NEW n \in Nat
  PROVE  Clamp(i, n) \in Nat /\ (n > 0 => Clamp(i, n) < n)
BY DEF Clamp, Min2, Max2

(* The first row shown is chosen so that the selected one is shown too.    *)
LEMMA VisibleShows ==
  ASSUME NEW first \in Nat, NEW n \in Nat, NEW i \in Nat, NEW rows \in Nat \ {0}
  PROVE  /\ Visible(first, i, n, rows) \in Nat
         /\ i < n => /\ Visible(first, i, n, rows) <= i
                     /\ i < Visible(first, i, n, rows) + rows
BY DEF Visible, Min2, Max2

-----------------------------------------------------------------------------
(* The form *)

(* What the step of the command asks for.                                  *)
NotBlank(line) == \E i \in DOMAIN line : line[i] # " "

(* The fields of a form.                                                   *)
Fieldset ==
  [step : 0..4, name : Seq({"x"}), line : Seq(Char), cursor : Nat, scale : Nat,
   input : Seq(Digit), restart : {Policies[i] : i \in 1..3}, bad : BOOLEAN,
   edit : BOOLEAN, locked : BOOLEAN]

(* What the steps behind it have asked for; a name is only locked when     *)
(* there is one.                                                           *)
Passed(w) ==
  /\ (w.locked \/ w.step >= 1) => w.name # <<>>
  /\ w.step >= 2 => NotBlank(w.line)
  /\ w.step >= 3 => w.scale >= 1

Form == {w \in Fieldset : Passed(w)}

(* The form of a new process is one.                                       *)
LEMMA BlankForm == Blank \in Form
<1>1. "always" \in {Policies[i] : i \in 1..3}
  BY DEF Policies
<1>2. <<"1">> \in Seq(Digit) /\ <<>> \in Seq({"x"}) /\ <<>> \in Seq(Char)
  BY DEF Digit
<1>. QED
  BY <1>1, <1>2 DEF Blank, Form, Fieldset, Passed

(* So is the form of a configured process, which is past the first step.   *)
LEMMA EditFormType ==
  ASSUME NEW n \in Proc
  PROVE  EditForm(n, Config[n]) \in Form /\ EditForm(n, Config[n]).edit
<1>1. PICK cfg : /\ cfg = Config[n]
                 /\ cfg \in [args : Seq(Seq(Char)), scale : {DigitValue[d] : d \in Digit},
                             restart : {Policies[i] : i \in 1..3}]
  BY TuiAssumption
<1>2. Join(cfg.args) \in Seq(Char)
  BY ONLY <1>1, JoinType
<1>3. Text(n) \in Seq({"x"}) /\ Text(n) # <<>>
  <2>1. n \in Nat /\ n >= 1
    BY TuiAssumption
  <2>2. Text(n) \in [1..n -> {"x"}]
    BY ONLY DEF Text
  <2>3. Text(n) \in Seq({"x"}) /\ Len(Text(n)) = n
    BY ONLY <2>1, <2>2
  <2>. QED
    BY ONLY <2>1, <2>3, EmptySeq
<1>4. cfg.scale \in Nat
  <2>1. \A d \in Digit : DigitValue[d] \in Nat
    BY ONLY DEF Digit, DigitValue
  <2>. QED
    BY ONLY <1>1, <2>1
<1>5. <<CHOOSE d \in Digit : DigitValue[d] = cfg.scale>> \in Seq(Digit) /\ <<"1">> \in Seq(Digit)
  <2>1. \E d \in Digit : DigitValue[d] = cfg.scale
    BY ONLY <1>1
  <2>2. (CHOOSE d \in Digit : DigitValue[d] = cfg.scale) \in Digit
    BY ONLY <2>1, Zenon
  <2>3. "1" \in Digit
    BY ONLY DEF Digit
  <2>. QED
    BY ONLY <2>2, <2>3, One
<1>6. Len(Join(cfg.args)) \in Nat
  BY ONLY <1>2, LenProperties
<1>7. cfg.restart \in {Policies[i] : i \in 1..3}
  BY ONLY <1>1
<1>8. PICK t, l, d, r : t = Text(n) /\ l = Join(cfg.args) /\ r = cfg.restart
                        /\ d = CHOOSE x \in Digit : DigitValue[x] = cfg.scale
  OBVIOUS
<1>9. EditForm(n, cfg) =
        [step |-> 1, name |-> t, line |-> l, cursor |-> Len(l),
         scale |-> IF cfg.scale > 0 THEN cfg.scale ELSE 1,
         input |-> IF cfg.scale > 0 THEN <<d>> ELSE <<"1">>,
         restart |-> r, bad |-> FALSE, edit |-> TRUE, locked |-> TRUE]
  <2>. DEFINE e == CHOOSE x \in Digit : DigitValue[x] = cfg.scale
              b == Blank
  <2>1. b = [step |-> 0, name |-> <<>>, line |-> <<>>, cursor |-> 0, scale |-> 1, input |-> <<"1">>,
             restart |-> "always", bad |-> FALSE, edit |-> FALSE, locked |-> FALSE]
    BY ONLY DEF Blank
  <2>2. EditForm(n, cfg) =
          [b EXCEPT !.edit = TRUE, !.locked = TRUE, !.step = 1, !.name = t,
             !.line = l, !.cursor = Len(l), !.restart = r,
             !.scale = IF cfg.scale > 0 THEN cfg.scale ELSE 1,
             !.input = IF cfg.scale > 0 THEN <<d>> ELSE <<"1">>]
    BY ONLY <1>8 DEF EditForm
  <2>. HIDE DEF b
  <2>. QED
    BY ONLY <2>1, <2>2
<1>10. EditForm(n, cfg) \in Fieldset
  BY ONLY <1>2, <1>3, <1>4, <1>5, <1>6, <1>7, <1>8, <1>9 DEF Fieldset
<1>11. Passed(EditForm(n, cfg)) /\ EditForm(n, cfg).edit
  BY ONLY <1>3, <1>8, <1>9 DEF Passed
<1>. QED
  BY ONLY <1>1, <1>10, <1>11 DEF Form

(* The fields of a form that the proofs look at.                           *)
LEMMA FormIs ==
  ASSUME NEW w \in Form
  PROVE  /\ w \in Fieldset /\ Passed(w)
         /\ w.step \in 0..4 /\ w.cursor \in Nat /\ w.scale \in Nat
         /\ Len(w.name) \in Nat /\ Len(w.line) \in Nat
BY LenProperties DEF Form, Fieldset

(* The cursor may be moved.                                                *)
LEMMA AtEndKeeps ==
  ASSUME NEW w \in Form
  PROVE  AtEnd(w) \in Form
<1>1. w \in Fieldset /\ Passed(w) /\ Len(w.name) \in Nat /\ Len(w.line) \in Nat
  BY FormIs
<1>2. PICK c \in Nat : AtEnd(w) = [w EXCEPT !.cursor = c]
  BY <1>1 DEF AtEnd
<1>3. [w EXCEPT !.cursor = c] \in Fieldset
  BY <1>1 DEF Fieldset
<1>4. Passed([w EXCEPT !.cursor = c])
  BY <1>1 DEF Passed, Fieldset
<1>. QED
  BY <1>2, <1>3, <1>4 DEF Form

(* Another step is a step.                                                 *)
LEMMA FieldsetWith ==
  ASSUME NEW w \in Fieldset, NEW s \in 0..4
  PROVE  /\ [w EXCEPT !.bad = FALSE, !.step = s] \in Fieldset
         /\ [w EXCEPT !.step = s, !.bad = FALSE] \in Fieldset
         /\ [w EXCEPT !.step = s] \in Fieldset
BY DEF Fieldset

(* A step forward is only taken when what the step asks for is there.      *)
LEMMA AdvanceKeeps ==
  ASSUME NEW w \in Form, w.step # 4
  PROVE  Advance(w) \in Form
<1>1. w \in Fieldset /\ Passed(w) /\ w.step \in 0..3
  BY FormIs
<1>2. CASE Valid(w)
  <2>. DEFINE n == [w EXCEPT !.bad = FALSE, !.step = @ + 1]
  <2>1. n \in Fieldset
    <3>1. PICK s : s = w.step + 1 /\ s \in 0..4
      BY ONLY <1>1
    <3>2. n = [w EXCEPT !.bad = FALSE, !.step = s]
      BY ONLY <3>1
    <3>. QED
      BY ONLY <1>1, <3>1, <3>2, FieldsetWith
  <2>2. Passed(n)
    <3>1. /\ n.step = w.step + 1 /\ n.name = w.name /\ n.line = w.line
          /\ n.scale = w.scale /\ n.locked = w.locked
      BY <1>1 DEF Fieldset
    <3>2. w.step = 0 => w.name # <<>>
      BY <1>1, <1>2 DEF Valid, Passed
    <3>3. w.step = 1 => NotBlank(w.line)
      BY <1>1, <1>2 DEF Valid, NotBlank
    <3>4. w.step = 2 => w.scale >= 1
      BY <1>1, <1>2 DEF Valid
    <3>. HIDE DEF n
    <3>. QED
      BY <1>1, <3>1, <3>2, <3>3, <3>4 DEF Passed
  <2>3. n \in Form
    BY <2>1, <2>2 DEF Form
  <2>. HIDE DEF n
  <2>4. AtEnd(n) \in Form
    BY <2>3, AtEndKeeps
  <2>. QED
    BY <1>2, <2>4 DEF Advance, n
<1>3. CASE ~Valid(w)
  <2>1. Advance(w) = [w EXCEPT !.bad = TRUE]
    BY <1>3 DEF Advance
  <2>2. [w EXCEPT !.bad = TRUE] \in Fieldset
    BY <1>1 DEF Fieldset
  <2>3. Passed([w EXCEPT !.bad = TRUE])
    BY <1>1 DEF Passed, Fieldset
  <2>. QED
    BY <2>1, <2>2, <2>3 DEF Form
<1>. QED
  BY <1>2, <1>3

(* A step back asks for less.                                              *)
LEMMA BackKeeps ==
  ASSUME NEW w \in Form
  PROVE  Back(w) \in Form
<1>1. w \in Fieldset /\ Passed(w) /\ w.step \in 0..4
  BY FormIs
<1>2. CASE w.step > 0
  <2>. DEFINE n == [w EXCEPT !.step = @ - 1, !.bad = FALSE]
  <2>1. n \in Fieldset
    <3>1. PICK s : s = w.step - 1 /\ s \in 0..4
      BY ONLY <1>1, <1>2
    <3>2. n = [w EXCEPT !.step = s, !.bad = FALSE]
      BY ONLY <3>1
    <3>. QED
      BY ONLY <1>1, <3>1, <3>2, FieldsetWith
  <2>2. Passed(n)
    <3>1. /\ n.step = w.step - 1 /\ n.name = w.name /\ n.line = w.line
          /\ n.scale = w.scale /\ n.locked = w.locked
      BY <1>1 DEF Fieldset
    <3>. HIDE DEF n
    <3>. QED
      BY <1>1, <1>2, <3>1 DEF Passed
  <2>3. n \in Form
    BY <2>1, <2>2 DEF Form
  <2>. HIDE DEF n
  <2>4. AtEnd(n) \in Form
    BY <2>3, AtEndKeeps
  <2>. QED
    BY <1>2, <2>4 DEF Back, n
<1>3. CASE ~(w.step > 0)
  BY <1>3 DEF Back
<1>. QED
  BY <1>2, <1>3

(* Keys in a text field leave a text of its characters and a cursor that   *)
(* is not negative.                                                        *)
LEMMA TypedType ==
  ASSUME NEW chars, NEW text \in Seq(chars), NEW cursor \in Nat, NEW key
  PROVE  Typed(text, cursor, key, chars) \in Seq(chars) \X Nat
<1>1. PICK n \in Nat : n = Len(text)
  BY LenProperties
<1>2. PICK c \in Nat : c = (IF cursor > Len(text) THEN Len(text) ELSE cursor) /\ c <= n /\ c <= cursor
  BY <1>1
<1>3. \A j \in 1..n : text[j] \in chars
  BY <1>1, ElementOfSeq
<1>4. ASSUME NEW a \in 1..(n + 1), NEW b \in 0..n PROVE SubSeq(text, a, b) \in Seq(chars)
  <2>1. \A j \in a..b : text[j] \in chars
    BY <1>3
  <2>2. a \in Int /\ b \in Int
    OBVIOUS
  <2>. QED
    BY ONLY <2>1, <2>2, SubSeqProperties
<1>5. ASSUME NEW i \in 1..n PROVE RemoveAt(text, i) \in Seq(chars)
  <2>1. /\ 1 \in 1..(n + 1) /\ i - 1 \in 0..n
        /\ i + 1 \in 1..(n + 1) /\ n \in 0..n
    BY ONLY n \in Nat, i \in 1..n
  <2>2. SubSeq(text, 1, i - 1) \in Seq(chars) /\ SubSeq(text, i + 1, n) \in Seq(chars)
    BY ONLY <1>4, <2>1
  <2>. QED
    BY ONLY <1>1, <2>2, Joined DEF RemoveAt
<1>6. ASSUME NEW i \in 1..(n + 1), NEW e \in chars PROVE InsertAt(text, i, e) \in Seq(chars)
  <2>0. 1 \in 1..(n + 1) /\ i - 1 \in 0..n /\ n \in 0..n
    BY ONLY n \in Nat, i \in 1..(n + 1)
  <2>1. SubSeq(text, 1, i - 1) \in Seq(chars) /\ SubSeq(text, i, n) \in Seq(chars)
    BY ONLY <1>4, <2>0, i \in 1..(n + 1)
  <2>2. <<e>> \in Seq(chars)
    BY <1>6, One
  <2>3. SubSeq(text, 1, i - 1) \o <<e>> \in Seq(chars)
    BY ONLY <2>1, <2>2, Joined
  <2>. QED
    BY ONLY <1>1, <2>1, <2>3, Joined DEF InsertAt
<1>7. c > 0 => RemoveAt(text, c) \in Seq(chars) /\ cursor - 1 \in Nat
  BY <1>2, <1>5
<1>8. c < n => RemoveAt(text, c + 1) \in Seq(chars)
  BY <1>2, <1>5
<1>9. key \in chars => InsertAt(text, c + 1, key) \in Seq(chars)
  BY <1>2, <1>6
<1>. QED
  BY ONLY <1>1, <1>2, <1>7, <1>8, <1>9, text \in Seq(chars), cursor \in Nat DEF Typed

(* Keys in the name, which is not locked or not changed.                   *)
LEMMA NameInputKeeps ==
  ASSUME NEW w \in Form, w.step = 0, NEW key
  PROVE  NameInput(w, key) \in Form
<1>1. w \in Fieldset /\ Passed(w)
  BY FormIs
<1>2. CASE w.locked
  BY <1>2 DEF NameInput
<1>3. CASE ~w.locked
  <2>1. w.name \in Seq({"x"}) /\ w.cursor \in Nat
    BY <1>1 DEF Fieldset
  <2>2. PICK t : t = Typed(w.name, w.cursor, key, {"x"}) /\ t \in Seq({"x"}) \X Nat
    BY <2>1, TypedType
  <2>3. PICK a \in Seq({"x"}), c \in Nat : a = t[1] /\ c = t[2]
    BY <2>2
  <2>4. NameInput(w, key) = [w EXCEPT !.name = a, !.cursor = c]
    BY ONLY <1>3, <2>2, <2>3 DEF NameInput
  <2>5. [w EXCEPT !.name = a, !.cursor = c] \in Fieldset
    BY <1>1 DEF Fieldset
  <2>6. Passed([w EXCEPT !.name = a, !.cursor = c])
    BY <1>1, <1>3 DEF Passed, Fieldset
  <2>. QED
    BY <2>4, <2>5, <2>6 DEF Form
<1>. QED
  BY <1>2, <1>3

(* Keys in the command.                                                    *)
LEMMA CommandInputKeeps ==
  ASSUME NEW w \in Form, w.step = 1, NEW key
  PROVE  CommandInput(w, key) \in Form
<1>1. w \in Fieldset /\ Passed(w)
  BY FormIs
<1>2. w.line \in Seq(Char) /\ w.cursor \in Nat
  BY <1>1 DEF Fieldset
<1>3. PICK t : t = Typed(w.line, w.cursor, key, Char) /\ t \in Seq(Char) \X Nat
  BY <1>2, TypedType
<1>4. PICK a \in Seq(Char), c \in Nat : a = t[1] /\ c = t[2]
  BY <1>3
<1>5. CommandInput(w, key) = [w EXCEPT !.line = a, !.cursor = c]
  BY ONLY <1>3, <1>4 DEF CommandInput
<1>6. [w EXCEPT !.line = a, !.cursor = c] \in Fieldset
  BY <1>1 DEF Fieldset
<1>7. Passed([w EXCEPT !.line = a, !.cursor = c])
  BY <1>1 DEF Passed, Fieldset
<1>. QED
  BY <1>5, <1>6, <1>7 DEF Form

(* The scale field set.                                                    *)
ScaledTo(w, ds, n) == [w EXCEPT !.input = ds, !.scale = n]

(* What the scale field is set to: digits, and their number.               *)
LEMMA ScaleSet ==
  ASSUME NEW w \in Form, w.step = 2, NEW ds \in Seq(Digit), NEW n \in Nat
  PROVE  ScaledTo(w, ds, n) \in Form
<1>1. w \in Fieldset /\ Passed(w)
  BY FormIs
<1>2. ScaledTo(w, ds, n) \in Fieldset
  BY <1>1 DEF Fieldset, ScaledTo
<1>3. Passed(ScaledTo(w, ds, n))
  BY <1>1 DEF Passed, Fieldset, ScaledTo
<1>. QED
  BY <1>2, <1>3 DEF Form

(* Keys in the scale field.                                                *)
LEMMA ScaleInputKeeps ==
  ASSUME NEW w \in Form, w.step = 2, NEW key
  PROVE  ScaleInput(w, key) \in Form
<1>1. w.input \in Seq(Digit)
  BY FormIs DEF Fieldset
<1>2. CASE key = "backspace" /\ w.input # <<>>
  <2>1. PICK ds \in Seq(Digit) : ds = Front(w.input)
    BY ONLY <1>1, <1>2, Ends
  <2>2. PICK n \in Nat : n = IF ds = <<>> THEN 1 ELSE Scanned(ds)
    BY ScannedType
  <2>3. ScaleInput(w, key) = ScaledTo(w, ds, n)
    BY ONLY <1>2, <2>1, <2>2 DEF ScaleInput, ScaledTo
  <2>. QED
    BY ONLY w \in Form, w.step = 2, ds \in Seq(Digit), n \in Nat, <2>3, ScaleSet
<1>3. CASE key \in Digit /\ Len(w.input) < MaxDigits /\ ~(key = "backspace" /\ w.input # <<>>)
  <2>1. PICK ds \in Seq(Digit) : ds = Append(w.input, key)
    BY ONLY <1>1, <1>3, Longer
  <2>2. PICK n \in Nat : n = Scanned(ds)
    BY ScannedType
  <2>3. ScaleInput(w, key) = ScaledTo(w, ds, n)
    BY ONLY <1>3, <2>1, <2>2 DEF ScaleInput, ScaledTo
  <2>. QED
    BY ONLY w \in Form, w.step = 2, ds \in Seq(Digit), n \in Nat, <2>3, ScaleSet
<1>4. CASE /\ ~(key = "backspace" /\ w.input # <<>>)
           /\ ~(key \in Digit /\ Len(w.input) < MaxDigits)
  BY <1>4 DEF ScaleInput
<1>. QED
  BY <1>2, <1>3, <1>4

(* Keys in the choice of the restart policy.                               *)
LEMMA RestartInputKeeps ==
  ASSUME NEW w \in Form, NEW key
  PROVE  RestartInput(w, key) \in Form
<1>1. w \in Fieldset /\ Passed(w) /\ w.restart \in {Policies[i] : i \in 1..3}
  BY FormIs DEF Fieldset
<1>2. PICK i \in 1..3 : i = CHOOSE j \in 1..3 : Policies[j] = w.restart
  <2>1. \E j \in 1..3 : Policies[j] = w.restart
    BY <1>1
  <2>. QED
    BY ONLY <2>1, Zenon
<1>3. ((i + 1) % 3) + 1 \in 1..3 /\ (i % 3) + 1 \in 1..3
  BY ONLY i \in 1..3
<1>4. PICK r \in {Policies[j] : j \in 1..3} :
        RestartInput(w, key) = w \/ RestartInput(w, key) = [w EXCEPT !.restart = r]
  <2>1. CASE key \in {"up", "k"}
    BY ONLY <1>2, <1>3, <2>1 DEF RestartInput
  <2>2. CASE key \notin {"up", "k"} /\ key \in {"down", "j"}
    BY ONLY <1>2, <1>3, <2>2 DEF RestartInput
  <2>3. CASE key \notin {"up", "k"} /\ key \notin {"down", "j"}
    BY ONLY <1>1, <2>3 DEF RestartInput
  <2>. QED
    BY ONLY <2>1, <2>2, <2>3
<1>5. [w EXCEPT !.restart = r] \in Fieldset
  BY <1>1 DEF Fieldset
<1>6. Passed([w EXCEPT !.restart = r])
  BY <1>1 DEF Passed, Fieldset
<1>. QED
  BY <1>4, <1>5, <1>6 DEF Form

(* A locked name has been given: its step may be skipped.                  *)
LEMMA SkippedKeeps ==
  ASSUME NEW w \in Form
  PROVE  /\ Skipped(w) \in Form
         /\ Skipped(w).step = 4 <=> w.step = 4
<1>1. w \in Fieldset /\ Passed(w) /\ w.step \in 0..4
  BY FormIs
<1>2. CASE w.step = 0 /\ w.locked
  <2>1. Skipped(w) = [w EXCEPT !.step = 1]
    BY <1>2 DEF Skipped
  <2>2. [w EXCEPT !.step = 1] \in Fieldset
    <3>1. 1 \in 0..4
      BY ONLY TRUE
    <3>. QED
      BY ONLY <1>1, <3>1, FieldsetWith
  <2>3. Passed([w EXCEPT !.step = 1]) /\ [w EXCEPT !.step = 1].step = 1
    BY <1>1, <1>2 DEF Passed, Fieldset
  <2>. QED
    BY <1>2, <2>1, <2>2, <2>3 DEF Form
<1>3. CASE ~(w.step = 0 /\ w.locked)
  BY <1>3 DEF Skipped
<1>. QED
  BY <1>2, <1>3

(* A key leaves a form; the last step ends with the submission instead.    *)
LEMMA WizardKeyKeeps ==
  ASSUME NEW v \in Form, NEW key, v.step = 4 => key \notin {"tab", "enter"}
  PROVE  WizardKey(v, key) \in Form
<1>1. PICK w \in Form : w = Skipped(v) /\ (w.step = 4 <=> v.step = 4)
  BY SkippedKeeps
<1>2. CASE key \in {"tab", "enter"}
  <2>1. WizardKey(v, key) = Advance(w)
    BY ONLY <1>1, <1>2 DEF WizardKey
  <2>. QED
    BY <1>1, <1>2, <2>1, AdvanceKeeps
<1>3. CASE key = "shift+tab"
  <2>1. WizardKey(v, key) = Back(w)
    BY ONLY <1>1, <1>3 DEF WizardKey
  <2>. QED
    BY <2>1, BackKeeps
<1>4. CASE key \notin {"tab", "enter", "shift+tab"}
  <2>1. WizardKey(v, key) \in {NameInput(w, key)} \/ w.step # 0
    BY ONLY <1>1, <1>4 DEF WizardKey
  <2>2. WizardKey(v, key) = CommandInput(w, key) \/ w.step # 1
    BY ONLY <1>1, <1>4 DEF WizardKey
  <2>3. WizardKey(v, key) = ScaleInput(w, key) \/ w.step # 2
    BY ONLY <1>1, <1>4 DEF WizardKey
  <2>4. WizardKey(v, key) = RestartInput(w, key) \/ w.step # 3
    BY ONLY <1>1, <1>4 DEF WizardKey
  <2>5. WizardKey(v, key) = w \/ w.step # 4
    BY ONLY <1>1, <1>4 DEF WizardKey
  <2>6. w.step \in 0..4
    BY FormIs
  <2>. QED
    BY <2>1, <2>2, <2>3, <2>4, <2>5, <2>6, NameInputKeeps, CommandInputKeeps, ScaleInputKeeps,
       RestartInputKeeps
<1>. QED
  BY <1>2, <1>3, <1>4

(* What the last step submits is complete.                                 *)
LEMMA SubmissionValid ==
  ASSUME NEW w \in Form, w.step = 4
  PROVE  /\ Submission(w).do \in {"create", "update"}
         /\ Submission(w).name > 0 /\ Submission(w).args # <<>> /\ Submission(w).scale >= 1
<1>1. w \in Fieldset /\ Passed(w)
  BY FormIs
<1>2. w.name \in Seq({"x"}) /\ w.name # <<>> /\ w.line \in Seq(Char) /\ NotBlank(w.line) /\ w.scale >= 1
  BY <1>1 DEF Fieldset, Passed
<1>3. Len(w.name) > 0
  BY ONLY <1>2, LenProperties, EmptySeq
<1>4. Fields(w.line) # <<>>
  BY ONLY <1>2, FieldsSome DEF NotBlank
<1>5. PICK args, k : args = Fields(w.line) /\ k = Len(w.name)
  OBVIOUS
<1>6. Submission(w) = [do |-> IF w.edit THEN "update" ELSE "create", name |-> k,
                       args |-> args, scale |-> w.scale, restart |-> w.restart]
  BY ONLY <1>5 DEF Submission
<1>. QED
  BY ONLY <1>2, <1>3, <1>4, <1>5, <1>6

-----------------------------------------------------------------------------
(* The model *)

(* What a list may be: known processes in known states.                    *)
Lists == UNION {[D -> States] : D \in SUBSET Proc}

(* A process or none.                                                      *)
Someone == Proc \cup {None}

(* What can be typed in the scale dialog, and what the rows of a table     *)
(* are.                                                                    *)
Texts == Seq(Digit)
Columns == Seq(Nat)
Tables == Tabs \ {"system"}

(* The type of the model.                                                  *)
Model ==
  [view : {"list", "detail", "logs", "help", "wizard"}, tab : Tabs, height : Nat,
   quitting : BOOLEAN, data : [Tables -> Columns], idx : [Tabs -> Nat],
   off : [Tabs -> Nat], cache : Lists, dialog : {"none", "confirm", "scale"},
   action : {"none", "delete"}, target : Someone, input : Texts, detail : Someone,
   logProc : Someone, logReturn : {"list", "detail"}, wiz : Form]

(* A selection is within its table.                                        *)
Indexed(mm) == \A t \in Tables : Len(mm.data[t]) > 0 => mm.idx[t] < Len(mm.data[t])

(* ProcessRowShown, of any model.                                          *)
Shown(mm) ==
  LET n == Len(mm.data["processes"]) IN
  n > 0 => /\ mm.off["processes"] <= mm.idx["processes"]
           /\ mm.idx["processes"] < mm.off["processes"] + Rows(mm)

(* OnlyFormHidesDialog, of any model.                                      *)
Drawn(mm) == mm.dialog # "none" => mm.view = "list" \/ (mm.view = "wizard" /\ mm.wiz.edit)

(* A process of the last list, or none.                                    *)
Held(x, mm) == x = None \/ x \in DOMAIN mm.cache

(* The rows that keys act on are of the last list.                         *)
Listed(mm) ==
  \A t \in {"processes", "scheduled"} : \A i \in 1..Len(mm.data[t]) : mm.data[t][i] \in DOMAIN mm.cache

(* What every handler keeps.                                               *)
Shape(mm) ==
  mm \in Model /\ Indexed(mm) /\ Shown(mm) /\ Drawn(mm) /\ Held(mm.detail, mm) /\ Listed(mm)

(* A list gives known processes known states.                              *)
LEMMA ListsAre ==
  /\ \A f \in Lists : f \in [DOMAIN f -> States] /\ DOMAIN f \in SUBSET Proc
  /\ \A D \in SUBSET Proc : \A f \in [D -> States] : f \in Lists
<1>1. ASSUME NEW f \in Lists PROVE f \in [DOMAIN f -> States] /\ DOMAIN f \in SUBSET Proc
  <2>1. PICK D \in SUBSET Proc : f \in [D -> States]
    BY DEF Lists
  <2>2. DOMAIN f = D
    BY <2>1
  <2>. QED
    BY <2>1, <2>2
<1>2. ASSUME NEW D \in SUBSET Proc, NEW f \in [D -> States] PROVE f \in Lists
  BY DEF Lists
<1>. QED
  BY <1>1, <1>2

(* Names are positive numbers, finitely many of them.                      *)
LEMMA Procs == /\ Proc \subseteq Nat /\ None \notin Proc /\ IsFiniteSet(Proc)
               /\ \A S \in SUBSET Proc : Numbers(S)
<1>1. PICK n \in Nat : Proc = 1..n
  BY TuiAssumption
<1>2. Proc \subseteq Nat /\ None \notin Proc
  BY <1>1 DEF None
<1>3. IsFiniteSet(Proc)
  <2>1. PICK a, b \in Int : a = 1 /\ b = n
    OBVIOUS
  <2>2. IsFiniteSet(a..b)
    BY <2>1, FS_Interval
  <2>. QED
    BY <1>1, <2>1, <2>2
<1>4. ASSUME NEW S \in SUBSET Proc PROVE Numbers(S)
  <2>1. IsFiniteSet(S)
    BY <1>3, FS_Subset
  <2>. QED
    BY <1>2, <2>1 DEF Numbers
<1>. QED
  BY <1>2, <1>3, <1>4

(* The fields of a model.                                                  *)
LEMMA ModelIs ==
  ASSUME NEW mm \in Model
  PROVE  /\ mm.view \in {"list", "detail", "logs", "help", "wizard"}
         /\ mm.tab \in Tabs /\ mm.height \in Nat
         /\ mm.data \in [Tables -> Columns] /\ mm.idx \in [Tabs -> Nat] /\ mm.off \in [Tabs -> Nat]
         /\ mm.cache \in Lists /\ mm.dialog \in {"none", "confirm", "scale"}
         /\ mm.action \in {"none", "delete"} /\ mm.target \in Someone /\ mm.input \in Texts
         /\ mm.detail \in Someone /\ mm.logProc \in Someone
         /\ mm.logReturn \in {"list", "detail"} /\ mm.wiz \in Form
BY DEF Model

(* Of a table: its length, its rows, and the one selected.                 *)
LEMMA TableIs ==
  ASSUME NEW mm, Shape(mm), NEW t \in Tables
  PROVE  /\ Len(mm.data[t]) \in Nat /\ mm.idx[t] \in Nat /\ mm.off[t] \in Nat
         /\ Len(mm.data[t]) > 0 => mm.idx[t] < Len(mm.data[t])
<1>1. mm \in Model /\ Indexed(mm)
  BY DEF Shape
<1>2. mm.data[t] \in Columns /\ mm.idx[t] \in Nat /\ mm.off[t] \in Nat
  BY <1>1, ModelIs DEF Tables
<1>. QED
  BY <1>1, <1>2, LenProperties DEF Columns, Indexed

(* A table has rows, whatever the window's height.                         *)
LEMMA RowsType ==
  ASSUME NEW mm, mm.height \in Nat
  PROVE  Rows(mm) \in Nat \ {0}
BY TuiAssumption DEF Rows, Max2

(* The process that a key acts on is one of the last list.                 *)
LEMMA SelectedKnown ==
  ASSUME NEW mm, Shape(mm)
  PROVE  Held(Selected(mm), mm) /\ Selected(mm) \in Someone
<1>1. PICK t : t = SelectedTab(mm) /\ t \in {"processes", "scheduled"}
  BY DEF SelectedTab
<1>2. t \in Tables
  BY <1>1 DEF Tables, Tabs
<1>3. Len(mm.data[t]) \in Nat /\ mm.idx[t] \in Nat
  BY <1>2, TableIs
<1>4. CASE mm.idx[t] < Len(mm.data[t])
  <2>1. PICK i : i = mm.idx[t] + 1 /\ i \in 1..Len(mm.data[t])
    BY <1>3, <1>4
  <2>2. mm.data[t][i] \in DOMAIN mm.cache
    BY <1>1, <2>1 DEF Shape, Listed
  <2>3. DOMAIN mm.cache \in SUBSET Proc
    BY ModelIs, ListsAre DEF Shape
  <2>4. Selected(mm) = mm.data[t][i]
    BY ONLY <1>1, <1>4, <2>1 DEF Selected
  <2>. QED
    BY <2>2, <2>3, <2>4 DEF Held, Someone
<1>5. CASE ~(mm.idx[t] < Len(mm.data[t]))
  <2>1. Selected(mm) = None
    BY ONLY <1>1, <1>5 DEF Selected
  <2>. QED
    BY <2>1 DEF Held, Someone
<1>. QED
  BY <1>4, <1>5

-----------------------------------------------------------------------------
(* What changes nothing of the tables *)

(* The tables are left alone.                                              *)
SameTables(mm, nn) ==
  /\ nn.data = mm.data /\ nn.idx = mm.idx /\ nn.off = mm.off
  /\ nn.height = mm.height /\ nn.cache = mm.cache

(* What leaves the tables alone keeps the shape, if the view, the dialog   *)
(* and the process shown fit.                                              *)
LEMMA TablesKeep ==
  ASSUME NEW mm, Shape(mm), NEW nn \in Model, SameTables(mm, nn), Drawn(nn), Held(nn.detail, mm)
  PROVE  Shape(nn)
<1>1. Rows(nn) = Rows(mm)
  BY DEF SameTables, Rows
<1>2. Indexed(nn)
  BY DEF Shape, SameTables, Indexed
<1>3. Shown(nn)
  BY <1>1 DEF Shape, SameTables, Shown
<1>4. Held(nn.detail, nn)
  BY DEF SameTables, Held
<1>5. Listed(nn)
  BY DEF Shape, SameTables, Listed
<1>. QED
  BY <1>2, <1>3, <1>4, <1>5 DEF Shape

(* An element of out is right.                                             *)
ItemOK(e) ==
  /\ "do" \in DOMAIN e /\ e.do \in {"create", "update"} =>
       e.name > 0 /\ e.args # <<>> /\ e.scale >= 1
  /\ "msg" \in DOMAIN e => e.msg \in {"list", "nolist", "config", "result", "error"}
  /\ "msg" \in DOMAIN e /\ e.msg = "list" => e.list \in Lists
  /\ "msg" \in DOMAIN e /\ e.msg = "config" => e.name \in Proc

(* What a handler may return: a model in shape, a command that is right,   *)
(* and the logs in view only if they were or if their timer is started.    *)
Good(mm, r) ==
  /\ Shape(r[1]) /\ ItemOK(r[2])
  /\ r[1].view = "logs" => mm.view = "logs" \/ r[2].do = "logtick"

(* Commands without a form, and messages, are right.                       *)
LEMMA PlainItems ==
  /\ ItemOK(NoCmd) /\ ItemOK([do |-> "logtick"]) /\ ItemOK([do |-> "list"])
  /\ \A n, k : ItemOK([do |-> "scale", name |-> n, to |-> k])
  /\ ItemOK([msg |-> "nolist"]) /\ ItemOK([msg |-> "error"]) /\ ItemOK([msg |-> "result"])
  /\ \A l \in Lists : ItemOK([msg |-> "list", list |-> l])
  /\ \A n \in Proc : ItemOK([msg |-> "config", name |-> n])
BY DEF ItemOK, NoCmd

(* A command for a process is right.                                       *)
LEMMA AskItem ==
  ASSUME NEW what, what \notin {"create", "update"}, NEW n
  PROVE  ItemOK([do |-> what, name |-> n])
BY DEF ItemOK

(* A handler that returns a model in shape and no command.                 *)
LEMMA KeepGood ==
  ASSUME NEW mm, NEW nn, Shape(nn), nn.view = "logs" => mm.view = "logs"
  PROVE  Good(mm, Keep(nn))
BY PlainItems DEF Good, Keep

(* A handler that returns a model in shape and a command for a process.    *)
LEMMA AskGood ==
  ASSUME NEW mm, NEW nn, Shape(nn), nn.view = "logs" => mm.view = "logs",
         NEW what, what \notin {"create", "update"}, NEW n
  PROVE  Good(mm, Ask(nn, what, n))
BY AskItem DEF Good, Ask

-----------------------------------------------------------------------------
(* Dialogs *)

(* The confirmation is closed.                                             *)
LEMMA CancelledShape ==
  ASSUME NEW mm, Shape(mm)
  PROVE  Shape(Cancelled(mm)) /\ Cancelled(mm).view = mm.view /\ Cancelled(mm).dialog = "none"
<1>. DEFINE nn == Cancelled(mm)
<1>1. mm \in Model /\ Held(mm.detail, mm)
  BY DEF Shape
<1>2. nn \in Model
  BY <1>1 DEF Cancelled, Model, Someone
<1>3. /\ nn.view = mm.view /\ nn.dialog = "none" /\ nn.detail = mm.detail
      /\ SameTables(mm, nn)
  BY <1>1 DEF Cancelled, Model, SameTables
<1>4. Drawn(nn)
  BY <1>3 DEF Drawn
<1>. HIDE DEF nn
<1>5. Shape(nn)
  BY <1>1, <1>2, <1>3, <1>4, TablesKeep
<1>. QED
  BY <1>3, <1>5 DEF nn

(* The scale dialog is closed.                                             *)
LEMMA ScaleClosedShape ==
  ASSUME NEW mm, Shape(mm)
  PROVE  Shape(ScaleClosed(mm)) /\ ScaleClosed(mm).view = mm.view /\ ScaleClosed(mm).dialog = "none"
<1>. DEFINE nn == ScaleClosed(mm)
<1>1. mm \in Model /\ Held(mm.detail, mm)
  BY DEF Shape
<1>2. nn \in Model
  <2>1. <<>> \in Texts
    BY DEF Texts
  <2>. QED
    BY <1>1, <2>1 DEF ScaleClosed, Model, Someone
<1>3. /\ nn.view = mm.view /\ nn.dialog = "none" /\ nn.detail = mm.detail
      /\ SameTables(mm, nn)
  BY <1>1 DEF ScaleClosed, Model, SameTables
<1>4. Drawn(nn)
  BY <1>3 DEF Drawn
<1>. HIDE DEF nn
<1>5. Shape(nn)
  BY <1>1, <1>2, <1>3, <1>4, TablesKeep
<1>. QED
  BY <1>3, <1>5 DEF nn

(* Keys in the confirmation; what it confirms is a deletion.               *)
LEMMA ConfirmationKeyGood ==
  ASSUME NEW mm, Shape(mm), NEW k
  PROVE  Good(mm, ConfirmationKey(mm, k))
<1>1. Good(mm, Keep(mm))
  BY KeepGood
<1>2. Good(mm, Keep(Cancelled(mm)))
  BY CancelledShape, KeepGood
<1>3. Good(mm, Ask(Cancelled(mm), mm.action, mm.target))
  <2>1. mm.action \notin {"create", "update"}
    BY ModelIs DEF Shape
  <2>. QED
    BY <2>1, CancelledShape, AskGood
<1>4. \/ ConfirmationKey(mm, k) = Keep(mm)
      \/ ConfirmationKey(mm, k) = Keep(Cancelled(mm))
      \/ ConfirmationKey(mm, k) = Ask(Cancelled(mm), mm.action, mm.target)
  BY DEF ConfirmationKey
<1>. QED
  BY <1>1, <1>2, <1>3, <1>4

(* The scale dialog's text set.                                            *)
InputSet(mm, ds) == [mm EXCEPT !.input = ds]

(* Digits are typed.                                                       *)
LEMMA InputSetShape ==
  ASSUME NEW mm, Shape(mm), NEW ds \in Texts
  PROVE  Shape(InputSet(mm, ds)) /\ InputSet(mm, ds).view = mm.view
<1>. DEFINE nn == InputSet(mm, ds)
<1>1. mm \in Model /\ Held(mm.detail, mm) /\ Drawn(mm)
  BY DEF Shape
<1>2. nn \in Model
  BY <1>1 DEF InputSet, Model
<1>3. /\ nn.view = mm.view /\ nn.dialog = mm.dialog /\ nn.detail = mm.detail /\ nn.wiz = mm.wiz
      /\ SameTables(mm, nn)
  BY <1>1 DEF InputSet, Model, SameTables
<1>4. Drawn(nn)
  BY <1>1, <1>3 DEF Drawn
<1>. HIDE DEF nn
<1>5. Shape(nn)
  BY <1>1, <1>2, <1>3, <1>4, TablesKeep
<1>. QED
  BY <1>3, <1>5 DEF nn

(* Keys in the scale dialog.                                               *)
LEMMA ScaleDialogKeyGood ==
  ASSUME NEW mm, Shape(mm), NEW k
  PROVE  Good(mm, ScaleDialogKey(mm, k))
<1>1. Good(mm, Keep(mm))
  BY KeepGood
<1>2. Good(mm, Keep(ScaleClosed(mm)))
  BY ScaleClosedShape, KeepGood
<1>3. mm.input \in Seq(Digit)
  BY ModelIs DEF Shape, Texts
<1>4. CASE k = "enter"
  <2>1. Good(mm, <<ScaleClosed(mm), [do |-> "scale", name |-> mm.target, to |-> Scanned(mm.input)]>>)
    BY ScaleClosedShape, PlainItems DEF Good
  <2>2. \/ ScaleDialogKey(mm, k) = Keep(ScaleClosed(mm))
        \/ ScaleDialogKey(mm, k) =
             <<ScaleClosed(mm), [do |-> "scale", name |-> mm.target, to |-> Scanned(mm.input)]>>
    BY <1>4 DEF ScaleDialogKey, Digit
  <2>. QED
    BY <1>2, <2>1, <2>2
<1>5. CASE k = "backspace" /\ mm.input # <<>>
  <2>1. PICK ds \in Texts : ds = Front(mm.input)
    BY ONLY <1>3, <1>5, Ends DEF Texts
  <2>2. ScaleDialogKey(mm, k) = Keep(InputSet(mm, ds))
    BY ONLY <1>5, <2>1 DEF ScaleDialogKey, InputSet, Digit
  <2>3. Good(mm, Keep(InputSet(mm, ds)))
    BY InputSetShape, KeepGood
  <2>. QED
    BY <2>2, <2>3
<1>6. CASE k \in Digit /\ Len(mm.input) < MaxDigits
  <2>1. PICK ds \in Texts : ds = Append(mm.input, k)
    BY ONLY <1>3, <1>6, Longer DEF Texts
  <2>2. ScaleDialogKey(mm, k) = Keep(InputSet(mm, ds))
    BY ONLY <1>6, <2>1 DEF ScaleDialogKey, InputSet, Digit
  <2>3. Good(mm, Keep(InputSet(mm, ds)))
    BY InputSetShape, KeepGood
  <2>. QED
    BY <2>2, <2>3
<1>7. CASE /\ k # "enter" /\ ~(k = "backspace" /\ mm.input # <<>>)
           /\ ~(k \in Digit /\ Len(mm.input) < MaxDigits)
  <2>1. ScaleDialogKey(mm, k) = Keep(ScaleClosed(mm)) \/ ScaleDialogKey(mm, k) = Keep(mm)
    BY ONLY <1>7 DEF ScaleDialogKey
  <2>. QED
    BY <1>1, <1>2, <2>1
<1>. QED
  BY <1>4, <1>5, <1>6, <1>7

-----------------------------------------------------------------------------
(* Keys with a process selected *)

(* An action is ordered.                                                   *)
LEMMA TriggerGood ==
  ASSUME NEW mm, Shape(mm), NEW what, what \notin {"create", "update"}, NEW n
  PROVE  Good(mm, Trigger(mm, what, n))
<1>1. Good(mm, Keep(mm))
  BY KeepGood
<1>2. Good(mm, Ask(Cancelled(mm), what, n))
  BY CancelledShape, AskGood
<1>. QED
  BY <1>1, <1>2 DEF Trigger

(* The logs come into view together with their timer, and remember a list  *)
(* or details to go back to.                                               *)
LEMMA OpenLogGood ==
  ASSUME NEW mm, Shape(mm), mm.dialog = "none", mm.view \in {"list", "detail"}, NEW n \in Someone
  PROVE  Good(mm, OpenLog(mm, n))
<1>. DEFINE nn == [mm EXCEPT !.logProc = n, !.logReturn = mm.view, !.view = "logs"]
<1>1. mm \in Model /\ Held(mm.detail, mm)
  BY DEF Shape
<1>2. nn \in Model
  BY <1>1 DEF Model
<1>3. nn.dialog = "none" /\ nn.detail = mm.detail /\ SameTables(mm, nn)
  BY <1>1 DEF Model, SameTables
<1>4. OpenLog(mm, n) = <<nn, [do |-> "logtick"]>>
  BY DEF OpenLog
<1>. HIDE DEF nn
<1>5. Drawn(nn)
  BY <1>3 DEF Drawn
<1>6. Shape(nn)
  BY <1>1, <1>2, <1>3, <1>5, TablesKeep
<1>. QED
  BY <1>4, <1>6, PlainItems DEF Good

(* Views and dialogs that a key of the list opens for a process.           *)
Opened(mm, n) == [mm EXCEPT !.detail = n, !.view = "detail"]
Confirming(mm, n) == [mm EXCEPT !.dialog = "confirm", !.action = "delete", !.target = n]
Scaling(mm, n) == [mm EXCEPT !.dialog = "scale", !.target = n, !.input = <<>>]

(* Details are shown of a process of the last list.                        *)
LEMMA OpenedGood ==
  ASSUME NEW mm, Shape(mm), mm.dialog = "none", NEW n \in Someone, Held(n, mm)
  PROVE  Good(mm, Keep(Opened(mm, n)))
<1>. DEFINE nn == Opened(mm, n)
<1>1. mm \in Model
  BY DEF Shape
<1>2. nn \in Model
  BY <1>1 DEF Opened, Model
<1>3. nn.dialog = "none" /\ nn.detail = n /\ nn.view = "detail" /\ SameTables(mm, nn)
  BY <1>1 DEF Opened, Model, SameTables
<1>. HIDE DEF nn
<1>4. Drawn(nn)
  BY <1>3 DEF Drawn
<1>5. Shape(nn)
  BY <1>2, <1>3, <1>4, TablesKeep
<1>6. Good(mm, Keep(nn))
  BY <1>3, <1>5, KeepGood
<1>. QED
  BY <1>6 DEF nn

(* A deletion is to be confirmed, over the list.                           *)
LEMMA ConfirmingGood ==
  ASSUME NEW mm, Shape(mm), mm.view = "list", NEW n \in Someone
  PROVE  Good(mm, Keep(Confirming(mm, n)))
<1>. DEFINE nn == Confirming(mm, n)
<1>1. mm \in Model /\ Held(mm.detail, mm)
  BY DEF Shape
<1>2. nn \in Model
  BY <1>1 DEF Confirming, Model
<1>3. nn.detail = mm.detail /\ nn.view = "list" /\ SameTables(mm, nn)
  BY <1>1 DEF Confirming, Model, SameTables
<1>. HIDE DEF nn
<1>4. Drawn(nn)
  BY <1>3 DEF Drawn
<1>5. Shape(nn)
  BY <1>1, <1>2, <1>3, <1>4, TablesKeep
<1>6. Good(mm, Keep(nn))
  BY <1>3, <1>5, KeepGood
<1>. QED
  BY <1>6 DEF nn

(* A number is asked for, over the list.                                   *)
LEMMA ScalingGood ==
  ASSUME NEW mm, Shape(mm), mm.view = "list", NEW n \in Someone
  PROVE  Good(mm, Keep(Scaling(mm, n)))
<1>. DEFINE nn == Scaling(mm, n)
<1>1. mm \in Model /\ Held(mm.detail, mm)
  BY DEF Shape
<1>2. nn \in Model
  <2>1. <<>> \in Texts
    BY DEF Texts
  <2>. QED
    BY <1>1, <2>1 DEF Scaling, Model
<1>3. nn.detail = mm.detail /\ nn.view = "list" /\ SameTables(mm, nn)
  BY <1>1 DEF Scaling, Model, SameTables
<1>. HIDE DEF nn
<1>4. Drawn(nn)
  BY <1>3 DEF Drawn
<1>5. Shape(nn)
  BY <1>1, <1>2, <1>3, <1>4, TablesKeep
<1>6. Good(mm, Keep(nn))
  BY <1>3, <1>5, KeepGood
<1>. QED
  BY <1>6 DEF nn

(* Keys that act on the selected process.                                  *)
LEMMA ProcessKeyGood ==
  ASSUME NEW mm, Shape(mm), mm.dialog = "none", mm.view = "list", NEW k,
         NEW n \in Someone, Held(n, mm)
  PROVE  Good(mm, ProcessKey(mm, k, n))
<1>1. \/ ProcessKey(mm, k, n) = Keep(mm)
      \/ ProcessKey(mm, k, n) = Keep(Opened(mm, n))
      \/ ProcessKey(mm, k, n) = Keep(Confirming(mm, n))
      \/ ProcessKey(mm, k, n) = Keep(Scaling(mm, n))
      \/ \E what \in {"restart", "start", "stop", "resume", "pause", "trigger"} :
           ProcessKey(mm, k, n) = Trigger(mm, what, n)
      \/ \E what \in {"config", "delta"} : ProcessKey(mm, k, n) = Ask(mm, what, n)
      \/ ProcessKey(mm, k, n) = OpenLog(mm, n)
  BY DEF ProcessKey, Opened, Confirming, Scaling
<1>2. Good(mm, Keep(mm)) /\ Good(mm, Keep(Opened(mm, n))) /\ Good(mm, Keep(Confirming(mm, n)))
      /\ Good(mm, Keep(Scaling(mm, n))) /\ Good(mm, OpenLog(mm, n))
  BY KeepGood, OpenedGood, ConfirmingGood, ScalingGood, OpenLogGood
<1>3. \A what \in {"restart", "start", "stop", "resume", "pause", "trigger"} :
        Good(mm, Trigger(mm, what, n))
  BY TriggerGood
<1>4. \A what \in {"config", "delta"} : Good(mm, Ask(mm, what, n))
  BY AskGood
<1>. QED
  BY <1>1, <1>2, <1>3, <1>4

-----------------------------------------------------------------------------
(* Keys of the list *)

(* Of a table that has been set anew or scrolled.                          *)
Placed(mm, t, i, f) == [mm EXCEPT !.idx[t] = i, !.off[t] = f]

(* Within the table and in sight, a selection keeps the shape.             *)
LEMMA PlacedShape ==
  ASSUME NEW mm, Shape(mm), NEW t \in Tabs, NEW i \in Nat, NEW f \in Nat,
         t # "system" => (Len(mm.data[t]) > 0 => i < Len(mm.data[t])),
         t = "processes" => (Len(mm.data[t]) > 0 => f <= i /\ i < f + Rows(mm))
  PROVE  Shape(Placed(mm, t, i, f)) /\ Placed(mm, t, i, f).view = mm.view
<1>. DEFINE nn == Placed(mm, t, i, f)
<1>1. mm \in Model /\ Held(mm.detail, mm) /\ Drawn(mm) /\ Listed(mm) /\ Indexed(mm) /\ Shown(mm)
  BY DEF Shape
<1>2. nn \in Model
  BY <1>1 DEF Placed, Model
<1>3. /\ nn.view = mm.view /\ nn.dialog = mm.dialog /\ nn.detail = mm.detail /\ nn.wiz = mm.wiz
      /\ nn.data = mm.data /\ nn.height = mm.height /\ nn.cache = mm.cache
      /\ nn.idx = [mm.idx EXCEPT ![t] = i] /\ nn.off = [mm.off EXCEPT ![t] = f]
  BY <1>1 DEF Placed, Model
<1>4. mm.idx \in [Tabs -> Nat] /\ mm.off \in [Tabs -> Nat]
  BY <1>1, ModelIs
<1>5. Rows(nn) = Rows(mm)
  BY <1>3 DEF Rows
<1>. HIDE DEF nn
<1>6. Indexed(nn)
  BY <1>1, <1>3, <1>4 DEF Indexed, Tables
<1>7. Shown(nn)
  <2>1. "processes" \in Tabs
    BY DEF Tabs
  <2>. QED
    BY <1>1, <1>3, <1>4, <1>5, <2>1 DEF Shown
<1>8. Drawn(nn) /\ Held(nn.detail, nn) /\ Listed(nn)
  BY <1>1, <1>3 DEF Drawn, Held, Listed
<1>9. Shape(nn)
  BY <1>2, <1>6, <1>7, <1>8 DEF Shape
<1>. QED
  BY <1>3, <1>9 DEF nn

(* setSelection and moveSelection, however far.                            *)
LEMMA SelectShape ==
  ASSUME NEW mm, Shape(mm), NEW j \in Int
  PROVE  Shape(Select(mm, j)) /\ Select(mm, j).view = mm.view
<1>1. PICK t \in Tabs : t = mm.tab
  BY ModelIs DEF Shape
<1>2. mm \in Model /\ mm.idx[t] \in Nat /\ mm.off[t] \in Nat
  BY ModelIs DEF Shape
<1>3. t # "system" => Len(mm.data[t]) \in Nat
  BY TableIs DEF Tables
<1>4. PICK n \in Nat : n = Count(mm)
  BY <1>1, <1>3 DEF Count
<1>5. t # "system" => n = Len(mm.data[t])
  BY <1>1, <1>4 DEF Count
<1>6. PICK i \in Nat : i = Clamp(j, n) /\ (n > 0 => i < n)
  BY ClampType
<1>7. Rows(mm) \in Nat \ {0}
  BY RowsType, ModelIs DEF Shape
<1>8. PICK f \in Nat : /\ f = IF n = 0 \/ t = "system" THEN mm.off[t] ELSE Visible(mm.off[t], i, n, Rows(mm))
                       /\ n > 0 /\ t # "system" => f <= i /\ i < f + Rows(mm)
  <2>1. PICK a, r : a = mm.off[t] /\ r = Rows(mm) /\ a \in Nat /\ r \in Nat \ {0}
    BY ONLY <1>2, <1>7
  <2>2. PICK v \in Nat : v = Visible(a, i, n, r) /\ (i < n => v <= i /\ i < v + r)
    BY ONLY <2>1, i \in Nat, n \in Nat, VisibleShows
  <2>3. CASE n = 0 \/ t = "system"
    BY ONLY <2>1, <2>3, n \in Nat
  <2>4. CASE ~(n = 0 \/ t = "system")
    BY ONLY <1>6, <2>1, <2>2, <2>4, n \in Nat
  <2>. QED
    BY <2>3, <2>4
<1>9. Select(mm, j) = Placed(mm, t, i, f)
  BY <1>1, <1>2, <1>4, <1>6, <1>8 DEF Select, Placed
<1>10. Shape(Placed(mm, t, i, f)) /\ Placed(mm, t, i, f).view = mm.view
  <2>1. t # "system" => (Len(mm.data[t]) > 0 => i < Len(mm.data[t]))
    BY <1>5, <1>6
  <2>2. t = "processes" => (Len(mm.data[t]) > 0 => f <= i /\ i < f + Rows(mm))
    BY <1>5, <1>8
  <2>. QED
    BY <2>1, <2>2, PlacedShape
<1>. QED
  BY <1>9, <1>10

(* On a table it scrolls to what it selects.                               *)
LEMMA SelectShown ==
  ASSUME NEW mm, Shape(mm), mm.tab # "system", NEW j \in Int
  PROVE  RowShown(Select(mm, j), mm.tab)
<1>1. PICK t \in Tabs : t = mm.tab /\ t # "system"
  BY ModelIs DEF Shape
<1>2. /\ mm \in Model /\ mm.off[t] \in Nat /\ Rows(mm) \in Nat \ {0}
      /\ mm.idx \in [Tabs -> Nat] /\ mm.off \in [Tabs -> Nat]
  BY ModelIs, RowsType DEF Shape
<1>3. PICK n \in Nat : n = Len(mm.data[t]) /\ n = Count(mm)
  BY <1>1, TableIs DEF Tables, Count, Shape
<1>4. PICK i \in Nat : i = Clamp(j, n) /\ (n > 0 => i < n)
  BY ClampType
<1>5. CASE n = 0
  <2>1. Select(mm, j) = Placed(mm, t, i, mm.off[t])
    BY <1>1, <1>2, <1>3, <1>4, <1>5 DEF Select, Placed
  <2>2. PICK nn : nn = Placed(mm, t, i, mm.off[t])
    OBVIOUS
  <2>3. nn.data = mm.data
    BY <1>2, <2>2 DEF Placed, Model
  <2>4. ~(Len(nn.data[t]) > 0)
    <3>1. PICK l : l = Len(nn.data[t])
      OBVIOUS
    <3>2. l = 0
      BY <1>3, <1>5, <2>3, <3>1, Zenon
    <3>3. ~(l > 0)
      BY ONLY <3>2
    <3>. QED
      BY <3>1, <3>3, Zenon
  <2>5. RowShown(nn, t)
    BY <2>4, Zenon DEF RowShown
  <2>. QED
    BY <1>1, <2>1, <2>2, <2>5
<1>6. CASE n > 0
  <2>1. PICK a \in Nat, r \in Nat \ {0} : a = mm.off[t] /\ r = Rows(mm)
    BY <1>2
  <2>2. PICK f \in Nat : f = Visible(a, i, n, r) /\ f <= i /\ i < f + r
    BY <1>4, <1>6, VisibleShows
  <2>3. Select(mm, j) = Placed(mm, t, i, f)
    <3>1. f = IF n = 0 \/ t = "system" THEN mm.off[t] ELSE Visible(mm.off[t], i, n, Rows(mm))
      BY ONLY <1>1, <1>6, <2>1, <2>2
    <3>. QED
      BY <1>1, <1>2, <1>3, <1>4, <3>1 DEF Select, Placed
  <2>4. PICK nn : nn = Placed(mm, t, i, f)
    OBVIOUS
  <2>5. nn.idx[t] = i /\ nn.off[t] = f /\ nn.height = mm.height
    BY <1>1, <1>2, <2>4 DEF Placed, Model
  <2>6. Rows(nn) = Rows(mm)
    BY <2>5 DEF Rows
  <2>7. RowShown(nn, t)
    BY <2>1, <2>2, <2>5, <2>6 DEF RowShown
  <2>. QED
    BY <1>1, <2>3, <2>4, <2>7
<1>. QED
  BY <1>3, <1>5, <1>6

(* Another view, no dialog being open.                                     *)
LEMMA ViewShape ==
  ASSUME NEW mm, Shape(mm), mm.dialog = "none",
         NEW v \in {"list", "detail", "logs", "help", "wizard"}
  PROVE  Shape([mm EXCEPT !.view = v]) /\ [mm EXCEPT !.view = v].view = v
         /\ [mm EXCEPT !.view = v].dialog = "none"
<1>. DEFINE nn == [mm EXCEPT !.view = v]
<1>1. mm \in Model /\ Held(mm.detail, mm)
  BY DEF Shape
<1>2. nn \in Model
  BY <1>1 DEF Model
<1>3. nn.view = v /\ nn.dialog = "none" /\ nn.detail = mm.detail /\ SameTables(mm, nn)
  BY <1>1 DEF Model, SameTables
<1>4. Drawn(nn)
  BY <1>3 DEF Drawn
<1>. HIDE DEF nn
<1>5. Shape(nn)
  BY <1>1, <1>2, <1>3, <1>4, TablesKeep
<1>. QED
  BY <1>3, <1>5 DEF nn

(* Another tab.                                                            *)
LEMMA TabShape ==
  ASSUME NEW mm, Shape(mm), NEW t \in Tabs
  PROVE  Shape([mm EXCEPT !.tab = t]) /\ [mm EXCEPT !.tab = t].view = mm.view
<1>. DEFINE nn == [mm EXCEPT !.tab = t]
<1>1. mm \in Model /\ Held(mm.detail, mm) /\ Drawn(mm)
  BY DEF Shape
<1>2. nn \in Model
  BY <1>1 DEF Model
<1>3. /\ nn.view = mm.view /\ nn.dialog = mm.dialog /\ nn.detail = mm.detail /\ nn.wiz = mm.wiz
      /\ SameTables(mm, nn)
  BY <1>1 DEF Model, SameTables
<1>4. Drawn(nn)
  BY <1>1, <1>3 DEF Drawn
<1>. HIDE DEF nn
<1>5. Shape(nn)
  BY <1>1, <1>2, <1>3, <1>4, TablesKeep
<1>. QED
  BY <1>3, <1>5 DEF nn

(* Another form, no dialog being open.                                     *)
LEMMA WizShape ==
  ASSUME NEW mm, Shape(mm), NEW w \in Form, NEW v \in {"list", "wizard"},
         mm.dialog = "none"
  PROVE  Shape([mm EXCEPT !.wiz = w, !.view = v]) /\ [mm EXCEPT !.wiz = w, !.view = v].view = v
<1>. DEFINE nn == [mm EXCEPT !.wiz = w, !.view = v]
<1>1. mm \in Model /\ Held(mm.detail, mm)
  BY DEF Shape
<1>2. nn \in Model
  BY <1>1 DEF Model
<1>3. /\ nn.view = v /\ nn.dialog = mm.dialog /\ nn.detail = mm.detail /\ nn.wiz = w
      /\ SameTables(mm, nn)
  BY <1>1 DEF Model, SameTables
<1>. HIDE DEF nn
<1>4. Drawn(nn)
  BY <1>3 DEF Drawn
<1>5. Shape(nn)
  BY <1>1, <1>2, <1>3, <1>4, TablesKeep
<1>. QED
  BY <1>3, <1>5 DEF nn

(* Keys of the list.                                                       *)
LEMMA ListKeyGood ==
  ASSUME NEW mm, Shape(mm), mm.dialog = "none", mm.view = "list", NEW k
  PROVE  Good(mm, ListKey(mm, k))
<1>. DEFINE n == Selected(mm)
<1>1. \/ \E t \in Tabs : ListKey(mm, k) = Keep([mm EXCEPT !.tab = t])
      \/ ListKey(mm, k) = Keep(Select(mm, mm.idx[mm.tab] - 1))
      \/ ListKey(mm, k) = Keep(Select(mm, mm.idx[mm.tab] + 1))
      \/ ListKey(mm, k) = Keep(Select(mm, 0))
      \/ ListKey(mm, k) = Keep(Select(mm, Count(mm) - 1))
      \/ ListKey(mm, k) = Keep(mm)
      \/ ListKey(mm, k) = Keep([mm EXCEPT !.wiz = Blank, !.view = "wizard"])
      \/ \E what \in {"reload", "save"} : ListKey(mm, k) = Ask(mm, what, None)
      \/ ListKey(mm, k) = ProcessKey(mm, k, n)
  <2>1. CASE k \in DOMAIN TabOf
    <3>1. TabOf[k] \in Tabs /\ k \in {"1", "2", "3", "4"}
      BY <2>1 DEF TabOf, Tabs
    <3>2. ListKey(mm, k) = Keep([mm EXCEPT !.tab = TabOf[k]])
      BY <2>1, <3>1 DEF ListKey
    <3>. QED
      BY <3>1, <3>2
  <2>2. CASE k \notin DOMAIN TabOf
    BY <2>2 DEF ListKey
  <2>. QED
    BY <2>1, <2>2
<1>2. mm.idx[mm.tab] \in Nat /\ Count(mm) \in Int
  <2>1. mm.tab \in Tabs /\ mm.idx[mm.tab] \in Nat
    BY ModelIs DEF Shape
  <2>2. mm.tab # "system" => Len(mm.data[mm.tab]) \in Nat
    BY <2>1, TableIs DEF Tables
  <2>. QED
    BY <2>1, <2>2 DEF Count
<1>3. ASSUME NEW j \in Int PROVE Good(mm, Keep(Select(mm, j)))
  BY SelectShape, KeepGood
<1>4. ASSUME NEW t \in Tabs PROVE Good(mm, Keep([mm EXCEPT !.tab = t]))
  BY TabShape, KeepGood
<1>5. Good(mm, Keep(mm))
  BY KeepGood
<1>6. Good(mm, Keep([mm EXCEPT !.wiz = Blank, !.view = "wizard"]))
  <2>1. PICK w \in Form : w = Blank
    BY BlankForm
  <2>2. PICK nn : nn = [mm EXCEPT !.wiz = w, !.view = "wizard"]
    OBVIOUS
  <2>3. Shape(nn) /\ nn.view = "wizard"
    BY <2>2, WizShape
  <2>4. Good(mm, Keep(nn))
    BY <2>3, KeepGood
  <2>. QED
    BY <2>1, <2>2, <2>4
<1>7. ASSUME NEW what \in {"reload", "save"} PROVE Good(mm, Ask(mm, what, None))
  BY AskGood
<1>8. Good(mm, ProcessKey(mm, k, n))
  BY SelectedKnown, ProcessKeyGood
<1>9. Good(mm, Keep(Select(mm, mm.idx[mm.tab] - 1))) /\ Good(mm, Keep(Select(mm, mm.idx[mm.tab] + 1)))
      /\ Good(mm, Keep(Select(mm, 0))) /\ Good(mm, Keep(Select(mm, Count(mm) - 1)))
  BY <1>2, <1>3
<1>. HIDE DEF n
<1>. QED
  BY <1>1, <1>4, <1>5, <1>6, <1>7, <1>8, <1>9

(* Keys of the details.                                                    *)
LEMMA DetailKeyGood ==
  ASSUME NEW mm, Shape(mm), mm.dialog = "none", mm.view = "detail", NEW k
  PROVE  Good(mm, DetailKey(mm, k))
<1>1. mm.detail \in Someone
  BY ModelIs DEF Shape
<1>2. \/ DetailKey(mm, k) = Keep(mm) \/ DetailKey(mm, k) = OpenLog(mm, mm.detail)
      \/ DetailKey(mm, k) = Trigger(mm, "restart", mm.detail)
      \/ DetailKey(mm, k) = Trigger(mm, "stop", mm.detail)
  BY DEF DetailKey
<1>. QED
  BY <1>1, <1>2, KeepGood, OpenLogGood, TriggerGood

(* Keys of the form: the last step submits, and what it submits is         *)
(* complete.                                                               *)
LEMMA FormKeyGood ==
  ASSUME NEW mm, Shape(mm), mm.dialog = "none", mm.view = "wizard", NEW k
  PROVE  Good(mm, FormKey(mm, k))
<1>1. mm \in Model /\ mm.wiz \in Form
  BY ModelIs DEF Shape
<1>2. CASE mm.wiz.step = 4 /\ k \in {"tab", "enter"}
  <2>0. PICK b \in Form : b = Blank
    BY BlankForm
  <2>1. PICK nn, c : /\ nn = [mm EXCEPT !.view = "list", !.wiz = b]
                     /\ b = Blank /\ c = Submission(mm.wiz)
    BY <2>0
  <2>2. FormKey(mm, k) = <<nn, c>>
    BY <1>2, <2>1 DEF FormKey
  <2>3. Shape(nn) /\ nn.view = "list"
    <3>1. nn = [mm EXCEPT !.wiz = b, !.view = "list"]
      BY <1>1, <2>1 DEF Model
    <3>. QED
      BY <3>1, WizShape
  <2>4. ItemOK(c)
    <3>1. c.name > 0 /\ c.args # <<>> /\ c.scale >= 1
      BY <1>1, <1>2, <2>1, SubmissionValid
    <3>2. "msg" \notin DOMAIN c
      BY <2>1 DEF Submission
    <3>. QED
      BY <3>1, <3>2 DEF ItemOK
  <2>. QED
    BY <2>2, <2>3, <2>4 DEF Good
<1>3. CASE ~(mm.wiz.step = 4 /\ k \in {"tab", "enter"})
  <2>1. PICK w \in Form : w = WizardKey(mm.wiz, k)
    BY <1>1, <1>3, WizardKeyKeeps
  <2>2. PICK nn : nn = [mm EXCEPT !.wiz = w]
    OBVIOUS
  <2>3. nn = [mm EXCEPT !.wiz = w, !.view = "wizard"]
    BY <1>1, <2>2 DEF Model
  <2>4. Shape(nn) /\ nn.view = "wizard"
    BY <2>3, WizShape
  <2>5. FormKey(mm, k) = Keep(nn)
    BY <1>3, <2>1, <2>2 DEF FormKey
  <2>6. Good(mm, Keep(nn))
    BY <2>4, KeepGood
  <2>. QED
    BY <2>5, <2>6
<1>. QED
  BY <1>2, <1>3

(* The program ends.                                                       *)
LEMMA QuitGood ==
  ASSUME NEW mm, Shape(mm)
  PROVE  Good(mm, Quit(mm))
<1>. DEFINE nn == [mm EXCEPT !.quitting = TRUE]
<1>1. mm \in Model /\ Held(mm.detail, mm) /\ Drawn(mm)
  BY DEF Shape
<1>2. nn \in Model
  BY <1>1 DEF Model
<1>3. /\ nn.view = mm.view /\ nn.dialog = mm.dialog /\ nn.detail = mm.detail /\ nn.wiz = mm.wiz
      /\ SameTables(mm, nn)
  BY <1>1 DEF Model, SameTables
<1>4. Quit(mm) = Keep(nn)
  BY DEF Quit
<1>. HIDE DEF nn
<1>5. Drawn(nn)
  BY <1>1, <1>3 DEF Drawn
<1>6. Shape(nn)
  BY <1>1, <1>2, <1>3, <1>5, TablesKeep
<1>7. Good(mm, Keep(nn))
  BY <1>3, <1>6, KeepGood
<1>. QED
  BY <1>4, <1>7

(* Another view, as a handler's result.                                    *)
LEMMA ViewGood ==
  ASSUME NEW mm, Shape(mm), mm.dialog = "none", NEW v \in {"list", "detail", "help"}
  PROVE  Good(mm, Keep([mm EXCEPT !.view = v]))
<1>1. PICK nn : nn = [mm EXCEPT !.view = v]
  OBVIOUS
<1>2. Shape(nn) /\ nn.view = v
  BY <1>1, ViewShape
<1>3. Good(mm, Keep(nn))
  BY <1>2, KeepGood
<1>. QED
  BY <1>1, <1>3

(* Every key leaves a model in shape.                                      *)
LEMMA HandleKeyGood ==
  ASSUME NEW mm, Shape(mm), NEW k
  PROVE  Good(mm, HandleKey(mm, k))
<1>1. mm.view \in {"list", "detail", "logs", "help", "wizard"} /\ mm.logReturn \in {"list", "detail"}
      /\ mm.dialog \in {"none", "confirm", "scale"}
  BY ModelIs DEF Shape
<1>2. CASE mm.dialog = "confirm"
  <2>1. HandleKey(mm, k) = ConfirmationKey(mm, k)
    BY <1>2 DEF HandleKey
  <2>. QED
    BY <2>1, ConfirmationKeyGood
<1>3. CASE mm.dialog = "scale"
  <2>1. HandleKey(mm, k) = ScaleDialogKey(mm, k)
    BY <1>3 DEF HandleKey
  <2>. QED
    BY <2>1, ScaleDialogKeyGood
<1>4. CASE mm.dialog = "none"
  <2>1. \/ HandleKey(mm, k) = Quit(mm)
        \/ \E v \in {"list", "detail", "help"} : HandleKey(mm, k) = Keep([mm EXCEPT !.view = v])
        \/ mm.view = "list" /\ HandleKey(mm, k) = ListKey(mm, k)
        \/ mm.view = "detail" /\ HandleKey(mm, k) = DetailKey(mm, k)
        \/ HandleKey(mm, k) = Keep(mm)
        \/ mm.view = "wizard" /\ HandleKey(mm, k) = FormKey(mm, k)
    BY <1>1, <1>4 DEF HandleKey
  <2>2. Good(mm, Quit(mm)) /\ Good(mm, Keep(mm))
    BY QuitGood, KeepGood
  <2>3. ASSUME NEW v \in {"list", "detail", "help"} PROVE Good(mm, Keep([mm EXCEPT !.view = v]))
    BY <1>4, ViewGood
  <2>. QED
    BY <1>4, <2>1, <2>2, <2>3, ListKeyGood, DetailKeyGood, FormKeyGood
<1>. QED
  BY <1>1, <1>2, <1>3, <1>4

-----------------------------------------------------------------------------
(* Three times esc *)

(* The keys that move the selection scroll to it.                          *)
LEMMA MovedShown ==
  ASSUME NEW mm, Shape(mm), mm.view = "list", mm.dialog = "none", mm.tab # "system",
         NEW k \in {"k", "up", "j", "down", "g", "G"}
  PROVE  RowShown(HandleKey(mm, k)[1], mm.tab)
<1>1. PICK t \in Tabs : t = mm.tab /\ t # "system" /\ mm.idx[t] \in Nat /\ Len(mm.data[t]) \in Nat
  BY ModelIs, TableIs DEF Shape, Tables
<1>2. Count(mm) = Len(mm.data[t])
  BY <1>1 DEF Count
<1>3. HandleKey(mm, k) = ListKey(mm, k)
  BY DEF HandleKey
<1>4. k \notin DOMAIN TabOf
  BY DEF TabOf
<1>5. CASE k \in {"k", "up"}
  <2>1. ListKey(mm, k) = Keep(Select(mm, mm.idx[t] - 1))
    BY <1>1, <1>4, <1>5 DEF ListKey
  <2>. QED
    BY <1>1, <1>3, <2>1, SelectShown DEF Keep
<1>6. CASE k \in {"j", "down"}
  <2>1. ListKey(mm, k) = Keep(Select(mm, mm.idx[t] + 1))
    BY <1>1, <1>4, <1>6 DEF ListKey
  <2>. QED
    BY <1>1, <1>3, <2>1, SelectShown DEF Keep
<1>7. CASE k = "g"
  <2>1. ListKey(mm, k) = Keep(Select(mm, 0))
    BY <1>4, <1>7 DEF ListKey
  <2>. QED
    BY <1>3, <2>1, SelectShown DEF Keep
<1>8. CASE k = "G"
  <2>1. ListKey(mm, k) = IF Count(mm) > 0 THEN Keep(Select(mm, Count(mm) - 1)) ELSE Keep(mm)
    BY <1>4, <1>8 DEF ListKey
  <2>2. CASE Count(mm) > 0
    BY <1>1, <1>2, <1>3, <2>1, <2>2, SelectShown DEF Keep
  <2>3. CASE ~(Count(mm) > 0)
    BY <1>1, <1>2, <1>3, <2>1, <2>3 DEF Keep, RowShown
  <2>. QED
    BY <2>2, <2>3
<1>. QED
  BY <1>5, <1>6, <1>7, <1>8

(* esc closes a dialog, or leaves the logs for where they came from, or    *)
(* leads to the list.                                                      *)
LEMMA EscIs ==
  ASSUME NEW mm, Shape(mm), NEW e, e = HandleKey(mm, "esc")[1]
  PROVE  /\ Shape(e) /\ e.dialog = "none"
         /\ mm.dialog = "none" => e.view = IF mm.view = "logs" THEN mm.logReturn ELSE "list"
<1>1. Shape(e)
  BY HandleKeyGood DEF Good
<1>2. CASE mm.dialog = "confirm"
  <2>1. HandleKey(mm, "esc") = Keep(Cancelled(mm))
    BY <1>2 DEF HandleKey, ConfirmationKey
  <2>. QED
    BY <1>1, <1>2, <2>1, CancelledShape DEF Keep
<1>3. CASE mm.dialog = "scale"
  <2>1. HandleKey(mm, "esc") = Keep(ScaleClosed(mm))
    BY <1>3 DEF HandleKey, ScaleDialogKey, Digit
  <2>. QED
    BY <1>1, <1>3, <2>1, ScaleClosedShape DEF Keep
<1>4. CASE mm.dialog = "none"
  <2>1. PICK v \in {"list", "detail"} : v = IF mm.view = "logs" THEN mm.logReturn ELSE "list"
    BY ModelIs DEF Shape
  <2>2. HandleKey(mm, "esc") = Keep([mm EXCEPT !.view = v])
    BY <1>4, <2>1 DEF HandleKey
  <2>3. e = [mm EXCEPT !.view = v]
    BY <2>2 DEF Keep
  <2>. QED
    <3>1. [mm EXCEPT !.view = v].view = v /\ [mm EXCEPT !.view = v].dialog = "none"
      BY <1>4, ViewShape
    <3>. QED
      BY ONLY <1>1, <1>4, <2>1, <2>3, <3>1
<1>. QED
  BY <1>2, <1>3, <1>4, ModelIs DEF Shape

(* So three are enough.                                                    *)
LEMMA ThreeEscs ==
  ASSUME NEW mm, Shape(mm)
  PROVE  LET Esc(x) == HandleKey(x, "esc")[1]
             back == Esc(Esc(Esc(mm)))
         IN  back.view = "list" /\ back.dialog = "none"
<1>1. PICK a : a = HandleKey(mm, "esc")[1]
  OBVIOUS
<1>2. PICK b : b = HandleKey(a, "esc")[1]
  OBVIOUS
<1>3. PICK c : c = HandleKey(b, "esc")[1]
  OBVIOUS
<1>4. Shape(a) /\ a.dialog = "none"
  BY <1>1, EscIs
<1>5. Shape(b) /\ b.dialog = "none" /\ b.view \in {"list", "detail"}
  <2>1. a.logReturn \in {"list", "detail"}
    BY <1>4, ModelIs DEF Shape
  <2>. QED
    BY <1>2, <1>4, <2>1, EscIs
<1>6. c.view = "list" /\ c.dialog = "none"
  BY <1>3, <1>5, EscIs
<1>. QED
  BY <1>1, <1>2, <1>3, <1>6

-----------------------------------------------------------------------------
(* Results *)

(* The tables of a list: those without a schedule, those with one, the     *)
(* history.                                                                *)
LEMMA RowsOf ==
  ASSUME NEW S \in SUBSET Proc
  PROVE  /\ Sorted(S) \in Columns /\ Len(Sorted(S)) \in Nat
         /\ \A i \in 1..Len(Sorted(S)) : Sorted(S)[i] \in S
<1>1. Numbers(S)
  BY Procs
<1>. QED
  BY <1>1, SortedType DEF Columns

(* applyProcessListResult before it looks for the process whose details    *)
(* are shown.                                                              *)
Filled(mm, list, history) ==
  [WithRows(mm, list) EXCEPT
    !.cache = list, !.data["oneshot"] = [i \in 1..history |-> i],
    !.idx["oneshot"] = Clamp(@, history)]

(* A list in the tables: a selection is cut to the new length, and on the  *)
(* processes tab scrolled to.                                              *)
LEMMA FilledShape ==
  ASSUME NEW mm, Shape(mm), NEW list \in Lists, NEW history \in Nat
  PROVE  LET nn == Filled(mm, list, history) IN
         /\ nn \in Model /\ Indexed(nn) /\ Shown(nn) /\ Drawn(nn) /\ Listed(nn)
         /\ nn.view = mm.view /\ nn.detail = mm.detail
<1>. DEFINE nn == Filled(mm, list, history)
<1>1. /\ mm \in Model /\ mm.data \in [Tables -> Columns] /\ mm.idx \in [Tabs -> Nat]
      /\ mm.off \in [Tabs -> Nat]
  BY ModelIs DEF Shape
<1>2. DOMAIN list \in SUBSET Proc
  BY ListsAre
<1>3. PICK jobs \in Columns : /\ jobs = Sorted(DOMAIN list \cap Scheduled) /\ Len(jobs) \in Nat
                              /\ \A i \in 1..Len(jobs) : jobs[i] \in DOMAIN list
  <2>1. DOMAIN list \cap Scheduled \in SUBSET Proc
    BY <1>2
  <2>. QED
    BY <2>1, RowsOf
<1>4. PICK rows \in Columns : /\ rows = Sorted(DOMAIN list \ Scheduled) /\ Len(rows) \in Nat
                              /\ \A i \in 1..Len(rows) : rows[i] \in DOMAIN list
  <2>1. DOMAIN list \ Scheduled \in SUBSET Proc
    BY <1>2
  <2>. QED
    BY <2>1, RowsOf
<1>5. PICK h \in Columns : h = [i \in 1..history |-> i] /\ Len(h) = history
  <2>1. [i \in 1..history |-> i] \in Seq(Nat) /\ Len([i \in 1..history |-> i]) = history
    BY ONLY history \in Nat
  <2>. QED
    BY <2>1 DEF Columns
<1>6. /\ "processes" \in Tables /\ "scheduled" \in Tables /\ "oneshot" \in Tables
      /\ Tables = {"processes", "scheduled", "oneshot"} /\ Tables \subseteq Tabs
  BY DEF Tables, Tabs
<1>7. PICK j \in Nat : j = Clamp(mm.idx["scheduled"], Len(jobs)) /\ (Len(jobs) > 0 => j < Len(jobs))
  <2>1. mm.idx["scheduled"] \in Int
    BY <1>1, <1>6
  <2>. QED
    BY <1>3, <2>1, ClampType
<1>8. PICK i \in Nat : i = Clamp(mm.idx["processes"], Len(rows)) /\ (Len(rows) > 0 => i < Len(rows))
  <2>1. mm.idx["processes"] \in Int
    BY <1>1, <1>6
  <2>. QED
    BY <1>4, <2>1, ClampType
<1>9. PICK o \in Nat : o = Clamp(mm.idx["oneshot"], history) /\ (history > 0 => o < history)
  <2>1. mm.idx["oneshot"] \in Int
    BY <1>1, <1>6
  <2>. QED
    BY <2>1, ClampType
<1>10. PICK f \in Nat : /\ f = Visible(mm.off["processes"], i, Len(rows), Rows(mm))
                        /\ Len(rows) > 0 => f <= i /\ i < f + Rows(mm)
  <2>1. mm.off["processes"] \in Nat /\ Rows(mm) \in Nat \ {0}
    BY <1>1, <1>6, RowsType, ModelIs
  <2>. QED
    BY <1>4, <1>8, <2>1, VisibleShows
<1>. DEFINE d == [mm.data EXCEPT !["scheduled"] = jobs, !["processes"] = rows, !["oneshot"] = h]
            x == [mm.idx EXCEPT !["scheduled"] = j, !["processes"] = i, !["oneshot"] = o]
            s == [mm.off EXCEPT !["processes"] = f]
<1>11. nn = [mm EXCEPT !.data = d, !.idx = x, !.off = s, !.cache = list]
  <2>1. WithJobs(mm, list) =
          [mm EXCEPT !.data = [mm.data EXCEPT !["scheduled"] = jobs],
                     !.idx = [mm.idx EXCEPT !["scheduled"] = j]]
    BY ONLY <1>1, <1>3, <1>7 DEF WithJobs, Model
  <2>2. WithRows(mm, list) =
          [WithJobs(mm, list) EXCEPT !.data["processes"] = rows, !.idx["processes"] = i,
             !.off["processes"] = Visible(@, i, Len(rows), Rows(mm))]
    BY ONLY <1>4, <1>8 DEF WithRows
  <2>3. WithRows(mm, list) =
          [mm EXCEPT !.data = [mm.data EXCEPT !["scheduled"] = jobs, !["processes"] = rows],
                     !.idx = [mm.idx EXCEPT !["scheduled"] = j, !["processes"] = i],
                     !.off = s]
    BY ONLY <1>1, <1>6, <1>10, <2>1, <2>2 DEF Model
  <2>. QED
    <3>1. PICK w, a, b : /\ w = WithRows(mm, list)
                         /\ a = [mm.data EXCEPT !["scheduled"] = jobs, !["processes"] = rows]
                         /\ b = [mm.idx EXCEPT !["scheduled"] = j, !["processes"] = i]
      OBVIOUS
    <3>2. w = [mm EXCEPT !.data = a, !.idx = b, !.off = s]
      BY ONLY <2>3, <3>1
    <3>3. nn = [w EXCEPT !.cache = list, !.data["oneshot"] = h, !.idx["oneshot"] = Clamp(@, history)]
      BY ONLY <1>5, <3>1 DEF Filled
    <3>4. w.data = a /\ w.idx = b
      BY ONLY <1>1, <3>2 DEF Model
    <3>5. b["oneshot"] = mm.idx["oneshot"]
      BY ONLY <1>1, <1>6, <3>1
    <3>6. d = [a EXCEPT !["oneshot"] = h] /\ x = [b EXCEPT !["oneshot"] = o]
      BY ONLY <1>1, <1>6, <3>1
    <3>. HIDE DEF d, x, s, nn
    <3>7. nn = [w EXCEPT !.cache = list, !.data = d, !.idx = x]
      BY ONLY <1>9, <3>3, <3>4, <3>5, <3>6
    <3>. QED
      BY ONLY <1>1, <3>2, <3>7 DEF Model
<1>12. d \in [Tables -> Columns] /\ x \in [Tabs -> Nat] /\ s \in [Tabs -> Nat]
  BY <1>1, <1>6
<1>13. /\ d["scheduled"] = jobs /\ d["processes"] = rows /\ d["oneshot"] = h
       /\ x["scheduled"] = j /\ x["processes"] = i /\ x["oneshot"] = o /\ s["processes"] = f
  BY <1>1, <1>6
<1>. HIDE DEF d, x, s
<1>14. nn \in Model
  BY <1>1, <1>11, <1>12 DEF Model
<1>15. /\ nn.data = d /\ nn.idx = x /\ nn.off = s /\ nn.cache = list
       /\ nn.view = mm.view /\ nn.dialog = mm.dialog /\ nn.wiz = mm.wiz /\ nn.height = mm.height
       /\ nn.detail = mm.detail
  BY <1>1, <1>11 DEF Model
<1>. HIDE DEF nn
<1>16. Indexed(nn)
  BY <1>5, <1>6, <1>7, <1>8, <1>9, <1>13, <1>15 DEF Indexed
<1>17. Shown(nn)
  <2>1. Rows(nn) = Rows(mm)
    BY <1>15 DEF Rows
  <2>. QED
    BY <1>10, <1>13, <1>15, <2>1 DEF Shown
<1>18. Drawn(nn)
  BY <1>15 DEF Shape, Drawn
<1>19. Listed(nn)
  BY <1>3, <1>4, <1>13, <1>15 DEF Listed
<1>. QED
  BY <1>14, <1>15, <1>16, <1>17, <1>18, <1>19 DEF nn

(* applyProcessListResult leaves a model in shape, whatever the list.      *)
LEMMA ApplyShape ==
  ASSUME NEW mm, Shape(mm), NEW list \in Lists, NEW history \in Nat
  PROVE  /\ Shape(Apply(mm, list, history))
         /\ Apply(mm, list, history).view = "logs" => mm.view = "logs"
<1>1. PICK nn : /\ nn = Filled(mm, list, history)
                /\ nn \in Model /\ Indexed(nn) /\ Shown(nn) /\ Drawn(nn) /\ Listed(nn)
                /\ nn.view = mm.view /\ nn.detail = mm.detail
  BY FilledShape
<1>2. Apply(mm, list, history) = ForgetGone(nn)
  BY ONLY <1>1 DEF Apply, Filled
<1>3. CASE nn.detail = None \/ nn.detail \in DOMAIN nn.cache
  BY <1>1, <1>2, <1>3 DEF ForgetGone, Shape, Held
<1>4. CASE ~(nn.detail = None \/ nn.detail \in DOMAIN nn.cache)
  <2>1. PICK v : /\ v = (IF nn.view = "detail" THEN "list" ELSE nn.view)
                 /\ v \in {"list", "detail", "logs", "help", "wizard"}
    BY <1>1, ModelIs
  <2>2. PICK r : r = [nn EXCEPT !.detail = None, !.view = v]
    OBVIOUS
  <2>3. Apply(mm, list, history) = r
    BY ONLY <1>2, <1>4, <2>1, <2>2 DEF ForgetGone
  <2>4. r \in Model
    BY <1>1, <2>1, <2>2 DEF Model, Someone
  <2>5. /\ r.data = nn.data /\ r.idx = nn.idx /\ r.off = nn.off /\ r.cache = nn.cache
        /\ r.view = v /\ r.dialog = nn.dialog /\ r.wiz = nn.wiz /\ r.height = nn.height
        /\ r.detail = None
    BY <1>1, <2>2 DEF Model
  <2>6. Rows(r) = Rows(nn)
    BY <2>5 DEF Rows
  <2>7. Indexed(r) /\ Shown(r) /\ Listed(r)
    BY <1>1, <2>5, <2>6 DEF Indexed, Shown, Listed
  <2>8. Drawn(r) /\ Held(r.detail, r)
    BY <1>1, <2>1, <2>5 DEF Drawn, Held
  <2>9. Shape(r) /\ (r.view = "logs" => mm.view = "logs")
    BY <1>1, <2>1, <2>4, <2>5, <2>7, <2>8 DEF Shape
  <2>. QED
    BY <2>3, <2>9
<1>. QED
  BY <1>3, <1>4

(* A resize scrolls to the selected row.                                   *)
LEMMA ResizedShape ==
  ASSUME NEW mm, Shape(mm), NEW h \in Nat
  PROVE  Shape(Resized(mm, h)) /\ Resized(mm, h).view = mm.view
<1>1. /\ mm \in Model /\ mm.off \in [Tabs -> Nat]
  BY ModelIs DEF Shape
<1>2. "processes" \in Tabs /\ "processes" \in Tables
  BY DEF Tabs, Tables
<1>3. PICK n \in Nat : n = Len(mm.data["processes"])
  BY <1>2, TableIs
<1>4. PICK i \in Nat : i = mm.idx["processes"] /\ (n > 0 => i < n)
  BY <1>2, <1>3, TableIs
<1>5. PICK r : r = [mm EXCEPT !.height = h]
  OBVIOUS
<1>6. Rows(r) \in Nat \ {0}
  <2>1. r.height = h
    BY <1>1, <1>5 DEF Model
  <2>. QED
    BY <2>1, RowsType
<1>7. PICK f \in Nat : /\ f = Visible(mm.off["processes"], i, n, Rows(r))
                       /\ n > 0 => f <= i /\ i < f + Rows(r)
  <2>1. mm.off["processes"] \in Nat
    BY <1>1, <1>2
  <2>. QED
    BY <1>4, <1>6, <2>1, VisibleShows
<1>. DEFINE s == [mm.off EXCEPT !["processes"] = f]
<1>8. PICK nn : nn = [mm EXCEPT !.height = h, !.off = s]
  OBVIOUS
<1>9. Resized(mm, h) = nn
  BY ONLY <1>1, <1>3, <1>4, <1>5, <1>7, <1>8 DEF Resized, Model
<1>10. s \in [Tabs -> Nat] /\ s["processes"] = f
  BY <1>1, <1>2
<1>. HIDE DEF s
<1>11. nn \in Model
  BY <1>1, <1>8, <1>10 DEF Model
<1>12. /\ nn.data = mm.data /\ nn.idx = mm.idx /\ nn.off = s /\ nn.cache = mm.cache
       /\ nn.view = mm.view /\ nn.dialog = mm.dialog /\ nn.wiz = mm.wiz /\ nn.height = h
       /\ nn.detail = mm.detail
  BY <1>1, <1>8 DEF Model
<1>13. Rows(nn) = Rows(r)
  BY <1>1, <1>5, <1>12 DEF Rows, Model
<1>14. Shown(nn)
  BY <1>3, <1>4, <1>7, <1>10, <1>12, <1>13 DEF Shown
<1>15. Indexed(nn) /\ Drawn(nn) /\ Held(nn.detail, nn) /\ Listed(nn)
  BY <1>12 DEF Shape, Indexed, Drawn, Held, Listed
<1>16. Shape(nn)
  BY <1>11, <1>14, <1>15 DEF Shape
<1>. QED
  BY <1>9, <1>12, <1>16

-----------------------------------------------------------------------------
(* What is on its way *)

(* All that is on its way is right.                                        *)
Items(o) == \A e \in DOMAIN o : ItemOK(e)

(* What is sent is on its way.                                             *)
LEMMA BagAdds ==
  ASSUME NEW B, NEW e
  PROVE  DOMAIN (B (+) SetToBag({e})) = DOMAIN B \cup {e}
BY DEF (+), SetToBag

(* What is taken leaves only what was there.                               *)
LEMMA BagTakes ==
  ASSUME NEW B, NEW C
  PROVE  DOMAIN (B (-) C) \subseteq DOMAIN B
BY DEF (-)

(* Sending what is right leaves all right.                                 *)
LEMMA ItemsAdd ==
  ASSUME NEW B, Items(B), NEW e, ItemOK(e)
  PROVE  Items(B (+) SetToBag({e}))
<1>1. ASSUME NEW x \in DOMAIN (B (+) SetToBag({e})) PROVE ItemOK(x)
  <2>1. x \in DOMAIN B \cup {e}
    BY ONLY <1>1, BagAdds
  <2>. QED
    BY <2>1 DEF Items
<1>. QED
  BY ONLY <1>1 DEF Items

(* So does taking anything.                                                *)
LEMMA ItemsTake ==
  ASSUME NEW B, Items(B), NEW C
  PROVE  Items(B (-) C)
BY BagTakes DEF Items

-----------------------------------------------------------------------------
(* The invariant *)

(* The daemon's processes.                                                 *)
Daemon == procs \in Lists /\ runs \in Nat

(* The inductive invariant.                                                *)
TuiInv ==
  /\ sc \in Scenario /\ Shape(m) /\ Daemon /\ Items(out)
  /\ logTicks \in 0..MaxTicks
  /\ m.view = "logs" => logTicks > 0

(* The model that the program starts with.                                 *)
LEMMA NewModelShape == Shape(NewModel)
<1>1. NewModel.cache \in Lists
  <2>1. [n \in {} |-> "stopped"] \in [{} -> States] /\ {} \in SUBSET Proc
    OBVIOUS
  <2>2. [n \in {} |-> "stopped"] \in Lists
    BY ONLY <2>1, ListsAre
  <2>. QED
    BY <2>2 DEF NewModel
<1>2. <<>> \in Columns /\ <<>> \in Texts /\ Len(<<>>) = 0
  BY DEF Columns, Texts
<1>3. NewModel \in Model
  BY <1>1, <1>2, BlankForm, TuiAssumption DEF NewModel, Model, Tabs, Tables, Someone
<1>4. \A t \in Tables : NewModel.data[t] = <<>>
  BY DEF NewModel, Tables
<1>5. "processes" \in Tables /\ "scheduled" \in Tables
  BY DEF Tables, Tabs
<1>6. Indexed(NewModel) /\ Shown(NewModel) /\ Listed(NewModel)
  BY <1>2, <1>4, <1>5 DEF Indexed, Shown, Listed
<1>7. Drawn(NewModel) /\ Held(NewModel.detail, NewModel)
  BY DEF NewModel, Drawn, Held
<1>. QED
  BY <1>3, <1>6, <1>7 DEF Shape

(* The invariant holds at first.                                           *)
LEMMA InitInv == Init => TuiInv
<1>1. SUFFICES ASSUME Init PROVE TuiInv
  OBVIOUS
<1>2. sc \in Scenario /\ sc.first \in SUBSET Proc /\ procs \in [sc.first -> {"running", "idle"}]
  BY <1>1, TuiAssumption DEF Init
<1>3. procs \in Lists
  <2>1. procs \in [sc.first -> States]
    BY <1>2 DEF States
  <2>. QED
    BY ONLY <1>2, <2>1, ListsAre
<1>4. Shape(m) /\ (m.view = "logs" => NewModel.view = "logs")
  BY <1>1, <1>3, NewModelShape, ApplyShape DEF Init
<1>5. NewModel.view # "logs"
  BY DEF NewModel
<1>6. Items(out)
  BY <1>1 DEF Init, Items, EmptyBag, SetToBag
<1>. QED
  BY <1>1, <1>2, <1>3, <1>4, <1>5, <1>6, TuiAssumption DEF Init, TuiInv, Daemon

(* An edit form put in place of whatever is shown.                         *)
Editing(mm, w) == [mm EXCEPT !.wiz = w, !.view = "wizard"]

(* An edit form that comes late is seen, whatever it takes the place of.   *)
LEMMA EditingShape ==
  ASSUME NEW mm, Shape(mm), NEW w \in Form, w.edit
  PROVE  Shape(Editing(mm, w)) /\ Editing(mm, w).view = "wizard"
<1>. DEFINE nn == Editing(mm, w)
<1>1. mm \in Model /\ Held(mm.detail, mm)
  BY DEF Shape
<1>2. nn \in Model
  BY <1>1 DEF Editing, Model
<1>3. nn.view = "wizard" /\ nn.detail = mm.detail /\ nn.wiz = w /\ SameTables(mm, nn)
  BY <1>1 DEF Editing, Model, SameTables
<1>. HIDE DEF nn
<1>4. Drawn(nn)
  BY <1>3 DEF Drawn
<1>5. Shape(nn)
  BY <1>1, <1>2, <1>3, <1>4, TablesKeep
<1>. QED
  BY <1>3, <1>5 DEF nn

-----------------------------------------------------------------------------
(* Every action keeps the invariant *)

(* Every action keeps the invariant: a key,                                *)
LEMMA PressKeeps ==
  ASSUME TuiInv, NEW k, Press(k)
  PROVE  TuiInv'
<1>1. PICK r : r = HandleKey(m, k) /\ Good(m, r)
  BY HandleKeyGood DEF TuiInv
<1>2. /\ m' = r[1] /\ UNCHANGED <<sc, procs, runs>>
      /\ \/ /\ r[2].do = "logtick" /\ logTicks < MaxTicks /\ logTicks' = logTicks + 1
            /\ UNCHANGED out
         \/ r[2].do # "logtick" /\ Send(r[2]) /\ UNCHANGED logTicks
  BY <1>1 DEF Press
<1>3. Shape(m')
  BY <1>1, <1>2 DEF Good
<1>4. Items(out')
  <2>1. CASE out' = out
    BY <2>1 DEF TuiInv
  <2>2. CASE out' = out (+) SetToBag({r[2]})
    BY <1>1, <2>2, ItemsAdd DEF TuiInv, Good
  <2>. QED
    BY <1>2, <2>1, <2>2 DEF Send
<1>5. logTicks' \in 0..MaxTicks /\ (m'.view = "logs" => logTicks' > 0)
  BY <1>1, <1>2, TuiAssumption DEF TuiInv, Good
<1>. QED
  BY <1>2, <1>3, <1>4, <1>5 DEF TuiInv, Daemon

(* a resize,                                                               *)
LEMMA ResizeKeeps ==
  ASSUME TuiInv, NEW h \in Heights, Resize(h)
  PROVE  TuiInv'
<1>1. h \in Nat
  BY TuiAssumption
<1>2. Shape(m') /\ m'.view = m.view
  BY <1>1, ResizedShape DEF TuiInv, Resize
<1>. QED
  BY <1>2 DEF TuiInv, Resize, Daemon

(* the timer of the list,                                                  *)
LEMMA TickKeeps ==
  ASSUME TuiInv, Tick
  PROVE  TuiInv'
<1>1. out' = out (+) SetToBag({[do |-> "list"]}) \/ out' = out
  BY DEF Tick, Send
<1>2. Items(out')
  BY <1>1, ItemsAdd, PlainItems DEF TuiInv
<1>. QED
  BY <1>2 DEF TuiInv, Tick, Daemon

(* the timer of the logs, which ends only out of their view,               *)
LEMMA LogTickKeeps ==
  ASSUME TuiInv, LogTick
  PROVE  TuiInv'
<1>1. logTicks' \in 0..MaxTicks /\ (m'.view = "logs" => logTicks' > 0)
  BY TuiAssumption DEF TuiInv, LogTick
<1>. QED
  BY <1>1 DEF TuiInv, LogTick, Daemon

(* A request that is answered.                                             *)
LEMMA DoneItems ==
  ASSUME TuiInv, NEW c, NEW e, ItemOK(e), Done(c, e)
  PROVE  Items(out')
<1>1. Items(out (-) SetToBag({c}))
  BY ItemsTake DEF TuiInv
<1>2. Items((out (-) SetToBag({c})) (+) SetToBag({e}))
  BY ONLY <1>1, ItemOK(e), ItemsAdd
<1>. QED
  BY ONLY <1>2, Done(c, e) DEF Done

(* an answer with the list,                                                *)
LEMMA FetchKeeps ==
  ASSUME TuiInv, Fetch \/ FetchFails
  PROVE  TuiInv'
<1>1. CASE Fetch
  <2>1. Done([do |-> "list"], [msg |-> "list", list |-> procs])
    BY <1>1 DEF Fetch
  <2>2. ItemOK([msg |-> "list", list |-> procs])
    BY PlainItems DEF TuiInv, Daemon
  <2>3. Items(out')
    BY <2>1, <2>2, DoneItems
  <2>. QED
    BY <1>1, <2>3 DEF TuiInv, Fetch, Daemon
<1>2. CASE FetchFails
  <2>1. Done([do |-> "list"], [msg |-> "nolist"])
    BY <1>2 DEF FetchFails
  <2>2. Items(out')
    BY <2>1, PlainItems, DoneItems
  <2>. QED
    BY <1>2, <2>2 DEF TuiInv, FetchFails, Daemon
<1>. QED
  BY <1>1, <1>2

(* an answer with a configuration,                                         *)
LEMMA FetchConfigKeeps ==
  ASSUME TuiInv, NEW c, FetchConfig(c)
  PROVE  TuiInv'
<1>1. PICK e : /\ e = IF c.name \in DOMAIN procs THEN [msg |-> "config", name |-> c.name]
                     ELSE [msg |-> "error"]
               /\ Done(c, e)
  BY DEF FetchConfig
<1>2. DOMAIN procs \in SUBSET Proc
  BY ListsAre DEF TuiInv, Daemon
<1>3. ItemOK(e)
  BY <1>1, <1>2, PlainItems
<1>4. Items(out')
  BY <1>1, <1>3, DoneItems
<1>. QED
  BY <1>4 DEF TuiInv, FetchConfig, Daemon

(* Whatever a request does, the daemon has known processes in known        *)
(* states.                                                                 *)
LEMMA EffectKeeps ==
  ASSUME TuiInv, NEW c, Effect(c)
  PROVE  procs' \in Lists
<1>1. procs \in [DOMAIN procs -> States] /\ DOMAIN procs \in SUBSET Proc
  BY ListsAre DEF TuiInv, Daemon
<1>2. CASE UNCHANGED procs
  BY <1>2 DEF TuiInv, Daemon
<1>3. CASE Commanded(c)
  <2>1. c.name \in Proc /\ Becomes[c.do] \in sc.states[c.name]
    BY <1>1, <1>3 DEF Commanded
  <2>2. sc.states \in [Proc -> SUBSET States]
    BY TuiAssumption DEF TuiInv
  <2>3. PICK s \in States : s = Becomes[c.do]
    BY <2>1, <2>2
  <2>4. procs' = [procs EXCEPT ![c.name] = s]
    BY ONLY <1>3, <2>3 DEF Commanded
  <2>5. procs' \in [DOMAIN procs -> States]
    BY ONLY <1>1, <2>3, <2>4
  <2>. QED
    BY ONLY <1>1, <2>5, ListsAre
<1>4. CASE Deleted(c)
  <2>1. procs' \in [DOMAIN procs \ {c.name} -> States]
    BY ONLY <1>1, <1>4 DEF Deleted
  <2>2. DOMAIN procs \ {c.name} \in SUBSET Proc
    BY <1>1
  <2>. QED
    BY ONLY <2>1, <2>2, ListsAre
<1>5. CASE Created(c)
  <2>1. procs' \in [DOMAIN procs \cup {c.name} -> States]
    <3>1. "running" \in States
      BY DEF States
    <3>. QED
      BY ONLY <1>1, <1>5, <3>1 DEF Created
  <2>2. DOMAIN procs \cup {c.name} \in SUBSET Proc
    BY <1>1, <1>5 DEF Created
  <2>. QED
    BY ONLY <2>1, <2>2, ListsAre
<1>. QED
  BY <1>2, <1>3, <1>4, <1>5 DEF Effect

(* a request that changes something,                                       *)
LEMMA ActKeeps ==
  ASSUME TuiInv, NEW c, Act(c)
  PROVE  TuiInv'
<1>1. procs' \in Lists
  BY EffectKeeps DEF Act
<1>2. Items(out')
  BY PlainItems, DoneItems DEF Act
<1>. QED
  BY <1>1, <1>2 DEF TuiInv, Act, Daemon

(* a message that is handled,                                              *)
LEMMA DeliverKeeps ==
  ASSUME TuiInv, NEW msg, Deliver(msg)
  PROVE  TuiInv'
<1>1. /\ msg \in DOMAIN out /\ "msg" \in DOMAIN msg
      /\ UNCHANGED <<sc, logTicks, procs, runs>>
  BY DEF Deliver, BagIn, BagToSet
<1>2. ItemOK(msg) /\ msg.msg \in {"list", "nolist", "config", "result", "error"}
  BY <1>1 DEF TuiInv, Items, ItemOK
<1>. DEFINE rest == out (-) SetToBag({msg})
<1>3. Items(rest)
  BY ItemsTake DEF TuiInv
<1>4. CASE msg.msg = "list"
  <2>1. msg.list \in Lists
    BY <1>1, <1>2, <1>4 DEF ItemOK
  <2>2. /\ \E history \in {runs} \cup (IF sc.fails THEN {Len(m.data["oneshot"])} ELSE {}) :
               m' = Apply(m, msg.list, history)
        /\ out' = rest
    BY <1>4 DEF Deliver
  <2>3. Len(m.data["oneshot"]) \in Nat /\ runs \in Nat
    <3>1. "oneshot" \in Tables
      BY DEF Tables, Tabs
    <3>. QED
      BY <3>1, TableIs DEF TuiInv, Daemon
  <2>. HIDE DEF rest
  <2>4. PICK history \in Nat : m' = Apply(m, msg.list, history)
    BY <2>2, <2>3
  <2>5. Shape(m') /\ (m'.view = "logs" => m.view = "logs")
    BY <2>1, <2>4, ApplyShape DEF TuiInv
  <2>. QED
    BY <1>1, <1>3, <2>2, <2>5 DEF TuiInv, Daemon
<1>5. CASE msg.msg = "config"
  <2>1. PICK n \in Proc : n = msg.name
    BY <1>1, <1>2, <1>5 DEF ItemOK
  <2>2. m' = [m EXCEPT !.wiz = EditForm(msg.name, Config[msg.name]), !.view = "wizard"] /\ out' = rest
    BY <1>5 DEF Deliver
  <2>3. PICK w \in Form : w = EditForm(n, Config[n]) /\ w.edit
    BY EditFormType
  <2>. HIDE DEF rest
  <2>4. m' = [m EXCEPT !.wiz = w, !.view = "wizard"]
    BY ONLY <2>1, <2>2, <2>3
  <2>5. Shape(m') /\ m'.view = "wizard"
    <3>1. m' = Editing(m, w)
      BY ONLY <2>4 DEF Editing
    <3>. QED
      BY <2>3, <3>1, EditingShape DEF TuiInv
  <2>. QED
    BY <1>1, <1>3, <2>2, <2>5 DEF TuiInv, Daemon
<1>6. CASE msg.msg = "result"
  <2>1. m' = m /\ out' = rest (+) SetToBag({[do |-> "list"]})
    BY <1>6 DEF Deliver
  <2>. HIDE DEF rest
  <2>2. Items(out')
    BY <1>3, <2>1, ItemsAdd, PlainItems
  <2>. QED
    BY <1>1, <2>1, <2>2 DEF TuiInv, Daemon
<1>7. CASE msg.msg \in {"error", "nolist"}
  <2>1. m' = m /\ out' = rest
    BY <1>7 DEF Deliver
  <2>. HIDE DEF rest
  <2>. QED
    BY <1>1, <1>3, <2>1 DEF TuiInv, Daemon
<1>. QED
  BY <1>2, <1>4, <1>5, <1>6, <1>7

(* a change of the daemon's own,                                           *)
LEMMA ChangeKeeps ==
  ASSUME TuiInv, NEW n \in Proc, Change(n)
  PROVE  TuiInv'
<1>1. procs \in [DOMAIN procs -> States] /\ DOMAIN procs \in SUBSET Proc
  BY ListsAre DEF TuiInv, Daemon
<1>2. procs' \in Lists
  <2>1. CASE n \in DOMAIN procs /\ \E s \in sc.states[n] : procs' = [procs EXCEPT ![n] = s]
    <3>1. sc.states \in [Proc -> SUBSET States]
      BY TuiAssumption DEF TuiInv
    <3>2. PICK s \in States : procs' = [procs EXCEPT ![n] = s]
      BY <2>1, <3>1
    <3>3. procs' \in [DOMAIN procs -> States]
      BY ONLY <1>1, <3>2
    <3>. QED
      BY ONLY <1>1, <3>3, ListsAre
  <2>2. CASE procs' = [x \in DOMAIN procs \ {n} |-> procs[x]]
    <3>1. procs' \in [DOMAIN procs \ {n} -> States]
      BY ONLY <1>1, <2>2
    <3>2. DOMAIN procs \ {n} \in SUBSET Proc
      BY <1>1
    <3>. QED
      BY ONLY <3>1, <3>2, ListsAre
  <2>3. CASE procs' = [x \in DOMAIN procs \cup {n} |->
                         IF x # n THEN procs[x] ELSE IF n \in Scheduled THEN "idle" ELSE "running"]
    <3>1. "idle" \in States /\ "running" \in States
      BY DEF States
    <3>2. procs' \in [DOMAIN procs \cup {n} -> States]
      BY ONLY <1>1, <2>3, <3>1
    <3>3. DOMAIN procs \cup {n} \in SUBSET Proc
      BY <1>1
    <3>. QED
      BY ONLY <3>2, <3>3, ListsAre
  <2>. QED
    BY <2>1, <2>2, <2>3 DEF Change
<1>. QED
  BY <1>2 DEF TuiInv, Change, Daemon

(* and a oneshot that ends.                                                *)
LEMMA OneshotsKeeps ==
  ASSUME TuiInv, Oneshots
  PROVE  TuiInv'
<1>1. runs' \in Nat
  BY TuiAssumption DEF TuiInv, Oneshots
<1>. QED
  BY <1>1 DEF TuiInv, Oneshots, Daemon

(* So every step does.                                                     *)
LEMMA StepKeeps == TuiInv /\ [Next]_vars => TuiInv'
<1>1. SUFFICES ASSUME TuiInv, [Next]_vars PROVE TuiInv'
  OBVIOUS
<1>2. ASSUME NEW k, Press(k) PROVE TuiInv'
  BY <1>1, <1>2, PressKeeps
<1>3. ASSUME NEW h \in Heights, Resize(h) PROVE TuiInv'
  BY <1>1, <1>3, ResizeKeeps
<1>4. CASE Tick \/ LogTick
  BY <1>1, <1>4, TickKeeps, LogTickKeeps
<1>5. CASE RunCommand
  <2>1. ASSUME NEW c, FetchConfig(c) \/ Act(c) PROVE TuiInv'
    BY <1>1, <2>1, FetchConfigKeeps, ActKeeps
  <2>. QED
    BY <1>1, <1>5, <2>1, FetchKeeps DEF RunCommand
<1>6. CASE ReceiveList \/ ReceiveOther
  <2>1. ASSUME NEW msg, Deliver(msg) PROVE TuiInv'
    BY <1>1, <2>1, DeliverKeeps
  <2>. QED
    BY <1>6, <2>1 DEF ReceiveList, ReceiveOther
<1>7. ASSUME NEW n \in Proc, Change(n) PROVE TuiInv'
  BY <1>1, <1>7, ChangeKeeps
<1>8. CASE Oneshots
  BY <1>1, <1>8, OneshotsKeeps
<1>9. CASE UNCHANGED vars
  BY <1>1, <1>9 DEF vars, TuiInv, Daemon
<1>. QED
  BY <1>1, <1>2, <1>3, <1>4, <1>5, <1>6, <1>7, <1>8, <1>9 DEF Next

(* However keys, timers, answers and the daemon interleave, the model      *)
(* keeps its shape, what is on its way is right, and a timer runs while    *)
(* logs are in view.                                                       *)
THEOREM TuiInvariant == Spec => []TuiInv
<1>. QED
  BY InitInv, StepKeeps, PTL DEF Spec

(* What the run checks follows from it.                                    *)
LEMMA UiFollows == TuiInv => UiConsistent
<1>1. SUFFICES ASSUME TuiInv PROVE UiConsistent
  OBVIOUS
<1>2. Shape(m) /\ m \in Model
  BY <1>1 DEF TuiInv, Shape
<1>3. TypeOK
  <2>1. DOMAIN procs \subseteq Proc /\ \A n \in DOMAIN procs : procs[n] \in States
    BY <1>1, ListsAre DEF TuiInv, Daemon
  <2>2. \A t \in Tabs : m.idx[t] >= 0 /\ m.off[t] >= 0
    BY <1>2, ModelIs
  <2>3. \A t \in Tabs \ {"system"} : Len(m.data[t]) > 0 => m.idx[t] < Len(m.data[t])
    BY <1>2 DEF Shape, Indexed, Tables
  <2>4. m.wiz.step \in 0..4 /\ m.wiz.cursor >= 0 /\ m.wiz.scale >= 0
    BY <1>2, ModelIs, FormIs
  <2>5. /\ m.view \in {"list", "detail", "logs", "help", "wizard"} /\ m.tab \in Tabs
        /\ m.dialog \in {"none", "confirm", "scale"} /\ m.logReturn \in {"list", "detail"}
        /\ {m.target, m.detail, m.logProc} \subseteq Proc \cup {None}
    BY <1>2, ModelIs DEF Someone
  <2>. QED
    BY <1>1, <2>1, <2>2, <2>3, <2>4, <2>5 DEF TypeOK, TuiInv
<1>4. ProcessRowShown
  BY <1>2 DEF Shape, Shown, RowShown, ProcessRowShown
<1>5. OnlyFormHidesDialog /\ DetailIsKnown
  BY <1>2 DEF Shape, Drawn, Held, OnlyFormHidesDialog, DetailIsKnown
<1>6. WayBack
  BY <1>2, ThreeEscs DEF WayBack
<1>7. LogsRefresh
  BY <1>1 DEF TuiInv, LogsRefresh
<1>8. MovesShow
  BY <1>2, MovedShown DEF MovesShow
<1>. QED
  BY <1>3, <1>4, <1>5, <1>6, <1>7, <1>8 DEF UiConsistent

(* And so does what is submitted.                                          *)
LEMMA SubmitsFollow == TuiInv => SubmitsValid
BY DEF TuiInv, Items, ItemOK, SubmitsValid, BagToSet

(* For any processes, sizes and scenarios: on the processes tab the        *)
(* selected row is drawn, in every table a key that moves the selection    *)
(* makes it so, a dialog that takes the keys is seen or is behind an edit  *)
(* form, three esc lead to the list, the details are of a process of the   *)
(* last list, and logs in view are refreshed.                              *)
THEOREM UiAlwaysConsistent == Spec => []UiConsistent
<1>. QED
  BY TuiInvariant, UiFollows, PTL

(* Whatever is typed and in whatever order forms come and steps are taken: *)
(* a form that is submitted has a name, a command and at least one         *)
(* instance.                                                               *)
THEOREM SubmitsAlwaysValid == Spec => []SubmitsValid
<1>. QED
  BY TuiInvariant, SubmitsFollow, PTL
=============================================================================
