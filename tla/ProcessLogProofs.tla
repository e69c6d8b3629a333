--------------------------- MODULE ProcessLogProofs ---------------------------
(***************************************************************************)
(* Proofs about ProcessLog: nothing printed is lost on the way to the      *)
(* entries, the entries are cut where they should be, and the ring and the *)
(* API show the newest of them.                                            *)
(*                                                                         *)
(* Three of the properties hold because of one invariant, Inv.  Its parts: *)
(* StoreInv relates the ring's slots to everything logged, slot by slot;   *)
(* LinesJoin says that the lines joined so far may still become one entry; *)
(* Flows says that what a writer was given is what it has made of it, what *)
(* is scanned, and what is in its buffer, in this order, and that while a  *)
(* copier processes lines the buffer is empty, unless calls overlapped.    *)
(*                                                                         *)
(* What Tokens and FlattenSeq compute is defined over a sequence of any    *)
(* length: those facts are proved with the smallest counterexample.        *)
(***************************************************************************)
EXTENDS ProcessLog, FiniteSetTheorems, SequenceTheorems, WellFoundedInduction, TLAPS

-----------------------------------------------------------------------------
(* Induction over data. The library states it for an operator, which       *)
(* the provers cannot instantiate; these are the same facts about sets.    *)

(* Less than is a well-founded relation on the naturals.                   *)
LEMMA LessWF == \E R : IsWellFoundedOn(R, Nat) /\ \A x, y \in Nat : <<y, x>> \in R <=> y < x
<1>1. IsWellFoundedOn(OpToRel(<, Nat), Nat)
  BY NatLessThanWellFounded
<1>2. \A x, y \in Nat : <<y, x>> \in OpToRel(<, Nat) <=> y < x
  BY DEF OpToRel
<1>. DEFINE R == OpToRel(<, Nat)
<1>3. IsWellFoundedOn(R, Nat) /\ \A x, y \in Nat : <<y, x>> \in R <=> y < x
  BY <1>1, <1>2
<1>. HIDE DEF R
<1>. QED
  BY <1>3

(* Every non-empty set of naturals has a smallest member.                  *)
LEMMA LeastNat ==
  ASSUME NEW T, T \subseteq Nat, T # {}
  PROVE  \E x \in T : \A y \in T : ~(y < x)
<1>1. PICK R : IsWellFoundedOn(R, Nat) /\ \A x, y \in Nat : <<y, x>> \in R <=> y < x
  BY LessWF
<1>2. IsWellFoundedOn(R, Nat)
  BY <1>1
<1>3. \E x \in T : \A y \in T : ~(<<y, x>> \in R)
  BY <1>2, WFMin
<1>. QED
  BY <1>1, <1>3

(* Induction, as a fact about sets: the one that holds 0 and, with a       *)
(* number, the next is the set of the naturals.                            *)
LEMMA SetInduction ==
  ASSUME NEW T \in SUBSET Nat, 0 \in T, \A n \in T : n + 1 \in T
  PROVE  T = Nat
<1>1. SUFFICES ASSUME Nat \ T # {} PROVE FALSE
  OBVIOUS
<1>2. PICK x \in Nat \ T : \A y \in Nat \ T : ~(y < x)
  BY <1>1, LeastNat
<1>3. x \in Nat /\ x # 0 /\ x - 1 \in Nat /\ x - 1 < x
  OBVIOUS
<1>4. x - 1 \in T
  BY <1>2, <1>3
<1>. QED
  BY <1>3, <1>4

-----------------------------------------------------------------------------
(* Concatenation of a sequence of sequences                                *)

(* f gives, for every i, the first i sequences of s put together.          *)
Flattens(f, s, n) == f = [i \in 1..n |-> IF i = 1 THEN s[i] ELSE f[i - 1] \o s[i]]

(* There is a function of that kind for every sequence.                    *)
LEMMA FlattenExists ==
  ASSUME NEW s, NEW n \in Nat
  PROVE  \E f : Flattens(f, s, n)
<1>. DEFINE T == {m \in Nat : \E f : Flattens(f, s, m)}
<1>1. 0 \in T
  <2>. DEFINE f == [i \in 1..0 |-> <<>>]
  <2>1. Flattens(f, s, 0)
    BY DEF Flattens
  <2>. QED
    BY <2>1
<1>2. ASSUME NEW m \in T PROVE m + 1 \in T
  <2>1. PICK f : Flattens(f, s, m)
    OBVIOUS
  <2>. DEFINE g == [i \in 1..(m + 1) |-> IF i = m + 1 THEN (IF i = 1 THEN s[i] ELSE f[m] \o s[i]) ELSE f[i]]
  <2>2. \A i \in 1..m : f[i] = IF i = 1 THEN s[i] ELSE f[i - 1] \o s[i]
    BY <2>1 DEF Flattens
  <2>3. \A i \in 1..(m + 1) : g[i] = IF i = 1 THEN s[i] ELSE g[i - 1] \o s[i]
    BY <2>2
  <2>4. g = [i \in 1..(m + 1) |-> IF i = 1 THEN s[i] ELSE g[i - 1] \o s[i]]
    BY <2>3
  <2>. HIDE DEF g
  <2>5. Flattens(g, s, m + 1)
    BY <2>4 DEF Flattens
  <2>. QED
    BY <2>5
<1>3. T \in SUBSET Nat
  OBVIOUS
<1>. HIDE DEF T
<1>4. T = Nat
  BY <1>1, <1>2, <1>3, SetInduction
<1>5. n \in T
  BY <1>4
<1>. QED
  BY <1>5 DEF T

(* FlattenSeq(s) is the last value of one.                                 *)
LEMMA FlattenIs ==
  ASSUME NEW s, NEW n \in Nat \ {0}, Len(s) = n
  PROVE  \E f : Flattens(f, s, n) /\ FlattenSeq(s) = f[n]
<1>. DEFINE f == CHOOSE f : f = [i \in 1..Len(s) |-> IF i = 1 THEN s[i] ELSE f[i - 1] \o s[i]]
<1>1. \E g : g = [i \in 1..Len(s) |-> IF i = 1 THEN s[i] ELSE g[i - 1] \o s[i]]
  BY FlattenExists DEF Flattens
<1>2. Flattens(f, s, Len(s))
  BY <1>1 DEF Flattens
<1>3. FlattenSeq(s) = f[Len(s)]
  BY DEF FlattenSeq
<1>. QED
  BY <1>2, <1>3

(* Two such functions agree as far as their sequences do.                  *)
LEMMA FlattenAgree ==
  ASSUME NEW f, NEW g, NEW s, NEW t, NEW n \in Nat, NEW m \in Nat,
         Flattens(f, s, n), Flattens(g, t, m), NEW k \in Nat, k <= n, k <= m,
         \A i \in 1..k : s[i] = t[i]
  PROVE  \A i \in 1..k : f[i] = g[i]
<1>. DEFINE T == {i \in Nat : i \in 1..k => f[i] = g[i]}
<1>1. /\ \A i \in 1..n : f[i] = IF i = 1 THEN s[i] ELSE f[i - 1] \o s[i]
      /\ \A i \in 1..m : g[i] = IF i = 1 THEN t[i] ELSE g[i - 1] \o t[i]
  BY DEF Flattens
<1>2. 0 \in T
  OBVIOUS
<1>3. ASSUME NEW i \in T PROVE i + 1 \in T
  <2>1. SUFFICES ASSUME i + 1 \in 1..k PROVE f[i + 1] = g[i + 1]
    OBVIOUS
  <2>2. i + 1 \in 1..n /\ i + 1 \in 1..m /\ i \in Nat /\ (i + 1) - 1 = i
    BY <2>1
  <2>3. CASE i = 0
    BY <2>1, <2>2, <2>3, <1>1
  <2>4. CASE i # 0
    <3>1. f[i] = g[i] /\ s[i + 1] = t[i + 1] /\ i + 1 # 1
      BY <2>1, <2>2, <2>4
    <3>2. f[i + 1] = f[i] \o s[i + 1] /\ g[i + 1] = g[i] \o t[i + 1]
      BY <3>1, <2>2, <1>1
    <3>. QED
      BY <3>1, <3>2
  <2>. QED
    BY <2>3, <2>4
<1>4. T \in SUBSET Nat
  OBVIOUS
<1>. HIDE DEF T
<1>5. T = Nat
  BY <1>2, <1>3, <1>4, SetInduction
<1>. QED
  BY <1>5 DEF T

(* Of no sequences FlattenSeq makes the empty one.                         *)
LEMMA FlattenEmpty == FlattenSeq(<<>>) = <<>>
BY DEF FlattenSeq

(* Of one sequence FlattenSeq makes that one.                              *)
LEMMA FlattenOne ==
  ASSUME NEW X, NEW x \in Seq(X)
  PROVE  FlattenSeq(<<x>>) = x
<1>1. Len(<<x>>) = 1 /\ <<x>>[1] = x
  OBVIOUS
<1>2. PICK s : s = <<x>> /\ Len(s) = 1 /\ s[1] = x
  BY <1>1, Zenon
<1>. 1 \in Nat \ {0}
  OBVIOUS
<1>3. PICK f : Flattens(f, s, 1) /\ FlattenSeq(s) = f[1]
  BY <1>2, FlattenIs
<1>4. f[1] = s[1]
  BY <1>3 DEF Flattens
<1>. QED
  BY <1>2, <1>3, <1>4

(* One sequence more is concatenated at the end; a is s and that one.      *)
LEMMA FlattenLast ==
  ASSUME NEW s, NEW a, NEW n \in Nat \ {0}, Len(s) = n, Len(a) = n + 1,
         \A i \in 1..n : a[i] = s[i]
  PROVE  FlattenSeq(a) = FlattenSeq(s) \o a[n + 1]
<1>. n + 1 \in Nat \ {0}
  OBVIOUS
<1>1. PICK f : Flattens(f, s, n) /\ FlattenSeq(s) = f[n]
  BY FlattenIs
<1>2. PICK g : Flattens(g, a, n + 1) /\ FlattenSeq(a) = g[n + 1]
  BY FlattenIs
<1>3. \A i \in 1..n : f[i] = g[i]
  <2>1. \A i \in 1..n : s[i] = a[i]
    OBVIOUS
  <2>2. n \in Nat /\ n + 1 \in Nat /\ n <= n /\ n <= n + 1
    OBVIOUS
  <2>. QED
    BY <1>1, <1>2, <2>1, <2>2, FlattenAgree
<1>4. g[n + 1] = g[n] \o a[n + 1]
  <2>1. \A i \in 1..(n + 1) : g[i] = IF i = 1 THEN a[i] ELSE g[i - 1] \o a[i]
    BY <1>2 DEF Flattens
  <2>2. n + 1 \in 1..(n + 1) /\ n + 1 # 1 /\ (n + 1) - 1 = n
    OBVIOUS
  <2>. QED
    BY <2>1, <2>2
<1>5. f[n] = g[n]
  BY <1>3
<1>. QED
  BY <1>1, <1>2, <1>4, <1>5

(* The same for Append.                                                    *)
LEMMA FlattenAppend ==
  ASSUME NEW X, NEW s \in Seq(Seq(X)), NEW x \in Seq(X)
  PROVE  FlattenSeq(Append(s, x)) = FlattenSeq(s) \o x
<1>1. PICK n \in Nat : n = Len(s)
  BY LenProperties
<1>2. /\ Len(Append(s, x)) = n + 1 /\ Append(s, x)[n + 1] = x
      /\ \A i \in 1..n : Append(s, x)[i] = s[i]
  BY <1>1, AppendProperties
<1>3. PICK a : a = Append(s, x) /\ Len(a) = n + 1 /\ a[n + 1] = x /\ \A i \in 1..n : a[i] = s[i]
  BY <1>2, Zenon
<1>4. CASE n = 0
  <2>1. s = <<>>
    BY <1>1, <1>4, EmptySeq
  <2>2. Append(s, x) = <<x>>
    BY <2>1
  <2>. QED
    BY <2>1, <2>2, FlattenOne, FlattenEmpty, ConcatEmptySeq
<1>5. CASE n # 0
  BY <1>1, <1>3, <1>5, FlattenLast
<1>. QED
  BY <1>4, <1>5

(* FlattenSeq keeps the type.                                              *)
LEMMA FlattenType ==
  ASSUME NEW X, NEW s \in Seq(Seq(X))
  PROVE  FlattenSeq(s) \in Seq(X)
<1>. DEFINE T == {n \in Nat : \A t \in Seq(Seq(X)) : Len(t) = n => FlattenSeq(t) \in Seq(X)}
<1>1. 0 \in T
  BY FlattenEmpty, EmptySeq
<1>2. ASSUME NEW n \in T PROVE n + 1 \in T
  <2>1. SUFFICES ASSUME NEW t \in Seq(Seq(X)), Len(t) = n + 1 PROVE FlattenSeq(t) \in Seq(X)
    OBVIOUS
  <2>2. t # <<>>
    BY <2>1
  <2>3. PICK r \in Seq(Seq(X)), x \in Seq(X) : t = Append(r, x)
    BY <2>2, SequenceEmptyOrAppend
  <2>4. Len(r) = n
    BY <2>1, <2>3, AppendProperties, LenProperties
  <2>5. FlattenSeq(r) \in Seq(X)
    BY <2>4
  <2>. QED
    BY <2>3, <2>5, FlattenAppend, ConcatProperties
<1>3. T \in SUBSET Nat
  OBVIOUS
<1>. HIDE DEF T
<1>4. T = Nat
  BY <1>1, <1>2, <1>3, SetInduction
<1>5. Len(s) \in T
  BY <1>4, LenProperties
<1>. QED
  BY <1>5 DEF T

(* FlattenSeq of a concatenation is the concatenation of both.             *)
LEMMA FlattenConcat ==
  ASSUME NEW X, NEW s \in Seq(Seq(X)), NEW t \in Seq(Seq(X))
  PROVE  FlattenSeq(s \o t) = FlattenSeq(s) \o FlattenSeq(t)
<1>. DEFINE T == {n \in Nat : \A u \in Seq(Seq(X)) : Len(u) = n =>
                     FlattenSeq(s \o u) = FlattenSeq(s) \o FlattenSeq(u)}
<1>1. FlattenSeq(s) \in Seq(X)
  BY FlattenType
<1>2. 0 \in T
  <2>1. SUFFICES ASSUME NEW u \in Seq(Seq(X)), Len(u) = 0
                 PROVE  FlattenSeq(s \o u) = FlattenSeq(s) \o FlattenSeq(u)
    OBVIOUS
  <2>2. u = <<>> /\ s \o u = s
    BY <2>1, EmptySeq, ConcatEmptySeq
  <2>. QED
    BY <1>1, <2>2, FlattenEmpty, ConcatEmptySeq
<1>3. ASSUME NEW n \in T PROVE n + 1 \in T
  <2>1. SUFFICES ASSUME NEW u \in Seq(Seq(X)), Len(u) = n + 1
                 PROVE  FlattenSeq(s \o u) = FlattenSeq(s) \o FlattenSeq(u)
    OBVIOUS
  <2>2. u # <<>>
    BY <2>1
  <2>3. PICK r \in Seq(Seq(X)), x \in Seq(X) : u = Append(r, x)
    BY <2>2, SequenceEmptyOrAppend
  <2>4. Len(r) = n
    BY <2>1, <2>3, AppendProperties, LenProperties
  <2>5. FlattenSeq(s \o r) = FlattenSeq(s) \o FlattenSeq(r)
    BY <2>4
  <2>6. s \o u = Append(s \o r, x)
    <3>1. Append(r, x) = r \o <<x>> /\ <<x>> \in Seq(Seq(X))
      BY AppendIsConcat
    <3>2. s \o (r \o <<x>>) = (s \o r) \o <<x>>
      BY <3>1, ConcatAssociative
    <3>3. s \o r \in Seq(Seq(X))
      BY ConcatProperties
    <3>4. Append(s \o r, x) = (s \o r) \o <<x>>
      BY <3>3, AppendIsConcat
    <3>. QED
      BY <2>3, <3>1, <3>2, <3>4
  <2>7. FlattenSeq(Append(s \o r, x)) = FlattenSeq(s \o r) \o x
    <3>1. s \o r \in Seq(Seq(X))
      BY ConcatProperties
    <3>. QED
      BY ONLY <3>1, x \in Seq(X), FlattenAppend
  <2>8. FlattenSeq(u) = FlattenSeq(r) \o x
    BY <2>3, FlattenAppend
  <2>9. FlattenSeq(r) \in Seq(X)
    BY FlattenType
  <2>10. (FlattenSeq(s) \o FlattenSeq(r)) \o x = FlattenSeq(s) \o (FlattenSeq(r) \o x)
    <3>1. FlattenSeq(s) \in Seq(X) /\ FlattenSeq(r) \in Seq(X) /\ x \in Seq(X)
      BY <1>1, <2>9
    <3>. QED
      BY ONLY <3>1, ConcatAssociative
  <2>. QED
    BY <2>5, <2>6, <2>7, <2>8, <2>10
<1>4. T \in SUBSET Nat
  OBVIOUS
<1>. HIDE DEF T
<1>5. T = Nat
  BY <1>2, <1>3, <1>4, SetInduction
<1>6. Len(t) \in T
  BY <1>5, LenProperties
<1>. QED
  BY <1>6 DEF T

-----------------------------------------------------------------------------
(* The scanner                                                             *)

(* One step of the scanner: the piece p ends a token, or a token begins.   *)
Cut(before, p) ==
  IF before = <<>> \/ Last(Last(before)).nl
  THEN Append(before, <<p>>)
  ELSE Append(Front(before), Append(Last(before), p))

(* f gives the tokens of the first i pieces of p.                          *)
Tokenizes(f, p, n) == f = [i \in 0..n |-> IF i = 0 THEN <<>> ELSE Cut(f[i - 1], p[i])]

(* There is a function of that kind for any pieces.                        *)
LEMMA TokenizesExists ==
  ASSUME NEW p, NEW n \in Nat
  PROVE  \E f : Tokenizes(f, p, n)
<1>. DEFINE T == {m \in Nat : \E f : Tokenizes(f, p, m)}
<1>1. 0 \in T
  <2>. DEFINE f == [i \in 0..0 |-> <<>>]
  <2>1. f = [i \in 0..0 |-> IF i = 0 THEN <<>> ELSE Cut(f[i - 1], p[i])]
    OBVIOUS
  <2>. HIDE DEF f
  <2>2. Tokenizes(f, p, 0)
    BY <2>1 DEF Tokenizes
  <2>. QED
    BY <2>2
<1>2. ASSUME NEW m \in T PROVE m + 1 \in T
  <2>1. PICK f : Tokenizes(f, p, m)
    OBVIOUS
  <2>. DEFINE g == [i \in 0..(m + 1) |-> IF i = m + 1 THEN Cut(f[m], p[i]) ELSE f[i]]
  <2>2. \A i \in 0..m : f[i] = IF i = 0 THEN <<>> ELSE Cut(f[i - 1], p[i])
    BY <2>1 DEF Tokenizes
  <2>3. \A i \in 0..(m + 1) : g[i] = IF i = 0 THEN <<>> ELSE Cut(g[i - 1], p[i])
    BY <2>2
  <2>4. g = [i \in 0..(m + 1) |-> IF i = 0 THEN <<>> ELSE Cut(g[i - 1], p[i])]
    BY <2>3
  <2>. HIDE DEF g
  <2>5. Tokenizes(g, p, m + 1)
    BY <2>4 DEF Tokenizes
  <2>. QED
    BY <2>5
<1>3. T \in SUBSET Nat
  OBVIOUS
<1>. HIDE DEF T
<1>4. T = Nat
  BY <1>1, <1>2, <1>3, SetInduction
<1>5. n \in T
  BY <1>4
<1>. QED
  BY <1>5 DEF T

(* Tokens(p) is its last value.                                            *)
LEMMA TokensIs ==
  ASSUME NEW p, NEW n \in Nat, Len(p) = n
  PROVE  \E f : Tokenizes(f, p, n) /\ Tokens(p) = f[n]
<1>. DEFINE f == CHOOSE f : f = [i \in 0..Len(p) |->
                IF i = 0 THEN <<>>
                ELSE IF f[i - 1] = <<>> \/ Last(Last(f[i - 1])).nl
                     THEN Append(f[i - 1], <<p[i]>>)
                     ELSE Append(Front(f[i - 1]), Append(Last(f[i - 1]), p[i]))]
<1>1. \E g : g = [i \in 0..Len(p) |->
                IF i = 0 THEN <<>>
                ELSE IF g[i - 1] = <<>> \/ Last(Last(g[i - 1])).nl
                     THEN Append(g[i - 1], <<p[i]>>)
                     ELSE Append(Front(g[i - 1]), Append(Last(g[i - 1]), p[i]))]
  BY TokenizesExists DEF Tokenizes, Cut
<1>2. Tokenizes(f, p, n)
  BY <1>1 DEF Tokenizes, Cut
<1>3. Tokens(p) = f[n]
  BY DEF Tokens
<1>. QED
  BY <1>2, <1>3

(* A piece more loses nothing of the ones before, and comes after them.    *)
LEMMA CutKeeps ==
  ASSUME NEW X, NEW s \in Seq(Seq(X)), NEW x \in X
  PROVE  /\ Cut(s, x) \in Seq(Seq(X))
         /\ FlattenSeq(Cut(s, x)) = FlattenSeq(s) \o <<x>>
<1>1. <<x>> \in Seq(X) /\ FlattenSeq(s) \in Seq(X)
  BY FlattenType
<1>2. CASE s = <<>> \/ Last(Last(s)).nl
  BY <1>1, <1>2, FlattenAppend, AppendProperties DEF Cut
<1>3. CASE ~(s = <<>> \/ Last(Last(s)).nl)
  <2>1. s # <<>>
    BY <1>3
  <2>2. PICK r \in Seq(Seq(X)), t \in Seq(X) : s = Append(r, t)
    BY <2>1, SequenceEmptyOrAppend
  <2>3. Last(s) = t /\ Front(s) = r
    <3>1. /\ Len(r) \in Nat /\ Len(s) = Len(r) + 1 /\ s[Len(r) + 1] = t
          /\ \A i \in 1..Len(r) : s[i] = r[i]
      BY <2>2, AppendProperties, LenProperties
    <3>2. Last(s) = t
      BY <3>1 DEF Last
    <3>3. Front(s) = SubSeq(s, 1, Len(r))
      BY <3>1 DEF Front
    <3>4. \A i \in 1..Len(r) : s[i] \in Seq(X)
      BY <3>1, ElementOfSeq
    <3>5. /\ SubSeq(s, 1, Len(r)) \in Seq(Seq(X))
          /\ Len(SubSeq(s, 1, Len(r))) = Len(r)
          /\ \A i \in 1..Len(r) : SubSeq(s, 1, Len(r))[i] = r[i]
      BY <3>1, <3>4, SubSeqProperties
    <3>6. SubSeq(s, 1, Len(r)) = r
      BY <3>5, SeqEqual
    <3>. QED
      BY <3>2, <3>3, <3>6
  <2>4. Cut(s, x) = Append(r, Append(t, x))
    BY <1>3, <2>3 DEF Cut
  <2>5. Append(t, x) = t \o <<x>> /\ Append(t, x) \in Seq(X)
    BY AppendIsConcat, AppendProperties
  <2>6. Append(r, Append(t, x)) \in Seq(Seq(X))
    BY <2>5, AppendProperties
  <2>7. FlattenSeq(Append(r, Append(t, x))) = FlattenSeq(r) \o (t \o <<x>>)
    BY <2>5, FlattenAppend
  <2>8. FlattenSeq(s) = FlattenSeq(r) \o t
    BY <2>2, FlattenAppend
  <2>9. FlattenSeq(r) \o (t \o <<x>>) = (FlattenSeq(r) \o t) \o <<x>>
    BY <1>1, FlattenType, ConcatAssociative
  <2>. QED
    BY <2>4, <2>6, <2>7, <2>8, <2>9
<1>. QED
  BY <1>2, <1>3

(* The scanner loses, doubles and reorders nothing: put together, the      *)
(* tokens are what was in the buffer.                                      *)
LEMMA TokensKeep ==
  ASSUME NEW X, NEW p \in Seq(X)
  PROVE  Tokens(p) \in Seq(Seq(X)) /\ FlattenSeq(Tokens(p)) = p
<1>1. PICK n \in Nat : n = Len(p)
  BY LenProperties
<1>2. PICK f : Tokenizes(f, p, n) /\ Tokens(p) = f[n]
  BY <1>1, TokensIs
<1>3. /\ f[0] = <<>>
      /\ \A i \in Nat : i + 1 <= n => f[i + 1] = Cut(f[i], p[i + 1])
  <2>1. \A i \in 0..n : f[i] = IF i = 0 THEN <<>> ELSE Cut(f[i - 1], p[i])
    BY <1>2 DEF Tokenizes
  <2>2. f[0] = <<>>
    BY <2>1
  <2>3. ASSUME NEW i \in Nat, i + 1 <= n PROVE f[i + 1] = Cut(f[i], p[i + 1])
    <3>1. i + 1 \in 0..n /\ i + 1 # 0 /\ (i + 1) - 1 = i
      BY <2>3
    <3>. QED
      BY <2>1, <3>1
  <2>. QED
    BY <2>2, <2>3
<1>. DEFINE T == {i \in Nat : i <= n => f[i] \in Seq(Seq(X)) /\ FlattenSeq(f[i]) = SubSeq(p, 1, i)}
<1>4. 0 \in T
  <2>1. SubSeq(p, 1, 0) = <<>>
    BY SubSeqEmpty
  <2>2. <<>> \in Seq(Seq(X))
    OBVIOUS
  <2>. QED
    BY <1>3, <2>1, <2>2, FlattenEmpty
<1>5. ASSUME NEW i \in T PROVE i + 1 \in T
  <2>1. SUFFICES ASSUME i + 1 <= n
                 PROVE  f[i + 1] \in Seq(Seq(X)) /\ FlattenSeq(f[i + 1]) = SubSeq(p, 1, i + 1)
    OBVIOUS
  <2>2. i \in Nat /\ i <= n /\ i + 1 \in 1..Len(p) /\ 1 \in 1..Len(p) /\ i + 1 \in 1..Len(p)
        /\ i + 1 \in 1..(i + 1) /\ (i + 1) - 1 = i
    BY <1>1, <2>1
  <2>3. f[i] \in Seq(Seq(X)) /\ FlattenSeq(f[i]) = SubSeq(p, 1, i)
    BY <2>2
  <2>4. p[i + 1] \in X
    BY <2>2, ElementOfSeq
  <2>5. f[i + 1] = Cut(f[i], p[i + 1])
    BY <1>3, <2>1, <2>2
  <2>6. /\ f[i + 1] \in Seq(Seq(X))
        /\ FlattenSeq(f[i + 1]) = SubSeq(p, 1, i) \o <<p[i + 1]>>
    BY <2>3, <2>4, <2>5, CutKeeps
  <2>7. i + 1 \in 1..Len(p)
    BY <2>2
  <2>8. SubSeq(p, 1, i + 1) = SubSeq(p, 1, (i + 1) - 1) \o <<p[i + 1]>>
    <3>1. ASSUME NEW m \in 1..Len(p), NEW k \in m..Len(p)
          PROVE  SubSeq(p, m, k) = SubSeq(p, m, k - 1) \o <<p[k]>>
      BY SubSeqRecursiveSecond
    <3>2. 1 \in 1..Len(p) /\ i + 1 \in 1..Len(p)
      BY <2>2
    <3>. QED
      BY <3>1, <3>2
  <2>. QED
    BY <2>2, <2>6, <2>8
<1>6. T \in SUBSET Nat
  OBVIOUS
<1>. HIDE DEF T
<1>7. T = Nat
  BY <1>4, <1>5, <1>6, SetInduction
<1>8. n \in T
  BY <1>7
<1>9. f[n] \in Seq(Seq(X)) /\ FlattenSeq(f[n]) = SubSeq(p, 1, n)
  BY <1>8 DEF T
<1>. QED
  BY <1>1, <1>2, <1>9, SubSeqFull

-----------------------------------------------------------------------------
(* The ring                                                                *)

(* The types. A line is the pieces it was printed in.                      *)
Pieces == [line : Nat, start : BOOLEAN, sev : DOMAIN Severity \cup {"none"}, noise : BOOLEAN,
           wanted : BOOLEAN, blank : BOOLEAN, nl : BOOLEAN]
Line == Seq(Pieces)
Entry == [toks : Seq(Line), t : Nat, event : BOOLEAN]
Ring == [slots : [0..(conf.size - 1) -> Entry \cup {NoEntry}],
         index : 0..(conf.size - 1), full : BOOLEAN]

(* The writers there are in a situation.                                   *)
Used == IF conf.scheduled THEN {"combined"} ELSE Stream

StoreTypeOK == /\ conf \in Scenario
               /\ ring \in [Writer -> Ring]
               /\ logged \in [Writer -> Seq(Entry)]
               /\ clock \in Nat

(* The ring r shows the newest of s, each at its place.                    *)
RingHolds(r, s) ==
  /\ ~r.full => /\ Len(s) = r.index
                /\ \A i \in 0..(conf.size - 1) : r.slots[i] = IF i < r.index THEN s[i + 1] ELSE NoEntry
  /\ r.full => /\ Len(s) >= conf.size
               /\ \A i \in 0..(conf.size - 1) :
                    r.slots[i] = s[(Len(s) - r.index + i + 1) - (IF i < r.index THEN 0 ELSE conf.size)]

(* No two entries have the same time, and a stream's are in order.         *)
StampedInOrder ==
  /\ \A w \in Writer : \A i \in 1..Len(logged[w]) : logged[w][i].t < clock
  /\ \A w \in Writer : \A i, j \in 1..Len(logged[w]) : i < j => logged[w][i].t < logged[w][j].t
  /\ \A w, v \in Writer : \A i \in 1..Len(logged[w]) : \A j \in 1..Len(logged[v]) :
       logged[w][i].t = logged[v][j].t => w = v

(* The rings are right.                                                    *)
StoreInv ==
  /\ StoreTypeOK
  /\ \A w \in Writer : RingHolds(ring[w], logged[w])
  /\ StampedInOrder
  /\ \A w \in Writer \ Used : logged[w] = <<>>

(* A ring has at least one slot.                                           *)
LEMMA SizeType ==
  ASSUME conf \in Scenario
  PROVE  conf.size \in Nat \ {0}
BY LogAssumption

(* What is in a sequence after Append.                                     *)
LEMMA ToSetAppend ==
  ASSUME NEW X, NEW s \in Seq(X), NEW x \in X
  PROVE  ToSet(Append(s, x)) = ToSet(s) \cup {x}
<1>1. PICK n \in Nat : n = Len(s)
  BY LenProperties
<1>2. PICK a \in Seq(X) : a = Append(s, x) /\ Len(a) = n + 1 /\ a[n + 1] = x /\ \A i \in 1..n : a[i] = s[i]
  <2>1. /\ Append(s, x) \in Seq(X) /\ Len(Append(s, x)) = n + 1 /\ Append(s, x)[n + 1] = x
        /\ \A i \in 1..n : Append(s, x)[i] = s[i]
    BY <1>1, AppendProperties
  <2>. QED
    BY <2>1, Zenon
<1>3. DOMAIN s = 1..n /\ DOMAIN a = 1..(n + 1)
  BY <1>1, <1>2, LenProperties
<1>4. ToSet(s) = {s[i] : i \in 1..n} /\ ToSet(a) = {a[i] : i \in 1..(n + 1)}
  BY <1>3 DEF ToSet
<1>5. ASSUME NEW y PROVE y \in ToSet(a) <=> y \in ToSet(s) \cup {x}
  <2>1. ASSUME y \in ToSet(a) PROVE y \in ToSet(s) \cup {x}
    <3>1. PICK i \in 1..(n + 1) : y = a[i]
      BY <1>4, <2>1
    <3>2. CASE i = n + 1
      BY <1>2, <3>1, <3>2
    <3>3. CASE i \in 1..n
      BY <1>2, <1>4, <3>1, <3>3
    <3>. QED
      BY <3>2, <3>3
  <2>2. ASSUME y \in ToSet(s) PROVE y \in ToSet(a)
    <3>1. PICK i \in 1..n : y = s[i]
      BY <1>4, <2>2
    <3>2. i \in 1..(n + 1) /\ a[i] = y
      BY <1>2, <3>1
    <3>. QED
      BY <1>4, <3>2
  <2>3. x \in ToSet(a)
    <3>1. n + 1 \in 1..(n + 1) /\ a[n + 1] = x
      BY <1>2
    <3>. QED
      BY <1>4, <3>1
  <2>. QED
    BY <2>1, <2>2, <2>3
<1>. QED
  BY <1>2, <1>5

(* LogBuffer.Add: the ring holds the newest entries again, whether it was  *)
(* full, becomes full or is not.                                           *)
LEMMA RingAddHolds ==
  ASSUME NEW N \in Nat \ {0}, conf.size = N, NEW r \in Ring, NEW s \in Seq(Entry), NEW e \in Entry,
         RingHolds(r, s)
  PROVE  /\ RingAdd(r, e) \in Ring
         /\ RingHolds(RingAdd(r, e), Append(s, e))
<1>1. PICK n \in Nat : n = Len(s)
  BY LenProperties
<1>2. PICK a : a = Append(s, e) /\ Len(a) = n + 1 /\ a[n + 1] = e /\ \A i \in 1..n : a[i] = s[i]
  <2>1. /\ Len(Append(s, e)) = n + 1 /\ Append(s, e)[n + 1] = e
        /\ \A i \in 1..n : Append(s, e)[i] = s[i]
    BY <1>1, AppendProperties
  <2>. QED
    BY <2>1, Zenon
<1>3. PICK x \in 0..(N - 1) : x = r.index
  BY DEF Ring
<1>4. PICK q : q = RingAdd(r, e)
  OBVIOUS
<1>5. /\ q.slots = [r.slots EXCEPT ![x] = e]
      /\ q.index = IF x + 1 >= N THEN 0 ELSE x + 1
      /\ q.full <=> (r.full \/ x + 1 >= N)
      /\ q.full \in BOOLEAN
  BY <1>3, <1>4 DEF RingAdd
<1>6. q \in Ring
  <2>1. q.slots \in [0..(N - 1) -> Entry \cup {NoEntry}]
    BY <1>5 DEF Ring
  <2>2. q.index \in 0..(N - 1) /\ q.full \in BOOLEAN
    BY <1>5 DEF Ring
  <2>3. q = [slots |-> q.slots, index |-> q.index, full |-> q.full]
    BY <1>4 DEF RingAdd
  <2>. QED
    BY <2>1, <2>2, <2>3 DEF Ring
<1>7. r.full \in BOOLEAN /\ \A i \in 0..(N - 1) : q.slots[i] = IF i = x THEN e ELSE r.slots[i]
  BY <1>3, <1>5 DEF Ring
<1>8. CASE r.full
  <2>1. /\ n >= N
        /\ \A i \in 0..(N - 1) : r.slots[i] = s[(n - x + i + 1) - (IF i < x THEN 0 ELSE N)]
    BY <1>1, <1>3, <1>8 DEF RingHolds
  <2>2. q.full
    BY <1>5, <1>8
  <2>3. ASSUME NEW i \in 0..(N - 1)
        PROVE  q.slots[i] = a[((n + 1) - q.index + i + 1) - (IF i < q.index THEN 0 ELSE N)]
    <3>1. CASE i = x
      <4>1. ((n + 1) - q.index + i + 1) - (IF i < q.index THEN 0 ELSE N) = n + 1
        BY <1>5, <3>1
      <4>. QED
        BY <1>2, <1>7, <3>1, <4>1
    <3>2. CASE i # x
      <4>1. PICK k : k = (n - x + i + 1) - (IF i < x THEN 0 ELSE N)
        OBVIOUS
      <4>2. k \in 1..n
        BY <2>1, <3>2, <4>1
      <4>3. ((n + 1) - q.index + i + 1) - (IF i < q.index THEN 0 ELSE N) = k
        BY <1>5, <3>2, <4>1
      <4>. QED
        BY <1>2, <1>7, <2>1, <3>2, <4>1, <4>2, <4>3
    <3>. QED
      BY <3>1, <3>2
  <2>4. Len(a) >= conf.size
    BY <1>2, <2>1
  <2>5. \A i \in 0..(conf.size - 1) :
          q.slots[i] = a[(Len(a) - q.index + i + 1) - (IF i < q.index THEN 0 ELSE conf.size)]
    BY <1>2, <2>3
  <2>6. RingHolds(q, a)
    BY <2>2, <2>4, <2>5 DEF RingHolds
  <2>. QED
    BY <1>2, <1>4, <1>6, <2>6
<1>9. CASE ~r.full
  <2>1. /\ n = x
        /\ \A i \in 0..(N - 1) : r.slots[i] = IF i < x THEN s[i + 1] ELSE NoEntry
    BY <1>1, <1>3, <1>9 DEF RingHolds
  <2>2. ASSUME NEW i \in 0..x PROVE q.slots[i] = a[i + 1]
    BY <1>2, <1>7, <2>1
  <2>3. CASE x + 1 >= N
    <3>1. q.full /\ q.index = 0 /\ x + 1 = N
      BY <1>5, <2>3
    <3>2. \A i \in 0..(N - 1) : q.slots[i] = a[((n + 1) - q.index + i + 1) - (IF i < q.index THEN 0 ELSE N)]
      BY <2>1, <2>2, <3>1
    <3>3. Len(a) >= conf.size
      <4>1. Len(a) = N /\ conf.size = N
        BY <1>2, <2>1, <3>1
      <4>. QED
        BY <4>1
    <3>4. \A i \in 0..(conf.size - 1) :
            q.slots[i] = a[(Len(a) - q.index + i + 1) - (IF i < q.index THEN 0 ELSE conf.size)]
      BY <1>2, <3>2
    <3>5. RingHolds(q, a)
      BY <3>1, <3>3, <3>4 DEF RingHolds
    <3>. QED
      BY <1>2, <1>4, <1>6, <3>5
  <2>4. CASE x + 1 < N
    <3>1. ~q.full /\ q.index = x + 1
      BY <1>5, <1>9, <2>4
    <3>2. \A i \in 0..(N - 1) : q.slots[i] = IF i < q.index THEN a[i + 1] ELSE NoEntry
      BY <1>7, <2>1, <2>2, <3>1
    <3>3. RingHolds(q, a)
      BY <1>2, <2>1, <3>1, <3>2 DEF RingHolds
    <3>. QED
      BY <1>2, <1>4, <1>6, <3>3
  <2>. QED
    BY <2>3, <2>4
<1>. QED
  BY <1>8, <1>9

(* An entry stamped with the present time and added to the ring and to     *)
(* what was logged keeps the store right.                                  *)
LEMMA StoreAdds ==
  ASSUME StoreInv, conf' = conf, NEW w \in Used, NEW e \in Entry, e.t = clock,
         ring' = [ring EXCEPT ![w] = RingAdd(@, e)],
         logged' = [logged EXCEPT ![w] = Append(@, e)], clock' = clock + 1
  PROVE  StoreInv'
<1>1. w \in Writer /\ conf \in Scenario /\ clock \in Nat /\ Used' = Used /\ Ring' = Ring
  BY DEF Used, Stream, Writer, StoreInv, StoreTypeOK, Ring
<1>2. PICK N \in Nat \ {0} : N = conf.size
  BY <1>1, SizeType
<1>3. /\ ring[w] \in Ring /\ logged[w] \in Seq(Entry) /\ RingHolds(ring[w], logged[w])
  BY <1>1 DEF StoreInv, StoreTypeOK
<1>4. /\ RingAdd(ring[w], e) \in Ring
      /\ RingHolds(RingAdd(ring[w], e), Append(logged[w], e))
  BY <1>2, <1>3, RingAddHolds
<1>5. Append(logged[w], e) \in Seq(Entry)
  BY <1>3, AppendProperties
<1>6. /\ ring' \in [Writer -> Ring] /\ logged' \in [Writer -> Seq(Entry)]
      /\ ring'[w] = RingAdd(ring[w], e) /\ logged'[w] = Append(logged[w], e)
      /\ \A v \in Writer \ {w} : ring'[v] = ring[v] /\ logged'[v] = logged[v]
  BY <1>1, <1>4, <1>5 DEF StoreInv, StoreTypeOK
<1>7. StoreTypeOK'
  BY <1>1, <1>6 DEF StoreTypeOK
<1>8. ASSUME NEW v \in Writer PROVE RingHolds(ring[v], logged[v])'
  <2>1. RingHolds(ring'[v], logged'[v])
    BY <1>4, <1>6 DEF StoreInv
  <2>. QED
    BY <2>1 DEF RingHolds
<1>9. PICK n \in Nat : n = Len(logged[w])
  BY <1>3, LenProperties
<1>10. /\ Len(logged'[w]) = n + 1 /\ logged'[w][n + 1] = e
      /\ \A i \in 1..n : logged'[w][i] = logged[w][i]
  BY <1>3, <1>6, <1>9, AppendProperties
<1>11. \A v \in Writer : \A i \in 1..Len(logged[v]) : logged[v][i].t \in Nat /\ logged[v][i].t < clock
  <2>1. ASSUME NEW v \in Writer, NEW i \in 1..Len(logged[v]) PROVE logged[v][i].t \in Nat
    <3>1. logged[v] \in Seq(Entry)
      BY DEF StoreInv, StoreTypeOK
    <3>2. logged[v][i] \in Entry
      BY <3>1, ElementOfSeq
    <3>. QED
      BY <3>2 DEF Entry
  <2>. QED
    BY <2>1 DEF StoreInv, StampedInOrder
<1>12. StampedInOrder'
  <2>1. ASSUME NEW v \in Writer, NEW i \in 1..Len(logged'[v])
        PROVE  \/ i \in 1..Len(logged[v]) /\ logged'[v][i] = logged[v][i] /\ logged'[v][i].t < clock
               \/ v = w /\ i = n + 1 /\ logged'[v][i].t = clock
    BY <1>6, <1>9, <1>10, <1>11
  <2>2. ASSUME NEW v \in Writer, NEW i \in 1..Len(logged'[v]) PROVE logged'[v][i].t < clock + 1
    BY <1>1, <1>11, <2>1
  <2>3. ASSUME NEW v \in Writer, NEW i \in 1..Len(logged'[v]), NEW j \in 1..Len(logged'[v]), i < j
        PROVE  logged'[v][i].t < logged'[v][j].t
    <3>1. CASE v = w /\ j = n + 1
      <4>1. i \in 1..n
        BY <1>9, <1>10, <2>3, <3>1
      <4>. QED
        BY <1>9, <1>10, <1>11, <3>1, <4>1
    <3>2. CASE ~(v = w /\ j = n + 1)
      <4>1. j \in 1..Len(logged[v]) /\ logged'[v][j] = logged[v][j]
        BY <2>1, <3>2
      <4>2. i \in 1..Len(logged[v]) /\ logged'[v][i] = logged[v][i]
        BY <1>9, <2>1, <2>3, <4>1
      <4>. QED
        BY <2>3, <4>1, <4>2 DEF StoreInv, StampedInOrder
    <3>. QED
      BY <3>1, <3>2
  <2>4. ASSUME NEW u \in Writer, NEW v \in Writer, NEW i \in 1..Len(logged'[u]), NEW j \in 1..Len(logged'[v]),
               logged'[u][i].t = logged'[v][j].t
        PROVE  u = v
    <3>1. CASE i \in 1..Len(logged[u]) /\ logged'[u][i] = logged[u][i] /\ logged'[u][i].t < clock
      <4>1. logged'[v][j].t < clock
        BY <2>4, <3>1
      <4>2. j \in 1..Len(logged[v]) /\ logged'[v][j] = logged[v][j]
        BY <1>1, <2>1, <4>1
      <4>. QED
        BY <2>4, <3>1, <4>2 DEF StoreInv, StampedInOrder
    <3>2. CASE u = w /\ i = n + 1 /\ logged'[u][i].t = clock
      <4>1. ~(logged'[v][j].t < clock)
        BY <1>1, <2>4, <3>2
      <4>. QED
        BY <2>1, <3>2, <4>1
    <3>. QED
      BY <2>1, <3>1, <3>2
  <2>. QED
    BY <2>2, <2>3, <2>4 DEF StampedInOrder
<1>13. (\A v \in Writer \ Used : logged[v] = <<>>)'
  BY <1>1, <1>6 DEF StoreInv
<1>. QED
  BY <1>7, <1>8, <1>12, <1>13 DEF StoreInv

(* So does an entry that is filtered out.                                  *)
LEMMA StoreSkips ==
  ASSUME StoreInv, conf' = conf, ring' = ring, logged' = logged, clock' \in {clock, clock + 1}
  PROVE  StoreInv'
<1>1. Used' = Used /\ Ring' = Ring /\ clock \in Nat
  BY DEF Used, Ring, StoreInv, StoreTypeOK
<1>2. StoreTypeOK'
  BY <1>1 DEF StoreInv, StoreTypeOK
<1>3. \A w \in Writer : RingHolds(ring[w], logged[w])'
  BY DEF StoreInv, RingHolds
<1>4. \A v \in Writer : \A i \in 1..Len(logged[v]) : logged[v][i].t < clock'
  <2>1. ASSUME NEW v \in Writer, NEW i \in 1..Len(logged[v]) PROVE logged[v][i].t \in Nat
    <3>1. logged[v] \in Seq(Entry)
      BY DEF StoreInv, StoreTypeOK
    <3>2. logged[v][i] \in Entry
      BY <3>1, ElementOfSeq
    <3>. QED
      BY <3>2 DEF Entry
  <2>. QED
    BY <1>1, <2>1 DEF StoreInv, StampedInOrder
<1>. QED
  BY <1>1, <1>2, <1>3, <1>4 DEF StoreInv, StampedInOrder

-----------------------------------------------------------------------------
(* Lines and entries                                                       *)

(* Only the first line may begin an entry.                                 *)
Headed(s) == \A i \in 2..Len(s) : ~s[i][1].start

JoinTypeOK == /\ lines \in [Writer -> Seq(Line)]
              /\ old \in [Writer -> BOOLEAN]
              /\ entries \in [Writer -> Seq(Seq(Line))]

(* The lines joined so far may be one entry.                               *)
LinesJoin ==
  \A w \in Writer :
    /\ conf.multiline => Len(lines[w]) < conf.maxLines /\ Headed(lines[w])
    /\ ~conf.multiline => lines[w] = <<>>
    /\ old[w] => lines[w] # <<>>

(* The log of every writer is right.                                       *)
LogInv == StoreInv /\ JoinTypeOK /\ LinesJoin /\ EntriesRight

(* All that has been made, or is being joined, of what a writer was given. *)
Made(w) == FlattenSeq(FlattenSeq(entries[w])) \o FlattenSeq(lines[w])

(* A piece that shows an error makes the whole entry one.                  *)
LEMMA DetectError ==
  ASSUME NEW toks \in Seq(Line), NEW k \in ToSet(toks), NEW p \in ToSet(k), p.sev = "error"
  PROVE  Detect(toks) = 3
<1>. DEFINE found == {q.sev : q \in UNION {ToSet(l) : l \in ToSet(toks)}} \ {"none"}
            Worst(s) == \A o \in found : Severity[o] <= Severity[s]
            worst == CHOOSE s \in found : \A o \in found : Severity[o] <= Severity[s]
<1>1. "error" \in found
  OBVIOUS
<1>2. \A o \in found : o \in DOMAIN Severity
  <2>1. SUFFICES ASSUME NEW l \in ToSet(toks), NEW q \in ToSet(l) PROVE q.sev \in DOMAIN Severity \cup {"none"}
    OBVIOUS
  <2>2. l \in Line
    BY LenProperties, ElementOfSeq DEF ToSet
  <2>3. q \in Pieces
    BY <2>2, LenProperties, ElementOfSeq DEF ToSet, Line
  <2>. QED
    BY <2>3 DEF Pieces
<1>3. /\ DOMAIN Severity = {"debug", "info", "warn", "error"}
      /\ Severity["debug"] = 0 /\ Severity["info"] = 1 /\ Severity["warn"] = 2
      /\ Severity["error"] = 3
  BY DEF Severity
<1>4. \A o \in found : Severity[o] <= Severity["error"]
  <2>1. \A o \in {"debug", "info", "warn", "error"} : Severity[o] <= Severity["error"]
    BY <1>3
  <2>. HIDE DEF found
  <2>. QED
    BY <1>2, <1>3, <2>1
<1>5. worst \in found /\ Severity["error"] <= Severity[worst]
  <2>. HIDE DEF found
  <2>. QED
    BY <1>1, <1>4
<1>6. Severity[worst] = 3
  <2>. HIDE DEF found, worst
  <2>1. worst \in DOMAIN Severity
    BY <1>2, <1>5
  <2>. QED
    BY <1>3, <1>5, <2>1
<1>7. found # {}
  BY <1>1
<1>. QED
  BY <1>6, <1>7 DEF Detect

(* A filter drops an entry whatever its level.                             *)
Excepted(e) == Noisy(e) \/ (conf.include /\ ~Wanted(e))

(* An error is passed on, and logged if its level can be told or info is   *)
(* enough.                                                                 *)
LEMMA ErrorLogged ==
  ASSUME conf \in Scenario, NEW toks \in Seq(Line), ShowsError(toks),
         conf.detects \/ conf.minLevel <= Severity["info"]
  PROVE  Excepted(toks) \/ (PassedOn(toks) /\ ShouldLog(toks))
<1>1. PICK k \in ToSet(toks) : \E p \in ToSet(k) : p.sev = "error" /\ ~p.blank
  BY DEF ShowsError
<1>2. Detect(toks) = 3
  BY <1>1, DetectError
<1>3. conf.minLevel \in 0..3 /\ Severity["info"] = 1
  BY LogAssumption DEF Severity
<1>4. LevelOf(toks) >= conf.minLevel
  <2>1. CASE conf.detects
    BY <1>2, <1>3, <2>1 DEF LevelOf
  <2>2. CASE ~conf.detects
    BY <1>3, <2>2 DEF LevelOf
  <2>. QED
    BY <2>1, <2>2
<1>5. ~Empty(toks)
  <2>1. SUFFICES ASSUME Len(toks) = 1, \A q \in ToSet(toks[1]) : q.blank
                 PROVE  FALSE
    BY DEF Empty
  <2>2. PICK i \in 1..Len(toks) : k = toks[i]
    BY DEF ToSet
  <2>3. k = toks[1]
    BY <2>1, <2>2
  <2>. QED
    BY <1>1, <2>1, <2>3
<1>. QED
  BY <1>4, <1>5 DEF PassedOn, ShouldLog, Excepted

(* What the invariant says of a writer that is in use.                     *)
LEMMA LogTypes ==
  ASSUME LogInv, NEW w \in Used
  PROVE  /\ w \in Writer /\ conf \in Scenario /\ clock \in Nat
         /\ lines[w] \in Seq(Line) /\ entries[w] \in Seq(Seq(Line)) /\ logged[w] \in Seq(Entry)
         /\ conf.maxLines \in Nat \ {0} /\ conf.size \in Nat \ {0} /\ conf.minLevel \in 0..3
         /\ conf.multiline \in BOOLEAN
<1>1. w \in Writer
  BY DEF Used, Stream, Writer
<1>2. conf \in Scenario
  BY DEF LogInv, StoreInv, StoreTypeOK
<1>. QED
  BY <1>1, <1>2, LogAssumption DEF LogInv, StoreInv, StoreTypeOK, JoinTypeOK

(* processEntry: of lines that may be one entry it makes one, and keeps it *)
(* in the ring if the filters say so.                                      *)
LEMMA EnterRight ==
  ASSUME LogInv, conf' = conf, NEW w \in Used, NEW toks \in Seq(Line), Enter(w, toks),
         conf.multiline => Headed(toks) /\ Len(toks) <= conf.maxLines
  PROVE  /\ StoreInv' /\ EntriesRight'
         /\ entries' = [entries EXCEPT ![w] = Append(@, toks)]
         /\ entries' \in [Writer -> Seq(Seq(Line))]
<1>. DEFINE e == [toks |-> toks, t |-> clock, event |-> FALSE]
<1>1. /\ w \in Writer /\ conf \in Scenario /\ clock \in Nat
      /\ entries[w] \in Seq(Seq(Line)) /\ logged[w] \in Seq(Entry) /\ conf.minLevel \in 0..3
  BY LogTypes
<1>2. e \in Entry /\ e.t = clock /\ e.toks = toks
  BY <1>1 DEF Entry
<1>3. entries' = [entries EXCEPT ![w] = Append(@, toks)]
  BY DEF Enter
<1>4. Append(entries[w], toks) \in Seq(Seq(Line))
  BY <1>1, AppendProperties
<1>5. /\ entries' \in [Writer -> Seq(Seq(Line))]
      /\ entries'[w] = Append(entries[w], toks)
      /\ \A v \in Writer \ {w} : entries'[v] = entries[v]
  BY <1>1, <1>3, <1>4 DEF LogInv, JoinTypeOK
<1>6. StoreInv /\ logged \in [Writer -> Seq(Entry)]
  BY DEF LogInv, StoreInv, StoreTypeOK
<1>7. /\ StoreInv'
      /\ \A v \in Writer : ToSet(logged[v]) \subseteq ToSet(logged'[v])
      /\ PassedOn(toks) /\ ShouldLog(toks) => e \in ToSet(logged'[w])
  <2>1. CASE PassedOn(toks) /\ ShouldLog(toks)
    <3>1. /\ ring' = [ring EXCEPT ![w] = RingAdd(@, e)]
          /\ logged' = [logged EXCEPT ![w] = Append(@, e)] /\ clock' = clock + 1
      BY <2>1 DEF Enter
    <3>2. StoreInv'
      <4>. HIDE DEF e
      <4>. QED
        BY <1>2, <1>6, <3>1, StoreAdds
    <3>3. logged'[w] = Append(logged[w], e) /\ \A v \in Writer \ {w} : logged'[v] = logged[v]
      BY <1>1, <1>6, <3>1
    <3>4. ToSet(Append(logged[w], e)) = ToSet(logged[w]) \cup {e}
      <4>. HIDE DEF e
      <4>. QED
        BY <1>1, <1>2, ToSetAppend
    <3>. QED
      BY <3>2, <3>3, <3>4
  <2>2. CASE ~(PassedOn(toks) /\ ShouldLog(toks))
    <3>1. ring' = ring /\ logged' = logged /\ clock' = clock + 1
      BY <2>2 DEF Enter
    <3>. QED
      BY <1>6, <2>2, <3>1, StoreSkips
  <2>. QED
    BY <2>1, <2>2
<1>8. ToSet(entries'[w]) = ToSet(entries[w]) \cup {toks}
  BY <1>1, <1>5, ToSetAppend
<1>. HIDE DEF e
<1>9. ASSUME NEW v \in Writer, NEW f \in ToSet(entries'[v])
      PROVE  f \in ToSet(entries[v]) \/ (v = w /\ f = toks)
  BY <1>5, <1>8
<1>10. StartsBegin'
  <2>1. SUFFICES ASSUME conf.multiline, NEW v \in Writer, NEW f \in ToSet(entries'[v])
                 PROVE  (\A i \in 2..Len(f) : ~f[i][1].start) /\ Len(f) <= conf.maxLines
    BY DEF StartsBegin
  <2>2. CASE f \in ToSet(entries[v])
    BY <2>1, <2>2 DEF LogInv, EntriesRight, StartsBegin
  <2>3. CASE f = toks
    BY <2>1, <2>3 DEF Headed
  <2>. QED
    BY <1>9, <2>2, <2>3
<1>11. ErrorsKept'
  <2>1. SUFFICES ASSUME conf.detects \/ conf.minLevel <= Severity["info"],
                        NEW v \in Writer, NEW f \in ToSet(entries'[v]), ShowsError(f)
                 PROVE  Excepted(f) \/ \E l \in ToSet(logged'[v]) : l.toks = f
    BY DEF ErrorsKept, Excepted, ShowsError, Noisy, Wanted
  <2>2. CASE f \in ToSet(entries[v])
    <3>1. Excepted(f) \/ \E l \in ToSet(logged[v]) : l.toks = f
      BY <2>1, <2>2 DEF LogInv, EntriesRight, ErrorsKept, Excepted
    <3>. QED
      BY <3>1, <1>7
  <2>3. CASE v = w /\ f = toks
    <3>1. Excepted(toks) \/ (PassedOn(toks) /\ ShouldLog(toks))
      BY <1>1, <2>1, <2>3, ErrorLogged
    <3>. QED
      BY <1>2, <1>7, <2>3, <3>1
  <2>. QED
    BY <1>9, <2>2, <2>3
<1>. QED
  BY <1>3, <1>5, <1>7, <1>10, <1>11 DEF EntriesRight

(* Concatenation of pieces is associative.                                 *)
LEMMA LineAssociates ==
  ASSUME NEW a \in Line, NEW b \in Line, NEW c \in Line
  PROVE  (a \o b) \o c = a \o (b \o c)
BY ConcatAssociative DEF Line

(* What is made of lines does not change when they become an entry, and    *)
(* grows by a line that is joined or begins anew.                          *)
LEMMA MadeOf ==
  ASSUME NEW s \in Seq(Seq(Line)), NEW l \in Seq(Line), NEW r \in Seq(Line),
         NEW tok \in Line
  PROVE  /\ FlattenSeq(FlattenSeq(Append(s, l))) \o FlattenSeq(<<>>)
              = FlattenSeq(FlattenSeq(s)) \o FlattenSeq(l)
         /\ FlattenSeq(FlattenSeq(Append(s, l))) \o FlattenSeq(<<tok>>)
              = (FlattenSeq(FlattenSeq(s)) \o FlattenSeq(l)) \o tok
         /\ FlattenSeq(FlattenSeq(s)) \o FlattenSeq(Append(l, tok))
              = (FlattenSeq(FlattenSeq(s)) \o FlattenSeq(l)) \o tok
         /\ FlattenSeq(FlattenSeq(s)) \in Line /\ FlattenSeq(l) \in Line
<1>1. PICK a \in Seq(Line) : a = FlattenSeq(s)
  BY FlattenType
<1>2. PICK b \in Line : b = FlattenSeq(a)
  BY FlattenType DEF Line
<1>3. PICK c \in Line : c = FlattenSeq(l)
  BY FlattenType DEF Line
<1>4. FlattenSeq(Append(s, l)) = a \o l
  BY <1>1, FlattenAppend
<1>5. FlattenSeq(a \o l) = b \o c
  BY <1>2, <1>3, FlattenConcat DEF Line
<1>6. FlattenSeq(<<>>) = <<>> /\ FlattenSeq(<<tok>>) = tok
  BY FlattenEmpty, FlattenOne DEF Line
<1>7. FlattenSeq(Append(l, tok)) = c \o tok
  BY <1>3, FlattenAppend DEF Line
<1>8. b \o c \in Line /\ (b \o c) \o <<>> = b \o c
  BY ConcatProperties, ConcatEmptySeq DEF Line
<1>9. (b \o c) \o tok = b \o (c \o tok)
  BY ConcatAssociative DEF Line
<1>. QED
  BY <1>1, <1>2, <1>3, <1>4, <1>5, <1>6, <1>7, <1>8, <1>9

(* Flush makes the lines joined so far an entry and loses nothing.         *)
LEMMA FlushRight ==
  ASSUME LogInv, conf' = conf, NEW w \in Used, FlushLines(w)
  PROVE  LogInv' /\ \A v \in Writer : Made(v)' = Made(v)
<1>1. /\ w \in Writer /\ lines[w] \in Seq(Line) /\ entries[w] \in Seq(Seq(Line))
      /\ conf.maxLines \in Nat \ {0}
  BY LogTypes
<1>2. Len(lines[w]) \in Nat
  BY <1>1, LenProperties
<1>3. conf.multiline => Headed(lines[w]) /\ Len(lines[w]) <= conf.maxLines
  BY <1>1, <1>2 DEF LogInv, LinesJoin
<1>4. /\ Enter(w, lines[w])
      /\ lines' = [lines EXCEPT ![w] = <<>>] /\ old' = [old EXCEPT ![w] = FALSE]
  BY DEF FlushLines
<1>5. /\ StoreInv' /\ EntriesRight'
      /\ entries' = [entries EXCEPT ![w] = Append(@, lines[w])]
      /\ entries' \in [Writer -> Seq(Seq(Line))]
  BY <1>1, <1>3, <1>4, EnterRight
<1>6. /\ lines'[w] = <<>> /\ old'[w] = FALSE /\ entries'[w] = Append(entries[w], lines[w])
      /\ \A v \in Writer \ {w} : lines'[v] = lines[v] /\ old'[v] = old[v] /\ entries'[v] = entries[v]
  BY <1>1, <1>4, <1>5 DEF LogInv, JoinTypeOK
<1>7. JoinTypeOK'
  BY <1>1, <1>4, <1>5 DEF LogInv, JoinTypeOK
<1>8. LinesJoin'
  <2>1. Len(<<>>) = 0 /\ Headed(<<>>)
    BY DEF Headed
  <2>. QED
    BY <1>1, <1>6, <2>1 DEF LogInv, LinesJoin, Headed
<1>9. \A v \in Writer : Made(v)' = Made(v)
  <2>1. FlattenSeq(FlattenSeq(Append(entries[w], lines[w]))) \o FlattenSeq(<<>>)
          = FlattenSeq(FlattenSeq(entries[w])) \o FlattenSeq(lines[w])
    <3>1. <<>> \in Line
      BY DEF Line
    <3>. QED
      BY <1>1, <3>1, MadeOf
  <2>. QED
    BY <1>6, <2>1 DEF Made
<1>. QED
  BY <1>5, <1>7, <1>8, <1>9 DEF LogInv

(* The four things MultilineBuffer.Add does with a line.                   *)
LEMMA LineCases ==
  ASSUME NEW w, NEW tok, AddLine(w, tok)
  PROVE  \/ /\ ~conf.multiline
            /\ Enter(w, <<tok>>)
            /\ lines' = lines /\ old' = old
         \/ /\ conf.multiline /\ tok[1].start /\ lines[w] # <<>>
            /\ Enter(w, lines[w])
            /\ lines' = [lines EXCEPT ![w] = <<tok>>]
            /\ old' = [old EXCEPT ![w] = FALSE]
         \/ /\ conf.multiline /\ ~(tok[1].start /\ lines[w] # <<>>)
            /\ Len(Append(lines[w], tok)) >= conf.maxLines
            /\ Enter(w, Append(lines[w], tok))
            /\ lines' = [lines EXCEPT ![w] = <<>>]
            /\ old' = [old EXCEPT ![w] = FALSE]
         \/ /\ conf.multiline /\ ~(tok[1].start /\ lines[w] # <<>>)
            /\ Len(Append(lines[w], tok)) < conf.maxLines
            /\ lines' = [lines EXCEPT ![w] = Append(lines[w], tok)]
            /\ old' = [old EXCEPT ![w] = @ /\ lines[w] # <<>>]
            /\ entries' = entries /\ ring' = ring /\ logged' = logged /\ clock' = clock
BY DEF AddLine

(* A line that does not begin an entry, or is the first, can be joined.    *)
LEMMA HeadedAppend ==
  ASSUME NEW s \in Seq(Line), NEW tok \in Line, Headed(s), ~(tok[1].start /\ s # <<>>)
  PROVE  Headed(Append(s, tok))
<1>1. PICK n \in Nat : n = Len(s)
  BY LenProperties
<1>2. /\ Len(Append(s, tok)) = n + 1 /\ Append(s, tok)[n + 1] = tok
      /\ \A i \in 1..n : Append(s, tok)[i] = s[i]
  BY <1>1, AppendProperties
<1>3. SUFFICES ASSUME NEW i \in 2..(n + 1) PROVE ~Append(s, tok)[i][1].start
  BY <1>2 DEF Headed
<1>4. CASE i = n + 1
  <2>1. s # <<>>
    BY <1>1, <1>4
  <2>. QED
    BY <1>2, <1>4, <2>1
<1>5. CASE i # n + 1
  BY <1>1, <1>2, <1>5 DEF Headed
<1>. QED
  BY <1>4, <1>5

(* A writer's lines and entries after one step of its own.                 *)
LEMMA JoinStep ==
  ASSUME LogInv, conf' = conf, NEW w \in Used, StoreInv', EntriesRight',
         entries' \in [Writer -> Seq(Seq(Line))], NEW more \in Seq(Line), NEW o \in BOOLEAN,
         lines' = [lines EXCEPT ![w] = more], old' = [old EXCEPT ![w] = o],
         conf.multiline => Len(more) < conf.maxLines /\ Headed(more),
         ~conf.multiline => more = <<>>, o => more # <<>>
  PROVE  LogInv'
<1>1. w \in Writer
  BY LogTypes
<1>2. /\ lines'[w] = more /\ old'[w] = o
      /\ \A v \in Writer \ {w} : lines'[v] = lines[v] /\ old'[v] = old[v]
  BY <1>1 DEF LogInv, JoinTypeOK
<1>3. JoinTypeOK'
  BY <1>1 DEF LogInv, JoinTypeOK
<1>4. LinesJoin'
  BY <1>2 DEF LogInv, LinesJoin, Headed
<1>. QED
  BY <1>3, <1>4 DEF LogInv

(* processLine: whatever it does with the line, the line comes after all   *)
(* that was made before, once, and no other writer changes.                *)
LEMMA AddLineRight ==
  ASSUME LogInv, conf' = conf, NEW w \in Used, NEW tok \in Line, AddLine(w, tok)
  PROVE  /\ LogInv'
         /\ Made(w)' = Made(w) \o tok
         /\ \A v \in Writer \ {w} : Made(v)' = Made(v)
<1>. DEFINE more == Append(lines[w], tok)
<1>1. /\ w \in Writer /\ lines[w] \in Seq(Line) /\ entries[w] \in Seq(Seq(Line))
      /\ conf.maxLines \in Nat \ {0} /\ conf.multiline \in BOOLEAN
  BY LogTypes
<1>2. PICK n \in Nat : n = Len(lines[w])
  BY <1>1, LenProperties
<1>3. more \in Seq(Line) /\ Len(more) = n + 1 /\ <<>> \in Seq(Line) /\ <<tok>> \in Seq(Line)
      /\ Len(<<>>) = 0 /\ Len(<<tok>>) = 1 /\ Headed(<<>>) /\ Headed(<<tok>>)
  BY <1>1, <1>2, AppendProperties DEF Headed
<1>4. /\ conf.multiline => n < conf.maxLines /\ Headed(lines[w])
      /\ ~conf.multiline => lines[w] = <<>>
      /\ old[w] \in BOOLEAN
  BY <1>1, <1>2 DEF LogInv, LinesJoin, JoinTypeOK
<1>5. /\ FlattenSeq(FlattenSeq(Append(entries[w], lines[w]))) \o FlattenSeq(<<tok>>) = Made(w) \o tok
      /\ FlattenSeq(FlattenSeq(entries[w])) \o FlattenSeq(more) = Made(w) \o tok
  BY <1>1, MadeOf DEF Made
<1>6. FlattenSeq(FlattenSeq(Append(entries[w], more))) \o FlattenSeq(<<>>) = Made(w) \o tok
  BY <1>1, <1>3, <1>5, MadeOf
<1>7. ASSUME NEW toks \in Seq(Line), entries' = [entries EXCEPT ![w] = Append(@, toks)]
      PROVE  /\ entries'[w] = Append(entries[w], toks)
             /\ \A v \in Writer \ {w} : entries'[v] = entries[v]
  BY <1>1, <1>7 DEF LogInv, JoinTypeOK
<1>8. ASSUME NEW ls, lines' = [lines EXCEPT ![w] = ls]
      PROVE  lines'[w] = ls /\ \A v \in Writer \ {w} : lines'[v] = lines[v]
  BY <1>1, <1>8 DEF LogInv, JoinTypeOK
<1>9. CASE /\ ~conf.multiline
           /\ Enter(w, <<tok>>)
           /\ lines' = lines /\ old' = old
  <2>1. /\ StoreInv' /\ EntriesRight'
        /\ entries' = [entries EXCEPT ![w] = Append(@, <<tok>>)]
        /\ entries' \in [Writer -> Seq(Seq(Line))]
    BY <1>3, <1>9, EnterRight
  <2>2. LogInv'
    BY <1>9, <2>1 DEF LogInv, JoinTypeOK, LinesJoin, Headed
  <2>3. lines[w] = <<>> /\ more = <<tok>>
    <3>1. lines[w] = <<>>
      BY <1>4, <1>9
    <3>2. Append(<<>>, tok) = <<tok>>
      OBVIOUS
    <3>. QED
      BY <3>1, <3>2
  <2>4. Made(w)' = FlattenSeq(FlattenSeq(Append(entries[w], more))) \o FlattenSeq(<<>>)
    BY <1>3, <1>7, <1>9, <2>1, <2>3 DEF Made
  <2>5. \A v \in Writer \ {w} : Made(v)' = Made(v)
    BY <1>3, <1>7, <1>9, <2>1 DEF Made
  <2>. QED
    BY <1>6, <2>2, <2>4, <2>5
<1>10. CASE /\ conf.multiline /\ tok[1].start /\ lines[w] # <<>>
            /\ Enter(w, lines[w])
            /\ lines' = [lines EXCEPT ![w] = <<tok>>]
            /\ old' = [old EXCEPT ![w] = FALSE]
  <2>1. n # 0 /\ 1 < conf.maxLines
    BY <1>1, <1>2, <1>4, <1>10, EmptySeq
  <2>2. /\ StoreInv' /\ EntriesRight'
        /\ entries' = [entries EXCEPT ![w] = Append(@, lines[w])]
        /\ entries' \in [Writer -> Seq(Seq(Line))]
    BY <1>1, <1>2, <1>4, <1>10, EnterRight
  <2>3. LogInv'
    BY <1>3, <1>10, <2>1, <2>2, JoinStep
  <2>4. Made(w)' = FlattenSeq(FlattenSeq(Append(entries[w], lines[w]))) \o FlattenSeq(<<tok>>)
    BY <1>1, <1>7, <1>8, <1>10, <2>2 DEF Made
  <2>5. \A v \in Writer \ {w} : Made(v)' = Made(v)
    BY <1>1, <1>7, <1>8, <1>10, <2>2 DEF Made
  <2>. QED
    BY <1>5, <2>3, <2>4, <2>5
<1>11. CASE /\ conf.multiline /\ ~(tok[1].start /\ lines[w] # <<>>)
            /\ Len(more) >= conf.maxLines
            /\ Enter(w, more)
            /\ lines' = [lines EXCEPT ![w] = <<>>]
            /\ old' = [old EXCEPT ![w] = FALSE]
  <2>1. Headed(more) /\ Len(more) <= conf.maxLines
    BY <1>1, <1>3, <1>4, <1>11, HeadedAppend
  <2>2. /\ StoreInv' /\ EntriesRight'
        /\ entries' = [entries EXCEPT ![w] = Append(@, more)]
        /\ entries' \in [Writer -> Seq(Seq(Line))]
    BY <1>3, <1>11, <2>1, EnterRight
  <2>3. LogInv'
    <3>1. Len(<<>>) < conf.maxLines /\ Headed(<<>>) /\ <<>> \in Seq(Line)
      BY <1>1, <1>3
    <3>2. lines' = [lines EXCEPT ![w] = <<>>] /\ old' = [old EXCEPT ![w] = FALSE]
      BY <1>11
    <3>3. conf.multiline
      BY <1>11
    <3>. QED
      BY <2>2, <3>1, <3>2, <3>3, JoinStep
  <2>4. Made(w)' = FlattenSeq(FlattenSeq(Append(entries[w], more))) \o FlattenSeq(<<>>)
    BY <1>3, <1>7, <1>8, <1>11, <2>2 DEF Made
  <2>5. \A v \in Writer \ {w} : Made(v)' = Made(v)
    BY <1>3, <1>7, <1>8, <1>11, <2>2 DEF Made
  <2>. QED
    BY <1>6, <2>3, <2>4, <2>5
<1>12. CASE /\ conf.multiline /\ ~(tok[1].start /\ lines[w] # <<>>)
            /\ Len(more) < conf.maxLines
            /\ lines' = [lines EXCEPT ![w] = more]
            /\ old' = [old EXCEPT ![w] = @ /\ lines[w] # <<>>]
            /\ entries' = entries /\ ring' = ring /\ logged' = logged /\ clock' = clock
  <2>1. Headed(more) /\ more # <<>>
    BY <1>1, <1>3, <1>4, <1>12, HeadedAppend
  <2>2. StoreInv'
    BY <1>12, StoreSkips DEF LogInv
  <2>3. EntriesRight' /\ entries' \in [Writer -> Seq(Seq(Line))]
    BY <1>12 DEF LogInv, EntriesRight, StartsBegin, ErrorsKept, JoinTypeOK
  <2>4. PICK o \in BOOLEAN : o = (old[w] /\ lines[w] # <<>>) /\ old' = [old EXCEPT ![w] = o]
    BY <1>1, <1>12
  <2>5. LogInv'
    BY <1>3, <1>12, <2>1, <2>2, <2>3, <2>4, JoinStep
  <2>6. Made(w)' = FlattenSeq(FlattenSeq(entries[w])) \o FlattenSeq(more)
    BY <1>8, <1>12 DEF Made
  <2>7. \A v \in Writer \ {w} : Made(v)' = Made(v)
    BY <1>8, <1>12 DEF Made
  <2>. QED
    BY <1>5, <2>5, <2>6, <2>7
<1>. QED
  BY <1>9, <1>10, <1>11, <1>12, LineCases

(* An event is an entry that is made of no line.                           *)
LEMMA AddEventRight ==
  ASSUME LogInv, conf' = conf, NEW w \in Used, AddEvent(w), lines' = lines, old' = old, entries' = entries
  PROVE  LogInv' /\ \A v \in Writer : Made(v)' = Made(v)
<1>. DEFINE e == [toks |-> <<>>, t |-> clock, event |-> TRUE]
<1>1. w \in Writer /\ clock \in Nat /\ logged[w] \in Seq(Entry)
  BY LogTypes
<1>2. e \in Entry /\ e.t = clock
  <2>1. <<>> \in Seq(Line)
    OBVIOUS
  <2>. QED
    BY <1>1, <2>1 DEF Entry
<1>3. /\ ring' = [ring EXCEPT ![w] = RingAdd(@, e)]
      /\ logged' = [logged EXCEPT ![w] = Append(@, e)] /\ clock' = clock + 1
  BY DEF AddEvent
<1>. HIDE DEF e
<1>4. StoreInv'
  BY <1>2, <1>3, StoreAdds DEF LogInv
<1>5. /\ logged'[w] = Append(logged[w], e)
      /\ \A v \in Writer \ {w} : logged'[v] = logged[v]
  BY <1>1, <1>3 DEF LogInv, StoreInv, StoreTypeOK
<1>6. \A v \in Writer : ToSet(logged[v]) \subseteq ToSet(logged'[v])
  <2>1. ToSet(Append(logged[w], e)) = ToSet(logged[w]) \cup {e}
    BY <1>1, <1>2, ToSetAppend
  <2>. QED
    BY <1>5, <2>1
<1>7. EntriesRight'
  BY <1>6 DEF LogInv, EntriesRight, StartsBegin, ErrorsKept, Noisy
<1>. QED
  BY <1>4, <1>7 DEF LogInv, JoinTypeOK, LinesJoin, Headed, Made

(* A step that changes nothing of the log keeps it right.                  *)
LEMMA LogSame ==
  ASSUME LogInv, conf' = conf, lines' = lines, old' = old, entries' = entries, ring' = ring,
         logged' = logged, clock' = clock
  PROVE  LogInv' /\ \A v \in Writer : Made(v)' = Made(v)
<1>1. StoreInv'
  BY StoreSkips DEF LogInv
<1>. QED
  BY <1>1 DEF LogInv, JoinTypeOK, LinesJoin, Headed, EntriesRight, StartsBegin, ErrorsKept, Made

-----------------------------------------------------------------------------
(* From Write to the entries                                               *)

(* The goroutine that copies a stream.                                     *)
Copier == [at : {"idle", "scan", "line", "keep", "swap"}, scanned : Seq(Line), rest : Line]

FlowTypeOK == /\ proc \in {"running", "ending", "exited"}
              /\ runs \in 1..conf.runs
              /\ printed \in 0..conf.max
              /\ open \in [Stream -> conf.kinds \cup {Closed}]
              /\ buf \in [Writer -> Line]
              /\ wrote \in [Writer -> Line]
              /\ raced \in [Writer -> BOOLEAN]
              /\ copier \in [Stream -> Copier]

(* Where a copier may have lines, and when there may be none.              *)
CopiersOK == /\ \A st \in Stream : copier[st].scanned # <<>> => copier[st].at = "line"
             /\ proc = "exited" => Copied

(* The tokens scanned for a writer and not yet processed.                  *)
Pending(w) == IF Busy(w) = {} THEN <<>>
              ELSE FlattenSeq(copier[CHOOSE st \in Busy(w) : TRUE].scanned)

(* Nothing is lost on the way through w.                                   *)
Flows(w) ==
  ~raced[w] =>
    /\ \A s, t \in Stream : WriterOf(s) = w /\ WriterOf(t) = w
                              /\ copier[s].at # "idle" /\ copier[t].at # "idle" => s = t
    /\ \A s \in Stream : WriterOf(s) = w =>
         /\ copier[s].at \in {"line", "keep", "swap"} => buf[w] = <<>>
         /\ copier[s].at = "swap" => copier[s].rest = <<>>
    /\ wrote[w] = Made(w) \o Pending(w) \o buf[w]

(* Nor for any writer.                                                     *)
FlowInv == FlowTypeOK /\ CopiersOK /\ (\A w \in Writer : Flows(w)) /\ ExecutionFlushed

(* The inductive invariant.                                                *)
Inv == LogInv /\ FlowInv

(* A stream's writer is one that is in use.                                *)
LEMMA WriterOfUsed ==
  ASSUME NEW st \in Stream
  PROVE  WriterOf(st) \in Used /\ WriterOf(st) \in Writer
BY DEF WriterOf, Used, Stream, Writer

(* What is made is a sequence of pieces.                                   *)
LEMMA MadeType ==
  ASSUME LogInv, NEW w \in Writer
  PROVE  Made(w) \in Line
<1>1. lines[w] \in Seq(Seq(Pieces)) /\ entries[w] \in Seq(Seq(Seq(Pieces)))
  BY DEF LogInv, JoinTypeOK, Line
<1>2. FlattenSeq(entries[w]) \in Seq(Seq(Pieces)) /\ FlattenSeq(lines[w]) \in Seq(Pieces)
  BY <1>1, FlattenType
<1>3. FlattenSeq(FlattenSeq(entries[w])) \in Seq(Pieces)
  BY <1>2, FlattenType
<1>. QED
  BY <1>2, <1>3, ConcatProperties DEF Made, Line

(* If only the copier of st has lines for its writer, they are what is     *)
(* pending.                                                                *)
LEMMA PendingOf ==
  ASSUME NEW st \in Stream,
         \A s \in Stream \ {st} : WriterOf(s) = WriterOf(st) => copier[s].scanned = <<>>
  PROVE  Pending(WriterOf(st)) = FlattenSeq(copier[st].scanned)
<1>1. CASE copier[st].scanned = <<>>
  <2>1. Busy(WriterOf(st)) = {}
    BY <1>1 DEF Busy
  <2>. QED
    BY <1>1, <2>1, FlattenEmpty DEF Pending
<1>2. CASE copier[st].scanned # <<>>
  <2>1. Busy(WriterOf(st)) = {st}
    BY <1>2 DEF Busy
  <2>2. (CHOOSE s \in Busy(WriterOf(st)) : TRUE) = st
    BY <2>1
  <2>. QED
    BY <2>1, <2>2 DEF Pending
<1>. QED
  BY <1>1, <1>2

(* A writer whose buffers do not change keeps what it was given.           *)
LEMMA OthersFlow ==
  ASSUME NEW v \in Writer, Flows(v), conf' = conf, buf'[v] = buf[v], wrote'[v] = wrote[v],
         raced'[v] = raced[v], Made(v)' = Made(v),
         \A s \in Stream : WriterOf(s) = v => copier'[s] = copier[s]
  PROVE  Flows(v)'
<1>1. \A s : WriterOf(s)' = WriterOf(s)
  BY DEF WriterOf
<1>2. Busy(v)' = Busy(v) /\ \A s \in Busy(v) : copier'[s] = copier[s]
  BY <1>1 DEF Busy
<1>3. Pending(v)' = Pending(v)
  <2>1. CASE Busy(v) = {}
    BY <1>2, <2>1 DEF Pending
  <2>2. CASE Busy(v) # {}
    <3>1. PICK s : s = CHOOSE x \in Busy(v) : TRUE
      OBVIOUS
    <3>2. s \in Busy(v)
      BY <2>2, <3>1
    <3>3. copier'[s] = copier[s]
      BY <1>2, <3>2
    <3>. QED
      BY <1>2, <2>2, <3>1, <3>3 DEF Pending
  <2>. QED
    BY <2>1, <2>2
<1>4. SUFFICES ASSUME ~raced[v]
      PROVE /\ \A s, t \in Stream : WriterOf(s)' = v /\ WriterOf(t)' = v
                              /\ copier'[s].at # "idle" /\ copier'[t].at # "idle" => s = t
            /\ \A s \in Stream : WriterOf(s)' = v =>
                 /\ copier'[s].at \in {"line", "keep", "swap"} => buf'[v] = <<>>
                 /\ copier'[s].at = "swap" => copier'[s].rest = <<>>
            /\ wrote'[v] = Made(v)' \o Pending(v)' \o buf'[v]
  BY DEF Flows
<1>5. \A s, t \in Stream : WriterOf(s)' = v /\ WriterOf(t)' = v
                              /\ copier'[s].at # "idle" /\ copier'[t].at # "idle" => s = t
  BY <1>1, <1>4 DEF Flows
<1>6. \A s \in Stream : WriterOf(s)' = v =>
                 /\ copier'[s].at \in {"line", "keep", "swap"} => buf'[v] = <<>>
                 /\ copier'[s].at = "swap" => copier'[s].rest = <<>>
  BY <1>1, <1>4 DEF Flows
<1>7. wrote'[v] = Made(v)' \o Pending(v)' \o buf'[v]
  BY <1>3, <1>4 DEF Flows
<1>. QED
  BY <1>5, <1>6, <1>7

(* What a step of the copier of st must do to its own writer.              *)
LEMMA StepFlows ==
  ASSUME Inv, NEW st \in Stream, conf' = conf, NEW c \in Copier, copier[st].at # "idle",
         copier' = [copier EXCEPT ![st] = c], c.scanned # <<>> => c.at = "line",
         NEW w, w = WriterOf(st), raced' = raced, wrote' = wrote, proc' = proc,
         buf' \in [Writer -> Line],
         \A v \in Writer \ {w} : buf'[v] = buf[v] /\ Made(v)' = Made(v),
         ~raced[w] /\ (copier[st].at \in {"line", "keep", "swap"} => buf[w] = <<>>)
           /\ (copier[st].at = "swap" => copier[st].rest = <<>>)
           /\ wrote[w] = Made(w) \o FlattenSeq(copier[st].scanned) \o buf[w] =>
           /\ c.at \in {"line", "keep", "swap"} => buf'[w] = <<>>
           /\ c.at = "swap" => c.rest = <<>>
           /\ wrote[w] = Made(w)' \o FlattenSeq(c.scanned) \o buf'[w]
  PROVE  /\ copier' \in [Stream -> Copier] /\ CopiersOK'
         /\ \A v \in Writer : Flows(v)'
<1>1. /\ copier \in [Stream -> Copier] /\ w \in Writer
      /\ \A s \in Stream : copier[s].scanned # <<>> => copier[s].at = "line"
      /\ proc = "exited" => Copied
      /\ \A v \in Writer : Flows(v)
  BY WriterOfUsed DEF Inv, FlowInv, FlowTypeOK, CopiersOK
<1>2. /\ copier' \in [Stream -> Copier] /\ copier'[st] = c
      /\ \A s \in Stream \ {st} : copier'[s] = copier[s]
  BY <1>1
<1>3. CopiersOK'
  <2>1. proc # "exited"
    BY <1>1 DEF Copied
  <2>. QED
    BY <1>1, <1>2, <2>1 DEF CopiersOK
<1>4. \A s : WriterOf(s)' = WriterOf(s)
  BY DEF WriterOf
<1>5. ASSUME NEW v \in Writer \ {w} PROVE Flows(v)'
  BY <1>1, <1>2, OthersFlow
<1>6. Flows(w)'
  <2>1. SUFFICES ASSUME ~raced[w]
        PROVE /\ \A s, t \in Stream : WriterOf(s)' = w /\ WriterOf(t)' = w
                                /\ copier'[s].at # "idle" /\ copier'[t].at # "idle" => s = t
              /\ \A s \in Stream : WriterOf(s)' = w =>
                   /\ copier'[s].at \in {"line", "keep", "swap"} => buf'[w] = <<>>
                   /\ copier'[s].at = "swap" => copier'[s].rest = <<>>
              /\ wrote'[w] = Made(w)' \o Pending(w)' \o buf'[w]
    BY DEF Flows
  <2>2. /\ \A s, t \in Stream : WriterOf(s) = w /\ WriterOf(t) = w
                                /\ copier[s].at # "idle" /\ copier[t].at # "idle" => s = t
        /\ copier[st].at \in {"line", "keep", "swap"} => buf[w] = <<>>
        /\ copier[st].at = "swap" => copier[st].rest = <<>>
        /\ wrote[w] = Made(w) \o Pending(w) \o buf[w]
    BY <1>1, <2>1 DEF Flows
  <2>3. \A s \in Stream \ {st} : WriterOf(s) = w => copier[s].at = "idle" /\ copier[s].scanned = <<>>
    BY <1>1, <2>2
  <2>4. Pending(w) = FlattenSeq(copier[st].scanned)
    BY <2>3, PendingOf
  <2>5. /\ c.at \in {"line", "keep", "swap"} => buf'[w] = <<>>
        /\ c.at = "swap" => c.rest = <<>>
        /\ wrote[w] = Made(w)' \o FlattenSeq(c.scanned) \o buf'[w]
    BY <2>1, <2>2, <2>4
  <2>6. Pending(w)' = FlattenSeq(c.scanned)
    <3>1. \A s \in Stream \ {st} : WriterOf(s)' = w => copier'[s].scanned = <<>>
      BY <1>2, <1>4, <2>3
    <3>2. CASE c.scanned = <<>>
      <4>1. Busy(w)' = {}
        BY <1>2, <3>1, <3>2 DEF Busy
      <4>. QED
        BY <3>2, <4>1, FlattenEmpty DEF Pending
    <3>3. CASE c.scanned # <<>>
      <4>1. Busy(w)' = {st}
        BY <1>2, <1>4, <3>1, <3>3 DEF Busy
      <4>2. (CHOOSE s \in Busy(w)' : TRUE) = st
        BY <4>1
      <4>. QED
        BY <1>2, <4>1, <4>2 DEF Pending
    <3>. QED
      BY <3>2, <3>3
  <2>7. \A s, t \in Stream : WriterOf(s)' = w /\ WriterOf(t)' = w
                                /\ copier'[s].at # "idle" /\ copier'[t].at # "idle" => s = t
    BY <1>2, <1>4, <2>3
  <2>8. \A s \in Stream : WriterOf(s)' = w =>
                   /\ copier'[s].at \in {"line", "keep", "swap"} => buf'[w] = <<>>
                   /\ copier'[s].at = "swap" => copier'[s].rest = <<>>
    BY <1>2, <1>4, <2>3, <2>5
  <2>. QED
    BY <2>5, <2>6, <2>7, <2>8
<1>. QED
  BY <1>2, <1>3, <1>5, <1>6

(* Such a step preserves the invariant when it also leaves the process     *)
(* alone.                                                                  *)
LEMMA StepInv ==
  ASSUME Inv, NEW st \in Stream, NEW c \in Copier, copier[st].at # "idle",
         copier' = [copier EXCEPT ![st] = c], c.scanned # <<>> => c.at = "line",
         NEW w, w = WriterOf(st), UNCHANGED <<conf, proc, runs, printed, open, wrote, raced>>,
         buf' \in [Writer -> Line], LogInv',
         \A v \in Writer \ {w} : buf'[v] = buf[v] /\ Made(v)' = Made(v),
         ~raced[w] /\ (copier[st].at \in {"line", "keep", "swap"} => buf[w] = <<>>)
           /\ (copier[st].at = "swap" => copier[st].rest = <<>>)
           /\ wrote[w] = Made(w) \o FlattenSeq(copier[st].scanned) \o buf[w] =>
           /\ c.at \in {"line", "keep", "swap"} => buf'[w] = <<>>
           /\ c.at = "swap" => c.rest = <<>>
           /\ wrote[w] = Made(w)' \o FlattenSeq(c.scanned) \o buf'[w]
  PROVE  Inv'
<1>1. conf' = conf /\ proc' = proc /\ runs' = runs /\ printed' = printed /\ open' = open
      /\ wrote' = wrote /\ raced' = raced
  OBVIOUS
<1>2. /\ copier' \in [Stream -> Copier] /\ CopiersOK'
      /\ \A v \in Writer : Flows(v)'
  BY <1>1, StepFlows
<1>3. FlowTypeOK'
  BY <1>1, <1>2 DEF Inv, FlowInv, FlowTypeOK
<1>4. proc' # "exited"
  BY <1>1 DEF Inv, FlowInv, CopiersOK, Copied
<1>5. ExecutionFlushed'
  BY <1>4 DEF ExecutionFlushed
<1>. QED
  BY <1>2, <1>3, <1>5 DEF Inv, FlowInv

-----------------------------------------------------------------------------
(* The steps of a copier                                                   *)

(* What the invariant says of the copier of a stream and of its writer.    *)
LEMMA CopierTypes ==
  ASSUME Inv, NEW st \in Stream
  PROVE  /\ copier \in [Stream -> Copier] /\ copier[st] \in Copier
         /\ copier[st].scanned \in Seq(Line) /\ copier[st].rest \in Line
         /\ copier[st].scanned # <<>> => copier[st].at = "line"
         /\ WriterOf(st) \in Writer /\ WriterOf(st) \in Used
         /\ buf \in [Writer -> Line] /\ buf[WriterOf(st)] \in Line
         /\ Made(WriterOf(st)) \in Line
<1>1. copier \in [Stream -> Copier] /\ buf \in [Writer -> Line]
  BY DEF Inv, FlowInv, FlowTypeOK
<1>2. copier[st] \in Copier
  BY <1>1
<1>. QED
  BY <1>1, <1>2, WriterOfUsed, MadeType DEF Inv, FlowInv, CopiersOK, Copier

(* The scanner takes the buffer.                                           *)
LEMMA ScanInv ==
  ASSUME Inv, NEW st \in Stream, Scan(st)
  PROVE  Inv'
<1>1. PICK w \in Writer : w = WriterOf(st)
  BY WriterOfUsed
<1>2. PICK c : c = [copier[st] EXCEPT !.at = "line", !.scanned = Tokens(buf[w])]
  OBVIOUS
<1>3. /\ copier[st].at = "scan"
      /\ copier' = [copier EXCEPT ![st] = c]
      /\ buf' = [buf EXCEPT ![w] = <<>>]
      /\ UNCHANGED <<conf, proc, runs, printed, open, lines, old, ring, wrote, entries, logged, raced, clock>>
  BY <1>1, <1>2 DEF Scan
<1>4. /\ copier[st] \in Copier /\ copier[st].scanned = <<>> /\ buf[w] \in Line /\ buf \in [Writer -> Line]
      /\ Made(w) \in Line
  BY <1>1, <1>3, CopierTypes
<1>5. Tokens(buf[w]) \in Seq(Line) /\ FlattenSeq(Tokens(buf[w])) = buf[w]
  BY <1>4, TokensKeep DEF Line
<1>6. c \in Copier /\ c.at = "line" /\ c.scanned = Tokens(buf[w])
  BY <1>2, <1>4, <1>5 DEF Copier
<1>7. <<>> \in Line
  BY DEF Line
<1>8. /\ buf' \in [Writer -> Line] /\ buf'[w] = <<>>
      /\ \A v \in Writer \ {w} : buf'[v] = buf[v]
  BY <1>3, <1>4, <1>7
<1>9. LogInv' /\ \A v \in Writer : Made(v)' = Made(v)
  BY <1>3, LogSame DEF Inv
<1>10. Made(w) \o FlattenSeq(<<>>) \o buf[w] = Made(w) \o FlattenSeq(c.scanned) \o <<>>
  <2>1. Made(w) \o <<>> = Made(w) /\ Made(w) \o buf[w] \in Line
    BY <1>4, ConcatEmptySeq, ConcatProperties DEF Line
  <2>2. (Made(w) \o buf[w]) \o <<>> = Made(w) \o buf[w]
    BY <2>1, ConcatEmptySeq DEF Line
  <2>. QED
    BY <1>5, <1>6, <2>1, <2>2, FlattenEmpty
<1>11. /\ UNCHANGED <<conf, proc, runs, printed, open, wrote, raced>>
       /\ copier[st].at # "idle" /\ c.at # "swap" /\ (c.scanned # <<>> => c.at = "line")
  BY <1>3, <1>6
<1>12. \A v \in Writer \ {w} : buf'[v] = buf[v] /\ Made(v)' = Made(v)
  BY <1>8, <1>9
<1>13. wrote[w] = Made(w) \o FlattenSeq(copier[st].scanned) \o buf[w] =>
           wrote[w] = Made(w)' \o FlattenSeq(c.scanned) \o buf'[w]
  BY <1>4, <1>8, <1>9, <1>10
<1>. QED
  BY <1>1, <1>3, <1>6, <1>8, <1>9, <1>11, <1>13, <1>12, StepInv

(* A scanned line is processed.                                            *)
LEMMA ProcessLineInv ==
  ASSUME Inv, NEW st \in Stream, ProcessLine(st)
  PROVE  Inv'
<1>1. PICK w \in Writer : w = WriterOf(st) /\ w \in Used
  BY WriterOfUsed
<1>2. PICK s : s = copier[st].scanned
  OBVIOUS
<1>3. PICK c : c = [copier[st] EXCEPT !.scanned = SubSeq(s, 2, Len(s))]
  OBVIOUS
<1>4. /\ copier[st].at = "line" /\ s # <<>>
      /\ AddLine(w, Head(s))
      /\ copier' = [copier EXCEPT ![st] = c]
      /\ buf' = buf
      /\ UNCHANGED <<conf, proc, runs, printed, open, wrote, raced>>
  BY <1>1, <1>2, <1>3 DEF ProcessLine
<1>5. /\ copier[st] \in Copier /\ s \in Seq(Line) /\ buf[w] \in Line /\ buf \in [Writer -> Line]
      /\ Made(w) \in Line
  BY <1>1, <1>2, CopierTypes
<1>6. PICK h \in Line, t \in Seq(Line) : h = Head(s) /\ t = SubSeq(s, 2, Len(s)) /\ s = <<h>> \o t
  <2>1. Head(s) \in Line /\ Tail(s) \in Seq(Line) /\ Tail(s) = SubSeq(s, 2, Len(s))
    BY <1>4, <1>5, HeadTailProperties, TailIsSubSeq
  <2>2. s = <<Head(s)>> \o Tail(s)
    BY <1>4, <1>5, <2>1
  <2>. QED
    BY <2>1, <2>2
<1>7. FlattenSeq(s) = h \o FlattenSeq(t) /\ FlattenSeq(t) \in Line
  <2>1. <<h>> \in Seq(Line)
    OBVIOUS
  <2>2. FlattenSeq(<<h>>) = h /\ FlattenSeq(<<h>> \o t) = FlattenSeq(<<h>>) \o FlattenSeq(t)
    BY <2>1, FlattenOne, FlattenConcat DEF Line
  <2>. QED
    BY <1>6, <2>2, FlattenType DEF Line
<1>8. c \in Copier /\ c.at = "line" /\ c.scanned = t
  BY <1>3, <1>4, <1>5, <1>6 DEF Copier
<1>9. /\ LogInv' /\ Made(w)' = Made(w) \o h
      /\ \A v \in Writer \ {w} : Made(v)' = Made(v)
  BY <1>1, <1>4, <1>6, AddLineRight DEF Inv
<1>10. Made(w) \o FlattenSeq(s) = Made(w)' \o FlattenSeq(t)
  <2>1. (Made(w) \o h) \o FlattenSeq(t) = Made(w) \o (h \o FlattenSeq(t))
    <3>1. Made(w) \in Line /\ h \in Line /\ FlattenSeq(t) \in Line
      BY <1>5, <1>6, <1>7
    <3>2. \A x, y, z \in Line : (x \o y) \o z = x \o (y \o z)
      BY LineAssociates
    <3>. QED
      BY <3>1, <3>2
  <2>. QED
    BY <1>7, <1>9, <2>1
<1>11. \A v \in Writer \ {w} : buf'[v] = buf[v] /\ Made(v)' = Made(v)
  BY <1>4, <1>9
<1>12. /\ copier[st].at # "idle" /\ c.at # "swap" /\ buf' \in [Writer -> Line]
       /\ (copier[st].at \in {"line", "keep", "swap"} => buf[w] = <<>>) => buf'[w] = <<>>
  BY <1>4, <1>5, <1>8
<1>13. wrote[w] = Made(w) \o FlattenSeq(copier[st].scanned) \o buf[w] =>
           wrote[w] = Made(w)' \o FlattenSeq(c.scanned) \o buf'[w]
  BY <1>2, <1>4, <1>8, <1>10
<1>. QED
  BY <1>1, <1>4, <1>8, <1>9, <1>11, <1>12, <1>13, StepInv

(* After the last one, lines that are too old become an entry.             *)
LEMMA CheckTimeoutInv ==
  ASSUME Inv, NEW st \in Stream, CheckTimeout(st)
  PROVE  Inv'
<1>1. PICK w \in Writer : w = WriterOf(st) /\ w \in Used
  BY WriterOfUsed
<1>2. PICK c : c = [copier[st] EXCEPT !.at = "keep"]
  OBVIOUS
<1>3. /\ copier[st].at = "line" /\ copier[st].scanned = <<>>
      /\ IF conf.multiline /\ lines[w] # <<>> /\ old[w]
         THEN FlushLines(w)
         ELSE UNCHANGED <<lines, old, entries, ring, logged, clock>>
      /\ copier' = [copier EXCEPT ![st] = c]
      /\ buf' = buf
      /\ UNCHANGED <<conf, proc, runs, printed, open, wrote, raced>>
  BY <1>1, <1>2 DEF CheckTimeout
<1>4. copier[st] \in Copier /\ buf \in [Writer -> Line]
  BY <1>1, CopierTypes
<1>5. c \in Copier /\ c.at = "keep" /\ c.scanned = <<>>
  BY <1>2, <1>3, <1>4 DEF Copier
<1>6. LogInv' /\ \A v \in Writer : Made(v)' = Made(v)
  <2>1. CASE FlushLines(w)
    BY <1>1, <1>3, <2>1, FlushRight DEF Inv
  <2>2. CASE UNCHANGED <<lines, old, entries, ring, logged, clock>>
    BY <1>3, <2>2, LogSame DEF Inv
  <2>. QED
    BY <1>3, <2>1, <2>2
<1>7. \A v \in Writer \ {w} : buf'[v] = buf[v] /\ Made(v)' = Made(v)
  BY <1>3, <1>6
<1>8. /\ copier[st].at # "idle" /\ c.at # "swap" /\ buf' \in [Writer -> Line]
      /\ (copier[st].at \in {"line", "keep", "swap"} => buf[w] = <<>>) => buf'[w] = <<>>
  BY <1>3, <1>4, <1>5
<1>9. wrote[w] = Made(w) \o FlattenSeq(copier[st].scanned) \o buf[w] =>
           wrote[w] = Made(w)' \o FlattenSeq(c.scanned) \o buf'[w]
  BY <1>3, <1>5, <1>6
<1>. QED
  BY <1>1, <1>3, <1>5, <1>6, <1>7, <1>8, <1>9, StepInv

(* What is in the buffer is taken out ...                                  *)
LEMMA KeepInv ==
  ASSUME Inv, NEW st \in Stream, Keep(st)
  PROVE  Inv'
<1>1. PICK w \in Writer : w = WriterOf(st) /\ w \in Used
  BY WriterOfUsed
<1>2. PICK c : c = [copier[st] EXCEPT !.at = "swap", !.rest = buf[w]]
  OBVIOUS
<1>3. /\ copier[st].at = "keep"
      /\ copier' = [copier EXCEPT ![st] = c]
      /\ buf' = buf
      /\ UNCHANGED <<conf, proc, runs, printed, open, lines, old, ring, wrote, entries, logged, raced, clock>>
  BY <1>1, <1>2 DEF Keep
<1>4. copier[st] \in Copier /\ buf[w] \in Line /\ buf \in [Writer -> Line] /\ copier[st].scanned = <<>>
  BY <1>1, <1>3, CopierTypes
<1>5. c \in Copier /\ c.at = "swap" /\ c.scanned = <<>> /\ c.rest = buf[w]
  BY <1>2, <1>4 DEF Copier
<1>6. LogInv' /\ \A v \in Writer : Made(v)' = Made(v)
  BY <1>3, LogSame DEF Inv
<1>7. \A v \in Writer \ {w} : buf'[v] = buf[v] /\ Made(v)' = Made(v)
  BY <1>3, <1>6
<1>8. /\ copier[st].at # "idle" /\ buf' \in [Writer -> Line]
      /\ (copier[st].at \in {"line", "keep", "swap"} => buf[w] = <<>>) => buf'[w] = <<>> /\ c.rest = <<>>
      /\ UNCHANGED <<conf, proc, runs, printed, open, wrote, raced>>
  BY <1>3, <1>4, <1>5
<1>9. wrote[w] = Made(w) \o FlattenSeq(copier[st].scanned) \o buf[w] =>
           wrote[w] = Made(w)' \o FlattenSeq(c.scanned) \o buf'[w]
  BY <1>3, <1>4, <1>5, <1>6
<1>. QED
  BY <1>1, <1>3, <1>5, <1>6, <1>7, <1>8, <1>9, StepInv

(* ... and put back: nothing has come in between if no two calls overlap.  *)
LEMMA SwapInv ==
  ASSUME Inv, NEW st \in Stream, Swap(st)
  PROVE  Inv'
<1>1. PICK w \in Writer : w = WriterOf(st) /\ w \in Used
  BY WriterOfUsed
<1>2. PICK c : c = Idle
  OBVIOUS
<1>3. /\ copier[st].at = "swap"
      /\ copier' = [copier EXCEPT ![st] = c]
      /\ buf' = [buf EXCEPT ![w] = copier[st].rest]
      /\ UNCHANGED <<conf, proc, runs, printed, open, lines, old, ring, wrote, entries, logged, raced, clock>>
  BY <1>1, <1>2 DEF Swap
<1>4. /\ copier[st] \in Copier /\ copier[st].rest \in Line /\ buf \in [Writer -> Line]
      /\ copier[st].scanned = <<>>
  BY <1>1, <1>3, CopierTypes
<1>5. c \in Copier /\ c.at = "idle" /\ c.scanned = <<>>
  BY <1>2 DEF Copier, Idle, Line
<1>6. LogInv' /\ \A v \in Writer : Made(v)' = Made(v)
  BY <1>3, LogSame DEF Inv
<1>7. /\ buf' \in [Writer -> Line] /\ buf'[w] = copier[st].rest
      /\ \A v \in Writer \ {w} : buf'[v] = buf[v]
  BY <1>3, <1>4
<1>8. \A v \in Writer \ {w} : buf'[v] = buf[v] /\ Made(v)' = Made(v)
  BY <1>6, <1>7
<1>9. copier[st].at # "idle" /\ UNCHANGED <<conf, proc, runs, printed, open, wrote, raced>>
      /\ copier[st].at \in {"line", "keep", "swap"} /\ c.at \notin {"line", "keep", "swap"}
  BY <1>3, <1>5
<1>10. buf[w] = <<>> /\ copier[st].rest = <<>>
         /\ wrote[w] = Made(w) \o FlattenSeq(copier[st].scanned) \o buf[w] =>
           wrote[w] = Made(w)' \o FlattenSeq(c.scanned) \o buf'[w]
  BY <1>4, <1>5, <1>6, <1>7
<1>. QED
  BY <1>1, <1>3, <1>5, <1>6, <1>7, <1>8, <1>9, <1>10, StepInv

-----------------------------------------------------------------------------
(* The other steps                                                         *)

(* What the process prints is a piece.                                     *)
LEMMA PieceType ==
  ASSUME conf \in Scenario, NEW k \in conf.kinds, NEW n \in Nat, NEW f \in BOOLEAN, NEW b \in BOOLEAN
  PROVE  Piece(k, n, f, b) \in Pieces
<1>1. k \in Kinds
  BY LogAssumption
<1>. QED
  BY <1>1 DEF Piece, Pieces, Kinds

(* And what is left of the line begun before is one.                       *)
LEMMA RestType ==
  ASSUME conf \in Scenario, FlowTypeOK, NEW st \in Stream, NEW rest, rest \in Rests(st)
  PROVE  rest \in Line
<1>1. CASE open[st] = Closed
  <2>1. rest = <<>>
    BY <1>1 DEF Rests
  <2>. QED
    BY <2>1 DEF Line
<1>2. CASE open[st] # Closed
  <2>1. open[st] \in conf.kinds /\ printed \in Nat
    BY <1>2, LogAssumption DEF FlowTypeOK
  <2>2. PICK x \in Pieces : x = Piece(open[st], printed, FALSE, TRUE)
    BY <2>1, PieceType, Zenon
  <2>3. PICK y \in Pieces : y = Newline(printed)
    <3>1. Newline(printed) \in Pieces
      BY <2>1 DEF Newline, Pieces
    <3>. QED
      BY <3>1, Zenon
  <2>4. <<x>> \in Line /\ <<y>> \in Line
    BY DEF Line
  <2>5. rest = <<x>> \/ rest = <<y>>
    BY <1>2, <2>2, <2>3, Zenon DEF Rests
  <2>. QED
    BY <2>4, <2>5
<1>. QED
  BY <1>1, <1>2

(* So is all that a call of Write may be given.                            *)
LEMMA ChunkType ==
  ASSUME conf \in Scenario, FlowTypeOK, NEW rest \in Line, NEW c, c \in Chunks(rest)
  PROVE  c.pieces \in Line /\ c.open \in conf.kinds \cup {Closed} /\ printed + c.new \in 0..conf.max
<1>. DEFINE Begun == IF printed < conf.max THEN conf.kinds ELSE {}
            WithLine(k, ends) == [pieces |-> Append(rest, Piece(k, printed + 1, TRUE, ends)),
                                  open |-> IF ends THEN Closed ELSE k, new |-> 1]
            Only == [pieces |-> rest, open |-> Closed, new |-> 0]
<1>1. c \in (IF rest = <<>> THEN {} ELSE {Only}) \cup {WithLine(k, TRUE) : k \in Begun}
           \cup {WithLine(k, FALSE) : k \in {l \in Begun : conf.halves /\ ~l.blank}}
  BY Zenon DEF Chunks
<1>2. /\ printed \in Nat /\ conf.max \in Nat /\ printed <= conf.max /\ printed + 1 \in Nat
  BY LogAssumption DEF FlowTypeOK
<1>3. CASE c = Only
  <2>1. c.pieces = rest /\ c.open = Closed /\ c.new = 0
    BY <1>3
  <2>. QED
    BY <1>2, <2>1
<1>4. ASSUME NEW k \in Begun, NEW b \in BOOLEAN, c = WithLine(k, b)
      PROVE  c.pieces \in Line /\ c.open \in conf.kinds \cup {Closed} /\ printed + c.new \in 0..conf.max
  <2>1. k \in conf.kinds /\ printed < conf.max
    OBVIOUS
  <2>2. PICK x \in Pieces : x = Piece(k, printed + 1, TRUE, b)
    BY <1>2, <2>1, PieceType, Zenon
  <2>3. c = [pieces |-> Append(rest, x), open |-> IF b THEN Closed ELSE k, new |-> 1]
    BY <1>4, <2>2, Zenon
  <2>4. Append(rest, x) \in Line
    BY AppendProperties DEF Line
  <2>5. c.pieces \in Line /\ c.new = 1 /\ (c.open = Closed \/ c.open = k)
    BY <2>3, <2>4
  <2>6. printed + 1 \in 0..conf.max
    BY <1>2, <2>1
  <2>. QED
    BY <2>1, <2>5, <2>6
<1>. HIDE DEF WithLine, Only, Begun
<1>. QED
  BY <1>1, <1>3, <1>4, Zenon

(* Write appends to the buffer; the copier was idle, and no other is at    *)
(* work for this writer or the two now overlap.                            *)
LEMMA WriteInv ==
  ASSUME Inv, NEW st \in Stream, Write(st)
  PROVE  Inv'
<1>1. PICK w \in Writer : w = WriterOf(st) /\ w \in Used
  BY WriterOfUsed
<1>2. PICK rest \in Rests(st), c \in UNION {Chunks(r) : r \in Rests(st)} :
         /\ c \in Chunks(rest)
         /\ buf' = [buf EXCEPT ![w] = @ \o c.pieces]
         /\ wrote' = [wrote EXCEPT ![w] = @ \o c.pieces]
         /\ open' = [open EXCEPT ![st] = c.open]
         /\ printed' = printed + c.new
         /\ raced' = [raced EXCEPT ![w] = @ \/ \E o \in Stream : WriterOf(o) = w /\ copier[o].at # "idle"]
  BY <1>1 DEF Write
<1>3. /\ proc = "running" /\ copier[st].at = "idle"
      /\ copier' = [copier EXCEPT ![st].at = "scan"]
      /\ UNCHANGED <<conf, proc, runs, lines, old, ring, entries, logged, clock>>
  BY DEF Write
<1>4. /\ copier \in [Stream -> Copier] /\ copier[st] \in Copier
      /\ copier[st].scanned = <<>> /\ buf \in [Writer -> Line] /\ buf[w] \in Line
      /\ Made(w) \in Line
  BY <1>1, <1>3, CopierTypes
<1>5. /\ conf \in Scenario /\ FlowTypeOK /\ wrote \in [Writer -> Line] /\ wrote[w] \in Line
      /\ raced \in [Writer -> BOOLEAN] /\ open \in [Stream -> conf.kinds \cup {Closed}]
      /\ \A v \in Writer : Flows(v)
  BY DEF Inv, FlowInv, FlowTypeOK, LogInv, StoreInv, StoreTypeOK
<1>6. PICK p \in Line : p = c.pieces
  BY <1>2, <1>5, ChunkType, RestType
<1>7. c.open \in conf.kinds \cup {Closed} /\ printed + c.new \in 0..conf.max
  BY <1>2, <1>5, ChunkType, RestType
<1>8. PICK d : d = [copier[st] EXCEPT !.at = "scan"]
  OBVIOUS
<1>9. d \in Copier /\ d.at = "scan" /\ d.scanned = <<>> /\ copier' = [copier EXCEPT ![st] = d]
  BY <1>3, <1>4, <1>8 DEF Copier
<1>10. /\ copier' \in [Stream -> Copier] /\ copier'[st] = d
       /\ \A s \in Stream \ {st} : copier'[s] = copier[s]
  BY <1>4, <1>9
<1>11. buf[w] \o p \in Line /\ wrote[w] \o p \in Line
  BY <1>4, <1>5, ConcatProperties DEF Line
<1>12. /\ buf' \in [Writer -> Line] /\ wrote' \in [Writer -> Line] /\ raced' \in [Writer -> BOOLEAN]
       /\ buf'[w] = buf[w] \o p /\ wrote'[w] = wrote[w] \o p
       /\ raced'[w] <=> raced[w] \/ \E o \in Stream : WriterOf(o) = w /\ copier[o].at # "idle"
       /\ \A v \in Writer \ {w} : buf'[v] = buf[v] /\ wrote'[v] = wrote[v] /\ raced'[v] = raced[v]
  BY <1>2, <1>4, <1>5, <1>6, <1>11
<1>13. LogInv' /\ \A v \in Writer : Made(v)' = Made(v)
  BY <1>3, LogSame DEF Inv
<1>14. FlowTypeOK'
  BY <1>2, <1>3, <1>5, <1>7, <1>10, <1>12 DEF FlowTypeOK
<1>15. CopiersOK' /\ ExecutionFlushed'
  BY <1>3, <1>9, <1>10 DEF Inv, FlowInv, CopiersOK, ExecutionFlushed
<1>16. \A s : WriterOf(s)' = WriterOf(s)
  BY <1>3 DEF WriterOf
<1>17. ASSUME NEW v \in Writer \ {w} PROVE Flows(v)'
  BY <1>1, <1>3, <1>5, <1>10, <1>12, <1>13, OthersFlow
<1>18. Flows(w)'
  <2>1. SUFFICES ASSUME ~raced'[w]
        PROVE /\ \A s, t \in Stream : WriterOf(s)' = w /\ WriterOf(t)' = w
                                /\ copier'[s].at # "idle" /\ copier'[t].at # "idle" => s = t
              /\ \A s \in Stream : WriterOf(s)' = w =>
                   /\ copier'[s].at \in {"line", "keep", "swap"} => buf'[w] = <<>>
                   /\ copier'[s].at = "swap" => copier'[s].rest = <<>>
              /\ wrote'[w] = Made(w)' \o Pending(w)' \o buf'[w]
    BY DEF Flows
  <2>2. ~raced[w] /\ \A o \in Stream : WriterOf(o) = w => copier[o].at = "idle"
    BY <1>12, <2>1
  <2>3. \A s \in Stream : WriterOf(s) = w => copier[s].scanned = <<>> /\ copier'[s].scanned = <<>>
    BY <1>9, <1>10, <2>2 DEF Inv, FlowInv, CopiersOK
  <2>4. Busy(w) = {} /\ Busy(w)' = {}
    BY <1>16, <2>3 DEF Busy
  <2>5. Pending(w) = <<>> /\ Pending(w)' = <<>>
    BY <2>4 DEF Pending
  <2>6. wrote[w] = Made(w) \o Pending(w) \o buf[w]
    BY <1>5, <2>2 DEF Flows
  <2>7. wrote[w] \o p = Made(w) \o <<>> \o (buf[w] \o p)
    <3>1. Made(w) \o <<>> = Made(w)
      BY <1>4, ConcatEmptySeq DEF Line
    <3>2. (Made(w) \o buf[w]) \o p = Made(w) \o (buf[w] \o p)
      BY <1>4, LineAssociates
    <3>. QED
      BY <2>5, <2>6, <3>1, <3>2
  <2>8. wrote'[w] = Made(w)' \o Pending(w)' \o buf'[w]
    BY <1>12, <1>13, <2>5, <2>7
  <2>9. \A s \in Stream : WriterOf(s)' = w => copier'[s].at \in {"idle", "scan"}
                                              /\ (s # st => copier'[s].at = "idle")
    BY <1>9, <1>10, <1>16, <2>2
  <2>. QED
    BY <2>8, <2>9
<1>. QED
  BY <1>13, <1>14, <1>15, <1>17, <1>18 DEF Inv, FlowInv

(* The multiline timeout passes.                                           *)
LEMMA AgeInv ==
  ASSUME Inv, NEW w \in Writer, Age(w)
  PROVE  Inv'
<1>1. /\ old' = [old EXCEPT ![w] = TRUE] /\ lines[w] # <<>>
      /\ UNCHANGED <<conf, proc, runs, printed, open, buf, lines, ring, copier, wrote, entries,
                     logged, raced, clock>>
  BY DEF Age
<1>2. StoreInv'
  BY <1>1, StoreSkips DEF Inv, LogInv
<1>3. JoinTypeOK' /\ LinesJoin'
  BY <1>1 DEF Inv, LogInv, JoinTypeOK, LinesJoin, Headed
<1>4. EntriesRight'
  BY <1>1 DEF Inv, LogInv, EntriesRight, StartsBegin, ErrorsKept
<1>5. FlowTypeOK' /\ CopiersOK' /\ ExecutionFlushed'
  BY <1>1 DEF Inv, FlowInv, FlowTypeOK, CopiersOK, Copied, ExecutionFlushed
<1>6. ASSUME NEW v \in Writer PROVE Flows(v)'
  <2>1. Made(v)' = Made(v)
    BY <1>1 DEF Made
  <2>. QED
    BY <1>1, <2>1, OthersFlow DEF Inv, FlowInv
<1>. QED
  BY <1>2, <1>3, <1>4, <1>5, <1>6 DEF Inv, LogInv, FlowInv

(* The process ends, or Wait returns.                                      *)
LEMMA EndInv ==
  ASSUME Inv, End \/ WaitReturns
  PROVE  Inv'
<1>1. /\ UNCHANGED <<conf, runs, printed, open, buf, lines, old, ring, copier, wrote, entries,
                     logged, raced, clock>>
      /\ proc' = "ending" \/ (proc' = "exited" /\ Copied /\ ~conf.scheduled)
  BY DEF End, WaitReturns
<1>2. LogInv' /\ \A v \in Writer : Made(v)' = Made(v)
  BY <1>1, LogSame DEF Inv
<1>3. FlowTypeOK' /\ CopiersOK' /\ ExecutionFlushed'
  BY <1>1 DEF Inv, FlowInv, FlowTypeOK, CopiersOK, Copied, ExecutionFlushed
<1>4. \A v \in Writer : Flows(v)'
  BY <1>1, <1>2, OthersFlow DEF Inv, FlowInv
<1>. QED
  BY <1>2, <1>3, <1>4 DEF Inv, FlowInv

(* While nothing is copied, nothing is pending.                            *)
LEMMA NothingPending ==
  ASSUME Copied, \A st \in Stream : copier[st].scanned # <<>> => copier[st].at = "line", NEW w
  PROVE  Pending(w) = <<>> /\ Busy(w) = {}
<1>1. \A st \in Stream : copier[st].scanned = <<>>
  BY DEF Copied
<1>2. Busy(w) = {}
  BY <1>1 DEF Busy
<1>. QED
  BY <1>2 DEF Pending

(* Execute flushes the line begun, then the entry, then adds an event:     *)
(* what was in the buffer is made, and nothing is left.                    *)
LEMMA RunReturnsInv ==
  ASSUME Inv, RunReturns
  PROVE  Inv'
<1>. DEFINE w == "combined"
<1>1. /\ proc = "ending" /\ Copied /\ conf.scheduled /\ w \in Used /\ w \in Writer
      /\ UNCHANGED <<conf, runs, printed, open, copier, wrote, raced>>
  BY DEF RunReturns, Used, Writer
<1>2. /\ buf \in [Writer -> Line] /\ buf[w] \in Line /\ Made(w) \in Line
      /\ FlowTypeOK /\ CopiersOK /\ \A v \in Writer : Flows(v)
  BY <1>1, MadeType DEF Inv, FlowInv, FlowTypeOK
<1>3. Pending(w) = <<>> /\ Busy(w) = {}
  BY <1>1, <1>2, NothingPending DEF CopiersOK
<1>4. \/ buf[w] = <<>> /\ lines[w] = <<>> /\ proc' = "exited" /\ AddEvent(w)
         /\ buf' = buf /\ lines' = lines /\ old' = old /\ entries' = entries
      \/ buf[w] # <<>> /\ AddLine(w, buf[w]) /\ buf' = [buf EXCEPT ![w] = <<>>] /\ proc' = proc
      \/ buf[w] = <<>> /\ lines[w] # <<>> /\ FlushLines(w) /\ buf' = buf /\ proc' = proc
  BY DEF RunReturns
<1>5. /\ LogInv' /\ buf' \in [Writer -> Line] /\ buf'[w] = <<>>
      /\ \A v \in Writer \ {w} : buf'[v] = buf[v] /\ Made(v)' = Made(v)
      /\ Made(w)' = Made(w) \o buf[w]
      /\ proc' = "ending" \/ (proc' = "exited" /\ lines'[w] = <<>>)
  <2>1. <<>> \in Line /\ Made(w) \o <<>> = Made(w)
    BY <1>2, ConcatEmptySeq DEF Line
  <2>2. CASE buf[w] = <<>> /\ lines[w] = <<>> /\ proc' = "exited" /\ AddEvent(w)
             /\ buf' = buf /\ lines' = lines /\ old' = old /\ entries' = entries
    <3>1. LogInv' /\ \A v \in Writer : Made(v)' = Made(v)
      BY <1>1, <2>2, AddEventRight DEF Inv
    <3>. QED
      BY <1>1, <1>2, <2>1, <2>2, <3>1
  <2>3. CASE buf[w] # <<>> /\ AddLine(w, buf[w]) /\ buf' = [buf EXCEPT ![w] = <<>>] /\ proc' = proc
    <3>1. /\ LogInv' /\ Made(w)' = Made(w) \o buf[w]
          /\ \A v \in Writer \ {w} : Made(v)' = Made(v)
      BY <1>1, <1>2, <2>3, AddLineRight DEF Inv
    <3>. QED
      BY <1>1, <1>2, <2>1, <2>3, <3>1
  <2>4. CASE buf[w] = <<>> /\ lines[w] # <<>> /\ FlushLines(w) /\ buf' = buf /\ proc' = proc
    <3>1. LogInv' /\ \A v \in Writer : Made(v)' = Made(v)
      BY <1>1, <2>4, FlushRight DEF Inv
    <3>. QED
      BY <1>1, <1>2, <2>1, <2>4, <3>1
  <2>. QED
    BY <1>4, <2>2, <2>3, <2>4
<1>. HIDE DEF w
<1>6. FlowTypeOK' /\ CopiersOK'
  BY <1>1, <1>2, <1>5 DEF FlowTypeOK, CopiersOK, Copied
<1>7. ExecutionFlushed'
  BY <1>1, <1>5 DEF ExecutionFlushed, w
<1>8. ASSUME NEW v \in Writer \ {w} PROVE Flows(v)'
  BY <1>1, <1>2, <1>5, OthersFlow
<1>9. Flows(w)'
  <2>1. Pending(w)' = <<>>
    BY <1>1, <1>3 DEF Pending, Busy, WriterOf
  <2>2. SUFFICES ASSUME ~raced[w]
        PROVE /\ \A s, t \in Stream : WriterOf(s)' = w /\ WriterOf(t)' = w
                                /\ copier'[s].at # "idle" /\ copier'[t].at # "idle" => s = t
              /\ \A s \in Stream : WriterOf(s)' = w =>
                   /\ copier'[s].at \in {"line", "keep", "swap"} => buf'[w] = <<>>
                   /\ copier'[s].at = "swap" => copier'[s].rest = <<>>
              /\ wrote'[w] = Made(w)' \o Pending(w)' \o buf'[w]
    BY <1>1 DEF Flows
  <2>3. wrote[w] = Made(w) \o <<>> \o buf[w]
    BY <1>1, <1>2, <1>3, <2>2 DEF Flows
  <2>4. Made(w) \o <<>> = Made(w) /\ Made(w) \o buf[w] \in Line
    BY <1>2, ConcatEmptySeq, ConcatProperties DEF Line
  <2>5. ((Made(w) \o buf[w]) \o <<>>) \o <<>> = Made(w) \o buf[w]
    BY <2>4, ConcatEmptySeq DEF Line
  <2>6. wrote'[w] = Made(w)' \o Pending(w)' \o buf'[w]
    BY <1>1, <1>5, <2>1, <2>3, <2>4, <2>5
  <2>7. \A s \in Stream : copier'[s].at = "idle"
    BY <1>1 DEF Copied
  <2>. QED
    BY <2>6, <2>7
<1>. QED
  BY <1>5, <1>6, <1>7, <1>8, <1>9 DEF Inv, FlowInv

(* New writers are empty.                                                  *)
Fresh == /\ conf \in Scenario /\ clock \in Nat
         /\ lines = [w \in Writer |-> <<>>] /\ old = [w \in Writer |-> FALSE]
         /\ ring = [w \in Writer |-> NewRing]
         /\ entries = [w \in Writer |-> <<>>] /\ logged = [w \in Writer |-> <<>>]

NothingMade == \A w \in Writer : Made(w) = <<>>

(* New writers have a log that is right, of which nothing is made.         *)
LEMMA NewWriters == Fresh => LogInv /\ NothingMade
<1>. SUFFICES ASSUME Fresh PROVE LogInv /\ NothingMade
  OBVIOUS
<1>. USE DEF Fresh
<1>1. conf.size \in Nat \ {0} /\ conf.maxLines \in Nat \ {0} /\ conf.multiline \in BOOLEAN
  BY LogAssumption
<1>2. NewRing \in Ring /\ RingHolds(NewRing, <<>>)
  <2>1. Len(<<>>) = 0
    OBVIOUS
  <2>2. /\ NewRing.slots = [i \in 0..(conf.size - 1) |-> NoEntry] /\ NewRing.index = 0 /\ NewRing.full = FALSE
        /\ NewRing = [slots |-> NewRing.slots, index |-> NewRing.index, full |-> NewRing.full]
    BY DEF NewRing
  <2>3. 0 \in 0..(conf.size - 1)
    BY <1>1
  <2>. HIDE DEF NewRing
  <2>4. NewRing \in Ring
    BY <2>2, <2>3 DEF Ring
  <2>5. RingHolds(NewRing, <<>>)
    BY <1>1, <2>1, <2>2 DEF RingHolds
  <2>. QED
    BY <2>4, <2>5
<1>3. <<>> \in Seq(Line) /\ <<>> \in Seq(Seq(Line)) /\ <<>> \in Seq(Entry) /\ Len(<<>>) = 0 /\ ToSet(<<>>) = {}
  BY DEF ToSet
<1>4. StoreInv
  BY <1>2, <1>3 DEF StoreInv, StoreTypeOK, StampedInOrder
<1>5. JoinTypeOK /\ LinesJoin
  BY <1>1, <1>3 DEF JoinTypeOK, LinesJoin, Headed
<1>6. EntriesRight
  BY <1>3 DEF EntriesRight, StartsBegin, ErrorsKept
<1>7. \A w \in Writer : Made(w) = <<>>
  BY FlattenEmpty, ConcatEmptySeq DEF Made
<1>. QED
  BY <1>4, <1>5, <1>6, <1>7 DEF LogInv, NothingMade

(* A writer that was given nothing and made nothing has lost nothing.      *)
LEMMA NewWritersFlow ==
  ASSUME NEW w \in Writer, Made(w) = <<>>, buf[w] = <<>>, wrote[w] = <<>>, Copied,
         \A st \in Stream : copier[st].scanned # <<>> => copier[st].at = "line"
  PROVE  Flows(w)
<1>1. Pending(w) = <<>>
  BY NothingPending
<1>2. <<>> \o <<>> \o <<>> = <<>>
  OBVIOUS
<1>. QED
  BY <1>1, <1>2 DEF Flows, Copied

(* The process is started again, with new writers or the ones it had.      *)
LEMMA StartAgainInv ==
  ASSUME Inv, StartAgain
  PROVE  Inv'
<1>1. /\ proc = "exited" /\ runs < conf.runs /\ runs' = runs + 1 /\ proc' = "running"
      /\ open' = [st \in Stream |-> Closed]
      /\ UNCHANGED <<conf, printed, copier>>
  BY DEF StartAgain
<1>2. Copied /\ CopiersOK /\ FlowTypeOK /\ ExecutionFlushed /\ conf \in Scenario /\ clock \in Nat
      /\ \A v \in Writer : Flows(v)
  BY <1>1 DEF Inv, FlowInv, CopiersOK, LogInv, StoreInv, StoreTypeOK
<1>3. /\ runs' \in 1..conf.runs /\ open' \in [Stream -> conf.kinds \cup {Closed}] /\ conf.runs \in Nat
  BY <1>1, <1>2, LogAssumption DEF FlowTypeOK
<1>4. CASE /\ conf.scheduled
           /\ AddEvent("combined")
           /\ UNCHANGED <<buf, lines, old, wrote, entries, raced>>
  <2>1. LogInv' /\ \A v \in Writer : Made(v)' = Made(v)
    BY <1>1, <1>4, AddEventRight DEF Inv, Used
  <2>2. FlowTypeOK' /\ CopiersOK' /\ ExecutionFlushed'
    BY <1>1, <1>2, <1>3, <1>4 DEF FlowTypeOK, CopiersOK, ExecutionFlushed
  <2>3. \A v \in Writer : Flows(v)'
    BY <1>1, <1>2, <1>4, <2>1, OthersFlow
  <2>. QED
    BY <2>1, <2>2, <2>3 DEF Inv, FlowInv
<1>5. CASE /\ ~conf.scheduled
           /\ buf' = [w \in Writer |-> <<>>]
           /\ lines' = [w \in Writer |-> <<>>]
           /\ old' = [w \in Writer |-> FALSE]
           /\ ring' = [w \in Writer |-> NewRing]
           /\ wrote' = [w \in Writer |-> <<>>]
           /\ entries' = [w \in Writer |-> <<>>]
           /\ logged' = [w \in Writer |-> <<>>]
           /\ raced' = [w \in Writer |-> FALSE]
           /\ UNCHANGED clock
  <2>1. NewRing' = NewRing
    BY <1>1 DEF NewRing
  <2>2. LogInv' /\ \A w \in Writer : Made(w)' = <<>>
    <3>1. /\ conf' \in Scenario /\ clock' \in Nat
          /\ lines' = [w \in Writer |-> <<>>] /\ old' = [w \in Writer |-> FALSE]
          /\ ring' = [w \in Writer |-> NewRing'] /\ entries' = [w \in Writer |-> <<>>]
          /\ logged' = [w \in Writer |-> <<>>]
      BY <1>1, <1>2, <1>5, <2>1
    <3>2. Fresh'
      BY <3>1 DEF Fresh
    <3>3. LogInv' /\ NothingMade'
      BY <3>2, NewWriters, PTL
    <3>. QED
      BY <3>3 DEF NothingMade
  <2>3. FlowTypeOK' /\ CopiersOK' /\ ExecutionFlushed' /\ Copied'
    <3>1. <<>> \in Line
      BY DEF Line
    <3>. QED
      BY <1>1, <1>2, <1>3, <1>5, <3>1 DEF FlowTypeOK, CopiersOK, ExecutionFlushed, Copied
  <2>4. ASSUME NEW w \in Writer PROVE Flows(w)'
    <3>1. Busy(w)' = {}
      BY <1>1, <1>2 DEF Busy, Copied, CopiersOK
    <3>2. Pending(w)' = <<>> /\ buf'[w] = <<>> /\ wrote'[w] = <<>> /\ Made(w)' = <<>>
      BY <1>5, <2>2, <3>1 DEF Pending
    <3>3. <<>> \o <<>> \o <<>> = <<>>
      OBVIOUS
    <3>. QED
      BY <2>3, <3>2, <3>3 DEF Flows, Copied
  <2>. QED
    BY <2>2, <2>3, <2>4 DEF Inv, FlowInv
<1>. QED
  BY <1>4, <1>5 DEF StartAgain

(* The invariant holds in the beginning.                                   *)
LEMMA InitInv == Init => Inv
<1>. SUFFICES ASSUME Init PROVE Inv
  OBVIOUS
<1>1. conf \in Scenario /\ clock \in Nat
  BY DEF Init
<1>2. LogInv /\ \A w \in Writer : Made(w) = <<>>
  BY <1>1, NewWriters DEF Init, Fresh, NothingMade
<1>3. conf.runs \in Nat \ {0} /\ conf.max \in Nat
  BY <1>1, LogAssumption
<1>4. <<>> \in Line /\ Idle \in Copier /\ Idle.at = "idle" /\ Idle.scanned = <<>>
  BY DEF Line, Idle, Copier
<1>5. FlowTypeOK
  BY <1>3, <1>4 DEF Init, FlowTypeOK
<1>6. CopiersOK /\ Copied /\ ExecutionFlushed
  BY <1>4 DEF Init, CopiersOK, Copied, ExecutionFlushed
<1>7. ASSUME NEW w \in Writer PROVE Flows(w)
  <2>1. buf[w] = <<>> /\ wrote[w] = <<>>
    BY DEF Init
  <2>. QED
    BY <1>2, <1>6, <2>1, NewWritersFlow DEF CopiersOK
<1>. QED
  BY <1>2, <1>5, <1>6, <1>7 DEF Inv, FlowInv

-----------------------------------------------------------------------------
(* The invariant holds                                                     *)

(* Every step preserves it.                                                *)
LEMMA NextInv == Inv /\ [Next]_vars => Inv'
<1>. SUFFICES ASSUME Inv, [Next]_vars PROVE Inv'
  OBVIOUS
<1>1. ASSUME NEW st \in Stream, Write(st) PROVE Inv'
  BY <1>1, WriteInv
<1>2. ASSUME NEW st \in Stream, Copy(st) PROVE Inv'
  BY <1>2, ScanInv, ProcessLineInv, CheckTimeoutInv, KeepInv, SwapInv DEF Copy
<1>3. ASSUME NEW w \in Writer, Age(w) PROVE Inv'
  BY <1>3, AgeInv
<1>4. CASE End \/ WaitReturns
  BY <1>4, EndInv
<1>5. CASE RunReturns
  BY <1>5, RunReturnsInv
<1>6. CASE StartAgain
  BY <1>6, StartAgainInv
<1>7. CASE UNCHANGED vars
  <2>1. LogInv' /\ \A v \in Writer : Made(v)' = Made(v)
    BY <1>7, LogSame DEF vars, Inv
  <2>2. FlowTypeOK' /\ CopiersOK' /\ ExecutionFlushed'
    BY <1>7 DEF vars, Inv, FlowInv, FlowTypeOK, CopiersOK, Copied, ExecutionFlushed
  <2>3. \A v \in Writer : Flows(v)'
    BY <1>7, <2>1, OthersFlow DEF vars, Inv, FlowInv
  <2>. QED
    BY <2>1, <2>2, <2>3 DEF Inv, FlowInv
<1>. QED
  BY <1>1, <1>2, <1>3, <1>4, <1>5, <1>6, <1>7 DEF Next

(* The invariant: the ring is a window on what was logged, the lines       *)
(* joined are fewer than an entry may have, every entry is right, and what *)
(* a writer was given is in what it made and in its buffers, in that       *)
(* order.                                                                  *)
THEOREM LogInvariant == Spec => []Inv
<1>. QED
  BY InitInv, NextInv, PTL DEF Spec

(* An entry begins at a line that matches the pattern and nowhere has      *)
(* another one (MultilineBuffer.Add), has no more lines than max_lines,    *)
(* and one that shows an error is in the log unless an exclude pattern     *)
(* matches it.                                                             *)
THEOREM EntriesAlwaysRight == Spec => []EntriesRight
<1>1. Inv => EntriesRight
  BY DEF Inv, LogInv
<1>. QED
  BY <1>1, LogInvariant, PTL

(* Nothing that a process prints is lost, doubled or reordered between     *)
(* Write and the entries as long as no two calls of Write on its writer    *)
(* overlap, and after an execution of a scheduled process nothing is left  *)
(* in a buffer.                                                            *)
THEOREM OutputAlwaysKept == Spec => []OutputKept
<1>1. ASSUME Inv PROVE OutputKept
  <2>1. \A w \in Writer : Flows(w)
    BY <1>1 DEF Inv, FlowInv
  <2>2. NothingLost
    BY <2>1 DEF NothingLost, Flows, Made, Pending
  <2>. QED
    BY <1>1, <2>2 DEF OutputKept, Inv, FlowInv
<1>. QED
  BY <1>1, LogInvariant, PTL

-----------------------------------------------------------------------------
(* What is read from a ring                                                *)

(* q is the last k elements of s.                                          *)
IsLast(q, s, k) ==
  /\ q \in Seq(Entry) /\ k \in 0..Len(s) /\ Len(q) = k
  /\ \A i \in 1..k : q[i] = s[Len(s) - k + i]

Least(a, b) == IF a <= b THEN a ELSE b

(* There is one such sequence.                                             *)
LEMMA LastUnique ==
  ASSUME NEW q, NEW p, NEW s, NEW k, Len(s) \in Nat, IsLast(q, s, k), IsLast(p, s, k)
  PROVE  q = p
<1>1. q \in Seq(Entry) /\ p \in Seq(Entry) /\ Len(q) = k /\ Len(p) = k /\ k \in Nat
  BY DEF IsLast
<1>2. \A i \in 1..Len(q) : q[i] = p[i]
  BY DEF IsLast
<1>. QED
  BY <1>1, <1>2, SeqEqual

(* Newest(s, n) is the last n elements, or all of s.                       *)
LEMMA NewestIs ==
  ASSUME NEW s \in Seq(Entry), NEW n \in Nat
  PROVE  IsLast(Newest(s, n), s, Least(n, Len(s)))
<1>1. PICK l \in Nat : l = Len(s)
  BY LenProperties
<1>2. CASE l <= n
  <2>1. Newest(s, n) = s /\ Least(n, l) = l
    BY <1>1, <1>2 DEF Newest, Least
  <2>2. IsLast(s, s, l)
    BY <1>1 DEF IsLast
  <2>. QED
    BY <1>1, <2>1, <2>2
<1>3. CASE l > n
  <2>1. Newest(s, n) = SubSeq(s, l - n + 1, l) /\ Least(n, l) = n
    BY <1>1, <1>3 DEF Newest, Least
  <2>2. l - n + 1 \in Int /\ l \in Int /\ \A i \in (l - n + 1)..l : s[i] \in Entry
    BY <1>1, <1>3, ElementOfSeq
  <2>3. /\ SubSeq(s, l - n + 1, l) \in Seq(Entry)
        /\ Len(SubSeq(s, l - n + 1, l)) = IF l - n + 1 <= l THEN l - (l - n + 1) + 1 ELSE 0
        /\ \A i \in 1..(l - (l - n + 1) + 1) : SubSeq(s, l - n + 1, l)[i] = s[(l - n + 1) + i - 1]
    BY <2>2, SubSeqProperties, SMTT(20)
  <2>4. PICK q : q = SubSeq(s, l - n + 1, l)
    OBVIOUS
  <2>5. /\ q \in Seq(Entry) /\ Len(q) = n
        /\ \A i \in 1..n : q[i] = s[l - n + i]
    <3>1. Len(q) = n
      BY <1>3, <2>3, <2>4
    <3>2. ASSUME NEW i \in 1..n PROVE q[i] = s[l - n + i]
      <4>1. i \in 1..(l - (l - n + 1) + 1) /\ (l - n + 1) + i - 1 = l - n + i
        OBVIOUS
      <4>. QED
        BY <2>3, <2>4, <4>1
    <3>. QED
      BY <2>3, <2>4, <3>1, <3>2
  <2>6. IsLast(q, s, n)
    BY <1>1, <1>3, <2>5 DEF IsLast
  <2>. QED
    BY <1>1, <2>1, <2>4, <2>6
<1>. QED
  BY <1>2, <1>3

(* The slots from .. to-1 of r hold entries, and q is those.               *)
Filled(r, from, to) == \A i \in from..(to - 1) : r.slots[i] \in Entry
Copies(q, r, from, to) ==
  /\ q \in Seq(Entry) /\ Len(q) = to - from
  /\ \A i \in 1..(to - from) : q[i] = r.slots[from + i - 1]

(* Slots gives those.                                                      *)
LEMMA SlotsAre ==
  ASSUME NEW r, NEW from \in Nat, NEW to \in Nat, from <= to, Filled(r, from, to)
  PROVE  Copies(Slots(r, from, to), r, from, to)
<1>1. PICK n \in Nat : n = to - from
  OBVIOUS
<1>2. PICK q : q = [i \in 1..n |-> r.slots[from + i - 1]]
  OBVIOUS
<1>3. \A i \in 1..n : r.slots[from + i - 1] \in Entry
  <2>1. ASSUME NEW i \in 1..n PROVE from + i - 1 \in from..(to - 1)
    BY <1>1
  <2>. QED
    BY <2>1 DEF Filled
<1>4. q \in [1..n -> Entry]
  BY <1>2, <1>3
<1>5. q \in Seq(Entry) /\ Len(q) = n
  BY <1>4
<1>. QED
  BY <1>1, <1>2, <1>5 DEF Slots, Copies

(* What a ring gives while it is not full ...                              *)
LEMMA RecentOfPart ==
  ASSUME NEW r, NEW s \in Seq(Entry), NEW x \in Nat, Len(s) = x, NEW k \in Nat,
         \A i \in 0..(x - 1) : r.slots[i] = s[i + 1]
  PROVE  IsLast(Slots(r, x - Least(k, x), x), s, Least(k, x))
<1>1. \A i \in 1..x : s[i] \in Entry
  BY ElementOfSeq
<1>2. PICK m \in 0..x : m = Least(k, x)
  BY DEF Least
<1>3. PICK f \in 0..x : f = x - m
  OBVIOUS
<1>4. ASSUME NEW i \in f..(x - 1) PROVE r.slots[i] \in Entry
  <2>1. i \in 0..(x - 1) /\ i + 1 \in 1..x
    OBVIOUS
  <2>. QED
    BY <1>1, <2>1
<1>5. PICK q : q = Slots(r, f, x)
  OBVIOUS
<1>6. /\ q \in Seq(Entry) /\ Len(q) = x - f
      /\ \A i \in 1..(x - f) : q[i] = r.slots[f + i - 1]
  <2>1. f \in Nat /\ f <= x /\ Filled(r, f, x)
    BY <1>4 DEF Filled
  <2>2. Copies(q, r, f, x)
    BY <1>5, <2>1, SlotsAre
  <2>. QED
    BY <2>2 DEF Copies
<1>7. ASSUME NEW i \in 1..m PROVE q[i] = s[x - m + i]
  <2>1. i \in 1..(x - f) /\ f + i - 1 \in 0..(x - 1) /\ (f + i - 1) + 1 = x - m + i
    BY <1>3
  <2>. QED
    BY <1>6, <2>1
<1>8. Len(q) = m
  BY <1>3, <1>6
<1>9. IsLast(q, s, m)
  BY <1>6, <1>7, <1>8 DEF IsLast
<1>. QED
  BY <1>2, <1>3, <1>5, <1>9

(* A full ring: the newest entry is before the index x, the oldest at it.  *)
RingFull(r, s, N, x, n) ==
  \A i \in 0..(N - 1) : r.slots[i] = s[(n - x + i + 1) - (IF i < x THEN 0 ELSE N)]

(* ... and when it is full: they end before the index, and when there are  *)
(* more of them than that they begin at the other end.                     *)
LEMMA RecentOfFull ==
  ASSUME NEW N \in Nat \ {0}, NEW r, NEW s \in Seq(Entry), NEW x \in 0..(N - 1),
         NEW n \in Nat, n >= N, Len(s) = n, NEW k \in Nat,
         RingFull(r, s, N, x, n)
  PROVE  /\ k <= x => IsLast(Slots(r, x - k, x), s, k)
         /\ k > x /\ k <= N => IsLast(Slots(r, N - (k - x), N) \o Slots(r, 0, x), s, k)
<1>1. \A i \in 1..n : s[i] \in Entry
  BY ElementOfSeq
<1>2. ASSUME NEW i \in 0..(N - 1), NEW j \in 1..n,
             \/ i < x /\ j = n - x + i + 1
             \/ i >= x /\ j = n - x + i + 1 - N
      PROVE  r.slots[i] = s[j]
  <2>1. (n - x + i + 1) - (IF i < x THEN 0 ELSE N) = j
    BY <1>2
  <2>. QED
    BY <1>1, <2>1 DEF RingFull
<1>3. ASSUME NEW i \in 0..(N - 1) PROVE r.slots[i] \in Entry
  <2>1. CASE i < x
    <3>1. PICK j \in 1..n : j = n - x + i + 1
      BY <1>1, <2>1
    <3>. QED
      BY <1>1, <1>2, <2>1, <3>1
  <2>2. CASE i >= x
    <3>1. PICK j \in 1..n : j = n - x + i + 1 - N
      BY <1>1, <2>2
    <3>. QED
      BY <1>1, <1>2, <2>2, <3>1
  <2>. QED
    BY <2>1, <2>2
<1>4. ASSUME k <= x PROVE IsLast(Slots(r, x - k, x), s, k)
  <2>1. PICK f \in 0..x : f = x - k
    BY <1>4
  <2>2. PICK q : q = Slots(r, f, x)
    OBVIOUS
  <2>3. \A i \in f..(x - 1) : r.slots[i] \in Entry
    BY <1>3
  <2>4. /\ q \in Seq(Entry) /\ Len(q) = x - f
        /\ \A i \in 1..(x - f) : q[i] = r.slots[f + i - 1]
    <3>1. f \in Nat /\ f <= x /\ x \in Nat /\ Filled(r, f, x)
      BY <2>3 DEF Filled
    <3>2. Copies(q, r, f, x)
      BY <2>2, <3>1, SlotsAre
    <3>. QED
      BY <3>2 DEF Copies
  <2>5. ASSUME NEW i \in 1..k PROVE q[i] = s[n - k + i]
    <3>1. PICK a \in 0..(N - 1) : a = f + i - 1 /\ a < x
      BY <1>4, <2>1
    <3>2. PICK j \in 1..n : j = n - k + i /\ j = n - x + a + 1
      BY <1>1, <1>4, <2>1, <3>1
    <3>3. i \in 1..(x - f)
      BY <1>4, <2>1
    <3>4. q[i] = r.slots[a]
      BY <2>4, <3>1, <3>3
    <3>5. r.slots[a] = s[j]
      BY <1>2, <3>1, <3>2
    <3>. QED
      BY <3>2, <3>4, <3>5
  <2>6. Len(q) = k /\ k \in 0..n
    BY <1>1, <1>4, <2>1, <2>4
  <2>7. IsLast(q, s, k)
    BY <2>4, <2>5, <2>6 DEF IsLast
  <2>. QED
    BY <2>1, <2>2, <2>7
<1>5. ASSUME k > x, k <= N PROVE IsLast(Slots(r, N - (k - x), N) \o Slots(r, 0, x), s, k)
  <2>1. PICK f \in x..N : f = N - (k - x)
    BY <1>5
  <2>2. PICK a, b : a = Slots(r, f, N) /\ b = Slots(r, 0, x)
    OBVIOUS
  <2>3. /\ a \in Seq(Entry) /\ Len(a) = N - f
        /\ \A i \in 1..(N - f) : a[i] = r.slots[f + i - 1]
    <3>1. \A i \in f..(N - 1) : r.slots[i] \in Entry
      BY <1>3
    <3>2. f \in Nat /\ N \in Nat /\ f <= N /\ Filled(r, f, N)
      BY <3>1 DEF Filled
    <3>3. Copies(a, r, f, N)
      BY <2>2, <3>2, SlotsAre
    <3>. QED
      BY <3>3 DEF Copies
  <2>4. /\ b \in Seq(Entry) /\ Len(b) = x
        /\ \A i \in 1..x : b[i] = r.slots[i - 1]
    <3>1. PICK z \in Nat : z = 0
      OBVIOUS
    <3>2. \A i \in z..(x - 1) : r.slots[i] \in Entry
      BY <1>3, <3>1
    <3>3. x \in Nat /\ z <= x /\ Filled(r, z, x)
      BY <3>1, <3>2 DEF Filled
    <3>4. Copies(Slots(r, z, x), r, z, x)
      BY <3>3, SlotsAre
    <3>5. /\ Slots(r, z, x) \in Seq(Entry) /\ Len(Slots(r, z, x)) = x - z
          /\ \A i \in 1..(x - z) : Slots(r, z, x)[i] = r.slots[z + i - 1]
      BY <3>4 DEF Copies
    <3>6. b = Slots(r, z, x)
      BY <2>2, <3>1
    <3>7. x - z = x /\ \A i \in 1..x : z + i - 1 = i - 1
      BY <3>1
    <3>. QED
      BY <3>6, <3>7, <3>5
  <2>5. PICK c : c = a \o b
    OBVIOUS
  <2>6. /\ c \in Seq(Entry) /\ Len(c) = Len(a) + Len(b)
        /\ \A i \in 1..(Len(a) + Len(b)) : c[i] = IF i <= Len(a) THEN a[i] ELSE b[i - Len(a)]
    BY <2>3, <2>4, <2>5, ConcatProperties
  <2>7. Len(a) = k - x /\ Len(b) = x /\ Len(c) = k
    BY <2>1, <2>3, <2>4, <2>6
  <2>8. ASSUME NEW i \in 1..k PROVE c[i] = s[n - k + i]
    <3>1. PICK j \in 1..n : j = n - k + i
      BY <1>1, <1>5
    <3>2. i \in 1..(Len(a) + Len(b))
      BY <2>7
    <3>3. CASE i <= k - x
      <4>1. PICK t \in 0..(N - 1) : t = f + i - 1 /\ t >= x /\ j = n - x + t + 1 - N
        BY <1>5, <2>1, <3>1, <3>3
      <4>2. c[i] = a[i] /\ i \in 1..(N - f)
        BY <2>1, <2>6, <2>7, <3>2, <3>3
      <4>. QED
        BY <1>2, <2>3, <3>1, <4>1, <4>2
    <3>4. CASE i > k - x
      <4>1. PICK m \in 1..x : m = i - (k - x)
        BY <3>4
      <4>2. PICK t \in 0..(N - 1) : t = m - 1 /\ t < x /\ j = n - x + t + 1
        BY <1>5, <3>1, <4>1
      <4>3. c[i] = b[m]
        <5>1. ~(i <= Len(a)) /\ i - Len(a) = m
          BY <2>7, <3>4, <4>1
        <5>2. c[i] = b[i - Len(a)]
          BY <2>6, <3>2, <5>1
        <5>. QED
          BY <5>1, <5>2
      <4>. QED
        BY <1>2, <2>4, <3>1, <4>1, <4>2, <4>3
    <3>. QED
      BY <1>5, <3>3, <3>4
  <2>9. k \in 0..n
    BY <1>1, <1>5
  <2>10. IsLast(c, s, k)
    BY <2>6, <2>7, <2>8, <2>9 DEF IsLast
  <2>. QED
    BY <2>1, <2>2, <2>5, <2>10
<1>. QED
  BY <1>4, <1>5

(* GetAll and GetRecent give the newest of what was logged, in order, full *)
(* ring or not.                                                            *)
LEMMA GetIs ==
  ASSUME StoreInv, NEW w \in Writer, NEW N \in Nat \ {0}, conf.size = N
  PROVE  /\ GetAll(ring[w]) = Newest(logged[w], N)
         /\ \A n \in 1..(N + 1) : GetRecent(ring[w], n) = Newest(logged[w], Least(n, N))
<1>. DEFINE r == ring[w]
            s == logged[w]
<1>1. r \in Ring /\ s \in Seq(Entry) /\ RingHolds(r, s)
  BY DEF StoreInv, StoreTypeOK
<1>2. PICK l \in Nat : l = Len(s)
  BY <1>1, LenProperties
<1>3. PICK x \in 0..(N - 1) : x = r.index
  BY <1>1 DEF Ring
<1>4. r.full \in BOOLEAN
  BY <1>1 DEF Ring
<1>. HIDE DEF r, s
<1>5. ASSUME NEW k \in 0..N
      PROVE  /\ ~r.full => Slots(r, x - Least(k, x), x) = Newest(s, k)
             /\ r.full /\ k <= x => Slots(r, x - k, x) = Newest(s, k)
             /\ r.full /\ k > x => Slots(r, N - (k - x), N) \o Slots(r, 0, x) = Newest(s, k)
  <2>1. IsLast(Newest(s, k), s, Least(k, l))
    BY <1>1, <1>2, NewestIs
  <2>2. ASSUME ~r.full PROVE IsLast(Slots(r, x - Least(k, x), x), s, Least(k, x)) /\ l = x
    <3>1. l = x /\ \A i \in 0..(N - 1) : r.slots[i] = IF i < x THEN s[i + 1] ELSE NoEntry
      BY <1>1, <1>2, <1>3, <2>2 DEF RingHolds
    <3>2. \A i \in 0..(x - 1) : r.slots[i] = s[i + 1]
      BY <3>1
    <3>3. x \in Nat /\ Len(s) = x /\ k \in Nat
      BY <1>2, <3>1
    <3>. QED
      BY <1>1, <3>1, <3>2, <3>3, RecentOfPart
  <2>3. ASSUME r.full
         PROVE  /\ k <= x => IsLast(Slots(r, x - k, x), s, k)
                /\ k > x => IsLast(Slots(r, N - (k - x), N) \o Slots(r, 0, x), s, k)
                /\ l >= N
    <3>1. l >= N /\ RingFull(r, s, N, x, l)
      BY <1>1, <1>2, <1>3, <2>3 DEF RingHolds, RingFull
    <3>2. k \in Nat /\ k <= N
      OBVIOUS
    <3>. QED
      BY <1>1, <1>2, <3>1, <3>2, RecentOfFull
  <2>4. /\ ~r.full => IsLast(Slots(r, x - Least(k, x), x), s, Least(k, x)) /\ l = x
        /\ r.full /\ k <= x => IsLast(Slots(r, x - k, x), s, k)
        /\ r.full /\ k > x /\ k <= N => IsLast(Slots(r, N - (k - x), N) \o Slots(r, 0, x), s, k)
        /\ r.full => l >= N
    BY <2>2, <2>3
  <2>5. r.full => Least(k, l) = k
    BY <2>4 DEF Least
  <2>6. Len(s) \in Nat
    BY <1>2
  <2>7. ~r.full => Slots(r, x - Least(k, x), x) = Newest(s, k)
    BY <2>1, <2>4, <2>6, LastUnique
  <2>8. r.full /\ k <= x => Slots(r, x - k, x) = Newest(s, k)
    BY <2>1, <2>4, <2>5, <2>6, LastUnique
  <2>9. ASSUME r.full, k > x PROVE Slots(r, N - (k - x), N) \o Slots(r, 0, x) = Newest(s, k)
    <3>1. k <= N /\ IsLast(Newest(s, k), s, k)
      BY <2>1, <2>5, <2>9
    <3>2. IsLast(Slots(r, N - (k - x), N) \o Slots(r, 0, x), s, k)
      BY <2>4, <2>9, <3>1
    <3>. QED
      BY <2>6, <3>1, <3>2, LastUnique
  <2>. QED
    BY <2>7, <2>8, <2>9
<1>6. GetAll(r) = Newest(s, N)
  <2>1. N \in 0..N /\ N > x /\ N - (N - x) = x /\ Least(N, x) = x /\ x - x = 0
    BY DEF Least
  <2>2. CASE r.full
    BY <1>3, <1>5, <2>1, <2>2 DEF GetAll
  <2>3. CASE ~r.full
    BY <1>3, <1>5, <2>1, <2>3 DEF GetAll
  <2>. QED
    BY <2>2, <2>3
<1>7. ASSUME NEW n \in 1..(N + 1) PROVE GetRecent(r, n) = Newest(s, Least(n, N))
  <2>1. PICK k \in 0..N : k = Least(n, N)
    BY DEF Least
  <2>2. CASE r.full
    <3>1. k = (IF n > N THEN N ELSE n)
      BY <2>1 DEF Least
    <3>2. GetRecent(r, n) = IF k <= x THEN Slots(r, x - k, x)
                            ELSE Slots(r, N - (k - x), N) \o Slots(r, 0, x)
      BY <1>3, <2>2, <3>1 DEF GetRecent
    <3>3. CASE k <= x
      BY <1>5, <2>1, <2>2, <3>2, <3>3
    <3>4. CASE k > x
      BY <1>5, <2>1, <2>2, <3>2, <3>4
    <3>. QED
      BY <3>3, <3>4
  <2>3. CASE ~r.full
    <3>1. GetRecent(r, n) = Slots(r, x - (IF n > x THEN x ELSE n), x)
      BY <1>3, <2>3 DEF GetRecent
    <3>2. (IF n > x THEN x ELSE n) = Least(k, x)
      BY <2>1 DEF Least
    <3>. QED
      BY <1>5, <2>1, <2>3, <3>1, <3>2
  <2>. QED
    BY <1>4, <2>2, <2>3
<1>. QED
  BY <1>6, <1>7 DEF r, s

(* The ring shows the newest entries.                                      *)
LEMMA InvRingIsTail ==
  ASSUME Inv
  PROVE  RingIsTail
<1>1. StoreInv /\ conf \in Scenario
  BY DEF Inv, LogInv, StoreInv, StoreTypeOK
<1>2. PICK N \in Nat \ {0} : N = conf.size
  BY <1>1, SizeType
<1>3. ASSUME NEW w \in Writer, NEW n \in 1..(N + 1)
      PROVE  /\ GetAll(ring[w]) = Newest(logged[w], N)
             /\ GetRecent(ring[w], n) = Newest(logged[w], IF n > N THEN N ELSE n)
  <2>1. Least(n, N) = IF n > N THEN N ELSE n
    BY DEF Least
  <2>. QED
    BY <1>1, <1>2, <2>1, GetIs
<1>4. 1 \in 1..(N + 1)
  OBVIOUS
<1>. QED
  BY <1>2, <1>3, <1>4 DEF RingIsTail

(* Every variable has its type.                                            *)
LEMMA InvTypeOK ==
  ASSUME Inv
  PROVE  TypeOK
<1>1. StoreInv /\ conf \in Scenario
  BY DEF Inv, LogInv, StoreInv, StoreTypeOK
<1>2. PICK N \in Nat \ {0} : N = conf.size
  BY <1>1, SizeType
<1>3. ASSUME NEW w \in Writer, NEW i \in DOMAIN ring[w].slots
      PROVE  (ring[w].slots[i] # NoEntry) = (ring[w].full \/ i < ring[w].index)
  <2>1. ring[w] \in Ring /\ logged[w] \in Seq(Entry) /\ RingHolds(ring[w], logged[w])
    BY <1>1 DEF StoreInv, StoreTypeOK
  <2>2. i \in 0..(N - 1)
    BY <1>2, <2>1 DEF Ring
  <2>3. PICK n \in Nat : n = Len(logged[w])
    BY <2>1, LenProperties
  <2>4. \A j \in 1..n : logged[w][j] # NoEntry
    <3>1. ASSUME NEW e \in Entry PROVE e # NoEntry
      BY DEF Entry, NoEntry
    <3>. QED
      BY <2>1, <2>3, <3>1, ElementOfSeq
  <2>5. PICK x \in 0..(N - 1) : x = ring[w].index
    BY <1>2, <2>1 DEF Ring
  <2>6. CASE ring[w].full
    <3>1. PICK k : k = (n - x + i + 1) - (IF i < x THEN 0 ELSE N)
      OBVIOUS
    <3>2. n >= N /\ ring[w].slots[i] = logged[w][k]
      BY <1>2, <2>1, <2>2, <2>3, <2>5, <2>6, <3>1 DEF RingHolds
    <3>3. k \in 1..n
      BY <2>2, <3>1, <3>2
    <3>. QED
      BY <2>4, <2>6, <3>2, <3>3
  <2>7. CASE ~ring[w].full
    <3>1. n = x /\ ring[w].slots[i] = IF i < x THEN logged[w][i + 1] ELSE NoEntry
      BY <1>2, <2>1, <2>2, <2>3, <2>5, <2>7 DEF RingHolds
    <3>2. i < x => i + 1 \in 1..n
      BY <2>2, <3>1
    <3>. QED
      BY <2>4, <2>5, <2>7, <3>1, <3>2
  <2>. QED
    BY <2>6, <2>7
<1>4. /\ proc \in {"running", "ending", "exited"} /\ runs \in 1..conf.runs
      /\ printed \in 0..conf.max
  BY DEF Inv, FlowInv, FlowTypeOK
<1>5. ASSUME NEW w \in Writer
      PROVE  /\ ring[w].index \in 0..(conf.size - 1)
             /\ conf.multiline => Len(lines[w]) < conf.maxLines
             /\ ~conf.multiline => lines[w] = <<>>
             /\ old[w] => lines[w] # <<>>
  BY <1>1 DEF StoreInv, StoreTypeOK, Ring, Inv, LogInv, LinesJoin
<1>6. ASSUME NEW st \in Stream PROVE copier[st].at \in {"idle", "scan", "line", "keep", "swap"}
  BY DEF Inv, FlowInv, FlowTypeOK, Copier
<1>. QED
  BY <1>1, <1>3, <1>4, <1>5, <1>6 DEF TypeOK

-----------------------------------------------------------------------------
(* What GetLogs sorts                                                      *)

(* A finite set of entries, no two of the same time.                       *)
Stamped(S) == /\ IsFiniteSet(S)
              /\ \A e \in S : e.t \in Nat
              /\ \A e, f \in S : e.t = f.t => e = f

(* A set has no more newer members than members.                           *)
LEMMA NewerSize ==
  ASSUME NEW S, Stamped(S), NEW e
  PROVE  /\ IsFiniteSet(Newer(S, e)) /\ Cardinality(S) \in Nat
         /\ Cardinality(Newer(S, e)) \in 0..Cardinality(S)
<1>1. Newer(S, e) \in SUBSET S /\ IsFiniteSet(S)
  BY DEF Newer, Stamped
<1>2. IsFiniteSet(Newer(S, e)) /\ Cardinality(Newer(S, e)) <= Cardinality(S)
  BY <1>1, FS_Subset
<1>. QED
  BY <1>1, <1>2, FS_CardinalityType

(* The older of two has more newer ones.                                   *)
LEMMA OlderHasMore ==
  ASSUME NEW S, Stamped(S), NEW e, e.t \in Nat, NEW f \in S
  PROVE  /\ e.t < f.t => Cardinality(Newer(S, f)) < Cardinality(Newer(S, e))
         /\ f.t <= e.t => Cardinality(Newer(S, e)) <= Cardinality(Newer(S, f))
<1>1. f.t \in Nat /\ f \notin Newer(S, f)
  BY DEF Stamped, Newer
<1>2. /\ IsFiniteSet(Newer(S, e)) /\ Cardinality(Newer(S, e)) \in Nat
      /\ IsFiniteSet(Newer(S, f)) /\ Cardinality(Newer(S, f)) \in Nat
  BY NewerSize
<1>3. ASSUME e.t < f.t PROVE Cardinality(Newer(S, f)) < Cardinality(Newer(S, e))
  <2>1. (Newer(S, f) \cup {f}) \in SUBSET Newer(S, e)
    BY <1>1, <1>3 DEF Newer, Stamped
  <2>2. Cardinality(Newer(S, f) \cup {f}) = Cardinality(Newer(S, f)) + 1
    BY <1>1, <1>2, FS_AddElement
  <2>3. Cardinality(Newer(S, f) \cup {f}) <= Cardinality(Newer(S, e))
    BY <1>2, <2>1, FS_Subset
  <2>. QED
    BY <1>2, <2>2, <2>3
<1>4. ASSUME f.t <= e.t PROVE Cardinality(Newer(S, e)) <= Cardinality(Newer(S, f))
  <2>1. Newer(S, e) \in SUBSET Newer(S, f)
    BY <1>1, <1>4 DEF Newer, Stamped
  <2>. QED
    BY <1>2, <2>1, FS_Subset
<1>. QED
  BY <1>3, <1>4

(* The number of newer ones tells two members apart, and tells which is    *)
(* the newer.                                                              *)
LEMMA RankOrder ==
  ASSUME NEW S, Stamped(S), NEW e \in S, NEW f \in S
  PROVE  /\ Cardinality(Newer(S, e)) = Cardinality(Newer(S, f)) => e = f
         /\ Cardinality(Newer(S, e)) < Cardinality(Newer(S, f)) => e.t > f.t
<1>1. e.t \in Nat /\ f.t \in Nat /\ (e.t = f.t => e = f)
  BY DEF Stamped
<1>2. Cardinality(Newer(S, e)) \in Nat /\ Cardinality(Newer(S, f)) \in Nat
  BY NewerSize
<1>3. /\ e.t < f.t => Cardinality(Newer(S, f)) < Cardinality(Newer(S, e))
      /\ f.t < e.t => Cardinality(Newer(S, e)) < Cardinality(Newer(S, f))
  BY <1>1, OlderHasMore
<1>. QED
  BY <1>1, <1>2, <1>3

(* For every place there is a member: counting the newer ones is an        *)
(* injection into as many numbers as there are members, and so onto.       *)
LEMMA RankOnto ==
  ASSUME NEW S, Stamped(S), NEW n \in 1..Cardinality(S)
  PROVE  \E e \in S : Cardinality(Newer(S, e)) = n - 1
<1>1. PICK c \in Nat : c = Cardinality(S)
  BY FS_CardinalityType DEF Stamped
<1>2. ASSUME NEW e \in S PROVE Cardinality(Newer(S, e)) \in 0..(c - 1)
  <2>1. Newer(S, e) \in SUBSET (S \ {e})
    BY DEF Newer, Stamped
  <2>2. IsFiniteSet(S \ {e}) /\ Cardinality(S \ {e}) = c - 1
    BY <1>1, FS_RemoveElement DEF Stamped
  <2>3. Cardinality(Newer(S, e)) <= c - 1
    BY <2>1, <2>2, FS_Subset
  <2>. QED
    BY <1>1, <2>3, NewerSize
<1>. DEFINE rank == [e \in S |-> Cardinality(Newer(S, e))]
<1>3. rank \in Injection(S, 0..(c - 1))
  <2>1. rank \in [S -> 0..(c - 1)]
    BY <1>2
  <2>2. \A e, f \in S : rank[e] = rank[f] => e = f
    BY RankOrder
  <2>. QED
    BY <2>1, <2>2 DEF Injection, IsInjective
<1>4. IsFiniteSet(0..(c - 1)) /\ Cardinality(0..(c - 1)) = c
  <2>1. PICK a, b \in Int : a = 0 /\ b = c - 1
    BY <1>1
  <2>2. IsFiniteSet(a..b) /\ Cardinality(a..b) = IF a > b THEN 0 ELSE b - a + 1
    BY <2>1, FS_Interval
  <2>3. (IF a > b THEN 0 ELSE b - a + 1) = c
    BY <1>1, <2>1
  <2>. QED
    BY <2>1, <2>2, <2>3, Zenon
<1>5. rank \in Surjection(S, 0..(c - 1))
  <2>. HIDE DEF rank
  <2>. QED
    BY <1>1, <1>3, <1>4, FS_Injection
<1>6. n - 1 \in 0..(c - 1)
  BY <1>1
<1>7. \E e \in S : rank[e] = n - 1
  BY <1>5, <1>6 DEF Surjection
<1>. QED
  BY <1>7

(* q is the n newest of S, newest first, or all of S.                      *)
NewestOf(q, S, n) ==
  /\ q \in Seq(S) /\ Len(q) = Least(n, Cardinality(S))
  /\ \A i \in 1..Len(q) : q[i] \in S /\ Cardinality(Newer(S, q[i])) = i - 1

(* The sort and the cut of GetLogs.                                        *)
Sorted(S) == [i \in 1..Cardinality(S) |-> CHOOSE e \in S : Cardinality(Newer(S, e)) = i - 1]
FirstOf(S, n) == SubSeq(Sorted(S), 1, IF Len(Sorted(S)) > n THEN n ELSE Len(Sorted(S)))

(* Sorting and cutting gives the newest.                                   *)
LEMMA SortedIs ==
  ASSUME NEW S, Stamped(S), NEW n \in Nat
  PROVE  NewestOf(FirstOf(S, n), S, n)
<1>1. PICK c \in Nat : c = Cardinality(S)
  BY FS_CardinalityType DEF Stamped
<1>2. PICK q : q = [i \in 1..c |-> CHOOSE e \in S : Cardinality(Newer(S, e)) = i - 1]
  OBVIOUS
<1>3. ASSUME NEW i \in 1..c PROVE q[i] \in S /\ Cardinality(Newer(S, q[i])) = i - 1
  <2>1. q[i] = CHOOSE e \in S : Cardinality(Newer(S, e)) = i - 1
    BY <1>2
  <2>2. \E e \in S : Cardinality(Newer(S, e)) = i - 1
    BY <1>1, RankOnto
  <2>. QED
    BY <2>1, <2>2
<1>4. q \in [1..c -> S]
  BY <1>2, <1>3
<1>5. q \in Seq(S) /\ Len(q) = c
  BY <1>4
<1>6. PICK m \in 0..c : m = (IF c > n THEN n ELSE c)
  OBVIOUS
<1>7. \A i \in 1..m : q[i] \in S
  BY <1>3
<1>8. PICK p : p = SubSeq(q, 1, m)
  OBVIOUS
<1>9. p \in Seq(S) /\ Len(p) = m /\ \A i \in 1..m : p[i] = q[i]
  <2>1. /\ SubSeq(q, 1, m) \in Seq(S)
        /\ Len(SubSeq(q, 1, m)) = IF 1 <= m THEN m - 1 + 1 ELSE 0
        /\ \A i \in 1..(m - 1 + 1) : SubSeq(q, 1, m)[i] = q[1 + i - 1]
    BY <1>7, SubSeqProperties
  <2>2. Len(p) = IF 1 <= m THEN m - 1 + 1 ELSE 0
    BY <1>8, <2>1
  <2>3. ASSUME NEW i \in 1..m PROVE p[i] = q[i]
    <3>1. i \in 1..(m - 1 + 1) /\ 1 + i - 1 = i
      OBVIOUS
    <3>. QED
      BY <1>8, <2>1, <3>1
  <2>. QED
    BY <1>8, <2>1, <2>2, <2>3
<1>10. m = Least(n, c)
  BY <1>6 DEF Least
<1>11. NewestOf(p, S, n)
  BY <1>1, <1>3, <1>9, <1>10 DEF NewestOf
<1>. QED
  BY <1>1, <1>2, <1>5, <1>6, <1>8, <1>11 DEF FirstOf, Sorted

(* They are in the order of their times, the newest first.                 *)
LEMMA NewestFalls ==
  ASSUME NEW S, Stamped(S), NEW n \in Nat, NEW q, NewestOf(q, S, n),
         NEW i \in 1..(Len(q) - 1)
  PROVE  q[i].t > q[i + 1].t
<1>1. PICK m \in Nat : m = Len(q)
  BY NewerSize DEF NewestOf, Least
<1>2. i \in 1..m /\ i + 1 \in 1..m
  BY <1>1
<1>3. /\ q[i] \in S /\ Cardinality(Newer(S, q[i])) = i - 1
      /\ q[i + 1] \in S /\ Cardinality(Newer(S, q[i + 1])) = i
  BY <1>1, <1>2 DEF NewestOf
<1>4. Cardinality(Newer(S, q[i])) < Cardinality(Newer(S, q[i + 1]))
  BY <1>3
<1>. QED
  BY <1>3, <1>4, RankOrder

(* An entry with n newer ones is older than everything shown, and n are    *)
(* shown.                                                                  *)
LEMMA OldNotShown ==
  ASSUME NEW S, Stamped(S), NEW n \in Nat, NEW q, NewestOf(q, S, n),
         NEW e, e.t \in Nat, Cardinality(Newer(S, e)) >= n
  PROVE  /\ Len(q) = n
         /\ \A i \in 1..Len(q) : e.t < q[i].t
<1>1. PICK c \in Nat : c = Cardinality(S) /\ Cardinality(Newer(S, e)) \in 0..c
  BY NewerSize
<1>2. Len(q) = n
  BY <1>1 DEF NewestOf, Least
<1>3. ASSUME NEW i \in 1..Len(q) PROVE e.t < q[i].t
  <2>1. q[i] \in S /\ Cardinality(Newer(S, q[i])) = i - 1
    BY DEF NewestOf
  <2>2. q[i].t \in Nat
    BY <2>1 DEF Stamped
  <2>3. ~(Cardinality(Newer(S, e)) <= Cardinality(Newer(S, q[i])))
    BY <1>1, <1>2, <2>1
  <2>4. ~(q[i].t <= e.t)
    BY <2>1, <2>3, OlderHasMore
  <2>. QED
    BY <2>2, <2>4
<1>. QED
  BY <1>2, <1>3

(* What is in S and not shown has n newer ones.                            *)
LEMMA NotShownOld ==
  ASSUME NEW S, Stamped(S), NEW n \in Nat, NEW q, NewestOf(q, S, n),
         NEW e \in S, \A i \in 1..Len(q) : q[i] # e
  PROVE  Cardinality(Newer(S, e)) >= n
<1>1. PICK c \in Nat : c = Cardinality(S)
  BY NewerSize
<1>2. PICK k \in 0..c : k = Cardinality(Newer(S, e))
  BY <1>1, NewerSize
<1>3. Len(q) = Least(n, c)
  BY <1>1 DEF NewestOf
<1>4. ~(k + 1 \in 1..Len(q))
  <2>1. ASSUME k + 1 \in 1..Len(q) PROVE FALSE
    <3>1. q[k + 1] \in S /\ Cardinality(Newer(S, q[k + 1])) = k
      BY <2>1 DEF NewestOf
    <3>2. q[k + 1] = e
      BY <1>2, <3>1, RankOrder
    <3>. QED
      BY <2>1, <3>2
  <2>. QED
    BY <2>1
<1>5. k # c
  <2>1. Newer(S, e) \in SUBSET S /\ e \notin Newer(S, e) /\ IsFiniteSet(S)
    BY DEF Newer, Stamped
  <2>. QED
    BY <1>1, <1>2, <2>1, FS_Subset
<1>. QED
  BY <1>2, <1>3, <1>4, <1>5 DEF Least

(* The newest k of a sequence, as a set.                                   *)
LEMMA NewestSet ==
  ASSUME NEW s \in Seq(Entry), NEW k \in Nat
  PROVE  ToSet(Newest(s, k)) = {s[i] : i \in {j \in 1..Len(s) : j > Len(s) - k}}
<1>1. PICK n \in Nat : n = Len(s)
  BY LenProperties
<1>2. PICK m \in 0..n : m = Least(k, n)
  BY <1>1 DEF Least
<1>3. PICK q : q = Newest(s, k) /\ IsLast(q, s, m)
  BY <1>1, <1>2, NewestIs
<1>4. q \in Seq(Entry) /\ Len(q) = m /\ \A i \in 1..m : q[i] = s[n - m + i]
  BY <1>1, <1>3 DEF IsLast
<1>5. DOMAIN q = 1..m
  BY <1>4
<1>6. ASSUME NEW i \in 1..m PROVE n - m + i \in 1..n /\ n - m + i > n - k
  BY <1>2 DEF Least
<1>7. ASSUME NEW j \in 1..n, j > n - k PROVE j - (n - m) \in 1..m /\ (n - m) + (j - (n - m)) = j
  BY <1>2, <1>7 DEF Least
<1>8. ASSUME NEW j \in 1..n, j > n - k PROVE s[j] \in ToSet(q)
  <2>1. j - (n - m) \in 1..m /\ q[j - (n - m)] = s[j]
    BY <1>4, <1>7, <1>8
  <2>. QED
    BY <1>5, <2>1 DEF ToSet
<1>9. ASSUME NEW e \in ToSet(q) PROVE e \in {s[i] : i \in {j \in 1..n : j > n - k}}
  <2>1. PICK i \in 1..m : e = q[i]
    BY <1>5 DEF ToSet
  <2>2. e = s[n - m + i]
    BY <1>4, <2>1
  <2>. QED
    BY <1>6, <2>2
<1>. QED
  BY <1>1, <1>3, <1>8, <1>9

(* As many as were asked for, when they have different times.              *)
LEMMA NewestCount ==
  ASSUME NEW s \in Seq(Entry), NEW k \in Nat, k <= Len(s),
         \A i, j \in 1..Len(s) : i < j => s[i].t < s[j].t
  PROVE  /\ IsFiniteSet(ToSet(Newest(s, k)))
         /\ Cardinality(ToSet(Newest(s, k))) = k
<1>1. PICK n \in Nat : n = Len(s)
  BY LenProperties
<1>2. PICK q : q = Newest(s, k) /\ IsLast(q, s, k)
  <2>1. Least(k, Len(s)) = k
    BY <1>1 DEF Least
  <2>. QED
    BY <2>1, NewestIs
<1>3. q \in Seq(Entry) /\ Len(q) = k /\ \A i \in 1..k : q[i] = s[n - k + i]
  BY <1>1, <1>2 DEF IsLast
<1>4. ASSUME NEW i \in 1..k, NEW j \in 1..k, q[i] = q[j] PROVE i = j
  <2>1. PICK a \in 1..n : a = n - k + i
    BY <1>1
  <2>2. PICK b \in 1..n : b = n - k + j
    BY <1>1
  <2>3. s[a] = s[b] /\ s[a] \in Entry /\ s[b] \in Entry
    BY <1>1, <1>3, <1>4, <2>1, <2>2, ElementOfSeq
  <2>4. s[a].t \in Nat
    BY <2>3 DEF Entry
  <2>5. ~(a < b) /\ ~(b < a)
    BY <1>1, <2>3, <2>4
  <2>. QED
    BY <2>1, <2>2, <2>5
<1>5. DOMAIN q = 1..k /\ ToSet(q) = {q[i] : i \in 1..k}
  <2>1. q \in Seq(Entry) /\ DOMAIN q = 1..k
    BY <1>3
  <2>. QED
    BY <2>1 DEF ToSet
<1>6. q \in [1..k -> ToSet(q)]
  BY <1>3, <1>5
<1>7. q \in Surjection(1..k, ToSet(q)) /\ q \in Injection(1..k, ToSet(q))
  BY <1>4, <1>5, <1>6 DEF Surjection, Injection, IsInjective
<1>8. IsFiniteSet(1..k) /\ Cardinality(1..k) = k
  <2>1. PICK a, b \in Int : a = 1 /\ b = k
    OBVIOUS
  <2>2. IsFiniteSet(a..b) /\ Cardinality(a..b) = IF a > b THEN 0 ELSE b - a + 1
    BY <2>1, FS_Interval
  <2>3. (IF a > b THEN 0 ELSE b - a + 1) = k
    BY <2>1
  <2>. QED
    BY <2>1, <2>2, <2>3, Zenon
<1>9. IsFiniteSet(ToSet(q)) /\ Cardinality(ToSet(q)) = Cardinality(1..k)
  BY <1>7, <1>8, FS_Surjection
<1>. QED
  BY <1>2, <1>8, <1>9

(* What is in a sequence is finite.                                        *)
LEMMA SeqFinite ==
  ASSUME NEW X, NEW q \in Seq(X)
  PROVE  IsFiniteSet(ToSet(q))
<1>1. PICK k \in Nat : k = Len(q)
  BY LenProperties
<1>2. DOMAIN q = 1..k /\ ToSet(q) = {q[i] : i \in 1..k}
  BY <1>1 DEF ToSet
<1>3. q \in [1..k -> ToSet(q)]
  BY <1>1, <1>2
<1>4. q \in Surjection(1..k, ToSet(q))
  BY <1>2, <1>3 DEF Surjection
<1>5. IsFiniteSet(1..k)
  <2>1. PICK a, b \in Int : a = 1 /\ b = k
    OBVIOUS
  <2>. QED
    BY <2>1, FS_Interval
<1>. QED
  BY <1>4, <1>5, FS_Surjection

(* What the streams of a process give, and which entries those are.        *)
Collected(n) == UNION {ToSet(GetRecent(ring[w], n)) : w \in Used}
Late(w, k) == {logged[w][i] : i \in {j \in 1..Len(logged[w]) : j > Len(logged[w]) - k}}

(* Each stream gives its newest entries.                                   *)
LEMMA CollectedIs ==
  ASSUME StoreInv, NEW N \in Nat \ {0}, conf.size = N, NEW n \in 1..(N + 1)
  PROVE  Collected(n) = UNION {Late(w, Least(n, N)) : w \in Used}
<1>1. Used \subseteq Writer
  BY DEF Used, Stream, Writer
<1>2. ASSUME NEW w \in Used PROVE ToSet(GetRecent(ring[w], n)) = Late(w, Least(n, N))
  <2>1. GetRecent(ring[w], n) = Newest(logged[w], Least(n, N))
    BY <1>1, GetIs
  <2>2. logged[w] \in Seq(Entry) /\ Least(n, N) \in Nat
    BY <1>1 DEF StoreInv, StoreTypeOK, Least
  <2>. QED
    BY <2>1, <2>2, NewestSet DEF Late
<1>. QED
  BY <1>2 DEF Collected

(* No two entries, of one stream or of two, have the same time.            *)
LEMMA LoggedStamped ==
  ASSUME StoreInv, NEW k \in Nat
  PROVE  Stamped(UNION {Late(w, k) : w \in Used})
<1>. DEFINE S == UNION {Late(w, k) : w \in Used}
<1>1. Used \subseteq Writer
  BY DEF Used, Stream, Writer
<1>2. ASSUME NEW w \in Used PROVE logged[w] \in Seq(Entry)
  BY <1>1 DEF StoreInv, StoreTypeOK
<1>3. ASSUME NEW w \in Used PROVE IsFiniteSet(Late(w, k))
  <2>1. Newest(logged[w], k) \in Seq(Entry)
    BY <1>2, NewestIs DEF IsLast
  <2>2. Late(w, k) = ToSet(Newest(logged[w], k))
    BY <1>2, NewestSet DEF Late
  <2>. QED
    BY <2>1, <2>2, SeqFinite
<1>4. IsFiniteSet(S)
  <2>1. CASE conf.scheduled
    <3>1. S = Late("combined", k) /\ "combined" \in Used
      BY <2>1 DEF Used
    <3>. QED
      BY <1>3, <3>1
  <2>2. CASE ~conf.scheduled
    <3>1. S = Late("stdout", k) \cup Late("stderr", k) /\ "stdout" \in Used /\ "stderr" \in Used
      BY <2>2 DEF Used, Stream
    <3>2. IsFiniteSet(Late("stdout", k)) /\ IsFiniteSet(Late("stderr", k))
      BY <1>3, <3>1
    <3>. QED
      BY <3>1, <3>2, FS_Union
  <2>. QED
    BY <2>1, <2>2
<1>5. ASSUME NEW e \in S
      PROVE  \E w \in Used : \E i \in 1..Len(logged[w]) : e = logged[w][i] /\ e.t \in Nat
  <2>1. PICK w \in Used : e \in Late(w, k)
    OBVIOUS
  <2>2. PICK i \in 1..Len(logged[w]) : e = logged[w][i]
    BY <2>1 DEF Late
  <2>3. e \in Entry
    BY <1>2, <2>2, ElementOfSeq
  <2>4. e.t \in Nat
    BY <2>3 DEF Entry
  <2>. QED
    BY <2>2, <2>4
<1>. HIDE DEF S
<1>6. ASSUME NEW e \in S, NEW f \in S, e.t = f.t PROVE e = f
  <2>1. PICK w \in Used : \E i \in 1..Len(logged[w]) : e = logged[w][i] /\ e.t \in Nat
    BY <1>5
  <2>2. PICK i \in 1..Len(logged[w]) : e = logged[w][i] /\ e.t \in Nat
    BY <2>1
  <2>3. PICK v \in Used : \E j \in 1..Len(logged[v]) : f = logged[v][j] /\ f.t \in Nat
    BY <1>5
  <2>4. PICK j \in 1..Len(logged[v]) : f = logged[v][j] /\ f.t \in Nat
    BY <2>3
  <2>5. w = v
    BY <1>1, <1>6, <2>2, <2>4 DEF StoreInv, StampedInOrder
  <2>6. i \in Nat /\ j \in Nat
    BY <1>2, <2>5, LenProperties
  <2>7. ~(i < j) /\ ~(j < i)
    BY <1>1, <1>6, <2>2, <2>4, <2>5 DEF StoreInv, StampedInOrder
  <2>. QED
    BY <2>2, <2>4, <2>5, <2>6, <2>7
<1>7. \A e \in S : e.t \in Nat
  BY <1>5
<1>8. Stamped(S)
  BY <1>4, <1>6, <1>7 DEF Stamped
<1>. QED
  BY <1>8 DEF S

(* GetLogs shows the newest of what the streams give.                      *)
LEMMA ShownIs ==
  ASSUME StoreInv, NEW N \in Nat \ {0}, conf.size = N, NEW n \in 1..(N + 1)
  PROVE  Stamped(Collected(n)) /\ NewestOf(GetLogs(n), Collected(n), n)
<1>1. Stamped(Collected(n))
  <2>1. Least(n, N) \in Nat
    BY DEF Least
  <2>. QED
    BY <2>1, CollectedIs, LoggedStamped
<1>2. PICK S : S = Collected(n)
  OBVIOUS
<1>3. GetLogs(n) = FirstOf(S, n)
  BY <1>2 DEF GetLogs, FirstOf, Sorted, Collected, Used
<1>4. n \in Nat
  OBVIOUS
<1>5. NewestOf(GetLogs(n), S, n)
  BY <1>1, <1>2, <1>3, <1>4, SortedIs
<1>. QED
  BY <1>1, <1>2, <1>5

(* What the rings hold and is not shown has as many newer entries as were  *)
(* asked for.                                                              *)
LEMMA KeptOld ==
  ASSUME StoreInv, NEW N \in Nat \ {0}, conf.size = N, NEW n \in 1..(N + 1),
         NEW w \in Writer, NEW e \in ToSet(GetAll(ring[w])),
         \A i \in 1..Len(GetLogs(n)) : GetLogs(n)[i] # e
  PROVE  e.t \in Nat /\ Cardinality(Newer(Collected(n), e)) >= n
<1>. DEFINE S == Collected(n)
<1>1. Stamped(S) /\ NewestOf(GetLogs(n), S, n) /\ n \in Nat
  BY ShownIs
<1>2. GetAll(ring[w]) = Newest(logged[w], N) /\ logged[w] \in Seq(Entry)
  BY GetIs DEF StoreInv, StoreTypeOK
<1>3. PICK s, l : s = logged[w] /\ s \in Seq(Entry) /\ l = Len(s) /\ l \in Nat
  BY <1>2, LenProperties
<1>4. PICK i \in 1..l : e = s[i] /\ i > l - N
  <2>1. ToSet(Newest(s, N)) = {s[i] : i \in {j \in 1..l : j > l - N}}
    BY <1>3, NewestSet
  <2>. QED
    BY <1>2, <1>3, <2>1
<1>5. e.t \in Nat
  <2>1. e \in Entry
    BY <1>3, <1>4, ElementOfSeq
  <2>. QED
    BY <2>1 DEF Entry
<1>6. w \in Used
  <2>1. s # <<>>
    BY <1>3, <1>4
  <2>. QED
    BY <1>3, <2>1 DEF StoreInv
<1>7. S = UNION {Late(v, Least(n, N)) : v \in Used}
  BY CollectedIs
<1>. HIDE DEF S
<1>8. CASE e \in S
  BY <1>1, <1>5, <1>8, NotShownOld DEF S
<1>9. CASE e \notin S
  <2>1. PICK k \in Nat : k = Least(n, N)
    BY DEF Least
  <2>2. Late(w, k) \subseteq S
    BY <1>6, <1>7, <2>1
  <2>3. Late(w, k) = {s[j] : j \in {j \in 1..l : j > l - k}}
    BY <1>3 DEF Late
  <2>4. ~(i > l - k)
    <3>1. i > l - k => s[i] \in Late(w, k)
      BY <2>3
    <3>. QED
      BY <1>4, <1>9, <2>2, <3>1
  <2>5. k = n /\ k <= l
    BY <1>3, <1>4, <2>1, <2>4 DEF Least
  <2>6. \A a, b \in 1..l : a < b => s[a].t < s[b].t
    BY <1>3 DEF StoreInv, StampedInOrder
  <2>7. Late(w, k) \in SUBSET Newer(S, e)
    <3>1. ASSUME NEW f \in Late(w, k) PROVE f.t > e.t
      <4>1. PICK j \in 1..l : j > l - k /\ f = s[j]
        BY <2>3
      <4>2. i < j /\ f \in Entry
        BY <1>3, <2>4, <4>1, ElementOfSeq
      <4>3. f.t \in Nat /\ e.t < f.t
        BY <1>4, <2>6, <4>1, <4>2 DEF Entry
      <4>. QED
        BY <1>5, <4>3
    <3>. QED
      BY <2>2, <3>1 DEF Newer
  <2>8. Cardinality(Late(w, k)) = k
    <3>1. Cardinality(ToSet(Newest(s, k))) = k
      BY <1>3, <2>5, <2>6, NewestCount
    <3>2. ToSet(Newest(s, k)) = Late(w, k)
      BY <1>3, <2>3, NewestSet
    <3>. QED
      BY <3>1, <3>2
  <2>9. /\ IsFiniteSet(Newer(S, e)) /\ Cardinality(Newer(S, e)) \in Nat
        /\ Cardinality(Late(w, k)) <= Cardinality(Newer(S, e))
    BY <1>1, <2>7, NewerSize, FS_Subset
  <2>10. Cardinality(Newer(S, e)) >= n
    BY <2>5, <2>8, <2>9
  <2>. QED
    BY <1>5, <2>10 DEF S
<1>. QED
  BY <1>8, <1>9

(* Nothing that is kept and not shown is newer than anything shown, though *)
(* each stream was cut to the limit before they were put together.         *)
LEMMA InvNewestShown ==
  ASSUME Inv
  PROVE  NewestShown
<1>1. StoreInv /\ conf \in Scenario
  BY DEF Inv, LogInv, StoreInv, StoreTypeOK
<1>2. PICK N \in Nat \ {0} : N = conf.size
  BY <1>1, SizeType
<1>3. ASSUME NEW n \in 1..(N + 1)
      PROVE  LET shown == GetLogs(n)
                 kept == UNION {ToSet(GetAll(ring[w])) : w \in Writer}
             IN /\ \A i \in 1..(Len(shown) - 1) : shown[i].t > shown[i + 1].t
                /\ \A e \in kept \ ToSet(shown) : Len(shown) = n /\ \A f \in ToSet(shown) : e.t < f.t
  <2>1. PICK q : q = GetLogs(n)
    OBVIOUS
  <2>2. PICK S : S = Collected(n)
    OBVIOUS
  <2>3. Stamped(S) /\ NewestOf(q, S, n) /\ n \in Nat
    BY <1>1, <1>2, <2>1, <2>2, ShownIs
  <2>4. \A i \in 1..(Len(q) - 1) : q[i].t > q[i + 1].t
    BY <2>3, NewestFalls
  <2>5. DOMAIN q = 1..Len(q)
    BY <2>3 DEF NewestOf
  <2>6. ASSUME NEW w \in Writer, NEW e \in ToSet(GetAll(ring[w])), e \notin ToSet(q)
        PROVE  Len(q) = n /\ \A f \in ToSet(q) : e.t < f.t
    <3>1. \A i \in 1..Len(q) : q[i] # e
      BY <2>5, <2>6 DEF ToSet
    <3>2. e.t \in Nat /\ Cardinality(Newer(S, e)) >= n
      BY <1>1, <1>2, <2>1, <2>2, <3>1, KeptOld
    <3>3. Len(q) = n /\ \A i \in 1..Len(q) : e.t < q[i].t
      BY <2>3, <3>2, OldNotShown
    <3>. QED
      BY <2>5, <3>3 DEF ToSet
  <2>. QED
    BY <2>1, <2>4, <2>6
<1>. QED
  BY <1>2, <1>3 DEF NewestShown

(* The ring, however often it has wrapped around, gives the newest entries *)
(* in their order (LogBuffer.GetAll and GetRecent), and the API the newest *)
(* of all streams together (Supervisor.GetLogs).                           *)
THEOREM RingAlwaysShows == Spec => []RingShows
<1>1. Inv => RingShows
  BY InvTypeOK, InvRingIsTail, InvNewestShown DEF RingShows
<1>. QED
  BY <1>1, LogInvariant, PTL
=============================================================================
