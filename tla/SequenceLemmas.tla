---------------------------- MODULE SequenceLemmas ----------------------------
(***************************************************************************)
(* What the proofs about the components need of numbers, sequences and     *)
(* folds and the theorem library does not state without an operator as a   *)
(* parameter: a least and a greatest element, induction over a set of      *)
(* numbers, the existence of a function defined by recursion over the      *)
(* positions of a sequence.                                                *)
(***************************************************************************)
EXTENDS Integers, Sequences, FiniteSets, SequencesExt, Filters,
        FiniteSetTheorems, SequenceTheorems, WellFoundedInduction, TLAPS

(* Every set of numbers has a least element.                               *)
LEMMA LeastNumber ==
  ASSUME NEW S \in SUBSET Nat, S # {}
  PROVE  \E x \in S : \A y \in S : x <= y
<1> DEFINE R == OpToRel(<, Nat)
<1>1. IsWellFoundedOn(R, Nat)
  BY NatLessThanWellFounded
<1>2. \A x, y \in Nat : <<y, x>> \in R <=> y < x
  BY DEF OpToRel
<1> HIDE DEF R
<1>3. \E x \in S : \A y \in S : ~(<<y, x>> \in R)
  BY <1>1, WFMin
<1>4. PICK x \in S : \A y \in S : ~(<<y, x>> \in R)
  BY <1>3
<1>5. \A y \in S : ~(y < x)
  BY <1>2, <1>4
<1> QED
  BY <1>5, SMT

(* A set of numbers that has 0 and with every number the next has them     *)
(* all: the induction principle, for a predicate given as a set.           *)
LEMMA InductionOver ==
  ASSUME NEW S \in SUBSET Nat, 0 \in S, \A n \in S : n + 1 \in S
  PROVE  S = Nat
<1> SUFFICES ASSUME Nat \ S # {} PROVE FALSE
  OBVIOUS
<1>1. PICK x \in Nat \ S : \A y \in Nat \ S : x <= y
  BY LeastNumber
<1>2. x # 0 /\ x - 1 \in Nat /\ ~(x <= x - 1)
  BY <1>1, SMT
<1>3. x - 1 \in S
  BY <1>1, <1>2
<1>4. (x - 1) + 1 \in S
  BY <1>3
<1> QED
  BY <1>1, <1>4, SMT

(* A bounded set of integers has its greatest element in Max.              *)
LEMMA GreatestNumber ==
  ASSUME NEW S \in SUBSET Int, S # {}, NEW b \in Int, \A x \in S : x <= b
  PROVE  Max(S) \in S /\ \A y \in S : y <= Max(S)
<1> DEFINE D == {n \in Nat : b - n \in S}
<1>1. D # {}
  <2>1. PICK x \in S : TRUE
    OBVIOUS
  <2>2. b - x \in Nat /\ b - (b - x) = x
    BY <2>1, SMT
  <2> QED
    BY <2>1, <2>2
<1>2. PICK d \in D : \A e \in D : d <= e
  BY <1>1, LeastNumber
<1>3. b - d \in S
  OBVIOUS
<1>4. \A y \in S : y <= b - d
  <2> TAKE y \in S
  <2>1. b - y \in Nat /\ b - (b - y) = y
    BY SMT
  <2>2. d <= b - y
    BY <1>2, <2>1
  <2> QED
    BY <2>1, <2>2, SMT
<1>5. \E x \in S : \A y \in S : x >= y
  <2> WITNESS b - d \in S
  <2> QED
  BY <1>3, <1>4, SMT
<1>6. Max(S) \in S /\ \A y \in S : Max(S) >= y
  BY <1>5 DEF Max
<1> QED
  BY <1>6, SMT

(* Recursion over 0..N: a first value and a step define a function.        *)
Recurs(g, N, base, step) ==
  g[0] = base /\ \A i \in 1..N : g[i] = step[<<i, g[i - 1]>>]

LEMMA RecursionUpTo ==
  ASSUME NEW N \in Nat, NEW A, NEW base \in A, NEW step \in [(1..N) \X A -> A]
  PROVE  \E g \in [0..N -> A] : Recurs(g, N, base, step)
<1> DEFINE Fits(n, g) == /\ g[0] = base
                         /\ \A i \in 1..n : g[i] = step[<<i, g[i - 1]>>]
           S == {n \in Nat : n <= N => \E g \in [0..n -> A] : Fits(n, g)}
<1>1. 0 \in S
  <2>1. [i \in 0..0 |-> base] \in [0..0 -> A] /\ Fits(0, [i \in 0..0 |-> base])
    OBVIOUS
  <2> QED
    BY <2>1
<1>2. ASSUME NEW n \in S PROVE n + 1 \in S
  <2> SUFFICES ASSUME n + 1 <= N PROVE \E g \in [0..n + 1 -> A] : Fits(n + 1, g)
    OBVIOUS
  <2>1. n \in Nat /\ n <= N /\ n + 1 \in 1..N
    BY SMT
  <2>2. PICK g \in [0..n -> A] : Fits(n, g)
    BY <2>1
  <2> DEFINE h == [i \in 0..n + 1 |-> IF i <= n THEN g[i] ELSE step[<<n + 1, g[n]>>]]
  <2>3. n \in 0..n /\ g[n] \in A /\ step[<<n + 1, g[n]>>] \in A
    BY <2>1, <2>2
  <2>4. h \in [0..n + 1 -> A]
    BY <2>1, <2>2, <2>3
  <2>5. \A i \in 0..n : h[i] = g[i]
    BY <2>1
  <2>6. h[n + 1] = step[<<n + 1, g[n]>>]
    BY <2>1
  <2> HIDE DEF h
  <2>7. h[0] = base
    BY <2>1, <2>2, <2>5
  <2>8. ASSUME NEW i \in 1..n + 1 PROVE h[i] = step[<<i, h[i - 1]>>]
    <3>1. CASE i = n + 1
      BY <2>1, <2>3, <2>5, <2>6, <3>1
    <3>2. CASE i # n + 1
      <4>1. i \in 1..n /\ i \in 0..n /\ i - 1 \in 0..n
        BY <2>1, <3>2
      <4> QED
        BY <2>2, <2>5, <4>1
    <3> QED
      BY <3>1, <3>2
  <2> QED
    BY <2>4, <2>7, <2>8
<1>3. S = Nat
  BY <1>1, <1>2, InductionOver
<1>4. N \in S
  BY <1>3
<1> QED
  BY <1>4 DEF Recurs

(* An ordering of a finite set: a sequence that has each element once.     *)
LEMMA OrderingOf ==
  ASSUME NEW S, IsFiniteSet(S), NEW q \in SetToSeqs(S)
  PROVE  /\ q \in Seq(S)
         /\ Len(q) = Cardinality(S)
         /\ \A x \in S : \E i \in 1..Len(q) : q[i] = x
<1> DEFINE D == 1..Cardinality(S)
<1>1. Cardinality(S) \in Nat
  BY FS_CardinalityType
<1>2. q \in [D -> S] /\ \A i, j \in D : i # j => q[i] # q[j]
  BY DEF SetToSeqs
<1>3. q \in Seq(S) /\ Len(q) = Cardinality(S)
  BY <1>1, <1>2
<1>4. q \in Injection(D, S)
  BY <1>2 DEF Injection, IsInjective
<1>5. Cardinality(D) = Cardinality(S)
  <2>1. Cardinality(D) = IF 1 > Cardinality(S) THEN 0 ELSE Cardinality(S) - 1 + 1
    BY <1>1, FS_Interval
  <2> QED
    BY <1>1, <2>1
<1>6. q \in Surjection(D, S)
  BY <1>4, <1>5, FS_Injection
<1> QED
  BY <1>3, <1>6 DEF Surjection

(* Filtering a sequence: F collects the elements at the positions K.  What *)
(* it leaves is in the order it was, at the positions `at` names.          *)
Collects(F, s, K) ==
  F = [i \in 0..Len(s) |-> IF i = 0 THEN <<>>
                           ELSE IF i \in K THEN Append(F[i - 1], s[i]) ELSE F[i - 1]]

LEMMA CollectExists ==
  ASSUME NEW E, NEW s \in Seq(E), NEW K
  PROVE  \E F : Collects(F, s, K)
<1> DEFINE N == Len(s)
           step == [p \in (1..N) \X Seq(E) |->
                      IF p[1] \in K THEN Append(p[2], s[p[1]]) ELSE p[2]]
<1>1. N \in Nat /\ <<>> \in Seq(E)
  OBVIOUS
<1>2. step \in [(1..N) \X Seq(E) -> Seq(E)]
  <2>1. ASSUME NEW p \in (1..N) \X Seq(E)
        PROVE  (IF p[1] \in K THEN Append(p[2], s[p[1]]) ELSE p[2]) \in Seq(E)
    <3>1. p[1] \in 1..N /\ p[2] \in Seq(E) /\ s[p[1]] \in E
      OBVIOUS
    <3> QED
      BY <3>1
  <2> QED
    BY <2>1
<1>3. \A i \in 1..N, q \in Seq(E) :
        step[<<i, q>>] = IF i \in K THEN Append(q, s[i]) ELSE q
  OBVIOUS
<1> HIDE DEF N, step
<1>4. PICK g \in [0..N -> Seq(E)] : g[0] = <<>> /\ \A i \in 1..N : g[i] = step[<<i, g[i - 1]>>]
  <2>1. \E g \in [0..N -> Seq(E)] : Recurs(g, N, <<>>, step)
    BY <1>1, <1>2, RecursionUpTo
  <2> QED
    BY <2>1 DEF Recurs
<1>5. \A i \in 1..N : i - 1 \in 0..N /\ g[i - 1] \in Seq(E)
  BY <1>1, <1>4
<1>6. ASSUME NEW i \in 0..N
      PROVE  g[i] = IF i = 0 THEN <<>>
                    ELSE IF i \in K THEN Append(g[i - 1], s[i]) ELSE g[i - 1]
  <2>1. CASE i = 0
    BY <1>4, <2>1
  <2>2. CASE i # 0
    <3>1. i \in 1..N
      BY <1>1, <2>2
    <3>2. g[i] = step[<<i, g[i - 1]>>] /\ g[i - 1] \in Seq(E)
      BY <1>4, <1>5, <3>1
    <3> QED
      BY <1>3, <2>2, <3>1, <3>2
  <2> QED
    BY <2>1, <2>2
<1>7. Collects(g, s, K)
  BY <1>4, <1>6 DEF Collects, N
<1> QED
  BY <1>7

(* q has the elements of s at the positions P, and `at` says where each    *)
(* one was.                                                                *)
Tracks(at, q, s, P) ==
  /\ at \in [1..Len(q) -> P]
  /\ \A j \in 1..Len(q) : q[j] = s[at[j]]
  /\ \A i, j \in 1..Len(q) : i < j => at[i] < at[j]
  /\ \A i \in P : \E j \in 1..Len(q) : at[j] = i

LEMMA CollectFacts ==
  ASSUME NEW E, NEW s \in Seq(E), NEW K, NEW F, Collects(F, s, K)
  PROVE  /\ F[Len(s)] \in Seq(E)
         /\ \E at : Tracks(at, F[Len(s)], s, K \cap 1..Len(s))
<1> DEFINE Fits(n) ==
             /\ F[n] \in Seq(E)
             /\ \E at : Tracks(at, F[n], s, K \cap 1..n)
           S == {n \in Nat : n <= Len(s) => Fits(n)}
<1>1. Len(s) \in Nat
  OBVIOUS
<1>2. /\ F[0] = <<>>
      /\ \A n \in 1..Len(s) : F[n] = IF n \in K THEN Append(F[n - 1], s[n]) ELSE F[n - 1]
  <2>1. 0 \in 0..Len(s) /\ \A n \in 1..Len(s) : n \in 0..Len(s) /\ n # 0
    BY <1>1
  <2>2. \A n \in 0..Len(s) :
          F[n] = IF n = 0 THEN <<>> ELSE IF n \in K THEN Append(F[n - 1], s[n]) ELSE F[n - 1]
    BY Zenon DEF Collects
  <2> QED
    BY <2>1, <2>2
<1>3. 0 \in S
  <2>1. F[0] \in Seq(E) /\ Len(F[0]) = 0
    BY <1>2
  <2>2. Tracks([j \in 1..0 |-> 0], F[0], s, K \cap 1..0)
    BY <2>1 DEF Tracks
  <2> QED
    BY <2>1, <2>2
<1> HIDE DEF Fits
<1>4. ASSUME NEW n \in S PROVE n + 1 \in S
  <2> SUFFICES ASSUME n + 1 <= Len(s) PROVE Fits(n + 1)
    OBVIOUS
  <2> DEFINE q == F[n]
             m == Len(q)
             r == F[n + 1]
             e == s[n + 1]
  <2>1. n \in Nat /\ n + 1 \in 1..Len(s) /\ (n + 1) - 1 = n /\ Fits(n) /\ e \in E
    BY <1>1, SMT
  <2>2. q \in Seq(E) /\ m \in Nat
    BY <2>1 DEF Fits, Tracks
  <2>3. PICK at \in [1..m -> K \cap 1..n] :
          /\ \A j \in 1..m : q[j] = s[at[j]]
          /\ \A i, j \in 1..m : i < j => at[i] < at[j]
          /\ \A i \in K \cap 1..n : \E j \in 1..m : at[j] = i
    BY <2>1 DEF Fits, Tracks
  <2>4. r = IF n + 1 \in K THEN Append(q, e) ELSE q
    BY <1>2, <2>1
  <2> HIDE DEF q, m, r, e
  <2>5. CASE n + 1 \notin K
    <3>1. r = q /\ K \cap 1..n + 1 = K \cap 1..n
      BY <2>1, <2>4, <2>5
    <3> QED
      BY ZenonT(60), <2>2, <2>3, <3>1 DEF m, r, Fits, Tracks
  <2>6. CASE n + 1 \in K
    <3> DEFINE to == [j \in 1..m + 1 |-> IF j <= m THEN at[j] ELSE n + 1]
    <3>1. /\ r \in Seq(E) /\ Len(r) = m + 1 /\ r[m + 1] = e
          /\ \A j \in 1..m : r[j] = q[j]
      BY <2>1, <2>2, <2>4, <2>6, AppendProperties DEF m
    <3>2. /\ \A j \in 1..m : to[j] = at[j] /\ to[j] \in K \cap 1..n
          /\ to[m + 1] = n + 1
      <4>1. m + 1 \in 1..m + 1 /\ ~(m + 1 <= m)
        BY <2>2
      <4>2. \A j \in 1..m : j \in 1..m + 1 /\ j <= m
        BY <2>2
      <4> QED
        BY <2>3, <4>1, <4>2
    <3>7. to \in [1..m + 1 -> K \cap 1..n + 1]
      <4>1. K \cap 1..n \subseteq K \cap 1..n + 1 /\ n + 1 \in K \cap 1..n + 1
        BY <2>1, <2>6
      <4>2. \A j \in 1..m + 1 : ~(j <= m) \/ j \in 1..m
        BY <2>2
      <4> QED
        BY <2>3, <4>1, <4>2
    <3> HIDE DEF to
    <3>3. \A j \in 1..m + 1 : r[j] = s[to[j]]
      BY <2>2, <2>3, <3>1, <3>2 DEF e
    <3>4. \A i, j \in 1..m + 1 : i < j => to[i] < to[j]
      <4> TAKE i, j \in 1..m + 1
      <4> HAVE i < j
      <4>1. i \in 1..m /\ (j \in 1..m \/ j = m + 1)
        BY <2>2
      <4>2. to[i] \in 1..n
        BY <3>2, <4>1
      <4> QED
        BY <2>1, <2>3, <3>2, <4>1, <4>2
    <3>5. \A i \in K \cap 1..n + 1 : \E j \in 1..m + 1 : to[j] = i
      <4> TAKE i \in K \cap 1..n + 1
      <4>1. CASE i = n + 1
        BY <2>2, <3>2, <4>1
      <4>2. CASE i # n + 1
        <5>1. i \in K \cap 1..n
          BY <2>1, <4>2
        <5>2. PICK j \in 1..m : at[j] = i
          BY <2>3, <5>1
        <5> QED
          BY <2>2, <3>2, <5>2
      <4> QED
        BY <4>1, <4>2
    <3> QED
      <4>1. Len(F[n + 1]) = m + 1
        BY <3>1 DEF r
      <4>2. Tracks(to, F[n + 1], s, K \cap 1..n + 1)
        BY <3>3, <3>4, <3>5, <3>7, <4>1 DEF r, Tracks
      <4> QED
        BY <3>1, <4>2, Zenon DEF Fits, r
  <2> QED
    BY <2>5, <2>6
<1>5. S = Nat
  BY <1>3, <1>4, InductionOver
<1>6. Len(s) \in S
  BY <1>1, <1>5
<1>7. Fits(Len(s))
  BY <1>1, <1>6
<1> QED
  BY <1>7 DEF Fits

(* What a sequence is over is what its elements are in.                    *)
LEMMA SeqOver ==
  ASSUME NEW E, NEW s \in Seq(E), NEW F, \A i \in 1..Len(s) : s[i] \in F
  PROVE  s \in Seq(F)
<1>1. s = [i \in 1..Len(s) |-> s[i]] /\ Len(s) \in Nat
  OBVIOUS
<1>2. [i \in 1..Len(s) |-> s[i]] \in Seq(F)
  BY <1>1
<1> QED
  BY <1>1, <1>2

(* A sequence without its last element.                                    *)
LEMMA FrontSeq ==
  ASSUME NEW E, NEW s \in Seq(E), s # <<>>
  PROVE  /\ Len(s) \in Nat \ {0}
         /\ Last(s) = s[Len(s)] /\ s[Len(s)] \in E
         /\ Front(s) \in Seq(E) /\ Len(Front(s)) = Len(s) - 1
         /\ \A i \in 1..Len(s) - 1 : Front(s)[i] = s[i]
<1>1. Len(s) \in Nat \ {0} /\ Len(s) \in 1..Len(s)
  BY EmptySeq, SMT
<1>2. \A i \in 1..Len(s) - 1 : s[i] \in E
  BY <1>1
<1>3. /\ SubSeq(s, 1, Len(s) - 1) \in Seq(E)
      /\ Len(SubSeq(s, 1, Len(s) - 1)) = IF 1 <= Len(s) - 1 THEN (Len(s) - 1) - 1 + 1 ELSE 0
      /\ \A i \in 1..(Len(s) - 1) - 1 + 1 : SubSeq(s, 1, Len(s) - 1)[i] = s[1 + i - 1]
  BY <1>1, <1>2, SubSeqProperties
<1>4. Front(s) = SubSeq(s, 1, Len(s) - 1) /\ Last(s) = s[Len(s)]
  BY DEF Front, Last
<1>5. Front(s) \in Seq(E) /\ Len(Front(s)) = Len(s) - 1
  <2>1. \A n \in Nat \ {0} : (IF 1 <= n - 1 THEN (n - 1) - 1 + 1 ELSE 0) = n - 1
    OBVIOUS
  <2> QED
    BY <1>1, <1>3, <1>4, <2>1, Zenon
<1>6. ASSUME NEW i \in 1..Len(s) - 1 PROVE Front(s)[i] = s[i]
  <2>1. 1 + i - 1 = i /\ i \in 1..(Len(s) - 1) - 1 + 1
    BY <1>1, SMT
  <2> QED
    BY <1>3, <1>4, <2>1
<1> QED
  BY <1>1, <1>4, <1>5, <1>6

(* A piece of a sequence.                                                  *)
LEMMA PieceOf ==
  ASSUME NEW E, NEW s \in Seq(E), NEW m \in Nat \ {0}, NEW n \in Nat,
         m <= n + 1, n <= Len(s)
  PROVE  /\ SubSeq(s, m, n) \in Seq(E)
         /\ Len(SubSeq(s, m, n)) = n - m + 1
         /\ \A i \in 1..n - m + 1 :
              m - 1 + i \in 1..Len(s) /\ SubSeq(s, m, n)[i] = s[m - 1 + i]
<1>1. \A i \in m..n : s[i] \in E
  BY SMT
<1>2. /\ SubSeq(s, m, n) \in Seq(E)
      /\ Len(SubSeq(s, m, n)) = IF m <= n THEN n - m + 1 ELSE 0
      /\ \A i \in 1..n - m + 1 : SubSeq(s, m, n)[i] = s[m + i - 1]
  BY <1>1, SubSeqProperties
<1>3. (IF m <= n THEN n - m + 1 ELSE 0) = n - m + 1
  BY SMT
<1>4. \A i \in 1..n - m + 1 : m + i - 1 = m - 1 + i /\ m - 1 + i \in 1..Len(s)
  BY SMT
<1> QED
  BY <1>2, <1>3, <1>4, Zenon

(* What a filter leaves is in the order it was.                            *)
LEMMA PickedFacts ==
  ASSUME NEW E, NEW s \in Seq(E), NEW K
  PROVE  /\ Picked(s, K) \in Seq(E)
         /\ \E at : Tracks(at, Picked(s, K), s, K \cap 1..Len(s))
<1> DEFINE F == CHOOSE F : Collects(F, s, K)
<1>1. Collects(F, s, K)
  BY CollectExists
<1>2. Picked(s, K) = F[Len(s)]
  BY Zenon DEF Picked, Collects
<1> HIDE DEF F
<1> QED
  BY <1>1, <1>2, CollectFacts

(* Each element of q was one of s at a position in P.                      *)
DrawnFrom(q, s, P) == \A j \in 1..Len(q) : \E i \in P : q[j] = s[i]

LEMMA PickedWanted ==
  ASSUME NEW E, NEW s \in Seq(E), NEW K
  PROVE  DrawnFrom(Picked(s, K), s, K \cap 1..Len(s))
<1> DEFINE q == Picked(s, K)
           P == K \cap 1..Len(s)
<1>1. \E at : Tracks(at, q, s, P)
  BY PickedFacts
<1> HIDE DEF q, P
<1>2. DrawnFrom(q, s, P)
  BY <1>1 DEF Tracks, DrawnFrom
<1> QED
  BY <1>2 DEF q, P

(* A filter that wants the last element leaves it last.                    *)
LEMMA PickedEnds ==
  ASSUME NEW E, NEW s \in Seq(E), NEW K
  PROVE  Len(s) \in K /\ s # <<>> =>
           /\ Picked(s, K) # <<>>
           /\ Picked(s, K)[Len(Picked(s, K))] = s[Len(s)]
<1> DEFINE q == Picked(s, K)
           P == K \cap 1..Len(s)
<1>1. q \in Seq(E) /\ \E at : Tracks(at, q, s, P)
  BY PickedFacts
<1> HIDE DEF q, P
<1>2. PICK at \in [1..Len(q) -> P] :
        /\ \A j \in 1..Len(q) : q[j] = s[at[j]]
        /\ \A i, j \in 1..Len(q) : i < j => at[i] < at[j]
        /\ \A i \in P : \E j \in 1..Len(q) : at[j] = i
  BY <1>1 DEF Tracks
<1>3. ASSUME Len(s) \in K, s # <<>> PROVE q # <<>> /\ q[Len(q)] = s[Len(s)]
  <2>1. Len(s) \in P /\ \A i \in P : i \in 1..Len(s)
    BY <1>3, EmptySeq DEF P
  <2>2. PICK j \in 1..Len(q) : at[j] = Len(s)
    BY <1>2, <2>1
  <2>3. Len(q) \in 1..Len(q) /\ (j = Len(q) \/ j < Len(q))
    BY <1>1, <2>2
  <2>4. at[Len(q)] \in 1..Len(s)
    BY <1>2, <2>1, <2>3
  <2>5. ~(j < Len(q))
    BY <1>2, <2>2, <2>3, <2>4
  <2> QED
    BY <1>2, <2>2, <2>3, <2>5
<1> QED
  BY <1>3, Zenon DEF q

(* A filter makes nothing longer.                                          *)
LEMMA PickedNoLonger ==
  ASSUME NEW E, NEW s \in Seq(E), NEW K
  PROVE  Len(Picked(s, K)) <= Len(s)
<1> DEFINE q == Picked(s, K)
           P == K \cap 1..Len(s)
<1>1. q \in Seq(E) /\ \E at : Tracks(at, q, s, P)
  BY PickedFacts
<1>2. P \subseteq 1..Len(s) /\ Len(s) \in Nat
  OBVIOUS
<1> HIDE DEF q, P
<1>3. PICK at \in [1..Len(q) -> P] : \A i, j \in 1..Len(q) : i < j => at[i] < at[j]
  BY <1>1 DEF Tracks
<1>4. Len(q) \in Nat /\ \A j \in 1..Len(q) : at[j] \in 1..Len(s)
  <2>1. \A j \in 1..Len(q) : at[j] \in P
    BY <1>3
  <2>2. \A j \in 1..Len(q) : at[j] \in 1..Len(s)
    BY Zenon, <1>2, <2>1
  <2>3. Len(q) \in Nat
    BY <1>1
  <2> QED
    BY <2>2, <2>3
<1> DEFINE S == {n \in Nat : n \in 1..Len(q) => n <= at[n]}
<1>5. 0 \in S
  OBVIOUS
<1>6. ASSUME NEW n \in S PROVE n + 1 \in S
  <2> SUFFICES ASSUME n + 1 \in 1..Len(q) PROVE n + 1 <= at[n + 1]
    OBVIOUS
  <2>1. at[n + 1] \in 1..Len(s)
    BY <1>4
  <2>2. CASE n = 0
    BY <2>1, <2>2
  <2>3. CASE n # 0
    <3>1. n \in 1..Len(q) /\ n < n + 1
      BY <1>4, <2>3
    <3>2. n <= at[n] /\ at[n] < at[n + 1] /\ at[n] \in 1..Len(s)
      BY <1>3, <1>4, <3>1
    <3> QED
      BY <2>1, <3>2
  <2> QED
    BY <2>2, <2>3
<1>7. S = Nat
  BY <1>5, <1>6, InductionOver
<1>8. Len(q) <= Len(s)
  <2>1. CASE Len(q) = 0
    BY <1>2, <2>1
  <2>2. CASE Len(q) # 0
    <3>1. Len(q) \in 1..Len(q) /\ Len(q) \in S
      BY <1>4, <1>7, <2>2
    <3> QED
      BY <1>2, <1>4, <3>1
  <2> QED
    BY <2>1, <2>2
<1> QED
  BY <1>8 DEF q

(* A sequence that holds nothing twice.                                    *)
Once(s, E) == s \in Seq(E) /\ IsInjective(s)

LEMMA OnceIs ==
  ASSUME NEW E, NEW s
  PROVE  Once(s, E) <=> /\ s \in Seq(E)
                        /\ \A i, j \in 1..Len(s) : s[i] = s[j] => i = j
<1>1. s \in Seq(E) => DOMAIN s = 1..Len(s)
  OBVIOUS
<1> QED
  BY <1>1 DEF Once, IsInjective

LEMMA RangeIs ==
  ASSUME NEW E, NEW s \in Seq(E)
  PROVE  /\ \A x : x \in Range(s) <=> \E i \in 1..Len(s) : s[i] = x
         /\ Range(s) \subseteq E
<1>1. DOMAIN s = 1..Len(s) /\ \A i \in 1..Len(s) : s[i] \in E
  BY ElementOfSeq
<1> QED
  BY <1>1 DEF Range

LEMMA OnceWider ==
  ASSUME NEW E, NEW s, Once(s, E), NEW F, E \subseteq F
  PROVE  Once(s, F)
<1>1. s \in Seq(F)
  BY ElementOfSeq DEF Once
<1> QED
  BY <1>1 DEF Once

LEMMA OnceCounts ==
  ASSUME NEW E, NEW s, Once(s, E)
  PROVE  /\ IsFiniteSet(Range(s)) /\ Cardinality(Range(s)) = Len(s)
         /\ Range(s) \subseteq E /\ Len(s) \in Nat
<1> DEFINE n == Len(s)
           R == Range(s)
<1>1. /\ s \in Seq(E) /\ n \in Nat /\ DOMAIN s = 1..n
      /\ \A i, j \in 1..n : s[i] = s[j] => i = j
  BY OnceIs DEF Once
<1>2. s = [i \in 1..n |-> s[i]] /\ \A i \in 1..n : s[i] \in R
  BY <1>1 DEF Range
<1>3. s \in [1..n -> R] /\ \A x \in R : \E i \in 1..n : s[i] = x
  BY <1>1, <1>2 DEF Range
<1> HIDE DEF n, R
<1>4. s \in Surjection(1..n, R) /\ s \in Injection(1..n, R)
  <2>1. IsInjective(s)
    BY <1>1 DEF IsInjective
  <2> QED
    BY <1>3, <2>1 DEF Surjection, Injection
<1>5. IsFiniteSet(1..n) /\ Cardinality(1..n) = n
  <2>1. IsFiniteSet(1..n) /\ Cardinality(1..n) = IF 1 > n THEN 0 ELSE n - 1 + 1
    BY <1>1, FS_Interval
  <2> QED
    BY <1>1, <2>1
<1>6. IsFiniteSet(R) /\ Cardinality(R) = Cardinality(1..n)
  BY <1>4, <1>5, FS_Surjection
<1> QED
  BY <1>1, <1>5, <1>6, RangeIs DEF R, n

LEMMA AppendOnce ==
  ASSUME NEW E, NEW s, Once(s, E), NEW e \in E, e \notin Range(s)
  PROVE  /\ Once(Append(s, e), E)
         /\ Range(Append(s, e)) = Range(s) \cup {e}
         /\ Len(Append(s, e)) = Len(s) + 1
<1> DEFINE t == Append(s, e)
           n == Len(s)
<1>1. /\ s \in Seq(E) /\ n \in Nat
      /\ \A i, j \in 1..n : s[i] = s[j] => i = j
  BY OnceIs DEF Once
<1>2. /\ t \in Seq(E) /\ Len(t) = n + 1
      /\ \A i \in 1..n : t[i] = s[i]
      /\ t[n + 1] = e
  BY <1>1, AppendProperties
<1>3. \A i \in 1..n : s[i] # e
  BY <1>1, RangeIs
<1> HIDE DEF t, n
<1>4. \A i \in 1..n + 1 : i \in 1..n \/ i = n + 1
  BY <1>1
<1>5. \A i, j \in 1..n + 1 : t[i] = t[j] => i = j
  BY <1>1, <1>2, <1>3, <1>4
<1>6. Range(t) = Range(s) \cup {e}
  <2>1. \A x : x \in Range(t) <=> \E i \in 1..n + 1 : t[i] = x
    BY <1>2, RangeIs
  <2>2. \A x : x \in Range(s) <=> \E i \in 1..n : s[i] = x
    BY <1>1, RangeIs DEF n
  <2>3. \A i \in 1..n : i \in 1..n + 1
    BY <1>1
  <2>4. n + 1 \in 1..n + 1
    BY <1>1
  <2> QED
    BY <1>2, <1>4, <2>1, <2>2, <2>3, <2>4
<1> QED
  BY <1>2, <1>5, <1>6, OnceIs DEF t, n

LEMMA TailOnce ==
  ASSUME NEW E, NEW s, Once(s, E), s # <<>>
  PROVE  /\ Once(Tail(s), E)
         /\ Head(s) \in Range(s)
         /\ Range(Tail(s)) = Range(s) \ {Head(s)}
<1> DEFINE t == Tail(s)
           h == Head(s)
           n == Len(s)
<1>1. /\ s \in Seq(E) /\ n \in Nat \ {0} /\ h = s[1]
      /\ \A i, j \in 1..n : s[i] = s[j] => i = j
  BY OnceIs, EmptySeq DEF Once
<1>2. /\ t \in Seq(E) /\ Len(t) = n - 1
      /\ \A i \in 1..n - 1 : t[i] = s[i + 1]
  BY <1>1, HeadTailProperties
<1> HIDE DEF t, h, n
<1>3. \A i \in 1..n - 1 : i + 1 \in 1..n /\ i + 1 # 1
  BY <1>1
<1>4. \A i, j \in 1..n - 1 : t[i] = t[j] => i = j
  BY <1>1, <1>2, <1>3
<1>5. \A x : x \in Range(s) <=> \E i \in 1..n : s[i] = x
  BY <1>1, RangeIs DEF n
<1>6. 1 \in 1..n
  BY <1>1
<1>7. Range(t) = Range(s) \ {h}
  <2>1. \A x : x \in Range(t) <=> \E i \in 1..n - 1 : t[i] = x
    BY <1>2, RangeIs
  <2>2. \A i \in 1..n : i = 1 \/ (i - 1 \in 1..n - 1 /\ (i - 1) + 1 = i)
    BY <1>1
  <2>3. ASSUME NEW x \in Range(t) PROVE x \in Range(s) \ {h}
    <3>1. PICK i \in 1..n - 1 : s[i + 1] = x
      BY <1>2, <2>1
    <3> QED
      BY <1>1, <1>3, <1>5, <1>6, <3>1
  <2>4. ASSUME NEW x \in Range(s) \ {h} PROVE x \in Range(t)
    <3>1. PICK i \in 1..n : s[i] = x
      BY <1>5
    <3>2. i - 1 \in 1..n - 1 /\ t[i - 1] = x
      BY <1>1, <1>2, <2>2, <3>1
    <3> QED
      BY <2>1, <3>2
  <2> QED
    BY <2>3, <2>4
<1> QED
  BY <1>1, <1>2, <1>4, <1>5, <1>6, <1>7, OnceIs DEF t, h

LEMMA ConcatOnce ==
  ASSUME NEW E, NEW s, Once(s, E), NEW t, Once(t, E), Range(s) \cap Range(t) = {}
  PROVE  /\ Once(s \o t, E)
         /\ Range(s \o t) = Range(s) \cup Range(t)
<1> DEFINE u == s \o t
           n == Len(s)
           m == Len(t)
<1>1. /\ s \in Seq(E) /\ n \in Nat /\ t \in Seq(E) /\ m \in Nat
      /\ \A i, j \in 1..n : s[i] = s[j] => i = j
      /\ \A i, j \in 1..m : t[i] = t[j] => i = j
  BY OnceIs DEF Once
<1>2. /\ u \in Seq(E) /\ Len(u) = n + m
      /\ \A i \in 1..n + m : u[i] = IF i <= n THEN s[i] ELSE t[i - n]
  BY <1>1, ConcatProperties
<1>3. /\ \A x : x \in Range(s) <=> \E i \in 1..n : s[i] = x
      /\ \A x : x \in Range(t) <=> \E i \in 1..m : t[i] = x
  BY <1>1, RangeIs
<1> HIDE DEF u, n, m
<1>4. \A x : x \in Range(u) <=> \E i \in 1..n + m : u[i] = x
  BY <1>2, RangeIs
<1>5. \A i \in 1..n + m : \/ i \in 1..n /\ u[i] = s[i]
                          \/ i - n \in 1..m /\ u[i] = t[i - n]
  BY <1>1, <1>2
<1>6. \A i \in 1..n : i \in 1..n + m /\ u[i] = s[i]
  BY <1>1, <1>2
<1>7. \A i \in 1..m : n + i \in 1..n + m /\ u[n + i] = t[i]
  <2> TAKE i \in 1..m
  <2>1. n + i \in 1..n + m /\ ~(n + i <= n) /\ (n + i) - n = i
    BY <1>1
  <2> QED
    BY <1>2, <2>1
<1>8. \A i, j \in 1..n + m : u[i] = u[j] => i = j
  <2> TAKE i, j \in 1..n + m
  <2> HAVE u[i] = u[j]
  <2>1. \A k \in 1..n, l \in 1..m : s[k] # t[l]
    BY <1>3
  <2>2. \/ i \in 1..n /\ j \in 1..n /\ s[i] = s[j]
        \/ i - n \in 1..m /\ j - n \in 1..m /\ t[i - n] = t[j - n]
    BY <1>5, <2>1
  <2>3. i \in Int /\ j \in Int /\ n \in Int /\ (i - n = j - n => i = j)
    BY <1>1
  <2> QED
    BY <1>1, <2>2, <2>3
<1>9. Range(u) = Range(s) \cup Range(t)
  BY <1>3, <1>4, <1>5, <1>6, <1>7
<1> QED
  BY <1>2, <1>8, <1>9, OnceIs DEF u

LEMMA PieceOnce ==
  ASSUME NEW E, NEW s, Once(s, E), NEW n \in 0..Len(s)
  PROVE  /\ Once(SubSeq(s, 1, n), E)
         /\ Range(SubSeq(s, 1, n)) \subseteq Range(s)
         /\ Len(SubSeq(s, 1, n)) = n
<1> DEFINE t == SubSeq(s, 1, n)
<1>1. /\ s \in Seq(E) /\ Len(s) \in Nat
      /\ \A i, j \in 1..Len(s) : s[i] = s[j] => i = j
  BY OnceIs DEF Once
<1>2. n \in Nat /\ 1 \in Nat \ {0} /\ 1 <= n + 1 /\ n <= Len(s) /\ n - 1 + 1 = n
  BY <1>1
<1>3. /\ t \in Seq(E) /\ Len(t) = n - 1 + 1
      /\ \A i \in 1..n - 1 + 1 : 1 - 1 + i \in 1..Len(s) /\ t[i] = s[1 - 1 + i]
  BY <1>1, <1>2, PieceOf
<1>4. Len(t) = n /\ \A i \in 1..n : i \in 1..Len(s) /\ t[i] = s[i]
  BY <1>2, <1>3
<1> HIDE DEF t
<1>5. Once(t, E)
  BY <1>1, <1>3, <1>4, OnceIs
<1>6. Range(t) \subseteq Range(s)
  BY <1>1, <1>3, <1>4, RangeIs
<1> QED
  BY <1>4, <1>5, <1>6 DEF t
===============================================================================
