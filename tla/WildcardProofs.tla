-------------------------- MODULE WildcardProofs --------------------------
(***************************************************************************)
(* What wildcard_match answers, for every pattern and every text.          *)
(*                                                                         *)
(* Ends, which the matcher is held against, lists where a part of the      *)
(* pattern may end in the text; it is shown to be well defined first       *)
(* (EndsDefined), then read off rule by rule as what a call WANTS: without *)
(* partial the end it was asked for, with partial the first one.           *)
(*                                                                         *)
(* The matcher is a stack of frames.  Of each frame it is sure that what   *)
(* is left for it to do wants exactly what its call wants, or that the     *)
(* first call on its list that has something has what its call wants; of   *)
(* the memo, that what it remembers has really failed (MatcherOK).  The    *)
(* greedy loop is sure that the whole text matches exactly when the rest   *)
(* behind the last star matches from the present start or a later one,     *)
(* and that whatever start works, works with what was read since (GlobOK). *)
(* Prefix and suffix, compared first, split the text as they split the     *)
(* pattern (EndsCompared).  WildcardInv joins these, phase by phase.       *)
(*                                                                         *)
(* A search is sure that of the starts behind its last match none that     *)
(* counts comes before the first one that counts and is left to try        *)
(* (LeftToTry), whichever starts it skips.                                 *)
(***************************************************************************)
EXTENDS Wildcard, SequenceTheorems, FiniteSetTheorems, WellFoundedInduction, TLAPS

(* Every set of natural numbers that is not empty has a least one.         *)
LEMMA LeastNumber ==
  ASSUME NEW S \in SUBSET Nat, S # {}
  PROVE  \E m \in S : \A n \in S : m <= n
<1>1. IsWellFoundedOn(OpToRel(<, Nat), Nat)
  BY NatLessThanWellFounded
<1>2. PICK m \in S : \A n \in S : ~(<<n, m>> \in OpToRel(<, Nat))
  BY <1>1, WFMin
<1>3. ASSUME NEW n \in S PROVE m <= n
  <2>1. m \in Nat /\ n \in Nat
    OBVIOUS
  <2>2. ~(n < m)
    BY <1>2, <2>1 DEF OpToRel
  <2> QED BY <2>1, <2>2
<1> QED BY <1>3

(* Induction over the numbers, for a set.                                  *)
LEMMA SetInduction ==
  ASSUME NEW S, 0 \in S, \A n \in Nat : n \in S => n + 1 \in S
  PROVE  Nat \subseteq S
<1> SUFFICES ASSUME Nat \ S # {} PROVE FALSE
  OBVIOUS
<1>1. PICK m \in Nat \ S : \A n \in Nat \ S : m <= n
  BY LeastNumber
<1>2. m # 0 /\ m - 1 \in Nat /\ (m - 1) + 1 = m /\ ~(m <= m - 1)
  BY <1>1
<1>3. m - 1 \in S
  BY <1>1, <1>2
<1> QED BY <1>1, <1>2, <1>3
-----------------------------------------------------------------------------
(* InOrder lists a finite set of numbers.                                  *)
LEMMA InOrderLists ==
  ASSUME NEW S \in SUBSET Int, IsFiniteSet(S)
  PROVE  /\ Cardinality(S) \in Nat
         /\ InOrder(S) \in [1 .. Cardinality(S) -> S]
         /\ \A x \in S : \E k \in 1 .. Cardinality(S) : InOrder(S)[k] = x
         /\ \A j, k \in 1 .. Cardinality(S) : j < k => InOrder(S)[j] < InOrder(S)[k]
<1> DEFINE Upto(i) == {j \in S : j <= i}
           N == Cardinality(S)
           rank == [i \in S |-> Cardinality(Upto(i))]
<1>1. N \in Nat
  BY FS_CardinalityType
<1>2. ASSUME NEW i \in S PROVE IsFiniteSet(Upto(i)) /\ Cardinality(Upto(i)) \in 1 .. N
  <2>1. IsFiniteSet(Upto(i)) /\ Cardinality(Upto(i)) <= N
    BY FS_Subset
  <2>2. Cardinality(Upto(i)) \in Nat
    BY <2>1, FS_CardinalityType
  <2>3. i \in Upto(i)
    OBVIOUS
  <2>4. Cardinality(Upto(i)) # 0
    BY <2>1, <2>3, FS_EmptySet
  <2> QED BY <2>1, <2>2, <2>4, <1>1
<1>3. ASSUME NEW i \in S, NEW j \in S, i < j PROVE Cardinality(Upto(i)) < Cardinality(Upto(j))
  <2>0. i \in Int /\ j \in Int /\ \A k \in S : k \in Int
    OBVIOUS
  <2>1. Upto(i) \subseteq Upto(j)
    <3>1. \A k \in S : k <= i => k <= j
      BY <1>3, <2>0
    <3> QED BY <3>1
  <2>2. j \in Upto(j) /\ j \notin Upto(i)
    BY <1>3
  <2>3. Cardinality(Upto(i)) <= Cardinality(Upto(j)) /\ (Cardinality(Upto(j)) = Cardinality(Upto(i)) => Upto(j) = Upto(i))
    <3> HIDE DEF Upto
    <3> QED BY <2>1, <1>2, FS_Subset
  <2>4. Cardinality(Upto(i)) # Cardinality(Upto(j))
    <3> HIDE DEF Upto
    <3> QED BY <2>2, <2>3
  <2>5. Cardinality(Upto(i)) \in 1 .. N /\ Cardinality(Upto(j)) \in 1 .. N
    BY <1>2
  <2> HIDE DEF Upto
  <2> QED BY <1>1, <2>3, <2>4, <2>5
<1>4. rank \in [S -> 1 .. N]
  BY <1>2
<1>5. ASSUME NEW i \in S, NEW j \in S, rank[i] = rank[j] PROVE i = j
  <2>1. rank[i] = Cardinality(Upto(i)) /\ rank[j] = Cardinality(Upto(j)) /\ rank[i] \in 1 .. N
    BY <1>4
  <2>2. i < j \/ j < i \/ i = j
    OBVIOUS
  <2>5. Cardinality(Upto(i)) \in Int /\ Cardinality(Upto(i)) = Cardinality(Upto(j))
    BY <2>1, <1>5
  <2> HIDE DEF rank, Upto
  <2>3. CASE i < j
    BY <2>3, <2>5, <1>3
  <2>4. CASE j < i
    <3>1. Cardinality(Upto(j)) < Cardinality(Upto(i))
      BY <2>4, <1>3
    <3> QED BY <3>1, <2>5
  <2> QED BY <2>2, <2>3, <2>4
<1>6. rank \in Injection(S, 1 .. N)
  <2> HIDE DEF rank
  <2> QED BY <1>4, <1>5 DEF Injection, IsInjective
<1>7. IsFiniteSet(1 .. N) /\ Cardinality(1 .. N) = N
  BY <1>1, FS_Interval
<1>8. rank \in Surjection(S, 1 .. N)
  <2> HIDE DEF rank
  <2> QED BY <1>6, <1>7, FS_Injection
<1>9. \A k \in 1 .. N : \E i \in S : rank[i] = k
  <2> HIDE DEF rank
  <2> QED BY <1>8 DEF Surjection
<1>10. ASSUME NEW k \in 1 .. N PROVE InOrder(S)[k] \in S /\ rank[InOrder(S)[k]] = k
  <2>1. PICK i \in S : rank[i] = k
    BY <1>9
  <2>2. Cardinality({j \in S : j <= i}) = k
    BY <2>1
  <2>3. PICK x : x = (CHOOSE y \in S : Cardinality({j \in S : j <= y}) = k)
    OBVIOUS
  <2>4. x \in S /\ Cardinality({j \in S : j <= x}) = k
    BY <2>2, <2>3
  <2>5. InOrder(S)[k] = x
    BY <2>3 DEF InOrder
  <2> QED BY <2>4, <2>5
<1>11. InOrder(S) \in [1 .. N -> S]
  <2>1. InOrder(S) = [k \in 1 .. N |-> CHOOSE i \in S : Cardinality({j \in S : j <= i}) = k]
    BY DEF InOrder
  <2>2. PICK o : o = InOrder(S)
    OBVIOUS
  <2>3. DOMAIN o = 1 .. N /\ o = [k \in DOMAIN o |-> o[k]]
    BY <2>1, <2>2
  <2>4. \A k \in 1 .. N : o[k] \in S
    BY <2>2, <1>10
  <2>5. o \in [1 .. N -> S]
    BY <2>3, <2>4
  <2> QED BY <2>2, <2>5
<1>12. ASSUME NEW x \in S PROVE \E k \in 1 .. N : InOrder(S)[k] = x
  <2>1. rank[x] \in 1 .. N
    BY <1>4
  <2> HIDE DEF rank
  <2>2. InOrder(S)[rank[x]] \in S /\ rank[InOrder(S)[rank[x]]] = rank[x]
    BY <2>1, <1>10
  <2> QED BY <2>1, <2>2, <1>5
<1>13. ASSUME NEW j \in 1 .. N, NEW k \in 1 .. N, j < k PROVE InOrder(S)[j] < InOrder(S)[k]
  <2> DEFINE a == InOrder(S)[j]  b == InOrder(S)[k]
  <2>1. a \in S /\ b \in S /\ rank[a] = j /\ rank[b] = k
    BY <1>10
  <2> HIDE DEF a, b
  <2>2. a \in Int /\ b \in Int
    BY <2>1
  <2>3. Cardinality(Upto(a)) = j /\ Cardinality(Upto(b)) = k
    BY <2>1
  <2> HIDE DEF rank, Upto
  <2>4. ~(b < a) /\ b # a
    BY <2>1, <2>3, <1>3, <1>13
  <2>5. a < b
    BY <2>2, <2>4
  <2> QED BY <2>5 DEF a, b
<1> QED BY <1>1, <1>11, <1>12, <1>13
-----------------------------------------------------------------------------
(* FlattenSeq joins lists.                                                 *)
Joint(ss, f, n) == \A i \in 1 .. n : f[i] = IF i = 1 THEN ss[i] ELSE f[i - 1] \o ss[i]

(* Lists can be joined one after the other.                                *)
LEMMA JointExists ==
  ASSUME NEW S, NEW n \in Nat, NEW ss \in [1 .. n -> Seq(S)]
  PROVE  \E f \in [1 .. n -> Seq(S)] : Joint(ss, f, n)
<1> DEFINE Have == {m \in Nat : m <= n => \E f \in [1 .. m -> Seq(S)] : Joint(ss, f, m)}
<1>1. 0 \in Have
  <2>1. [i \in 1 .. 0 |-> <<>>] \in [1 .. 0 -> Seq(S)]
    OBVIOUS
  <2>2. Joint(ss, [i \in 1 .. 0 |-> <<>>], 0)
    BY DEF Joint
  <2> QED BY <2>1, <2>2
<1>2. ASSUME NEW m \in Nat, m \in Have PROVE m + 1 \in Have
  <2> SUFFICES ASSUME m + 1 <= n PROVE \E f \in [1 .. m + 1 -> Seq(S)] : Joint(ss, f, m + 1)
    OBVIOUS
  <2>1. PICK f \in [1 .. m -> Seq(S)] : Joint(ss, f, m)
    BY <1>2
  <2>2. ss[m + 1] \in Seq(S)
    OBVIOUS
  <2> DEFINE x == IF m + 1 = 1 THEN ss[m + 1] ELSE f[m] \o ss[m + 1]
             g == [i \in 1 .. m + 1 |-> IF i = m + 1 THEN x ELSE f[i]]
  <2>3. x \in Seq(S)
    <3>1. CASE m = 0
      BY <3>1, <2>2
    <3>2. CASE m # 0
      <4>1. f[m] \in Seq(S)
        BY <3>2
      <4>2. f[m] \o ss[m + 1] \in Seq(S)
        BY <4>1, <2>2, ConcatProperties
      <4> QED BY <3>2, <4>2
    <3> QED BY <3>1, <3>2
  <2>4. g \in [1 .. m + 1 -> Seq(S)]
    <3> HIDE DEF x
    <3>1. \A i \in 1 .. m + 1 : i # m + 1 => i \in 1 .. m
      OBVIOUS
    <3> QED BY <2>3, <3>1
  <2>5. ASSUME NEW i \in 1 .. m + 1 PROVE g[i] = IF i = 1 THEN ss[i] ELSE g[i - 1] \o ss[i]
    <3>1. CASE i = m + 1
      <4>1. i # 1 => g[i - 1] = f[m]
        BY <3>1
      <4> QED BY <3>1, <4>1
    <3>2. CASE i # m + 1
      <4>1. i \in 1 .. m /\ (i # 1 => i - 1 \in 1 .. m)
        BY <3>2
      <4>2. g[i] = f[i] /\ (i # 1 => g[i - 1] = f[i - 1])
        BY <4>1, <3>2
      <4> HIDE DEF g
      <4>3. f[i] = IF i = 1 THEN ss[i] ELSE f[i - 1] \o ss[i]
        BY <4>1, <2>1 DEF Joint
      <4> QED BY <4>2, <4>3
    <3> QED BY <3>1, <3>2
  <2> HIDE DEF g
  <2>6. Joint(ss, g, m + 1)
    BY <2>5 DEF Joint
  <2> QED BY <2>4, <2>6
<1>3. n \in Have
  <2> HIDE DEF Have
  <2> QED BY <1>1, <1>2, SetInduction
<1> QED BY <1>3

(* What is wanted of a list of ends: its first one, or the one that is n.  *)
Want(s, n, partial) == IF partial THEN IF s = <<>> THEN {} ELSE {Head(s)} ELSE {n} \cap Range(s)

(* Of several answers in order, the first that is one.                     *)
First(v, m, w) ==
  \/ w = {} /\ \A k \in 1 .. m : v[k] = {}
  \/ \E k \in 1 .. m : w = v[k] /\ w # {} /\ \A j \in 1 .. k - 1 : v[j] = {}

(* What a list joined of two holds is what either of them holds.           *)
LEMMA ConcatRange ==
  ASSUME NEW S, NEW s \in Seq(S), NEW t \in Seq(S)
  PROVE  s \o t \in Seq(S) /\ Range(s \o t) = Range(s) \cup Range(t)
<1>1. s \o t \in Seq(S) /\ Len(s \o t) = Len(s) + Len(t)
      /\ \A k \in 1 .. Len(s) + Len(t) : (s \o t)[k] = IF k <= Len(s) THEN s[k] ELSE t[k - Len(s)]
  BY ConcatProperties
<1>2. DOMAIN s = 1 .. Len(s) /\ DOMAIN t = 1 .. Len(t) /\ DOMAIN (s \o t) = 1 .. Len(s) + Len(t)
      /\ Len(s) \in Nat /\ Len(t) \in Nat
  BY <1>1
<1>3. ASSUME NEW x \in Range(s \o t) PROVE x \in Range(s) \cup Range(t)
  <2>1. PICK k \in 1 .. Len(s) + Len(t) : (s \o t)[k] = x
    BY <1>2, <1>3 DEF Range
  <2>2. CASE k <= Len(s)
    <3>1. s[k] = x /\ k \in DOMAIN s
      BY <2>1, <2>2, <1>1, <1>2
    <3> QED BY <3>1 DEF Range
  <2>3. CASE ~(k <= Len(s))
    <3>1. t[k - Len(s)] = x /\ k - Len(s) \in DOMAIN t
      BY <2>1, <2>3, <1>1, <1>2
    <3> QED BY <3>1 DEF Range
  <2> QED BY <2>2, <2>3
<1>4. ASSUME NEW x \in Range(s) PROVE x \in Range(s \o t)
  <2>1. PICK k \in DOMAIN s : s[k] = x
    BY <1>4 DEF Range
  <2>2. k \in 1 .. Len(s) + Len(t) /\ (s \o t)[k] = x
    BY <2>1, <1>1, <1>2
  <2> QED BY <2>2, <1>2 DEF Range
<1>5. ASSUME NEW x \in Range(t) PROVE x \in Range(s \o t)
  <2>1. PICK k \in DOMAIN t : t[k] = x
    BY <1>5 DEF Range
  <2>2. PICK l \in 1 .. Len(s) + Len(t) : l = k + Len(s)
    <3>1. k \in 1 .. Len(t)
      BY <1>2, <2>1
    <3>2. k + Len(s) \in 1 .. Len(s) + Len(t)
      BY <3>1, <1>2
    <3> QED BY <3>2
  <2>3. ~(l <= Len(s)) /\ l - Len(s) = k
    BY <2>2, <1>2
  <2>4. (s \o t)[l] = x
    BY <2>1, <2>3, <1>1
  <2> QED BY <2>4, <1>2 DEF Range
<1> QED BY <1>1, <1>3, <1>4, <1>5

(* What is wanted of a list joined of two is what is wanted of the first,  *)
(* and if that has nothing, of the second.                                 *)
LEMMA ConcatWants ==
  ASSUME NEW S, NEW s \in Seq(S), NEW t \in Seq(S), NEW n, NEW partial \in BOOLEAN
  PROVE  Want(s \o t, n, partial) = IF Want(s, n, partial) # {} THEN Want(s, n, partial) ELSE Want(t, n, partial)
<1>1. CASE ~partial
  <2>1. Range(s \o t) = Range(s) \cup Range(t)
    BY ConcatRange
  <2> QED BY <1>1, <2>1 DEF Want
<1>2. CASE partial
  <2>1. CASE s = <<>>
    <3>1. s \o t = t
      BY <2>1, ConcatEmptySeq
    <3>2. Want(s, n, partial) = {}
      BY <2>1, <1>2 DEF Want
    <3> QED BY <3>1, <3>2
  <2>2. CASE s # <<>>
    <3>1. Len(s) \in Nat /\ Len(s) # 0 /\ Len(t) \in Nat
      BY <2>2, EmptySeq
    <3>2. Len(s \o t) = Len(s) + Len(t) /\ s \o t \in Seq(S)
          /\ \A k \in 1 .. Len(s) + Len(t) : (s \o t)[k] = IF k <= Len(s) THEN s[k] ELSE t[k - Len(s)]
      BY ConcatProperties
    <3>3. (s \o t)[1] = s[1]
      BY <3>1, <3>2
    <3>4. PICK c : c = s \o t
      OBVIOUS
    <3>5. Len(c) # 0 /\ c[1] = s[1] /\ c \in Seq(S)
      BY <3>1, <3>2, <3>3, <3>4
    <3>6. c # <<>> /\ Head(c) = s[1]
      BY <3>5, EmptySeq
    <3>7. Head(s) = s[1]
      BY <2>2
    <3>8. Want(c, n, partial) = {s[1]} /\ Want(s, n, partial) = {s[1]}
      BY <3>6, <3>7, <2>2, <1>2 DEF Want
    <3> QED BY <3>4, <3>8
  <2> QED BY <2>1, <2>2
<1> QED BY <1>1, <1>2

(* FlattenSeq, which folds, is the list joined step by step.               *)
LEMMA FlattenIsJoint ==
  ASSUME NEW S, NEW n \in Nat \ {0}, NEW ss \in [1 .. n -> Seq(S)]
  PROVE  \E f : Joint(ss, f, n) /\ FlattenSeq(ss) = f[n]
<1>0. Len(ss) = n
  OBVIOUS
<1> DEFINE Eq(f) == f = [i \in 1 .. n |-> IF i = 1 THEN ss[i] ELSE f[i - 1] \o ss[i]]
<1>1. FlattenSeq(ss) = (CHOOSE f : Eq(f))[n]
  BY <1>0 DEF FlattenSeq
<1>2. \E f : Eq(f)
  <2>1. PICK f \in [1 .. n -> Seq(S)] : Joint(ss, f, n)
    BY JointExists
  <2>2. Eq(f)
    BY <2>1 DEF Joint
  <2> QED BY <2>2
<1>3. PICK f : f = (CHOOSE h : Eq(h))
  OBVIOUS
<1>4. Eq(f)
  <2> HIDE DEF Eq
  <2> QED BY <1>2, <1>3
<1>5. Joint(ss, f, n)
  BY <1>4 DEF Joint
<1> HIDE DEF Eq
<1> QED BY <1>1, <1>3, <1>5

(* FlattenSeq joins lists: what is wanted of the list is what is wanted of *)
(* the first list that has it.                                             *)
LEMMA FlattenWants ==
  ASSUME NEW S, NEW n \in Nat, NEW ss \in [1 .. n -> Seq(S)], NEW m, NEW partial \in BOOLEAN, NEW v,
         \A b \in 1 .. n : v[b] = Want(ss[b], m, partial)
  PROVE  /\ FlattenSeq(ss) \in Seq(S)
         /\ First(v, n, Want(FlattenSeq(ss), m, partial))
<1>0. Len(ss) = n
  OBVIOUS
<1>1. CASE n = 0
  <2>1. FlattenSeq(ss) = ss /\ ss = <<>>
    BY <1>0, <1>1 DEF FlattenSeq
  <2>5. PICK none : none = <<>>
    OBVIOUS
  <2>2. none \in Seq(S) /\ Range(none) = {}
    <3>1. none \in Seq(S) /\ DOMAIN none = {}
      BY <2>5
    <3> QED BY <3>1 DEF Range
  <2>3. Want(none, m, partial) = {}
    BY <2>2, <2>5 DEF Want
  <2>4. \A k \in 1 .. n : v[k] = {}
    BY <1>1
  <2> QED BY <2>1, <2>2, <2>3, <2>4, <2>5 DEF First
<1>2. CASE n # 0
  <2>1. PICK f : Joint(ss, f, n) /\ FlattenSeq(ss) = f[n]
    BY <1>2, FlattenIsJoint
  <2>2. \A i \in 1 .. n : f[i] = IF i = 1 THEN ss[i] ELSE f[i - 1] \o ss[i]
    BY <2>1 DEF Joint
  <2> DEFINE Good(i) == f[i] \in Seq(S) /\ First(v, i, Want(f[i], m, partial))
             Have == {i \in Nat : i + 1 <= n => Good(i + 1)}
  <2>3. 0 \in Have
    <3>1. f[1] = ss[1] /\ ss[1] \in Seq(S) /\ v[1] = Want(ss[1], m, partial)
      BY <2>2, <1>2
    <3>2. First(v, 1, v[1])
      BY DEF First
    <3> QED BY <3>1, <3>2
  <2>4. ASSUME NEW i \in Nat, i \in Have PROVE i + 1 \in Have
    <3> SUFFICES ASSUME (i + 1) + 1 <= n PROVE Good((i + 1) + 1)
      OBVIOUS
    <3>1. PICK j \in 1 .. n, k \in 1 .. n : j = (i + 1) + 1 /\ k = i + 1 /\ j = k + 1
      OBVIOUS
    <3>2. Good(k)
      BY <2>4, <3>1
    <3>3. f[j] = f[k] \o ss[j]
      <4>1. j # 1 /\ j - 1 = k
        BY <3>1
      <4> QED BY <2>2, <4>1
    <3>4. PICK s \in Seq(S), t \in Seq(S) : s = f[k] /\ t = ss[j] /\ f[j] = s \o t
      BY <3>2, <3>3
    <3>5. f[j] \in Seq(S)
      BY <3>4, ConcatRange
    <3>6. PICK x, y, z : x = Want(s, m, partial) /\ y = Want(t, m, partial) /\ z = Want(s \o t, m, partial)
      OBVIOUS
    <3>7. z = IF x # {} THEN x ELSE y
      BY <3>6, ConcatWants
    <3>8. First(v, k, x) /\ v[j] = y
      BY <3>2, <3>4, <3>6
    <3>9. First(v, j, z)
      <4>1. CASE x = {}
        <5>1. \A a \in 1 .. k : v[a] = {}
          BY <4>1, <3>8 DEF First
        <5>2. \A a \in 1 .. j - 1 : v[a] = {}
          BY <5>1, <3>1
        <5>3. \A a \in 1 .. j : a = j \/ a \in 1 .. j - 1
          BY <3>1
        <5>4. j \in 1 .. j
          BY <3>1
        <5>5. z = y
          BY <4>1, <3>7
        <5>6. CASE y = {}
          BY <5>2, <5>3, <5>5, <5>6, <3>8 DEF First
        <5>7. CASE y # {}
          BY <5>2, <5>4, <5>5, <5>7, <3>8 DEF First
        <5> QED BY <5>6, <5>7
      <4>2. CASE x # {}
        <5>1. z = x
          BY <4>2, <3>7
        <5>2. PICK a \in 1 .. k : x = v[a] /\ \A b \in 1 .. a - 1 : v[b] = {}
          BY <4>2, <3>8 DEF First
        <5>3. a \in 1 .. j
          BY <3>1, <5>2
        <5> QED BY <5>1, <5>2, <5>3, <4>2 DEF First
      <4> QED BY <4>1, <4>2
    <3>10. Good(j)
      BY <3>4, <3>5, <3>6, <3>9
    <3> HIDE DEF Good
    <3> QED BY <3>1, <3>10
  <2>5. Nat \subseteq Have
    <3> HIDE DEF Have
    <3> QED BY <2>3, <2>4, SetInduction
  <2>6. Good(n)
    <3>1. n - 1 \in Nat /\ (n - 1) + 1 = n /\ (n - 1) + 1 <= n
      BY <1>2
    <3>2. Good((n - 1) + 1)
      BY <2>5, <3>1
    <3> HIDE DEF Good
    <3> QED BY <3>1, <3>2
  <2> QED BY <2>1, <2>6
<1> QED BY <1>1, <1>2

(* What is wanted is an end; an end is wanted when the text ends there.    *)
LEMMA WantsAreEnds ==
  ASSUME NEW S, NEW s \in Seq(S), NEW n, NEW partial \in BOOLEAN
  PROVE  /\ Want(s, n, partial) \in SUBSET Range(s)
         /\ partial = FALSE => Want(s, n, partial) \in SUBSET {n}
         /\ \A x, y \in Want(s, n, partial) : x = y
         /\ n \in Range(s) <=> Want(s, n, FALSE) # {}
         /\ partial = TRUE => (Range(s) = {} <=> Want(s, n, partial) = {})
<1>1. CASE s = <<>>
  <2>1. Range(s) = {}
    BY <1>1 DEF Range
  <2> QED BY <1>1, <2>1 DEF Want
<1>2. CASE s # <<>>
  <2>1. Len(s) \in Nat /\ Len(s) # 0 /\ DOMAIN s = 1 .. Len(s) /\ Head(s) = s[1]
    BY <1>2, EmptySeq
  <2>2. 1 \in DOMAIN s
    BY <2>1
  <2>3. Head(s) \in Range(s)
    BY <2>1, <2>2 DEF Range
  <2> QED BY <1>2, <2>3 DEF Want
<1> QED BY <1>1, <1>2

(* The list is one of the items of the lists, and has every item of every  *)
(* list.                                                                   *)
LEMMA FlattenJoins ==
  ASSUME NEW S, NEW n \in Nat, NEW ss \in [1 .. n -> Seq(S)]
  PROVE  /\ FlattenSeq(ss) \in Seq(S)
         /\ \A x : x \in Range(FlattenSeq(ss)) <=> \E b \in 1 .. n : x \in Range(ss[b])
<1> SUFFICES ASSUME NEW x
             PROVE  FlattenSeq(ss) \in Seq(S)
                    /\ (x \in Range(FlattenSeq(ss)) <=> \E b \in 1 .. n : x \in Range(ss[b]))
  OBVIOUS
<1>1. PICK v : v = [b \in 1 .. n |-> Want(ss[b], x, FALSE)]
  OBVIOUS
<1>2. \A b \in 1 .. n : v[b] = Want(ss[b], x, FALSE)
  BY <1>1
<1>3. PICK flat : flat = FlattenSeq(ss)
  OBVIOUS
<1>4. flat \in Seq(S) /\ First(v, n, Want(flat, x, FALSE))
  BY <1>2, <1>3, FlattenWants
<1>5. x \in Range(flat) <=> Want(flat, x, FALSE) # {}
  BY DEF Want
<1>6. \A b \in 1 .. n : x \in Range(ss[b]) <=> v[b] # {}
  BY <1>2 DEF Want
<1>7. Want(flat, x, FALSE) # {} <=> \E b \in 1 .. n : v[b] # {}
  <2>1. PICK w : w = Want(flat, x, FALSE)
    OBVIOUS
  <2>2. First(v, n, w)
    BY <1>4, <2>1
  <2>3. w # {} <=> \E b \in 1 .. n : v[b] # {}
    BY <2>2 DEF First
  <2> QED BY <2>1, <2>3
<1> QED BY <1>3, <1>4, <1>5, <1>6, <1>7
-----------------------------------------------------------------------------
(* What make_metadata guarantees: a bracket closes behind where it opens,  *)
(* or never; the branches of a closed group lie one behind the other in it.*)
BranchOK(b, p, close) ==
  /\ b.from \in Nat /\ b.to \in Nat
  /\ p < b.from /\ b.from <= b.to /\ b.to <= close
  /\ P(b.from - 1) # "\\"
  /\ b.max_length = IF Marks({"*"}, b.from, b.to) # {} THEN NO_LIMIT ELSE b.to - b.from

BranchesOK(p) ==
  \E n \in Nat :
    /\ DOMAIN plan.branches[p] = 1 .. n
    /\ \A k \in 1 .. n : BranchOK(plan.branches[p][k], p, plan.close_parens[p])

PlanOK ==
  /\ pat \in Seq(Range(Ascii)) /\ text \in Seq(Range(Ascii))
  /\ \A p \in 0 .. Size - 1 : P(p) = "[" =>
       /\ plan.close_brackets[p] \in p + 1 .. Size
       /\ plan.close_brackets[p] < Size => P(plan.close_brackets[p]) = "]"
  /\ \A p \in 0 .. Size - 1 : P(p) = "(" =>
       /\ plan.close_parens[p] \in p + 1 .. Size
       /\ plan.close_parens[p] < Size => P(plan.close_parens[p]) = ")" /\ BranchesOK(p)

(* FirstOf gives the least position of a set, and Size for none.           *)
LEMMA FirstIsLeast ==
  ASSUME NEW S \in SUBSET Nat
  PROVE  \/ S = {} /\ FirstOf(S) = Size
         \/ S # {} /\ FirstOf(S) \in S /\ \A j \in S : FirstOf(S) <= j
<1>1. CASE S = {}
  BY <1>1 DEF FirstOf
<1>2. CASE S # {}
  <2>1. \E i \in S : \A j \in S : i <= j
    BY <1>2, LeastNumber
  <2>2. FirstOf(S) = CHOOSE i \in S : \A j \in S : i <= j
    BY <1>2 DEF FirstOf
  <2>3. PICK x : x = (CHOOSE i \in S : \A j \in S : i <= j)
    OBVIOUS
  <2>4. x \in S /\ \A j \in S : x <= j
    BY <2>1, <2>3
  <2> QED BY <1>2, <2>2, <2>3, <2>4
<1> QED BY <1>1, <1>2

(* Marks lie in the part they are looked for in and are characters asked   *)
(* for.                                                                    *)
LEMMA MarksPlace ==
  ASSUME NEW chars, NEW a \in Nat, NEW b \in Nat
  PROVE  /\ Marks(chars, a, b) \in SUBSET Nat
         /\ \A i \in Marks(chars, a, b) : a <= i /\ i < b /\ P(i) \in chars
BY DEF Marks, Unescaped

(* find_matching_close_bracket: behind the bracket, or nowhere.            *)
LEMMA CloseBracket ==
  ASSUME Size \in Nat, NEW p \in 0 .. Size - 1
  PROVE  /\ find_matching_close_bracket(p) \in p + 1 .. Size
         /\ find_matching_close_bracket(p) < Size => P(find_matching_close_bracket(p)) = "]"
<1> DEFINE S == Marks({"]"}, p + 1, Size)
<1>1. S \in SUBSET Nat /\ \A i \in S : p + 1 <= i /\ i < Size /\ P(i) \in {"]"}
  BY MarksPlace
<1>2. find_matching_close_bracket(p) = FirstOf(S)
  BY DEF find_matching_close_bracket
<1> HIDE DEF S
<1>3. \/ S = {} /\ FirstOf(S) = Size
      \/ S # {} /\ FirstOf(S) \in S
  BY <1>1, FirstIsLeast
<1>4. PICK x : x = FirstOf(S)
  OBVIOUS
<1>5. CASE S = {}
  BY <1>2, <1>3, <1>5
<1>6. CASE S # {}
  <2>1. x \in S /\ x \in Nat /\ p + 1 <= x /\ x < Size /\ P(x) = "]"
    BY <1>1, <1>3, <1>4, <1>6
  <2> QED BY <2>1, <1>2, <1>4
<1> QED BY <1>5, <1>6

(* find_matching_close_paren: behind the parenthesis, or nowhere.          *)
LEMMA CloseParen ==
  ASSUME Size \in Nat, NEW p \in 0 .. Size - 1
  PROVE  /\ find_matching_close_paren(p) \in p + 1 .. Size
         /\ find_matching_close_paren(p) < Size => P(find_matching_close_paren(p)) = ")"
<1> DEFINE M == Marks({")"}, p + 1, Size)
           S == {j \in M : Depth(p + 1, j) = -1}
<1>1. M \in SUBSET Nat /\ \A i \in M : p + 1 <= i /\ i < Size /\ P(i) \in {")"}
  BY MarksPlace
<1>2. find_matching_close_paren(p) = FirstOf(S)
  BY DEF find_matching_close_paren
<1> HIDE DEF M
<1>4. S \in SUBSET M
  OBVIOUS
<1> HIDE DEF S
<1>3. \/ S = {} /\ FirstOf(S) = Size
      \/ S # {} /\ FirstOf(S) \in S
  BY <1>1, <1>4, FirstIsLeast
<1>5. PICK x : x = FirstOf(S)
  OBVIOUS
<1>6. CASE S = {}
  BY <1>2, <1>3, <1>6
<1>7. CASE S # {}
  <2>1. x \in S /\ x \in Nat /\ p + 1 <= x /\ x < Size /\ P(x) = ")"
    BY <1>1, <1>3, <1>4, <1>5, <1>7
  <2> QED BY <2>1, <1>2, <1>5
<1> QED BY <1>6, <1>7

(* The branches of a group that is closed lie between its parentheses.     *)
LEMMA BranchesLie ==
  ASSUME Size \in Nat, NEW p \in 0 .. Size - 1, P(p) = "(", NEW close, close = find_matching_close_paren(p), close < Size
  PROVE  \E n \in Nat :
           /\ DOMAIN Branches(p) = 1 .. n
           /\ \A k \in 1 .. n : BranchOK(Branches(p)[k], p, close)
<1>0. close \in p + 1 .. Size
  BY CloseParen
<1> DEFINE M == Marks({"|"}, p + 1, close)
           bars == {j \in M : Depth(p + 1, j) = 0}
           S == {p, close} \cup bars
<1>1. M \in SUBSET Nat /\ \A i \in M : p + 1 <= i /\ i < close /\ P(i) \in {"|"}
  BY MarksPlace, <1>0
<1> HIDE DEF M
<1>2. S \in SUBSET Int /\ \A i \in S : i \in p .. close
  <2>1. ASSUME NEW i \in S PROVE i \in Int /\ i \in p .. close
    <3>1. i = p \/ i = close \/ i \in M
      OBVIOUS
    <3>2. CASE i \in M
      <4>1. i \in Nat /\ p + 1 <= i /\ i < close
        BY <3>2, <1>1
      <4> QED BY <4>1, <1>0
    <3> QED BY <3>1, <3>2, <1>0
  <2> QED BY <2>1
<1>3. IsFiniteSet(S)
  <2>1. IsFiniteSet(p .. close)
    BY <1>0, FS_Interval
  <2>2. S \in SUBSET (p .. close)
    BY <1>2
  <2> HIDE DEF S
  <2> QED BY <2>1, <2>2, FS_Subset
<1>4. \A i \in S : i # close => P(i) # "\\" /\ i < close
  BY <1>0, <1>1
<1>5. PICK edges : edges = InOrder(S)
  OBVIOUS
<1> DEFINE N == Cardinality(S)
           branch(k) == [from |-> edges[k] + 1, to |-> edges[k + 1],
                         max_length |-> IF Marks({"*"}, edges[k] + 1, edges[k + 1]) # {} THEN NO_LIMIT
                                        ELSE edges[k + 1] - (edges[k] + 1)]
<1>6. Branches(p) = [k \in 1 .. Len(edges) - 1 |-> branch(k)]
  <2>1. S = {p, find_matching_close_paren(p)} \cup
              {j \in Marks({"|"}, p + 1, find_matching_close_paren(p)) : Depth(p + 1, j) = 0}
    BY DEF M
  <2> HIDE DEF S
  <2> QED BY <2>1, <1>5 DEF Branches
<1> HIDE DEF S
<1>7. /\ N \in Nat
      /\ edges \in [1 .. N -> S]
      /\ \A j, k \in 1 .. N : j < k => edges[j] < edges[k]
  BY <1>2, <1>3, <1>5, InOrderLists
<1>8. N # 0
  <2>1. p \in S
    BY DEF S
  <2> QED BY <2>1, <1>3, FS_EmptySet
<1> HIDE DEF N
<1>9. Len(edges) = N
  BY <1>7
<1>10. ASSUME NEW k \in 1 .. N - 1 PROVE BranchOK(branch(k), p, close)
  <2>1. k \in 1 .. N /\ k + 1 \in 1 .. N /\ k < k + 1
    BY <1>7
  <2>2. edges[k] \in S /\ edges[k + 1] \in S /\ edges[k] < edges[k + 1]
    BY <2>1, <1>7
  <2>3. edges[k] \in p .. close /\ edges[k + 1] \in p .. close
    BY <2>2, <1>2
  <2>4. PICK a, b : a = edges[k] /\ b = edges[k + 1]
    OBVIOUS
  <2>5. a \in Nat /\ b \in Nat /\ p <= a /\ a < b /\ b <= close /\ a # close /\ a \in S /\ a + 1 <= b
    BY <2>2, <2>3, <2>4, <1>0
  <2>6. P(a) # "\\"
    BY <2>5, <1>4
  <2>7. (a + 1) - 1 = a
    BY <2>5
  <2>8. PICK br : br = branch(k)
    OBVIOUS
  <2>9. br.from = a + 1 /\ br.to = b
        /\ br.max_length = IF Marks({"*"}, a + 1, b) # {} THEN NO_LIMIT ELSE b - (a + 1)
    BY <2>4, <2>8
  <2>10. BranchOK(br, p, close)
    <3>1. br.from \in Nat /\ br.to \in Nat /\ p < br.from /\ br.from <= br.to /\ br.to <= close
      BY <2>5, <2>9
    <3>2. P(br.from - 1) # "\\"
      BY <2>6, <2>7, <2>9
    <3> QED BY <3>1, <3>2, <2>9 DEF BranchOK
  <2> QED BY <2>8, <2>10
<1>11. N - 1 \in Nat /\ DOMAIN Branches(p) = 1 .. N - 1
  BY <1>6, <1>7, <1>8, <1>9
<1>12. \A k \in 1 .. N - 1 : BranchOK(Branches(p)[k], p, close)
  <2> TAKE k \in 1 .. N - 1
  <2>1. Branches(p)[k] = branch(k)
    BY <1>6, <1>9
  <2> HIDE DEF branch
  <2> QED BY <2>1, <1>10
<1> QED BY <1>11, <1>12

(* make_metadata makes a plan the matcher can rely on.                     *)
LEMMA PlanMade ==
  ASSUME pat \in Seq(Range(Ascii)), text \in Seq(Range(Ascii)), plan = make_metadata
  PROVE  PlanOK
<1>1. Size \in Nat
  BY DEF Size
<1>2. PICK brackets, parens :
        /\ brackets = [i \in Places("[") |-> find_matching_close_bracket(i)]
        /\ parens = [i \in Places("(") |-> find_matching_close_paren(i)]
  OBVIOUS
<1>3. plan.close_brackets = brackets /\ plan.close_parens = parens
      /\ plan.branches = [i \in Closed(parens) |-> Branches(i)]
  BY <1>2 DEF make_metadata
<1>4. ASSUME NEW p \in 0 .. Size - 1, P(p) = "["
      PROVE  /\ plan.close_brackets[p] \in p + 1 .. Size
             /\ plan.close_brackets[p] < Size => P(plan.close_brackets[p]) = "]"
  <2>1. plan.close_brackets[p] = find_matching_close_bracket(p)
    BY <1>2, <1>3, <1>4 DEF Places
  <2> QED BY <2>1, <1>1, CloseBracket
<1>5. ASSUME NEW p \in 0 .. Size - 1, P(p) = "("
      PROVE  /\ plan.close_parens[p] \in p + 1 .. Size
             /\ plan.close_parens[p] < Size => P(plan.close_parens[p]) = ")" /\ BranchesOK(p)
  <2>1. p \in Places("(") /\ plan.close_parens[p] = find_matching_close_paren(p) /\ DOMAIN parens = Places("(")
    BY <1>2, <1>3, <1>5 DEF Places
  <2>2. plan.close_parens[p] \in p + 1 .. Size
        /\ (plan.close_parens[p] < Size => P(plan.close_parens[p]) = ")")
    BY <2>1, <1>1, CloseParen
  <2>3. ASSUME plan.close_parens[p] < Size PROVE BranchesOK(p)
    <3>1. p \in Closed(parens)
      BY <2>1, <2>3, <1>3 DEF Closed
    <3>2. plan.branches[p] = Branches(p)
      BY <3>1, <1>3
    <3>3. PICK close : close = plan.close_parens[p]
      OBVIOUS
    <3>4. \E n \in Nat :
            /\ DOMAIN Branches(p) = 1 .. n
            /\ \A k \in 1 .. n : BranchOK(Branches(p)[k], p, close)
      BY <3>3, <2>1, <2>3, <1>1, <1>5, BranchesLie
    <3> QED BY <3>2, <3>3, <3>4 DEF BranchesOK
  <2> QED BY <2>2, <2>3
<1> QED BY <1>4, <1>5 DEF PlanOK
-----------------------------------------------------------------------------
(* The ends are well defined: those of a part of the pattern depend on     *)
(* those of shorter parts.                                                 *)
Parts == (0 .. Len(text)) \X (0 .. Size) \X (0 .. Size)
EndLists == [Parts -> Seq(0 .. Len(text))]

(* Pattern and text have lengths.                                          *)
LEMMA Sizes ==
  ASSUME PlanOK
  PROVE  Size \in Nat /\ Len(text) \in Nat
BY DEF PlanOK, Size

(* One character, class or escape takes at least one position of the       *)
(* pattern and ends inside the part.                                       *)
LEMMA OneCharNext ==
  ASSUME PlanOK, NEW p \in 0 .. Size, NEW q \in 0 .. Size, p < q, NEW c \in OneChar(p, q).chars
  PROVE  OneChar(p, q).next \in p + 1 .. q
<1>0. Size \in Nat /\ p \in 0 .. Size - 1
  BY Sizes
<1>1. CASE P(p) = "\\"
  <2>0. P(p) # "?" /\ P(p) # "["
    BY <1>1
  <2>1. OneChar(p, q) = [chars |-> IF p + 1 < q THEN {P(p + 1)} ELSE {}, next |-> p + 2]
    BY <1>1, <2>0 DEF OneChar, IsSet
  <2>2. p + 1 < q
    BY <2>1
  <2> QED BY <2>1, <2>2, <1>0
<1>2. CASE P(p) = "?"
  <2>0. P(p) # "\\" /\ P(p) # "["
    BY <1>2
  <2>1. OneChar(p, q) = [chars |-> Range(Ascii), next |-> p + 1]
    BY <1>2, <2>0 DEF OneChar, IsSet
  <2> QED BY <2>1, <1>0
<1>3. CASE IsSet(p, q)
  <2>1. OneChar(p, q) = [chars |-> plan.char_class_tables[p], next |-> plan.close_brackets[p] + 1]
    BY <1>3 DEF OneChar, IsSet
  <2>2. plan.close_brackets[p] \in p + 1 .. Size /\ plan.close_brackets[p] < q
    BY <1>0, <1>3 DEF PlanOK, IsSet
  <2> QED BY <2>1, <2>2, <1>0
<1>4. CASE P(p) # "\\" /\ P(p) # "?" /\ ~IsSet(p, q)
  <2>1. OneChar(p, q) = [chars |-> {P(p)}, next |-> p + 1]
    BY <1>4 DEF OneChar
  <2> QED BY <2>1, <1>0
<1> QED BY <1>1, <1>2, <1>3, <1>4

(* A group closes inside its part, and its branches lie in it.             *)
LEMMA GroupParts ==
  ASSUME PlanOK, NEW p \in 0 .. Size, NEW q \in 0 .. Size, p < q, IsGroup(p, q)
  PROVE  /\ plan.close_parens[p] \in p + 1 .. q - 1
         /\ P(plan.close_parens[p]) = ")"
         /\ \E n \in Nat : DOMAIN plan.branches[p] = 1 .. n
         /\ \A k \in DOMAIN plan.branches[p] : BranchOK(plan.branches[p][k], p, plan.close_parens[p])
<1>0. Size \in Nat /\ p \in 0 .. Size - 1 /\ P(p) = "(" /\ plan.close_parens[p] < q
  BY Sizes DEF IsGroup
<1>1. plan.close_parens[p] \in p + 1 .. Size
      /\ (plan.close_parens[p] < Size => P(plan.close_parens[p]) = ")" /\ BranchesOK(p))
  BY <1>0 DEF PlanOK
<1>2. plan.close_parens[p] < Size
  BY <1>0, <1>1
<1>3. BranchesOK(p) /\ P(plan.close_parens[p]) = ")"
  BY <1>1, <1>2
<1>4. plan.close_parens[p] \in p + 1 .. q - 1
  BY <1>0, <1>1
<1> QED BY <1>3, <1>4 DEF BranchesOK

(* What a list of lists of ends joins.                                     *)
LEMMA BehindJoins ==
  ASSUME PlanOK, NEW f \in EndLists, NEW n \in Nat, NEW found \in [1 .. n -> 0 .. Len(text)],
         NEW p \in 0 .. Size, NEW q \in 0 .. Size
  PROVE  /\ Behind(f, found, p, q) \in Seq(0 .. Len(text))
         /\ \A x : x \in Range(Behind(f, found, p, q)) <=>
                     \E e \in Range(found) : x \in Range(f[<<e, p, q>>])
<1>1. PICK ss : ss = [k \in DOMAIN found |-> f[<<found[k], p, q>>]]
  OBVIOUS
<1>2. Behind(f, found, p, q) = FlattenSeq(ss)
  BY <1>1 DEF Behind
<1>3. \A k \in 1 .. n : <<found[k], p, q>> \in Parts
  BY DEF Parts
<1>4. ss \in [1 .. n -> Seq(0 .. Len(text))]
  BY <1>1, <1>3 DEF EndLists
<1>5. /\ FlattenSeq(ss) \in Seq(0 .. Len(text))
      /\ \A x : x \in Range(FlattenSeq(ss)) <=> \E b \in 1 .. n : x \in Range(ss[b])
  BY <1>4, FlattenJoins
<1>6. \A b \in 1 .. n : ss[b] = f[<<found[b], p, q>>]
  BY <1>1
<1>7. DOMAIN found = 1 .. n
  OBVIOUS
<1>8. ASSUME NEW x PROVE (\E b \in 1 .. n : x \in Range(ss[b])) <=> \E e \in Range(found) : x \in Range(f[<<e, p, q>>])
  <2>1. ASSUME NEW b \in 1 .. n, x \in Range(ss[b]) PROVE \E e \in Range(found) : x \in Range(f[<<e, p, q>>])
    <3>1. found[b] \in Range(found)
      BY <1>7 DEF Range
    <3> QED BY <3>1, <2>1, <1>6
  <2>2. ASSUME NEW e \in Range(found), x \in Range(f[<<e, p, q>>]) PROVE \E b \in 1 .. n : x \in Range(ss[b])
    <3>1. PICK b \in 1 .. n : found[b] = e
      BY <1>7 DEF Range
    <3> QED BY <3>1, <2>2, <1>6
  <2> QED BY <2>1, <2>2
<1> QED BY <1>2, <1>5, <1>8

(* Nothing left of the pattern: it ends where it begins.                   *)
LEMMA EndsOfEmpty ==
  ASSUME NEW f, NEW i, NEW p, NEW q, p >= q
  PROVE  EndsOf(f, i, p, q) = <<i>>
BY DEF EndsOf

(* A star: what follows it, from every position on.                        *)
LEMMA EndsOfStar ==
  ASSUME NEW f, NEW i, NEW p \in Int, NEW q \in Int, p < q, P(p) = "*"
  PROVE  EndsOf(f, i, p, q) = Behind(f, [k \in 1 .. Len(text) - i + 1 |-> i + k - 1], p + 1, q)
BY DEF EndsOf

GroupLists(f, i, p, q) ==
  [b \in DOMAIN plan.branches[p] |->
     Behind(f, InOrder(Range(f[<<i, plan.branches[p][b].from, plan.branches[p][b].to>>])),
            plan.close_parens[p] + 1, q)]

(* A group: the ends of its branches, each followed by the rest.           *)
LEMMA EndsOfGroup ==
  ASSUME NEW f, NEW i, NEW p \in Int, NEW q \in Int, p < q, IsGroup(p, q)
  PROVE  EndsOf(f, i, p, q) = FlattenSeq(GroupLists(f, i, p, q))
<1>1. P(p) # "*"
  BY DEF IsGroup
<1> QED BY <1>1 DEF EndsOf, GroupLists

(* One character: the rest behind it, or nothing.                          *)
LEMMA EndsOfChar ==
  ASSUME NEW f, NEW i, NEW p \in Int, NEW q \in Int, p < q, P(p) # "*", ~IsGroup(p, q)
  PROVE  EndsOf(f, i, p, q) = IF i < Len(text) /\ T(i) \in OneChar(p, q).chars
                              THEN f[<<i + 1, OneChar(p, q).next, q>>] ELSE <<>>
BY DEF EndsOf

(* What follows a star, from every position on.                            *)
LEMMA PlacesFrom ==
  ASSUME PlanOK, NEW i \in 0 .. Len(text)
  PROVE  \E n \in Nat : /\ [k \in 1 .. Len(text) - i + 1 |-> i + k - 1] \in [1 .. n -> 0 .. Len(text)]
                        /\ Range([k \in 1 .. Len(text) - i + 1 |-> i + k - 1]) = i .. Len(text)
<1> DEFINE n == Len(text) - i + 1
           s == [k \in 1 .. n |-> i + k - 1]
<1>0. Len(text) \in Nat
  BY Sizes
<1>1. n \in Nat
  BY <1>0
<1>2. s \in [1 .. n -> 0 .. Len(text)]
  BY <1>0
<1>3. ASSUME NEW x \in i .. Len(text) PROVE x \in Range(s)
  <2>1. x - i + 1 \in 1 .. n /\ i + (x - i + 1) - 1 = x
    BY <1>0
  <2>2. s[x - i + 1] = x
    BY <2>1
  <2> QED BY <2>1, <2>2 DEF Range
<1>4. ASSUME NEW x \in Range(s) PROVE x \in i .. Len(text)
  <2>1. PICK k \in 1 .. n : s[k] = x
    BY <1>4 DEF Range
  <2> QED BY <2>1, <1>0
<1> QED BY <1>1, <1>2, <1>3, <1>4

(* The ends of a branch, from left to right.                               *)
LEMMA EndsInOrder ==
  ASSUME PlanOK, NEW s \in Seq(0 .. Len(text))
  PROVE  \E n \in Nat : InOrder(Range(s)) \in [1 .. n -> 0 .. Len(text)] /\ Range(InOrder(Range(s))) = Range(s)
<1> DEFINE S == Range(s)
<1>0. Len(text) \in Nat
  BY Sizes
<1>1. S \in SUBSET (0 .. Len(text))
  BY DEF Range
<1> HIDE DEF S
<1>2. IsFiniteSet(S)
  <2>1. IsFiniteSet(0 .. Len(text))
    BY <1>0, FS_Interval
  <2> QED BY <2>1, <1>1, FS_Subset
<1>3. S \in SUBSET Int
  BY <1>1
<1>4. PICK o : o = InOrder(S)
  OBVIOUS
<1>5. /\ Cardinality(S) \in Nat
      /\ o \in [1 .. Cardinality(S) -> S]
      /\ \A x \in S : \E k \in 1 .. Cardinality(S) : o[k] = x
  BY <1>2, <1>3, <1>4, InOrderLists
<1>6. Range(o) = S
  BY <1>5 DEF Range
<1>7. o \in [1 .. Cardinality(S) -> 0 .. Len(text)]
  BY <1>5, <1>1
<1> QED BY <1>4, <1>5, <1>6, <1>7 DEF S

GroupEnd(f, i, p, q, x) ==
  \E b \in DOMAIN plan.branches[p] :
    \E e \in Range(f[<<i, plan.branches[p][b].from, plan.branches[p][b].to>>]) :
      x \in Range(f[<<e, plan.close_parens[p] + 1, q>>])

(* The lists of a group joined are ends in the text, exactly those some    *)
(* branch leads to.                                                        *)
LEMMA GroupListsJoin ==
  ASSUME PlanOK, NEW f \in EndLists, NEW i \in 0 .. Len(text), NEW p \in 0 .. Size, NEW q \in 0 .. Size,
         p < q, IsGroup(p, q)
  PROVE  /\ FlattenSeq(GroupLists(f, i, p, q)) \in Seq(0 .. Len(text))
         /\ \A x : x \in Range(FlattenSeq(GroupLists(f, i, p, q))) <=> GroupEnd(f, i, p, q, x)
<1>0. Size \in Nat /\ Len(text) \in Nat
  BY Sizes
<1>1. PICK close : close = plan.close_parens[p] /\ close \in p + 1 .. q - 1
  BY GroupParts
<1>2. PICK n \in Nat : DOMAIN plan.branches[p] = 1 .. n
  BY GroupParts
<1>3. \A k \in 1 .. n : BranchOK(plan.branches[p][k], p, close)
  BY <1>1, <1>2, GroupParts
<1>4. close + 1 \in 0 .. Size
  BY <1>0, <1>1
<1>5. PICK ss : ss = GroupLists(f, i, p, q)
  OBVIOUS
<1>6. DOMAIN ss = 1 .. n /\ ss = [k \in 1 .. n |-> ss[k]]
  BY <1>2, <1>5 DEF GroupLists
<1>7. ASSUME NEW k \in 1 .. n
      PROVE  /\ ss[k] \in Seq(0 .. Len(text))
             /\ \A x : x \in Range(ss[k]) <=>
                  \E e \in Range(f[<<i, plan.branches[p][k].from, plan.branches[p][k].to>>]) :
                    x \in Range(f[<<e, plan.close_parens[p] + 1, q>>])
  <2>1. PICK b : b = plan.branches[p][k]
    OBVIOUS
  <2>2. b.from \in 0 .. Size /\ b.to \in 0 .. Size
    <3>1. BranchOK(b, p, close)
      BY <2>1, <1>3
    <3>2. b.from \in Nat /\ b.to \in Nat /\ b.from <= b.to /\ b.to <= close
      BY <3>1 DEF BranchOK
    <3> QED BY <3>2, <1>0, <1>1, SMTT(40)
  <2>3. PICK s : s = f[<<i, b.from, b.to>>]
    OBVIOUS
  <2>4. s \in Seq(0 .. Len(text))
    <3>1. <<i, b.from, b.to>> \in Parts
      BY <2>2 DEF Parts
    <3> QED BY <3>1, <2>3 DEF EndLists
  <2>5. PICK o : o = InOrder(Range(s))
    OBVIOUS
  <2>6. PICK m \in Nat : o \in [1 .. m -> 0 .. Len(text)] /\ Range(o) = Range(s)
    BY <2>4, <2>5, EndsInOrder
  <2>7. ss[k] = Behind(f, o, close + 1, q)
    BY <1>1, <1>2, <1>5, <2>1, <2>3, <2>5 DEF GroupLists
  <2>8. PICK c \in 0 .. Size : c = close + 1
    BY <1>4
  <2>9. /\ Behind(f, o, c, q) \in Seq(0 .. Len(text))
        /\ \A x : x \in Range(Behind(f, o, c, q)) <=> \E e \in Range(o) : x \in Range(f[<<e, c, q>>])
    BY <2>6, BehindJoins
  <2> QED BY <2>1, <2>3, <2>6, <2>7, <2>8, <2>9, <1>1
<1>8. ss \in [1 .. n -> Seq(0 .. Len(text))]
  BY <1>6, <1>7
<1>9. /\ FlattenSeq(ss) \in Seq(0 .. Len(text))
      /\ \A x : x \in Range(FlattenSeq(ss)) <=> \E b \in 1 .. n : x \in Range(ss[b])
  BY <1>8, FlattenJoins
<1>10. ASSUME NEW x PROVE (\E b \in 1 .. n : x \in Range(ss[b])) <=> GroupEnd(f, i, p, q, x)
  BY <1>2, <1>7 DEF GroupEnd
<1> QED BY <1>5, <1>9, <1>10

(* What follows depends on what the function says of the places found.     *)
LEMMA BehindSame ==
  ASSUME NEW f, NEW g, NEW found, NEW p, NEW q,
         \A k \in DOMAIN found : f[<<found[k], p, q>>] = g[<<found[k], p, q>>]
  PROVE  Behind(f, found, p, q) = Behind(g, found, p, q)
<1>1. [k \in DOMAIN found |-> f[<<found[k], p, q>>]] = [k \in DOMAIN found |-> g[<<found[k], p, q>>]]
  OBVIOUS
<1> QED BY <1>1 DEF Behind

(* The ends of a part depend on those of shorter parts alone.              *)
AgreeOnShorter(f, g, p, q) ==
  \A j \in 0 .. Len(text), p1 \in 0 .. Size, q1 \in 0 .. Size :
    q1 - p1 < q - p => f[<<j, p1, q1>>] = g[<<j, p1, q1>>]

(* EndsOf asks for shorter parts alone, so two functions that agree on     *)
(* those give the same ends.                                               *)
LEMMA EndsOfSame ==
  ASSUME PlanOK, NEW f \in EndLists, NEW g, NEW i \in 0 .. Len(text), NEW p \in 0 .. Size, NEW q \in 0 .. Size,
         AgreeOnShorter(f, g, p, q)
  PROVE  EndsOf(f, i, p, q) = EndsOf(g, i, p, q)
<1>0. Size \in Nat /\ Len(text) \in Nat /\ p \in Int /\ q \in Int
  BY Sizes
<1>1. CASE p >= q
  BY <1>1, EndsOfEmpty
<1>2. CASE p < q /\ P(p) = "*"
  <2>1. PICK s : s = [k \in 1 .. Len(text) - i + 1 |-> i + k - 1]
    OBVIOUS
  <2>2. PICK n \in Nat : s \in [1 .. n -> 0 .. Len(text)]
    BY <2>1, PlacesFrom
  <2>3. p + 1 \in 0 .. Size /\ q - (p + 1) < q - p
    BY <1>0, <1>2
  <2>4. \A k \in DOMAIN s : f[<<s[k], p + 1, q>>] = g[<<s[k], p + 1, q>>]
    <3>1. \A k \in DOMAIN s : s[k] \in 0 .. Len(text)
      BY <2>2
    <3> QED BY <3>1, <2>3 DEF AgreeOnShorter
  <2>5. Behind(f, s, p + 1, q) = Behind(g, s, p + 1, q)
    BY <2>4, BehindSame
  <2>6. EndsOf(f, i, p, q) = Behind(f, s, p + 1, q)
    BY <1>0, <1>2, <2>1, EndsOfStar
  <2>7. EndsOf(g, i, p, q) = Behind(g, s, p + 1, q)
    BY <1>0, <1>2, <2>1, EndsOfStar
  <2> QED BY <2>5, <2>6, <2>7
<1>3. CASE p < q /\ IsGroup(p, q)
  <2>1. PICK close : close = plan.close_parens[p] /\ close \in p + 1 .. q - 1
    BY <1>3, GroupParts, SMTT(40)
  <2>2. \A b \in DOMAIN plan.branches[p] : BranchOK(plan.branches[p][b], p, close)
    BY <1>3, <2>1, GroupParts, SMTT(40)
  <2>3. close + 1 \in 0 .. Size /\ q - (close + 1) < q - p
    BY <1>0, <2>1, SMTT(40)
  <2>4. ASSUME NEW k \in DOMAIN plan.branches[p]
        PROVE  GroupLists(f, i, p, q)[k] = GroupLists(g, i, p, q)[k]
    <3>1. PICK b : b = plan.branches[p][k]
      OBVIOUS
    <3>2. b.from \in Nat /\ b.to \in Nat /\ p < b.from /\ b.from <= b.to /\ b.to <= close
      BY <2>2, <3>1 DEF BranchOK
    <3>3. b.from \in 0 .. Size /\ b.to \in 0 .. Size /\ b.to - b.from < q - p
      BY <3>2, <2>1, <1>0, SMTT(40)
    <3>4. PICK s : s = f[<<i, b.from, b.to>>]
      OBVIOUS
    <3>5. s = g[<<i, b.from, b.to>>]
      BY <3>3, <3>4 DEF AgreeOnShorter
    <3>6. s \in Seq(0 .. Len(text))
      <4>1. <<i, b.from, b.to>> \in Parts
        BY <3>3 DEF Parts
      <4> QED BY <4>1, <3>4 DEF EndLists
    <3>7. PICK o : o = InOrder(Range(s))
      OBVIOUS
    <3>8. PICK m \in Nat : o \in [1 .. m -> 0 .. Len(text)]
      BY <3>6, <3>7, EndsInOrder
    <3>9. \A j \in DOMAIN o : f[<<o[j], close + 1, q>>] = g[<<o[j], close + 1, q>>]
      <4>1. \A j \in DOMAIN o : o[j] \in 0 .. Len(text)
        BY <3>8
      <4> QED BY <4>1, <2>3 DEF AgreeOnShorter
    <3>10. Behind(f, o, close + 1, q) = Behind(g, o, close + 1, q)
      BY <3>9, BehindSame
    <3> QED BY <3>1, <3>4, <3>5, <3>7, <3>10, <2>1 DEF GroupLists
  <2>5. GroupLists(f, i, p, q) = GroupLists(g, i, p, q)
    <3>1. PICK ff, gg : ff = GroupLists(f, i, p, q) /\ gg = GroupLists(g, i, p, q)
      OBVIOUS
    <3>2. ff = [k \in DOMAIN plan.branches[p] |-> ff[k]] /\ gg = [k \in DOMAIN plan.branches[p] |-> gg[k]]
      BY <3>1 DEF GroupLists
    <3>3. \A k \in DOMAIN plan.branches[p] : ff[k] = gg[k]
      BY <3>1, <2>4
    <3>4. ff = gg
      BY <3>2, <3>3
    <3> QED BY <3>1, <3>4
  <2>6. EndsOf(f, i, p, q) = FlattenSeq(GroupLists(f, i, p, q))
    BY <1>0, <1>3, EndsOfGroup
  <2>7. EndsOf(g, i, p, q) = FlattenSeq(GroupLists(g, i, p, q))
    BY <1>0, <1>3, EndsOfGroup
  <2> QED BY <2>5, <2>6, <2>7
<1>4. CASE p < q /\ P(p) # "*" /\ ~IsGroup(p, q)
  <2>1. EndsOf(f, i, p, q) = IF i < Len(text) /\ T(i) \in OneChar(p, q).chars
                             THEN f[<<i + 1, OneChar(p, q).next, q>>] ELSE <<>>
    BY <1>0, <1>4, EndsOfChar
  <2>2. EndsOf(g, i, p, q) = IF i < Len(text) /\ T(i) \in OneChar(p, q).chars
                             THEN g[<<i + 1, OneChar(p, q).next, q>>] ELSE <<>>
    BY <1>0, <1>4, EndsOfChar
  <2>3. ASSUME i < Len(text), T(i) \in OneChar(p, q).chars
        PROVE  f[<<i + 1, OneChar(p, q).next, q>>] = g[<<i + 1, OneChar(p, q).next, q>>]
    <3>1. PICK next : next = OneChar(p, q).next
      OBVIOUS
    <3>2. next \in p + 1 .. q
      BY <1>4, <2>3, <3>1, OneCharNext
    <3>3. i + 1 \in 0 .. Len(text) /\ next \in 0 .. Size /\ q - next < q - p
      BY <3>2, <2>3, <1>0
    <3> QED BY <3>1, <3>3 DEF AgreeOnShorter
  <2> QED BY <2>1, <2>2, <2>3
<1> QED BY <1>0, <1>1, <1>2, <1>3, <1>4

(* The ends are positions of the text.                                     *)
LEMMA EndsOfTyped ==
  ASSUME PlanOK, NEW f \in EndLists, NEW i \in 0 .. Len(text), NEW p \in 0 .. Size, NEW q \in 0 .. Size
  PROVE  EndsOf(f, i, p, q) \in Seq(0 .. Len(text))
<1>0. Size \in Nat /\ Len(text) \in Nat /\ p \in Int /\ q \in Int
  BY Sizes
<1>1. CASE p >= q
  <2>1. EndsOf(f, i, p, q) = <<i>>
    BY <1>1, EndsOfEmpty
  <2> QED BY <2>1
<1>2. CASE p < q /\ P(p) = "*"
  <2>1. PICK s : s = [k \in 1 .. Len(text) - i + 1 |-> i + k - 1]
    OBVIOUS
  <2>2. PICK n \in Nat : s \in [1 .. n -> 0 .. Len(text)]
    BY <2>1, PlacesFrom
  <2>3. PICK p1 \in 0 .. Size : p1 = p + 1
    BY <1>0, <1>2
  <2>4. Behind(f, s, p1, q) \in Seq(0 .. Len(text))
    BY <2>2, BehindJoins
  <2>5. EndsOf(f, i, p, q) = Behind(f, s, p + 1, q)
    BY <1>0, <1>2, <2>1, EndsOfStar
  <2> QED BY <2>3, <2>4, <2>5
<1>3. CASE p < q /\ IsGroup(p, q)
  <2>1. EndsOf(f, i, p, q) = FlattenSeq(GroupLists(f, i, p, q))
    BY <1>0, <1>3, EndsOfGroup
  <2> QED BY <1>3, <2>1, GroupListsJoin
<1>4. CASE p < q /\ P(p) # "*" /\ ~IsGroup(p, q)
  <2>1. EndsOf(f, i, p, q) = IF i < Len(text) /\ T(i) \in OneChar(p, q).chars
                             THEN f[<<i + 1, OneChar(p, q).next, q>>] ELSE <<>>
    BY <1>0, <1>4, EndsOfChar
  <2>2. ASSUME i < Len(text), T(i) \in OneChar(p, q).chars
        PROVE  f[<<i + 1, OneChar(p, q).next, q>>] \in Seq(0 .. Len(text))
    <3>1. PICK next : next = OneChar(p, q).next
      OBVIOUS
    <3>2. next \in p + 1 .. q
      BY <1>4, <2>2, <3>1, OneCharNext
    <3>3. <<i + 1, next, q>> \in Parts
      BY <3>2, <2>2, <1>0 DEF Parts
    <3> QED BY <3>1, <3>3 DEF EndLists
  <2>3. <<>> \in Seq(0 .. Len(text))
    OBVIOUS
  <2> QED BY <2>1, <2>2, <2>3
<1> QED BY <1>0, <1>1, <1>2, <1>3, <1>4

Solves(f, d) ==
  \A i \in 0 .. Len(text), p \in 0 .. Size, q \in 0 .. Size :
    q - p <= d => f[<<i, p, q>>] = EndsOf(f, i, p, q)

(* For parts up to any length there is a function that solves the          *)
(* definition of Ends.                                                     *)
LEMMA EndsSolved ==
  ASSUME PlanOK, NEW d \in Nat
  PROVE  \E f \in EndLists : Solves(f, d)
<1>0. Size \in Nat /\ Len(text) \in Nat
  BY Sizes
<1> DEFINE Have == {n \in Nat : \E f \in EndLists : Solves(f, n)}
<1>1. 0 \in Have
  <2>1. PICK f : f = [x \in Parts |-> <<x[1]>>]
    OBVIOUS
  <2>2. f \in EndLists
    <3>1. \A x \in Parts : x[1] \in 0 .. Len(text)
      BY DEF Parts
    <3>2. \A x \in Parts : <<x[1]>> \in Seq(0 .. Len(text))
      BY <3>1
    <3> QED BY <2>1, <3>2 DEF EndLists
  <2>3. ASSUME NEW i \in 0 .. Len(text), NEW p \in 0 .. Size, NEW q \in 0 .. Size, q - p <= 0
        PROVE  f[<<i, p, q>>] = EndsOf(f, i, p, q)
    <3>1. p >= q
      BY <2>3, <1>0
    <3>2. EndsOf(f, i, p, q) = <<i>>
      BY <3>1, EndsOfEmpty
    <3>3. <<i, p, q>> \in Parts
      BY DEF Parts
    <3> QED BY <2>1, <3>2, <3>3
  <2> QED BY <2>2, <2>3 DEF Solves
<1>2. ASSUME NEW n \in Nat, n \in Have PROVE n + 1 \in Have
  <2>1. PICK f \in EndLists : Solves(f, n)
    BY <1>2
  <2>2. PICK g : g = [x \in Parts |-> EndsOf(f, x[1], x[2], x[3])]
    OBVIOUS
  <2>3. \A i \in 0 .. Len(text), p \in 0 .. Size, q \in 0 .. Size : g[<<i, p, q>>] = EndsOf(f, i, p, q)
    <3> TAKE i \in 0 .. Len(text), p \in 0 .. Size, q \in 0 .. Size
    <3>1. <<i, p, q>> \in Parts
      BY DEF Parts
    <3> QED BY <2>2, <3>1
  <2>4. g \in EndLists
    <3>1. ASSUME NEW x \in Parts PROVE EndsOf(f, x[1], x[2], x[3]) \in Seq(0 .. Len(text))
      <4>1. PICK i \in 0 .. Len(text), p \in 0 .. Size, q \in 0 .. Size : i = x[1] /\ p = x[2] /\ q = x[3]
        BY DEF Parts
      <4>2. EndsOf(f, i, p, q) \in Seq(0 .. Len(text))
        BY EndsOfTyped
      <4> QED BY <4>1, <4>2
    <3> QED BY <2>2, <3>1 DEF EndLists
  <2>5. ASSUME NEW i \in 0 .. Len(text), NEW p \in 0 .. Size, NEW q \in 0 .. Size, q - p <= n + 1
        PROVE  g[<<i, p, q>>] = EndsOf(g, i, p, q)
    <3>1. AgreeOnShorter(f, g, p, q)
      <4> SUFFICES ASSUME NEW j \in 0 .. Len(text), NEW p1 \in 0 .. Size, NEW q1 \in 0 .. Size, q1 - p1 < q - p
                   PROVE  f[<<j, p1, q1>>] = g[<<j, p1, q1>>]
        BY DEF AgreeOnShorter
      <4>1. q1 - p1 <= n
        BY <2>5, <1>0
      <4> QED BY <4>1, <2>1, <2>3 DEF Solves
    <3>2. EndsOf(f, i, p, q) = EndsOf(g, i, p, q)
      BY <3>1, EndsOfSame
    <3> QED BY <3>2, <2>3
  <2>6. Solves(g, n + 1)
    BY <2>5 DEF Solves
  <2> QED BY <2>4, <2>6
<1>3. d \in Have
  <2> HIDE DEF Have
  <2> QED BY <1>1, <1>2, SetInduction
<1> QED BY <1>3

(* Ends, which the definition chooses, exists and is a list for every part.*)
LEMMA EndsDefined ==
  ASSUME PlanOK
  PROVE  /\ Ends \in EndLists
         /\ \A i \in 0 .. Len(text), p \in 0 .. Size, q \in 0 .. Size : Ends[<<i, p, q>>] = EndsOf(Ends, i, p, q)
<1>0. Size \in Nat /\ Len(text) \in Nat
  BY Sizes
<1> DEFINE Eq(f) == f = [x \in Parts |-> EndsOf(f, x[1], x[2], x[3])]
<1>1. PICK f \in EndLists : Solves(f, Size)
  BY <1>0, EndsSolved
<1>2. \A i \in 0 .. Len(text), p \in 0 .. Size, q \in 0 .. Size : f[<<i, p, q>>] = EndsOf(f, i, p, q)
  <2> TAKE i \in 0 .. Len(text), p \in 0 .. Size, q \in 0 .. Size
  <2>1. q - p <= Size
    BY <1>0
  <2> QED BY <2>1, <1>1 DEF Solves
<1>3. Eq(f)
  <2>1. f = [x \in Parts |-> f[x]]
    BY DEF EndLists
  <2>2. ASSUME NEW x \in Parts PROVE f[x] = EndsOf(f, x[1], x[2], x[3])
    <3>1. PICK i \in 0 .. Len(text), p \in 0 .. Size, q \in 0 .. Size : x = <<i, p, q>>
      BY DEF Parts
    <3>2. i = x[1] /\ p = x[2] /\ q = x[3]
      BY <3>1
    <3> QED BY <3>1, <3>2, <1>2
  <2>3. f = [x \in Parts |-> EndsOf(f, x[1], x[2], x[3])]
    BY <2>1, <2>2
  <2> QED BY <2>3
<1>4. Ends = CHOOSE g : Eq(g)
  BY DEF Ends, Parts
<1>5. PICK e : e = Ends
  OBVIOUS
<1>6. Eq(e)
  <2> HIDE DEF Eq
  <2> QED BY <1>3, <1>4, <1>5
<1>7. e = [x \in Parts |-> EndsOf(e, x[1], x[2], x[3])]
  BY <1>6
<1> HIDE DEF Eq
<1>8. \A i \in 0 .. Len(text), p \in 0 .. Size, q \in 0 .. Size : e[<<i, p, q>>] = EndsOf(e, i, p, q)
  <2> TAKE i \in 0 .. Len(text), p \in 0 .. Size, q \in 0 .. Size
  <2>1. <<i, p, q>> \in Parts
    BY DEF Parts
  <2> QED BY <1>7, <2>1
<1> DEFINE Same(d) == \A i \in 0 .. Len(text), p \in 0 .. Size, q \in 0 .. Size :
                        q - p <= d => f[<<i, p, q>>] = e[<<i, p, q>>]
           Have == {d \in Nat : Same(d)}
<1>9. 0 \in Have
  <2>1. ASSUME NEW i \in 0 .. Len(text), NEW p \in 0 .. Size, NEW q \in 0 .. Size, q - p <= 0
        PROVE  f[<<i, p, q>>] = e[<<i, p, q>>]
    <3>1. p >= q
      BY <2>1, <1>0
    <3>2. EndsOf(f, i, p, q) = <<i>>
      BY <3>1, EndsOfEmpty
    <3>3. EndsOf(e, i, p, q) = <<i>>
      BY <3>1, EndsOfEmpty
    <3> QED BY <3>2, <3>3, <1>2, <1>8
  <2> QED BY <2>1
<1>10. ASSUME NEW d \in Nat, d \in Have PROVE d + 1 \in Have
  <2>1. ASSUME NEW i \in 0 .. Len(text), NEW p \in 0 .. Size, NEW q \in 0 .. Size, q - p <= d + 1
        PROVE  f[<<i, p, q>>] = e[<<i, p, q>>]
    <3>1. AgreeOnShorter(f, e, p, q)
      <4> SUFFICES ASSUME NEW j \in 0 .. Len(text), NEW p1 \in 0 .. Size, NEW q1 \in 0 .. Size, q1 - p1 < q - p
                   PROVE  f[<<j, p1, q1>>] = e[<<j, p1, q1>>]
        BY DEF AgreeOnShorter
      <4>1. q1 - p1 <= d
        BY <2>1, <1>0
      <4> QED BY <4>1, <1>10
    <3>2. EndsOf(f, i, p, q) = EndsOf(e, i, p, q)
      BY <3>1, EndsOfSame
    <3> QED BY <3>2, <1>2, <1>8
  <2> QED BY <2>1
<1>11. Same(Size)
  <2>1. Nat \subseteq Have
    <3> HIDE DEF Have
    <3> QED BY <1>9, <1>10, SetInduction
  <2> QED BY <2>1, <1>0
<1>12. e = f
  <2>1. ASSUME NEW x \in Parts PROVE e[x] = f[x]
    <3>1. PICK i \in 0 .. Len(text), p \in 0 .. Size, q \in 0 .. Size : x = <<i, p, q>>
      BY DEF Parts
    <3>2. q - p <= Size
      BY <1>0
    <3> QED BY <3>1, <3>2, <1>11
  <2>2. e = [x \in Parts |-> e[x]] /\ f = [x \in Parts |-> f[x]]
    BY <1>7 DEF EndLists
  <2> QED BY <2>1, <2>2
<1> QED BY <1>5, <1>8, <1>12
-----------------------------------------------------------------------------
(* Where a part of the pattern may end, from i on, and what is wanted of   *)
(* it.                                                                     *)
EndsAt(i, p, q) == Range(Ends[<<i, p, q>>])
WantAt(i, p, q, n, partial) == Want(Ends[<<i, p, q>>], n, partial)

(* What is wanted from the first place of E that has it.                   *)
FirstEnd(E, p, q, n, partial, w) ==
  \/ w = {} /\ \A e \in E : WantAt(e, p, q, n, partial) = {}
  \/ \E e \in E : /\ w = WantAt(e, p, q, n, partial) /\ w # {}
                  /\ \A d \in E : d < e => WantAt(d, p, q, n, partial) = {}

(* Ends gives positions of the text for every part.                        *)
LEMMA EndsTyped ==
  ASSUME PlanOK, NEW i \in 0 .. Len(text), NEW p \in 0 .. Size, NEW q \in 0 .. Size
  PROVE  Ends[<<i, p, q>>] \in Seq(0 .. Len(text))
<1>1. <<i, p, q>> \in Parts
  BY DEF Parts
<1> QED BY <1>1, EndsDefined DEF EndLists

(* What is wanted is at most one end; without partial it is the one at n,  *)
(* with partial there is one exactly when there is an end.                 *)
LEMMA WantTyped ==
  ASSUME PlanOK, NEW i \in 0 .. Len(text), NEW p \in 0 .. Size, NEW q \in 0 .. Size, NEW n, NEW partial \in BOOLEAN
  PROVE  /\ EndsAt(i, p, q) \in SUBSET (0 .. Len(text))
         /\ WantAt(i, p, q, n, partial) \in SUBSET EndsAt(i, p, q)
         /\ partial = FALSE => WantAt(i, p, q, n, partial) \in SUBSET {n}
         /\ \A x, y \in WantAt(i, p, q, n, partial) : x = y
         /\ n \in EndsAt(i, p, q) <=> WantAt(i, p, q, n, FALSE) # {}
         /\ partial = TRUE => (EndsAt(i, p, q) = {} <=> WantAt(i, p, q, n, partial) = {})
<1>1. PICK s : s = Ends[<<i, p, q>>]
  OBVIOUS
<1>5. PICK S : S = 0 .. Len(text)
  OBVIOUS
<1>2. s \in Seq(S)
  BY <1>1, <1>5, EndsTyped
<1>3. Range(s) \in SUBSET (0 .. Len(text))
  BY <1>2, <1>5 DEF Range
<1>4. Want(s, n, partial) \in SUBSET Range(s)
  BY <1>2, WantsAreEnds
<1>6. partial = FALSE => Want(s, n, partial) \in SUBSET {n}
  BY <1>2, WantsAreEnds
<1>7. \A x, y \in Want(s, n, partial) : x = y
  BY <1>2, WantsAreEnds
<1>8. n \in Range(s) <=> Want(s, n, FALSE) # {}
  BY <1>2, WantsAreEnds
<1>9. partial = TRUE => (Range(s) = {} <=> Want(s, n, partial) = {})
  BY <1>2, WantsAreEnds
<1> QED BY <1>1, <1>3, <1>4, <1>6, <1>7, <1>8, <1>9 DEF EndsAt, WantAt

(* What is wanted of nothing.                                              *)
LEMMA EmptyWants ==
  ASSUME PlanOK, NEW i \in 0 .. Len(text), NEW p \in 0 .. Size, NEW q \in 0 .. Size, p >= q,
         NEW n, NEW partial \in BOOLEAN
  PROVE  /\ WantAt(i, p, q, n, partial) = IF partial \/ i = n THEN {i} ELSE {}
         /\ EndsAt(i, p, q) = {i}
<1>1. Ends[<<i, p, q>>] = <<i>>
  BY EndsDefined, EndsOfEmpty
<1>2. Range(<<i>>) = {i}
  BY DEF Range
<1>3. <<i>> # <<>> /\ Head(<<i>>) = i
  OBVIOUS
<1> QED BY <1>1, <1>2, <1>3 DEF WantAt, EndsAt, Want

(* What is wanted of a part that begins with one character.                *)
LEMMA CharWants ==
  ASSUME PlanOK, NEW i \in 0 .. Len(text), NEW p \in 0 .. Size, NEW q \in 0 .. Size,
         p < q, P(p) # "*", ~IsGroup(p, q), NEW n, NEW partial \in BOOLEAN
  PROVE  /\ WantAt(i, p, q, n, partial) = IF i < Len(text) /\ T(i) \in OneChar(p, q).chars
                                          THEN WantAt(i + 1, OneChar(p, q).next, q, n, partial) ELSE {}
         /\ EndsAt(i, p, q) = IF i < Len(text) /\ T(i) \in OneChar(p, q).chars
                              THEN EndsAt(i + 1, OneChar(p, q).next, q) ELSE {}
<1>1. p \in Int /\ q \in Int
  BY Sizes
<1>2. Ends[<<i, p, q>>] = IF i < Len(text) /\ T(i) \in OneChar(p, q).chars
                          THEN Ends[<<i + 1, OneChar(p, q).next, q>>] ELSE <<>>
  BY <1>1, EndsDefined, EndsOfChar, ZenonT(60)
<1>3. PICK none : none = <<>>
  OBVIOUS
<1>4. Range(none) = {}
  <2>1. DOMAIN none = {}
    BY <1>3
  <2> QED BY <2>1 DEF Range
<1>5. Want(none, n, partial) = {}
  BY <1>3, <1>4 DEF Want
<1> QED BY <1>2, <1>3, <1>4, <1>5 DEF WantAt, EndsAt

(* What is wanted of the ends behind a list of places is wanted from the   *)
(* first place that has it.                                                *)
LEMMA ListWants ==
  ASSUME PlanOK, NEW m \in Nat, NEW found \in [1 .. m -> 0 .. Len(text)], NEW E, E = Range(found),
         \A j, k \in 1 .. m : j < k => found[j] < found[k],
         NEW p \in 0 .. Size, NEW q \in 0 .. Size, NEW n, NEW partial \in BOOLEAN
  PROVE  FirstEnd(E, p, q, n, partial, Want(Behind(Ends, found, p, q), n, partial))
<1>1. PICK ss : ss = [k \in DOMAIN found |-> Ends[<<found[k], p, q>>]]
  OBVIOUS
<1>2. DOMAIN found = 1 .. m /\ \A k \in 1 .. m : found[k] \in 0 .. Len(text)
  OBVIOUS
<1>3. \A k \in 1 .. m : ss[k] = Ends[<<found[k], p, q>>] /\ ss[k] \in Seq(0 .. Len(text))
  BY <1>1, <1>2, EndsTyped
<1>4. ss \in [1 .. m -> Seq(0 .. Len(text))]
  <2>1. ss = [k \in 1 .. m |-> ss[k]]
    BY <1>1, <1>2
  <2> QED BY <2>1, <1>3
<1>5. PICK v : v = [k \in 1 .. m |-> Want(ss[k], n, partial)]
  OBVIOUS
<1>6. \A k \in 1 .. m : v[k] = Want(ss[k], n, partial)
  BY <1>5
<1>7. PICK w : w = Want(Behind(Ends, found, p, q), n, partial)
  OBVIOUS
<1>8. First(v, m, w)
  <2>1. First(v, m, Want(FlattenSeq(ss), n, partial))
    BY <1>4, <1>6, FlattenWants
  <2> QED BY <2>1, <1>1, <1>7 DEF Behind
<1>9. \A k \in 1 .. m : v[k] = WantAt(found[k], p, q, n, partial) /\ found[k] \in E
  BY <1>2, <1>3, <1>6 DEF WantAt, Range
<1>10. \A e \in E : \E k \in 1 .. m : found[k] = e
  BY <1>2 DEF Range
<1>11. CASE w = {} /\ \A k \in 1 .. m : v[k] = {}
  BY <1>7, <1>9, <1>10, <1>11 DEF FirstEnd
<1>12. CASE w # {}
  <2>1. PICK k \in 1 .. m : w = v[k] /\ \A j \in 1 .. k - 1 : v[j] = {}
    BY <1>8, <1>12 DEF First
  <2>2. ASSUME NEW d \in E, d < found[k] PROVE WantAt(d, p, q, n, partial) = {}
    <3>1. PICK j \in 1 .. m : found[j] = d
      BY <1>10
    <3>2. found[j] \in Int /\ found[k] \in Int
      BY <1>2
    <3>3. ~(k < j) /\ k # j
      BY <2>2, <3>1, <3>2
    <3>4. j \in 1 .. k - 1
      BY <3>3
    <3> QED BY <3>1, <3>4, <2>1, <1>9
  <2> QED BY <2>1, <2>2, <1>7, <1>9, <1>12 DEF FirstEnd
<1> QED BY <1>8, <1>11, <1>12 DEF First

(* What is wanted of a part that begins with a star.                       *)
LEMMA StarWants ==
  ASSUME PlanOK, NEW i \in 0 .. Len(text), NEW p \in 0 .. Size, NEW q \in 0 .. Size,
         p < q, P(p) = "*", NEW n, NEW partial \in BOOLEAN
  PROVE  FirstEnd(i .. Len(text), p + 1, q, n, partial, WantAt(i, p, q, n, partial))
<1>0. Size \in Nat /\ Len(text) \in Nat /\ p \in Int /\ q \in Int
  BY Sizes
<1>1. PICK s : s = [k \in 1 .. Len(text) - i + 1 |-> i + k - 1]
  OBVIOUS
<1>2. PICK m \in Nat : s \in [1 .. m -> 0 .. Len(text)] /\ Range(s) = i .. Len(text)
  BY <1>1, PlacesFrom
<1>3. \A j, k \in 1 .. m : j < k => s[j] < s[k]
  <2>1. DOMAIN s = 1 .. Len(text) - i + 1
    BY <1>1
  <2>2. DOMAIN s = 1 .. m
    BY <1>2
  <2> QED BY <2>1, <2>2, <1>1
<1>4. PICK p1 \in 0 .. Size : p1 = p + 1
  BY <1>0
<1>5. PICK E : E = i .. Len(text)
  OBVIOUS
<1>6. FirstEnd(E, p1, q, n, partial, Want(Behind(Ends, s, p1, q), n, partial))
  BY <1>2, <1>3, <1>5, ListWants
<1>7. Ends[<<i, p, q>>] = Behind(Ends, s, p + 1, q)
  BY <1>0, <1>1, EndsDefined, EndsOfStar, SMTT(40)
<1> QED BY <1>4, <1>5, <1>6, <1>7 DEF WantAt

(* A group has the ends of its first branch, then those of the next.       *)
BranchWants(i, p, q, n, partial, u) ==
  \A k \in DOMAIN plan.branches[p] :
    FirstEnd(EndsAt(i, plan.branches[p][k].from, plan.branches[p][k].to), plan.close_parens[p] + 1, q, n, partial, u[k])

(* What is wanted of a part that begins with a group is wanted of its      *)
(* first branch that has it.                                               *)
LEMMA GroupWants ==
  ASSUME PlanOK, NEW i \in 0 .. Len(text), NEW p \in 0 .. Size, NEW q \in 0 .. Size,
         p < q, IsGroup(p, q), NEW n, NEW partial \in BOOLEAN
  PROVE  \E m, u : /\ m \in Nat /\ DOMAIN plan.branches[p] = 1 .. m
                   /\ BranchWants(i, p, q, n, partial, u)
                   /\ First(u, m, WantAt(i, p, q, n, partial))
<1>0. Size \in Nat /\ Len(text) \in Nat /\ p \in Int /\ q \in Int
  BY Sizes
<1>1. PICK close : close = plan.close_parens[p] /\ close \in p + 1 .. q - 1
  BY GroupParts
<1>2. PICK m \in Nat : DOMAIN plan.branches[p] = 1 .. m
  BY GroupParts
<1>3. \A k \in 1 .. m : BranchOK(plan.branches[p][k], p, close)
  BY <1>1, <1>2, GroupParts
<1>4. PICK c \in 0 .. Size : c = close + 1
  BY <1>0, <1>1
<1>5. PICK ss : ss = GroupLists(Ends, i, p, q)
  OBVIOUS
<1>6. DOMAIN ss = 1 .. m /\ ss = [k \in 1 .. m |-> ss[k]]
  BY <1>2, <1>5 DEF GroupLists
<1>7. PICK u : u = [k \in 1 .. m |-> Want(ss[k], n, partial)]
  OBVIOUS
<1>8. ASSUME NEW k \in 1 .. m
      PROVE  /\ ss[k] \in Seq(0 .. Len(text))
             /\ FirstEnd(EndsAt(i, plan.branches[p][k].from, plan.branches[p][k].to), c, q, n, partial, u[k])
  <2>1. PICK b : b = plan.branches[p][k]
    OBVIOUS
  <2>2. b.from \in 0 .. Size /\ b.to \in 0 .. Size
    <3>1. BranchOK(b, p, close)
      BY <2>1, <1>3
    <3>2. b.from \in Nat /\ b.to \in Nat /\ b.from <= b.to /\ b.to <= close
      BY <3>1 DEF BranchOK
    <3> QED BY <3>2, <1>0, <1>1, SMTT(40)
  <2>3. PICK s : s = Ends[<<i, b.from, b.to>>]
    OBVIOUS
  <2>4. s \in Seq(0 .. Len(text))
    BY <2>2, <2>3, EndsTyped
  <2>5. PICK S : S = Range(s)
    OBVIOUS
  <2>6. S \in SUBSET (0 .. Len(text))
    BY <2>4, <2>5 DEF Range
  <2>7. IsFiniteSet(S)
    <3>1. IsFiniteSet(0 .. Len(text))
      BY <1>0, FS_Interval
    <3> QED BY <3>1, <2>6, FS_Subset
  <2>8. S \in SUBSET Int
    BY <2>6
  <2>9. PICK o, l : o = InOrder(S) /\ l = Cardinality(S)
    OBVIOUS
  <2>10. /\ l \in Nat
         /\ o \in [1 .. l -> S]
         /\ \A x \in S : \E j \in 1 .. l : o[j] = x
         /\ \A j, h \in 1 .. l : j < h => o[j] < o[h]
    BY <2>7, <2>8, <2>9, InOrderLists
  <2>11. o \in [1 .. l -> 0 .. Len(text)]
    BY <2>6, <2>10
  <2>12. S = Range(o)
    BY <2>10 DEF Range
  <2>13. FirstEnd(S, c, q, n, partial, Want(Behind(Ends, o, c, q), n, partial))
    BY <2>10, <2>11, <2>12, ListWants
  <2>14. ss[k] = Behind(Ends, o, c, q)
    BY <1>1, <1>2, <1>4, <1>5, <2>1, <2>3, <2>5, <2>9 DEF GroupLists
  <2>15. ss[k] \in Seq(0 .. Len(text))
    <3>1. Behind(Ends, o, c, q) \in Seq(0 .. Len(text))
      BY <2>10, <2>11, EndsDefined, BehindJoins
    <3> QED BY <3>1, <2>14
  <2> QED BY <2>1, <2>3, <2>5, <2>13, <2>14, <2>15, <1>7 DEF EndsAt
<1>9. ss \in [1 .. m -> Seq(0 .. Len(text))]
  BY <1>6, <1>8
<1>10. \A k \in 1 .. m : u[k] = Want(ss[k], n, partial)
  BY <1>7
<1>11. First(u, m, Want(FlattenSeq(ss), n, partial))
  BY <1>9, <1>10, FlattenWants
<1>12. Ends[<<i, p, q>>] = FlattenSeq(ss)
  BY <1>0, <1>5, EndsDefined, EndsOfGroup
<1>13. BranchWants(i, p, q, n, partial, u)
  BY <1>1, <1>2, <1>4, <1>8 DEF BranchWants
<1>14. First(u, m, WantAt(i, p, q, n, partial))
  BY <1>11, <1>12 DEF WantAt
<1> QED BY <1>2, <1>13, <1>14

(* An end is wanted by some call exactly when it is one.                   *)
LEMMA WantsEnd ==
  ASSUME PlanOK, NEW i \in 0 .. Len(text), NEW p \in 0 .. Size, NEW q \in 0 .. Size, NEW n
  PROVE  n \in EndsAt(i, p, q) <=> WantAt(i, p, q, n, FALSE) # {}
BY DEF EndsAt, WantAt, Want

(* Ends of a part with a star: those of the rest from any place.           *)
LEMMA EndsOfStars ==
  ASSUME PlanOK, NEW i \in 0 .. Len(text), NEW p \in 0 .. Size, NEW q \in 0 .. Size, p < q, P(p) = "*", NEW x
  PROVE  x \in EndsAt(i, p, q) <=> \E k \in i .. Len(text) : x \in EndsAt(k, p + 1, q)
<1>0. Size \in Nat /\ Len(text) \in Nat /\ p + 1 \in 0 .. Size
  BY Sizes
<1>1. PICK w : w = WantAt(i, p, q, x, FALSE)
  OBVIOUS
<1>7. PICK E : E = i .. Len(text)
  OBVIOUS
<1>2. PICK p1 \in 0 .. Size : E = i .. Len(text) /\ p1 = p + 1
  BY <1>0, <1>7
<1>3. FirstEnd(E, p1, q, x, FALSE, w)
  BY <1>1, <1>2, StarWants
<1>4. x \in EndsAt(i, p, q) <=> w # {}
  BY <1>1, WantsEnd
<1>5. ASSUME NEW k \in E PROVE x \in EndsAt(k, p1, q) <=> WantAt(k, p1, q, x, FALSE) # {}
  <2>1. k \in 0 .. Len(text)
    BY <1>0, <1>2
  <2> QED BY <2>1, WantsEnd
<1>6. w # {} <=> \E k \in E : WantAt(k, p1, q, x, FALSE) # {}
  BY <1>3 DEF FirstEnd
<1> QED BY <1>2, <1>4, <1>5, <1>6

(* Ends of a part with a group: those behind an end of a branch.           *)
LEMMA EndsOfGroups ==
  ASSUME PlanOK, NEW i \in 0 .. Len(text), NEW p \in 0 .. Size, NEW q \in 0 .. Size, p < q, IsGroup(p, q), NEW x
  PROVE  x \in EndsAt(i, p, q) <=>
           \E k \in DOMAIN plan.branches[p] :
             \E e \in EndsAt(i, plan.branches[p][k].from, plan.branches[p][k].to) :
               x \in EndsAt(e, plan.close_parens[p] + 1, q)
<1>1. Ends[<<i, p, q>>] = FlattenSeq(GroupLists(Ends, i, p, q))
  <2>1. p \in Int /\ q \in Int
    BY Sizes
  <2> QED BY <2>1, EndsDefined, EndsOfGroup
<1>2. x \in Range(FlattenSeq(GroupLists(Ends, i, p, q))) <=> GroupEnd(Ends, i, p, q, x)
  BY EndsDefined, GroupListsJoin
<1> QED BY <1>1, <1>2 DEF GroupEnd, EndsAt

(* A part ends where it begins or behind.                                  *)
LEMMA EndsFollow ==
  ASSUME PlanOK, NEW i \in 0 .. Len(text), NEW p \in 0 .. Size, NEW q \in 0 .. Size, NEW x \in EndsAt(i, p, q)
  PROVE  x \in i .. Len(text)
<1>0. Size \in Nat /\ Len(text) \in Nat
  BY Sizes
<1> DEFINE Follow(d) == \A j \in 0 .. Len(text), a \in 0 .. Size, b \in 0 .. Size :
                          b - a <= d => \A y \in EndsAt(j, a, b) : y \in j .. Len(text)
           Have == {d \in Nat : Follow(d)}
<1>1. 0 \in Have
  <2>1. ASSUME NEW j \in 0 .. Len(text), NEW a \in 0 .. Size, NEW b \in 0 .. Size, b - a <= 0, NEW y \in EndsAt(j, a, b)
        PROVE  y \in j .. Len(text)
    <3>1. a >= b
      BY <2>1, <1>0
    <3>2. EndsAt(j, a, b) = {j}
      BY <3>1, EmptyWants
    <3> QED BY <3>2, <2>1, <1>0
  <2> QED BY <2>1
<1>2. ASSUME NEW d \in Nat, d \in Have PROVE d + 1 \in Have
  <2>0. Follow(d)
    BY <1>2
  <2>1. ASSUME NEW j \in 0 .. Len(text), NEW a \in 0 .. Size, NEW b \in 0 .. Size, b - a <= d + 1, NEW y \in EndsAt(j, a, b)
        PROVE  y \in j .. Len(text)
    <3>1. CASE a >= b
      <4>1. EndsAt(j, a, b) = {j}
        BY <3>1, EmptyWants
      <4> QED BY <4>1, <2>1, <1>0
    <3>2. CASE a < b /\ P(a) = "*"
      <4>1. PICK k \in j .. Len(text) : y \in EndsAt(k, a + 1, b)
        BY <2>1, <3>2, EndsOfStars
      <4>2. k \in 0 .. Len(text) /\ a + 1 \in 0 .. Size /\ b - (a + 1) <= d
        BY <1>0, <2>1, <3>2
      <4>3. y \in k .. Len(text)
        BY <2>0, <4>1, <4>2
      <4> QED BY <4>1, <4>3, <1>0
    <3>3. CASE a < b /\ IsGroup(a, b)
      <4>1. PICK k \in DOMAIN plan.branches[a] :
              \E e \in EndsAt(j, plan.branches[a][k].from, plan.branches[a][k].to) :
                y \in EndsAt(e, plan.close_parens[a] + 1, b)
        BY <2>1, <3>3, EndsOfGroups
      <4>2. PICK br, close : br = plan.branches[a][k] /\ close = plan.close_parens[a]
        OBVIOUS
      <4>3. close \in a + 1 .. b - 1 /\ BranchOK(br, a, close)
        BY <3>3, <4>2, GroupParts
      <4>4. br.from \in 0 .. Size /\ br.to \in 0 .. Size /\ br.to - br.from <= d
        <5>1. br.from \in Nat /\ br.to \in Nat /\ a < br.from /\ br.from <= br.to /\ br.to <= close
          BY <4>3 DEF BranchOK
        <5> QED BY <5>1, <4>3, <2>1, <1>0, SMTT(40)
      <4>5. PICK e \in EndsAt(j, br.from, br.to) : y \in EndsAt(e, close + 1, b)
        BY <4>1, <4>2
      <4>6. e \in j .. Len(text)
        BY <4>4, <4>5, <2>0
      <4>7. close + 1 \in 0 .. Size /\ b - (close + 1) <= d /\ e \in 0 .. Len(text)
        BY <4>3, <4>6, <2>1, <1>0
      <4>8. y \in e .. Len(text)
        BY <4>5, <4>7, <2>0
      <4> QED BY <4>6, <4>8, <1>0
    <3>4. CASE a < b /\ P(a) # "*" /\ ~IsGroup(a, b)
      <4>1. j < Len(text) /\ T(j) \in OneChar(a, b).chars /\ y \in EndsAt(j + 1, OneChar(a, b).next, b)
        <5>1. EndsAt(j, a, b) = IF j < Len(text) /\ T(j) \in OneChar(a, b).chars
                                THEN EndsAt(j + 1, OneChar(a, b).next, b) ELSE {}
          BY <3>4, CharWants
        <5> QED BY <5>1, <2>1
      <4>2. PICK next : next = OneChar(a, b).next
        OBVIOUS
      <4>3. next \in a + 1 .. b
        BY <3>4, <4>1, <4>2, OneCharNext
      <4>4. j + 1 \in 0 .. Len(text) /\ next \in 0 .. Size /\ b - next <= d
        BY <4>1, <4>3, <2>1, <1>0, SMTT(40)
      <4>5. y \in j + 1 .. Len(text)
        BY <4>1, <4>2, <4>4, <2>0
      <4> QED BY <4>5, <1>0
    <3> QED BY <3>1, <3>2, <3>3, <3>4, <1>0
  <2> QED BY <2>1
<1>3. Nat \subseteq Have
  <2> HIDE DEF Have
  <2> QED BY <1>1, <1>2, SetInduction
<1>4. Follow(Size)
  BY <1>0, <1>3
<1>5. q - p <= Size
  BY <1>0
<1> QED BY <1>4, <1>5
-----------------------------------------------------------------------------
(* How many backslashes stand right before a position.                     *)
LEMMA BackslashRun ==
  ASSUME NEW a \in Nat, NEW i \in Nat, a <= i
  PROVE  \E n \in 0 .. i - a : /\ BackslashesBefore(i, a) = n
                               /\ \A k \in i - n .. i - 1 : P(k) = "\\"
                               /\ i - n = a \/ P(i - n - 1) # "\\"
<1> DEFINE S == {j \in a .. i : \A k \in j .. i - 1 : P(k) = "\\"}
           Is(j) == j \in a .. i /\ (\A k \in j .. i - 1 : P(k) = "\\") /\ (j = a \/ P(j - 1) # "\\")
<1>1. S \in SUBSET Nat /\ i \in S
  OBVIOUS
<1>2. PICK m \in S : \A n \in S : m <= n
  BY <1>1, LeastNumber
<1>3. Is(m)
  <2> SUFFICES ASSUME m # a, P(m - 1) = "\\" PROVE FALSE
    OBVIOUS
  <2>1. m - 1 \in a .. i /\ \A k \in m - 1 .. i - 1 : k = m - 1 \/ k \in m .. i - 1
    OBVIOUS
  <2>2. m - 1 \in S
    BY <2>1
  <2>3. m <= m - 1
    BY <2>2, <1>2
  <2>4. m \in Int
    OBVIOUS
  <2> QED BY <2>3, <2>4
<1>4. PICK j : j = (CHOOSE h \in a .. i : (\A k \in h .. i - 1 : P(k) = "\\") /\ (h = a \/ P(h - 1) # "\\"))
  OBVIOUS
<1>5. Is(j)
  BY <1>3, <1>4
<1>6. BackslashesBefore(i, a) = i - j
  BY <1>4 DEF BackslashesBefore
<1>7. PICK n \in 0 .. i - a : n = i - j
  BY <1>5
<1>8. i - n = j
  BY <1>5, <1>7
<1> QED BY <1>5, <1>6, <1>7, <1>8

(* The run of backslashes before a position is counted right.              *)
LEMMA RunUnique ==
  ASSUME NEW a \in Nat, NEW i \in Nat, a <= i, NEW n \in 0 .. i - a,
         \A k \in i - n .. i - 1 : P(k) = "\\", i - n = a \/ P(i - n - 1) # "\\"
  PROVE  BackslashesBefore(i, a) = n
<1>1. PICK m \in 0 .. i - a : /\ BackslashesBefore(i, a) = m
                              /\ \A k \in i - m .. i - 1 : P(k) = "\\"
                              /\ i - m = a \/ P(i - m - 1) # "\\"
  BY BackslashRun
<1>2. ~(m < n)
  <2> SUFFICES ASSUME m < n PROVE FALSE
    OBVIOUS
  <2>1. PICK k \in i - n .. i - 1 : k = i - m - 1 /\ i - m # a
    OBVIOUS
  <2> QED BY <2>1, <1>1
<1>3. ~(n < m)
  <2> SUFFICES ASSUME n < m PROVE FALSE
    OBVIOUS
  <2>1. PICK k \in i - m .. i - 1 : k = i - n - 1 /\ i - n # a
    OBVIOUS
  <2> QED BY <2>1, <1>1
<1>4. m = n
  BY <1>2, <1>3
<1> QED BY <1>1, <1>4

(* No run stands behind another character.                                 *)
LEMMA NoRunBehindOther ==
  ASSUME NEW a \in Nat, NEW i \in Nat, a < i, P(i - 1) # "\\"
  PROVE  BackslashesBefore(i, a) % 2 = 0
<1>1. \A k \in i - 0 .. i - 1 : P(k) = "\\"
  OBVIOUS
<1>2. i - 0 - 1 = i - 1 /\ 0 \in 0 .. i - a
  OBVIOUS
<1>3. BackslashesBefore(i, a) = 0
  BY <1>1, <1>2, RunUnique
<1> QED BY <1>3

(* No run stands where the scan begins.                                    *)
LEMMA NoRunAtStart ==
  ASSUME NEW a \in Nat
  PROVE  BackslashesBefore(a, a) = 0
<1>1. \A k \in a - 0 .. a - 1 : P(k) = "\\"
  OBVIOUS
<1>2. a - 0 = a /\ 0 \in 0 .. a - a
  OBVIOUS
<1> QED BY <1>1, <1>2, RunUnique

(* Behind an escape the backslashes before are even in number.             *)
LEMMA RunBehindEscape ==
  ASSUME NEW a \in Nat, P(a) = "\\"
  PROVE  BackslashesBefore(a + 2, a) % 2 = 0
<1>1. CASE P(a + 1) = "\\"
  <2>1. \A k \in (a + 2) - 2 .. (a + 2) - 1 : P(k) = "\\"
    <3>1. \A k \in (a + 2) - 2 .. (a + 2) - 1 : k = a \/ k = a + 1
      OBVIOUS
    <3> QED BY <3>1, <1>1
  <2>2. (a + 2) - 2 = a /\ 2 \in 0 .. (a + 2) - a /\ a + 2 \in Nat
    OBVIOUS
  <2>3. BackslashesBefore(a + 2, a) = 2
    BY <2>1, <2>2, RunUnique
  <2> QED BY <2>3
<1>2. CASE P(a + 1) # "\\"
  <2>1. (a + 2) - 1 = a + 1 /\ a < a + 2 /\ a + 2 \in Nat
    OBVIOUS
  <2> QED BY <2>1, <1>2, NoRunBehindOther
<1> QED BY <1>1, <1>2

(* Where the scan may begin: behind a position it looks at as well.        *)
LEMMA RunFrom ==
  ASSUME NEW a \in Nat, NEW b \in Nat, NEW i \in Nat, a <= b, b <= i, BackslashesBefore(b, a) % 2 = 0,
         BackslashesBefore(i, b) % 2 = 0
  PROVE  BackslashesBefore(i, a) % 2 = 0
<1>1. PICK n \in 0 .. i - b : /\ BackslashesBefore(i, b) = n
                              /\ \A k \in i - n .. i - 1 : P(k) = "\\"
                              /\ i - n = b \/ P(i - n - 1) # "\\"
  BY BackslashRun
<1>2. CASE i - n = b
  <2>1. PICK m \in 0 .. b - a : /\ BackslashesBefore(b, a) = m
                                /\ \A k \in b - m .. b - 1 : P(k) = "\\"
                                /\ b - m = a \/ P(b - m - 1) # "\\"
    BY BackslashRun
  <2>2. PICK l \in 0 .. i - a : l = n + m
    OBVIOUS
  <2>3. i - l = b - m /\ i - l - 1 = b - m - 1
    BY <1>2, <2>2
  <2>4. ASSUME NEW k \in i - l .. i - 1 PROVE P(k) = "\\"
    <3>1. k \in b - m .. b - 1 \/ k \in i - n .. i - 1
      BY <1>2, <2>2
    <3> QED BY <3>1, <2>1, <1>1
  <2>5. i - l = a \/ P(i - l - 1) # "\\"
    BY <2>1, <2>3
  <2>6. BackslashesBefore(i, a) = l
    BY <2>4, <2>5, RunUnique
  <2>7. n % 2 = 0 /\ m % 2 = 0
    BY <1>1, <2>1
  <2>8. l % 2 = 0
    BY <2>2, <2>7
  <2> QED BY <2>6, <2>8
<1>3. CASE i - n # b
  <2>1. n \in 0 .. i - a /\ (i - n = a \/ P(i - n - 1) # "\\")
    <3>1. n \in 0 .. i - a
      OBVIOUS
    <3>2. P(i - n - 1) # "\\"
      BY <1>1, <1>3
    <3> QED BY <3>1, <3>2
  <2>3. a <= i /\ \A k \in i - n .. i - 1 : P(k) = "\\"
    BY <1>1
  <2>2. BackslashesBefore(i, a) = n
    BY <2>1, <2>3, RunUnique
  <2> QED BY <2>2, <1>1
<1> QED BY <1>2, <1>3

NoStar(p, q) == Marks({"*"}, p, q) = {}

(* A part without a star has none in any part of it.                       *)
LEMMA NoStarInside ==
  ASSUME NEW a \in Nat, NEW b \in Nat, NoStar(a, b), NEW c \in Nat, NEW d \in Nat,
         a <= c, d <= b, BackslashesBefore(c, a) % 2 = 0
  PROVE  NoStar(c, d)
<1> SUFFICES ASSUME NEW k \in Marks({"*"}, c, d) PROVE FALSE
  BY DEF NoStar
<1>1. k \in c .. d - 1 /\ BackslashesBefore(k, c) % 2 = 0 /\ P(k) = "*"
  BY DEF Marks, Unescaped
<1>2. BackslashesBefore(k, a) % 2 = 0
  BY <1>1, RunFrom
<1>3. k \in Marks({"*"}, a, b)
  BY <1>1, <1>2 DEF Marks, Unescaped
<1> QED BY <1>3 DEF NoStar

(* A part without a star does not begin with one.                          *)
LEMMA NoStarFirst ==
  ASSUME NEW a \in Nat, NEW b \in Nat, a < b, NoStar(a, b)
  PROVE  P(a) # "*"
<1>1. BackslashesBefore(a, a) % 2 = 0
  BY NoRunAtStart
<1>2. P(a) = "*" => a \in Marks({"*"}, a, b)
  BY <1>1 DEF Marks, Unescaped
<1> QED BY <1>2 DEF NoStar

(* The scan looks at the position behind a token.                          *)
LEMMA NextIsLookedAt ==
  ASSUME PlanOK, NEW p \in 0 .. Size, NEW q \in 0 .. Size, p < q, NEW c \in OneChar(p, q).chars
  PROVE  BackslashesBefore(OneChar(p, q).next, p) % 2 = 0
<1>0. Size \in Nat /\ p \in 0 .. Size - 1 /\ p \in Nat
  BY Sizes
<1>1. CASE P(p) = "\\"
  <2>1. P(p) # "?" /\ P(p) # "["
    BY <1>1
  <2>2. OneChar(p, q).next = p + 2
    BY <1>1, <2>1 DEF OneChar, IsSet
  <2> QED BY <2>2, <1>0, <1>1, RunBehindEscape
<1>2. CASE IsSet(p, q)
  <2>1. P(p) = "["
    BY <1>2 DEF IsSet
  <2>2. P(p) # "?" /\ P(p) # "\\"
    BY <2>1
  <2>3. OneChar(p, q).next = plan.close_brackets[p] + 1
    BY <1>2, <2>2 DEF OneChar
  <2>4. PICK close : close = plan.close_brackets[p]
    OBVIOUS
  <2>5. close \in p + 1 .. Size /\ close < q /\ (close < Size => P(close) = "]")
    BY <2>1, <2>4, <1>0, <1>2 DEF PlanOK, IsSet
  <2>6. PICK i \in Nat : i = close + 1
    BY <2>5, <1>0
  <2>7. P(i - 1) # "\\" /\ p < i
    <3>1. i - 1 = close /\ p < i /\ close < Size
      BY <2>5, <2>6, <1>0
    <3>2. P(close) = "]"
      BY <3>1, <2>5
    <3> QED BY <3>1, <3>2
  <2>8. BackslashesBefore(i, p) % 2 = 0
    BY <2>7, <1>0, NoRunBehindOther
  <2> QED BY <2>3, <2>4, <2>6, <2>8
<1>3. CASE P(p) # "\\" /\ ~IsSet(p, q)
  <2>1. OneChar(p, q).next = p + 1
    BY <1>3 DEF OneChar
  <2>2. PICK i \in Nat : i = p + 1
    BY <1>0
  <2>3. P(i - 1) # "\\" /\ p < i
    <3>1. i - 1 = p /\ p < i
      BY <2>2, <1>0
    <3> QED BY <3>1, <1>3
  <2>4. BackslashesBefore(i, p) % 2 = 0
    BY <2>3, <1>0, NoRunBehindOther
  <2> QED BY <2>1, <2>2, <2>4
<1> QED BY <1>1, <1>2, <1>3

(* A branch without a star stands for no more characters than it has.      *)
LEMMA Bounded ==
  ASSUME PlanOK, NEW i \in 0 .. Len(text), NEW p \in 0 .. Size, NEW q \in 0 .. Size, p <= q, NoStar(p, q),
         NEW x \in EndsAt(i, p, q)
  PROVE  x <= i + (q - p)
<1>0. Size \in Nat /\ Len(text) \in Nat
  BY Sizes
<1> DEFINE Short(d) == \A j \in 0 .. Len(text), a \in 0 .. Size, b \in 0 .. Size :
                          a <= b /\ b - a <= d /\ NoStar(a, b) => \A y \in EndsAt(j, a, b) : y <= j + (b - a)
           Have == {d \in Nat : Short(d)}
<1>1. 0 \in Have
  <2>1. ASSUME NEW j \in 0 .. Len(text), NEW a \in 0 .. Size, NEW b \in 0 .. Size, a <= b, b - a <= 0,
               NEW y \in EndsAt(j, a, b)
        PROVE  y <= j + (b - a)
    <3>1. a >= b
      BY <2>1, <1>0
    <3>2. EndsAt(j, a, b) = {j}
      BY <3>1, EmptyWants
    <3> QED BY <3>2, <2>1, <1>0
  <2> QED BY <2>1
<1>2. ASSUME NEW d \in Nat, d \in Have PROVE d + 1 \in Have
  <2>0. Short(d)
    BY <1>2
  <2>1. ASSUME NEW j \in 0 .. Len(text), NEW a \in 0 .. Size, NEW b \in 0 .. Size, a <= b, b - a <= d + 1,
               NoStar(a, b), NEW y \in EndsAt(j, a, b)
        PROVE  y <= j + (b - a)
    <3>0. a \in Nat /\ b \in Nat
      BY <1>0
    <3>1. CASE a >= b
      <4>1. EndsAt(j, a, b) = {j}
        BY <3>1, EmptyWants
      <4> QED BY <4>1, <2>1, <1>0
    <3>2. CASE a < b /\ IsGroup(a, b)
      <4>1. PICK k \in DOMAIN plan.branches[a] :
              \E e \in EndsAt(j, plan.branches[a][k].from, plan.branches[a][k].to) :
                y \in EndsAt(e, plan.close_parens[a] + 1, b)
        BY <2>1, <3>2, EndsOfGroups
      <4>2. PICK br, close : br = plan.branches[a][k] /\ close = plan.close_parens[a]
        OBVIOUS
      <4>3. close \in a + 1 .. b - 1 /\ BranchOK(br, a, close) /\ P(close) = ")"
        BY <3>2, <4>2, GroupParts
      <4>4. PICK f \in Nat, t \in Nat : f = br.from /\ t = br.to
        BY <4>3 DEF BranchOK
      <4>5. a < f /\ f <= t /\ t <= close /\ P(f - 1) # "\\"
        BY <4>3, <4>4 DEF BranchOK
      <4>6. f \in 0 .. Size /\ t \in 0 .. Size /\ t - f <= d /\ t <= b
        BY <4>5, <4>3, <2>1, <1>0, SMTT(40)
      <4>7. NoStar(f, t)
        <5>1. BackslashesBefore(f, a) % 2 = 0
          BY <4>5, <3>0, NoRunBehindOther
        <5>2. a <= f
          BY <4>5, <3>0
        <5> QED BY <5>1, <5>2, <4>6, <3>0, <2>1, NoStarInside
      <4>8. PICK e \in EndsAt(j, f, t) : y \in EndsAt(e, close + 1, b)
        BY <4>1, <4>2, <4>4
      <4>9. e <= j + (t - f)
        BY <4>5, <4>6, <4>7, <4>8, <2>0
      <4>10. e \in j .. Len(text)
        BY <4>6, <4>8, EndsFollow
      <4>11. PICK c \in Nat : c = close + 1
        BY <4>3, <3>0
      <4>12. NoStar(c, b)
        <5>1. c - 1 = close /\ a < c /\ a <= c
          BY <4>11, <4>3, <3>0, SMTT(40)
        <5>2. P(c - 1) # "\\"
          BY <5>1, <4>3
        <5>3. BackslashesBefore(c, a) % 2 = 0
          BY <5>1, <5>2, <3>0, NoRunBehindOther
        <5>4. b <= b
          BY <3>0
        <5> QED BY <5>1, <5>3, <5>4, <3>0, <2>1, NoStarInside
      <4>13. c \in 0 .. Size /\ c <= b /\ b - c <= d /\ e \in 0 .. Len(text)
        BY <4>3, <4>10, <4>11, <2>1, <1>0
      <4>14. y <= e + (b - c)
        BY <4>8, <4>11, <4>12, <4>13, <2>0
      <4>15. y \in e .. Len(text)
        BY <4>8, <4>11, <4>13, EndsFollow
      <4> QED BY <4>3, <4>5, <4>9, <4>10, <4>11, <4>14, <4>15, <3>0, <1>0
    <3>3. CASE a < b /\ ~IsGroup(a, b)
      <4>0. P(a) # "*"
        BY <3>0, <3>3, <2>1, NoStarFirst
      <4>1. j < Len(text) /\ T(j) \in OneChar(a, b).chars /\ y \in EndsAt(j + 1, OneChar(a, b).next, b)
        <5>1. EndsAt(j, a, b) = IF j < Len(text) /\ T(j) \in OneChar(a, b).chars
                                THEN EndsAt(j + 1, OneChar(a, b).next, b) ELSE {}
          BY <3>3, <4>0, CharWants
        <5> QED BY <5>1, <2>1
      <4>2. PICK next : next = OneChar(a, b).next
        OBVIOUS
      <4>3. next \in a + 1 .. b /\ BackslashesBefore(next, a) % 2 = 0
        BY <3>3, <4>1, <4>2, OneCharNext, NextIsLookedAt
      <4>4. j + 1 \in 0 .. Len(text) /\ next \in 0 .. Size /\ b - next <= d /\ next <= b
        BY <4>1, <4>3, <2>1, <1>0, SMTT(40)
      <4>5. NoStar(next, b)
        <5>1. next \in Nat /\ a <= next /\ b <= b
          BY <4>3, <3>0
        <5> QED BY <5>1, <4>3, <3>0, <2>1, NoStarInside
      <4>6. y <= (j + 1) + (b - next)
        BY <4>1, <4>2, <4>4, <4>5, <2>0
      <4>7. y \in j + 1 .. Len(text)
        BY <4>1, <4>2, <4>4, EndsFollow
      <4> QED BY <4>3, <4>6, <4>7, <3>0, <1>0
    <3> QED BY <3>1, <3>2, <3>3, <1>0
  <2> QED BY <2>1
<1>3. Nat \subseteq Have
  <2> HIDE DEF Have
  <2> QED BY <1>1, <1>2, SetInduction
<1>4. Short(Size)
  BY <1>0, <1>3
<1>5. q - p <= Size
  BY <1>0
<1> QED BY <1>4, <1>5
-----------------------------------------------------------------------------
(* The part from p to e, where no special character is, read as it stands. *)
Reads(i, p, e) == i + (e - p) <= Len(text) /\ \A k \in p .. e - 1 : T(i + (k - p)) = P(k)
Plain(p, e) == \A k \in p .. e - 1 : P(k) \notin Special

(* A literal part is read character by character.                          *)
LEMMA ReadsOne ==
  ASSUME PlanOK, NEW i \in 0 .. Len(text), NEW p \in Nat, NEW e \in Nat, p < e
  PROVE  Reads(i, p, e) <=> i < Len(text) /\ T(i) = P(p) /\ Reads(i + 1, p + 1, e)
<1>0. Len(text) \in Nat /\ i \in Int
  BY Sizes
<1>1. (i + 1) + (e - (p + 1)) = i + (e - p) /\ i + (p - p) = i /\ p \in p .. e - 1
  BY <1>0
<1>2. \A k \in p + 1 .. e - 1 : (i + 1) + (k - (p + 1)) = i + (k - p) /\ k \in p .. e - 1
  BY <1>0
<1>3. ASSUME Reads(i, p, e) PROVE i < Len(text) /\ T(i) = P(p) /\ Reads(i + 1, p + 1, e)
  <2>1. i + (e - p) <= Len(text) /\ \A k \in p .. e - 1 : T(i + (k - p)) = P(k)
    BY <1>3 DEF Reads
  <2>2. i < Len(text)
    BY <2>1, <1>0
  <2>3. T(i) = P(p)
    BY <2>1, <1>1
  <2>4. \A k \in p + 1 .. e - 1 : T((i + 1) + (k - (p + 1))) = P(k)
    BY <2>1, <1>2
  <2> QED BY <2>1, <2>2, <2>3, <2>4, <1>1 DEF Reads
<1>4. ASSUME i < Len(text), T(i) = P(p), Reads(i + 1, p + 1, e) PROVE Reads(i, p, e)
  <2>1. (i + 1) + (e - (p + 1)) <= Len(text) /\ \A k \in p + 1 .. e - 1 : T((i + 1) + (k - (p + 1))) = P(k)
    BY <1>4 DEF Reads
  <2>2. ASSUME NEW k \in p .. e - 1 PROVE T(i + (k - p)) = P(k)
    <3>1. CASE k = p
      BY <3>1, <1>1, <1>4
    <3>2. CASE k # p
      <4>1. k \in p + 1 .. e - 1
        BY <3>2
      <4> QED BY <4>1, <2>1, <1>2
    <3> QED BY <3>1, <3>2
  <2> QED BY <2>1, <2>2, <1>1 DEF Reads
<1> QED BY <1>3, <1>4

(* What is wanted of a part that begins with a literal one.                *)
LEMMA PlainWants ==
  ASSUME PlanOK, NEW i \in 0 .. Len(text), NEW p \in 0 .. Size, NEW e \in 0 .. Size, NEW q \in 0 .. Size,
         p <= e, e <= q, Plain(p, e), NEW n, NEW partial \in BOOLEAN
  PROVE  WantAt(i, p, q, n, partial) = IF Reads(i, p, e) THEN WantAt(i + (e - p), e, q, n, partial) ELSE {}
<1>0. Size \in Nat /\ Len(text) \in Nat
  BY Sizes
<1> DEFINE Right(d) == \A j \in 0 .. Len(text), a \in 0 .. Size :
                          a <= e /\ e - a = d /\ Plain(a, e) =>
                          WantAt(j, a, q, n, partial) = IF Reads(j, a, e) THEN WantAt(j + (e - a), e, q, n, partial) ELSE {}
           Have == {d \in Nat : Right(d)}
<1>1. 0 \in Have
  <2>1. ASSUME NEW j \in 0 .. Len(text), NEW a \in 0 .. Size, a <= e, e - a = 0
        PROVE  WantAt(j, a, q, n, partial) = IF Reads(j, a, e) THEN WantAt(j + (e - a), e, q, n, partial) ELSE {}
    <3>1. a = e /\ j + (e - a) = j /\ j <= Len(text) /\ \A k \in a .. e - 1 : FALSE
      BY <2>1, <1>0
    <3>2. Reads(j, a, e)
      BY <3>1 DEF Reads
    <3> QED BY <3>1, <3>2
  <2> QED BY <2>1
<1>2. ASSUME NEW d \in Nat, d \in Have PROVE d + 1 \in Have
  <2>0. Right(d)
    BY <1>2
  <2>1. ASSUME NEW j \in 0 .. Len(text), NEW a \in 0 .. Size, a <= e, e - a = d + 1, Plain(a, e)
        PROVE  WantAt(j, a, q, n, partial) = IF Reads(j, a, e) THEN WantAt(j + (e - a), e, q, n, partial) ELSE {}
    <3>0. a \in Nat /\ e \in Nat /\ a < e /\ a < q /\ a \in a .. e - 1
      BY <2>1, <1>0
    <3>1. P(a) \notin Special
      BY <2>1, <3>0 DEF Plain
    <3>2. P(a) # "*" /\ P(a) # "?" /\ P(a) # "[" /\ P(a) # "(" /\ P(a) # "\\"
      BY <3>1 DEF Special
    <3>3. ~IsGroup(a, q) /\ ~IsSet(a, q)
      BY <3>2 DEF IsGroup, IsSet
    <3>4. OneChar(a, q).chars = {P(a)} /\ OneChar(a, q).next = a + 1
      BY <3>2, <3>3 DEF OneChar
    <3>5. WantAt(j, a, q, n, partial) = IF j < Len(text) /\ T(j) = P(a)
                                        THEN WantAt(j + 1, a + 1, q, n, partial) ELSE {}
      <4>1. WantAt(j, a, q, n, partial) = IF j < Len(text) /\ T(j) \in OneChar(a, q).chars
                                          THEN WantAt(j + 1, OneChar(a, q).next, q, n, partial) ELSE {}
        BY <3>0, <3>2, <3>3, CharWants
      <4> QED BY <4>1, <3>4
    <3>6. Reads(j, a, e) <=> j < Len(text) /\ T(j) = P(a) /\ Reads(j + 1, a + 1, e)
      BY <3>0, ReadsOne
    <3>7. CASE j < Len(text) /\ T(j) = P(a)
      <4>1. j + 1 \in 0 .. Len(text) /\ a + 1 \in 0 .. Size /\ a + 1 <= e /\ e - (a + 1) = d
            /\ (j + 1) + (e - (a + 1)) = j + (e - a)
        BY <3>7, <2>1, <1>0
      <4>2. Plain(a + 1, e)
        <5>1. \A k \in (a + 1) .. e - 1 : k \in a .. e - 1
          BY <3>0
        <5> QED BY <5>1, <2>1 DEF Plain
      <4>3. WantAt(j + 1, a + 1, q, n, partial) =
              IF Reads(j + 1, a + 1, e) THEN WantAt((j + 1) + (e - (a + 1)), e, q, n, partial) ELSE {}
        BY <4>1, <4>2, <2>0
      <4> QED BY <4>1, <4>3, <3>5, <3>6, <3>7
    <3> QED BY <3>5, <3>6, <3>7
  <2> QED BY <2>1
<1>3. Nat \subseteq Have
  <2> HIDE DEF Have
  <2> QED BY <1>1, <1>2, SetInduction
<1>4. e - p \in Nat
  BY <1>0
<1>5. Right(e - p)
  BY <1>3, <1>4
<1> QED BY <1>5

(* AfterStars is the first position that is not a star.                    *)
LEMMA AfterStarsIs ==
  ASSUME NEW p \in Nat, NEW q \in Nat, p <= q
  PROVE  \E r \in p .. q : /\ AfterStars(p, q) = r
                           /\ \A k \in p .. r - 1 : P(k) = "*"
                           /\ r = q \/ P(r) # "*"
<1> DEFINE S == {i \in p .. q : i = q \/ P(i) # "*"}
           Is(i) == i \in p .. q /\ (\A k \in p .. i - 1 : P(k) = "*") /\ (i = q \/ P(i) # "*")
<1>1. S \in SUBSET Nat /\ q \in S
  OBVIOUS
<1>2. PICK m \in S : \A n \in S : m <= n
  BY <1>1, LeastNumber
<1>3. Is(m)
  <2>1. ASSUME NEW k \in p .. m - 1, P(k) # "*" PROVE FALSE
    <3>1. k \in S
      BY <2>1
    <3>2. m <= k /\ m \in Int
      BY <3>1, <1>2
    <3> QED BY <3>2
  <2> QED BY <2>1
<1>4. PICK j : j = (CHOOSE h \in p .. q : (\A k \in p .. h - 1 : P(k) = "*") /\ (h = q \/ P(h) # "*"))
  OBVIOUS
<1>5. Is(j)
  BY <1>3, <1>4
<1>6. AfterStars(p, q) = j
  BY <1>4 DEF AfterStars
<1> QED BY <1>5, <1>6

(* ChunkEnd is the end of the literal part.                                *)
LEMMA ChunkEndIs ==
  ASSUME NEW p \in Nat, NEW q \in Nat, p <= q
  PROVE  \E r \in p .. q : /\ ChunkEnd(p, q) = r
                           /\ Plain(p, r)
                           /\ r = q \/ P(r) \in Special
<1> DEFINE S == {i \in p .. q : i = q \/ P(i) \in Special}
           Is(i) == i \in p .. q /\ (\A k \in p .. i - 1 : P(k) \notin Special) /\ (i = q \/ P(i) \in Special)
<1>1. S \in SUBSET Nat /\ q \in S
  OBVIOUS
<1>2. PICK m \in S : \A n \in S : m <= n
  BY <1>1, LeastNumber
<1>3. Is(m)
  <2>1. ASSUME NEW k \in p .. m - 1, P(k) \in Special PROVE FALSE
    <3>1. k \in S
      BY <2>1
    <3>2. m <= k /\ m \in Int
      BY <3>1, <1>2
    <3> QED BY <3>2
  <2> QED BY <2>1
<1>4. PICK j : j = (CHOOSE h \in p .. q : (\A k \in p .. h - 1 : P(k) \notin Special) /\ (h = q \/ P(h) \in Special))
  OBVIOUS
<1>5. Is(j)
  BY <1>3, <1>4
<1>6. ChunkEnd(p, q) = j
  BY <1>4 DEF ChunkEnd
<1> QED BY <1>5, <1>6 DEF Plain

(* One star or several: what follows them, from every position on.         *)
LEMMA StarsWant ==
  ASSUME PlanOK, NEW i \in 0 .. Len(text), NEW p \in 0 .. Size, NEW r \in 0 .. Size, NEW q \in 0 .. Size,
         p < r, r <= q, \A k \in p .. r - 1 : P(k) = "*", NEW n, NEW partial \in BOOLEAN
  PROVE  FirstEnd(i .. Len(text), r, q, n, partial, WantAt(i, p, q, n, partial))
<1>0. Size \in Nat /\ Len(text) \in Nat
  BY Sizes
<1> DEFINE Right(d) == \A j \in 0 .. Len(text), a \in 0 .. Size :
                          r - a = d + 1 /\ p <= a =>
                          FirstEnd(j .. Len(text), r, q, n, partial, WantAt(j, a, q, n, partial))
           Have == {d \in Nat : Right(d)}
<1>1. 0 \in Have
  <2>1. ASSUME NEW j \in 0 .. Len(text), NEW a \in 0 .. Size, r - a = 0 + 1, p <= a
        PROVE  FirstEnd(j .. Len(text), r, q, n, partial, WantAt(j, a, q, n, partial))
    <3>1. a + 1 = r /\ a < q /\ a \in p .. r - 1
      BY <2>1, <1>0
    <3>2. P(a) = "*"
      BY <3>1
    <3>3. FirstEnd(j .. Len(text), a + 1, q, n, partial, WantAt(j, a, q, n, partial))
      BY <3>1, <3>2, StarWants
    <3> QED BY <3>1, <3>3
  <2> QED BY <2>1
<1>2. ASSUME NEW d \in Nat, d \in Have PROVE d + 1 \in Have
  <2>0. Right(d)
    BY <1>2
  <2>1. ASSUME NEW j \in 0 .. Len(text), NEW a \in 0 .. Size, r - a = (d + 1) + 1, p <= a
        PROVE  FirstEnd(j .. Len(text), r, q, n, partial, WantAt(j, a, q, n, partial))
    <3>1. a < q /\ a \in p .. r - 1
      BY <2>1, <1>0
    <3>10. PICK b \in 0 .. Size : b = a + 1 /\ r - b = d + 1 /\ p <= b
      BY <2>1, <1>0
    <3>2. P(a) = "*"
      BY <3>1
    <3>3. FirstEnd(j .. Len(text), b, q, n, partial, WantAt(j, a, q, n, partial))
      BY <3>1, <3>2, <3>10, StarWants
    <3>4. \A k \in j .. Len(text) : FirstEnd(k .. Len(text), r, q, n, partial, WantAt(k, b, q, n, partial))
      <4>1. \A k \in j .. Len(text) : k \in 0 .. Len(text)
        BY <1>0
      <4> QED BY <4>1, <3>10, <2>0
    <3>5. PICK w : w = WantAt(j, a, q, n, partial)
      OBVIOUS
    <3>6. CASE w = {}
      <4>1. \A k \in j .. Len(text) : WantAt(k, b, q, n, partial) = {}
        BY <3>3, <3>5, <3>6 DEF FirstEnd
      <4>2. ASSUME NEW k \in j .. Len(text) PROVE WantAt(k, r, q, n, partial) = {}
        <5>1. k \in k .. Len(text)
          BY <1>0
        <5>2. FirstEnd(k .. Len(text), r, q, n, partial, {})
          BY <3>4, <4>1
        <5> QED BY <5>1, <5>2 DEF FirstEnd
      <4> QED BY <4>2, <3>5, <3>6 DEF FirstEnd
    <3>7. CASE w # {}
      <4>1. PICK k \in j .. Len(text) : /\ w = WantAt(k, b, q, n, partial)
                                        /\ \A h \in j .. Len(text) : h < k => WantAt(h, b, q, n, partial) = {}
        BY <3>3, <3>5, <3>7 DEF FirstEnd
      <4>2. PICK e \in k .. Len(text) : /\ w = WantAt(e, r, q, n, partial)
                                        /\ \A h \in k .. Len(text) : h < e => WantAt(h, r, q, n, partial) = {}
        <5>1. FirstEnd(k .. Len(text), r, q, n, partial, w)
          BY <3>4, <4>1
        <5> QED BY <5>1, <3>7 DEF FirstEnd
      <4>3. e \in j .. Len(text)
        BY <1>0
      <4>4. ASSUME NEW h \in j .. Len(text), h < e PROVE WantAt(h, r, q, n, partial) = {}
        <5>1. CASE h < k
          <6>1. FirstEnd(h .. Len(text), r, q, n, partial, {})
            BY <3>4, <4>1, <5>1
          <6>2. h \in h .. Len(text)
            BY <1>0
          <6> QED BY <6>1, <6>2 DEF FirstEnd
        <5>2. CASE ~(h < k)
          <6>1. h \in k .. Len(text)
            BY <5>2, <1>0
          <6> QED BY <6>1, <4>2, <4>4
        <5> QED BY <5>1, <5>2
      <4> QED BY <4>2, <4>3, <4>4, <3>5, <3>7 DEF FirstEnd
    <3> QED BY <3>6, <3>7
  <2> QED BY <2>1
<1>3. Nat \subseteq Have
  <2> HIDE DEF Have
  <2> QED BY <1>1, <1>2, SetInduction
<1>4. r - p - 1 \in Nat /\ r - p = (r - p - 1) + 1 /\ p <= p
  BY <1>0
<1>5. Right(r - p - 1)
  BY <1>3, <1>4
<1> QED BY <1>4, <1>5

(* A call that the text does not end soon enough for wants nothing.        *)
LEMMA NothingBehind ==
  ASSUME PlanOK, NEW i \in 0 .. Len(text), NEW p \in 0 .. Size, NEW q \in 0 .. Size, NEW n \in Int, n < i
  PROVE  WantAt(i, p, q, n, FALSE) = {}
<1>1. n \notin EndsAt(i, p, q)
  <2> SUFFICES ASSUME n \in EndsAt(i, p, q) PROVE FALSE
    OBVIOUS
  <2>1. n \in i .. Len(text)
    BY EndsFollow
  <2> QED BY <2>1
<1> QED BY <1>1, WantsEnd

(* The calls a star makes: behind every place where what is literal next   *)
(* stands.                                                                 *)
StarList(i, p, q, n, partial, r, e, found) ==
  \E m, v :
    /\ m \in Nat
    /\ DOMAIN found = 1 .. m
    /\ e \in r .. q /\ r \in p + 1 .. q
    /\ \A k \in 1 .. m : found[k] \in i .. n /\ found[k] + (e - r) \in i .. n
    /\ \A k \in 1 .. m : v[k] = WantAt(found[k] + (e - r), e, q, n, partial)
    /\ First(v, m, WantAt(i, p, q, n, partial))

(* The places the star tries have everything that is wanted.               *)
LEMMA StarTries ==
  ASSUME PlanOK, NEW i \in 0 .. Len(text), NEW p \in 0 .. Size, NEW q \in 0 .. Size, p < q, P(p) = "*",
         NEW n \in 0 .. Len(text), NEW partial \in BOOLEAN, partial => n = Len(text),
         NEW r, r = AfterStars(p, q), r # q, NEW e, e = ChunkEnd(r, q), NEW found, found = Found(r, e, i, n)
  PROVE  StarList(i, p, q, n, partial, r, e, found)
<1>0. Size \in Nat /\ Len(text) \in Nat /\ p \in Nat /\ q \in Nat /\ n \in Nat /\ i \in Nat
  BY Sizes
<1>1. r \in p .. q /\ (\A k \in p .. r - 1 : P(k) = "*") /\ P(r) # "*"
  <2>1. p <= q
    BY <1>0
  <2>2. PICK s \in p .. q : /\ AfterStars(p, q) = s
                            /\ \A k \in p .. s - 1 : P(k) = "*"
                            /\ s = q \/ P(s) # "*"
    BY <2>1, <1>0, AfterStarsIs
  <2>3. r = s
    BY <2>2
  <2> QED BY <2>2, <2>3
<1>2. r # p
  BY <1>1
<1>3. r \in p + 1 .. q - 1 /\ r \in Nat /\ r \in 0 .. Size
  BY <1>0, <1>1, <1>2
<1>4. e \in r .. q /\ Plain(r, e)
  <2>1. r <= q
    BY <1>3, <1>0
  <2>2. PICK s \in r .. q : ChunkEnd(r, q) = s /\ Plain(r, s)
    BY <2>1, <1>0, <1>3, ChunkEndIs
  <2>3. e = s
    BY <2>2
  <2> QED BY <2>2, <2>3
<1>5. e \in Nat /\ e \in 0 .. Size
  BY <1>0, <1>3, <1>4
<1> DEFINE S == {k \in i .. n - (e - r) : \A j \in 0 .. e - r - 1 : T(k + j) = P(r + j)}
<1>6. found = InOrder(S)
  BY DEF Found
<1>7. ASSUME NEW k \in 0 .. Len(text) PROVE k \in S <=> i <= k /\ k + (e - r) <= n /\ Reads(k, r, e)
  <2>1. (\A j \in 0 .. e - r - 1 : T(k + j) = P(r + j)) <=> \A h \in r .. e - 1 : T(k + (h - r)) = P(h)
    <3>1. ASSUME \A j \in 0 .. e - r - 1 : T(k + j) = P(r + j), NEW h \in r .. e - 1 PROVE T(k + (h - r)) = P(h)
      <4>1. PICK j \in 0 .. e - r - 1 : j = h - r /\ r + j = h
        BY <1>3, <1>5, SMTT(40)
      <4> QED BY <4>1, <3>1
    <3>2. ASSUME \A h \in r .. e - 1 : T(k + (h - r)) = P(h), NEW j \in 0 .. e - r - 1 PROVE T(k + j) = P(r + j)
      <4>2. r + j \in r .. e - 1 /\ (r + j) - r = j
        BY <1>3, <1>5, SMTT(40)
      <4>1. PICK h \in r .. e - 1 : h = r + j /\ h - r = j
        BY <4>2
      <4> QED BY <4>1, <3>2
    <3> QED BY <3>1, <3>2
  <2>2. k \in i .. n - (e - r) <=> i <= k /\ k + (e - r) <= n
    BY <1>0, <1>3, <1>5, SMTT(40)
  <2>3. k + (e - r) <= n => k + (e - r) <= Len(text)
    BY <1>0, <1>3, <1>5, SMTT(40)
  <2> QED BY <2>1, <2>2, <2>3 DEF Reads
<1>8. S \in SUBSET (i .. n) /\ \A k \in S : k + (e - r) \in i .. n /\ k \in 0 .. Len(text)
  BY <1>0, <1>3, <1>4, <1>5, SMTT(40)
<1> HIDE DEF S
<1>9. IsFiniteSet(S)
  <2>1. IsFiniteSet(i .. n)
    BY <1>0, FS_Interval
  <2> QED BY <2>1, <1>8, FS_Subset
<1>10. S \in SUBSET Int
  BY <1>8
<1>11. PICK m : m = Cardinality(S)
  OBVIOUS
<1>12. /\ m \in Nat
       /\ found \in [1 .. m -> S]
       /\ \A x \in S : \E k \in 1 .. m : found[k] = x
       /\ \A j, k \in 1 .. m : j < k => found[j] < found[k]
  BY <1>6, <1>9, <1>10, <1>11, InOrderLists
<1>13. \A k \in 1 .. m : found[k] \in i .. n /\ found[k] + (e - r) \in i .. n
  BY <1>8, <1>12
<1>14. FirstEnd(i .. Len(text), r, q, n, partial, WantAt(i, p, q, n, partial))
  <2>1. p < r /\ r <= q
    BY <1>3
  <2> QED BY <2>1, <1>1, <1>3, StarsWant
<1>15. ASSUME NEW k \in i .. Len(text)
       PROVE  WantAt(k, r, q, n, partial) = IF k \in S THEN WantAt(k + (e - r), e, q, n, partial) ELSE {}
  <2>1. k \in 0 .. Len(text) /\ i <= k
    BY <1>0
  <2>2. r <= e /\ e <= q
    BY <1>4, <1>0, <1>3
  <2>3. WantAt(k, r, q, n, partial) = IF Reads(k, r, e) THEN WantAt(k + (e - r), e, q, n, partial) ELSE {}
    BY <2>1, <2>2, <1>3, <1>4, <1>5, PlainWants
  <2>4. CASE k \in S
    BY <2>1, <2>3, <2>4, <1>7
  <2>5. CASE k \notin S /\ Reads(k, r, e)
    <3>1. ~(k + (e - r) <= n)
      BY <2>1, <2>5, <1>7
    <3>2. k + (e - r) <= Len(text)
      BY <2>5 DEF Reads
    <3>3. partial = FALSE
      BY <3>1, <3>2
    <3>4. k + (e - r) \in 0 .. Len(text) /\ n < k + (e - r) /\ n \in Int
      BY <3>1, <3>2, <2>1, <2>2, <1>0, <1>3, <1>5, SMTT(40)
    <3>5. WantAt(k + (e - r), e, q, n, FALSE) = {}
      BY <3>4, <1>5, NothingBehind
    <3> QED BY <3>3, <3>5, <2>3, <2>5
  <2>6. CASE k \notin S /\ ~Reads(k, r, e)
    BY <2>3, <2>6
  <2> QED BY <2>4, <2>5, <2>6
<1>16. PICK w : w = WantAt(i, p, q, n, partial)
  OBVIOUS
<1>17. PICK v : v = [k \in 1 .. m |-> WantAt(found[k] + (e - r), e, q, n, partial)]
  OBVIOUS
<1>18. \A k \in 1 .. m : v[k] = WantAt(found[k] + (e - r), e, q, n, partial)
  BY <1>17
<1>19. \A k \in 1 .. m : found[k] \in S /\ found[k] \in i .. Len(text) /\ v[k] = WantAt(found[k], r, q, n, partial)
  <2> TAKE k \in 1 .. m
  <2>1. found[k] \in S
    BY <1>12
  <2>2. found[k] \in i .. Len(text)
    BY <1>0, <1>13
  <2> QED BY <2>1, <2>2, <1>15, <1>18
<1>20. First(v, m, w)
  <2>1. CASE w = {}
    <3>1. \A k \in i .. Len(text) : WantAt(k, r, q, n, partial) = {}
      BY <1>14, <1>16, <2>1 DEF FirstEnd
    <3> QED BY <3>1, <2>1, <1>19 DEF First
  <2>2. CASE w # {}
    <3>1. PICK h \in i .. Len(text) : /\ w = WantAt(h, r, q, n, partial)
                                      /\ \A d \in i .. Len(text) : d < h => WantAt(d, r, q, n, partial) = {}
      BY <1>14, <1>16, <2>2 DEF FirstEnd
    <3>2. h \in S
      BY <3>1, <2>2, <1>15
    <3>3. PICK k \in 1 .. m : found[k] = h
      BY <3>2, <1>12
    <3>4. ASSUME NEW j \in 1 .. k - 1 PROVE v[j] = {}
      <4>1. j \in 1 .. m /\ j < k
        BY <1>12
      <4>2. found[j] < h
        BY <4>1, <3>3, <1>12
      <4> QED BY <4>1, <4>2, <3>1, <1>19
    <3> QED BY <3>1, <3>3, <3>4, <2>2, <1>19 DEF First
  <2> QED BY <2>1, <2>2
<1>21. DOMAIN found = 1 .. m /\ r \in p + 1 .. q
  BY <1>3, <1>12
<1> QED BY <1>4, <1>12, <1>13, <1>16, <1>18, <1>20, <1>21 DEF StarList
-----------------------------------------------------------------------------
(* What the first item of a list that has something has.                   *)
SeqFirst(g, s, w) == First([k \in 1 .. Len(s) |-> g[s[k]]], Len(s), w)

(* The first answer is one.                                                *)
LEMMA FirstUnique ==
  ASSUME NEW v, NEW m \in Nat, NEW x, NEW y, First(v, m, x), First(v, m, y)
  PROVE  x = y
<1>1. CASE x = {}
  <2>1. \A k \in 1 .. m : v[k] = {}
    BY <1>1 DEF First
  <2> QED BY <2>1, <1>1 DEF First
<1>2. CASE x # {} /\ y = {}
  <2>1. \A k \in 1 .. m : v[k] = {}
    BY <1>2 DEF First
  <2> QED BY <2>1, <1>2 DEF First
<1>3. CASE x # {} /\ y # {}
  <2>1. PICK j \in 1 .. m : x = v[j] /\ \A i \in 1 .. j - 1 : v[i] = {}
    BY <1>3 DEF First
  <2>2. PICK k \in 1 .. m : y = v[k] /\ \A i \in 1 .. k - 1 : v[i] = {}
    BY <1>3 DEF First
  <2>3. ~(j < k) /\ ~(k < j)
    <3>1. j < k => j \in 1 .. k - 1
      OBVIOUS
    <3>2. k < j => k \in 1 .. j - 1
      OBVIOUS
    <3> QED BY <3>1, <3>2, <2>1, <2>2, <1>3
  <2>4. j = k
    BY <2>3
  <2> QED BY <2>1, <2>2, <2>4
<1> QED BY <1>1, <1>2, <1>3

(* The first answer of two lists is that of the first one, if any.         *)
LEMMA SeqFirstConcat ==
  ASSUME NEW S, NEW s \in Seq(S), NEW t \in Seq(S), NEW g, NEW x, NEW y, SeqFirst(g, s, x), SeqFirst(g, t, y)
  PROVE  SeqFirst(g, s \o t, IF x # {} THEN x ELSE y)
<1>1. PICK c : c = s \o t
  OBVIOUS
<1>2. PICK a \in Nat, b \in Nat : a = Len(s) /\ b = Len(t)
  OBVIOUS
<1>3. Len(c) = a + b /\ \A k \in 1 .. a + b : c[k] = IF k <= a THEN s[k] ELSE t[k - a]
  BY <1>1, <1>2, ConcatProperties
<1>4. PICK v, w, u : /\ v = [k \in 1 .. a |-> g[s[k]]]
                     /\ w = [k \in 1 .. b |-> g[t[k]]]
                     /\ u = [k \in 1 .. a + b |-> g[c[k]]]
  OBVIOUS
<1>5. First(v, a, x) /\ First(w, b, y)
  BY <1>2, <1>4 DEF SeqFirst
<1>6. \A k \in 1 .. a : k \in 1 .. a + b /\ u[k] = v[k]
  <2> TAKE k \in 1 .. a
  <2>1. k \in 1 .. a + b /\ k <= a
    OBVIOUS
  <2>2. c[k] = s[k]
    BY <2>1, <1>3
  <2> QED BY <2>1, <2>2, <1>4
<1>7. \A k \in a + 1 .. a + b : k - a \in 1 .. b /\ u[k] = w[k - a]
  <2> TAKE k \in a + 1 .. a + b
  <2>1. k \in 1 .. a + b /\ ~(k <= a) /\ k - a \in 1 .. b
    OBVIOUS
  <2>2. c[k] = t[k - a]
    BY <2>1, <1>3
  <2> QED BY <2>1, <2>2, <1>4
<1>8. \A k \in 1 .. a + b : k \in 1 .. a \/ k \in a + 1 .. a + b
  OBVIOUS
<1>9. First(u, a + b, IF x # {} THEN x ELSE y)
  <2>1. CASE x # {}
    <3>1. PICK k \in 1 .. a : x = v[k] /\ \A j \in 1 .. k - 1 : v[j] = {}
      BY <2>1, <1>5 DEF First
    <3>2. \A j \in 1 .. k - 1 : j \in 1 .. a
      OBVIOUS
    <3>3. k \in 1 .. a + b /\ x = u[k] /\ \A j \in 1 .. k - 1 : u[j] = {}
      BY <3>1, <3>2, <1>6
    <3> QED BY <3>3, <2>1 DEF First
  <2>2. CASE x = {} /\ y = {}
    <3>1. (\A k \in 1 .. a : v[k] = {}) /\ (\A k \in 1 .. b : w[k] = {})
      BY <2>2, <1>5 DEF First
    <3>2. \A k \in 1 .. a + b : u[k] = {}
      BY <3>1, <1>6, <1>7, <1>8
    <3> QED BY <3>2, <2>2 DEF First
  <2>3. CASE x = {} /\ y # {}
    <3>1. \A k \in 1 .. a : v[k] = {}
      BY <2>3, <1>5 DEF First
    <3>2. PICK h \in 1 .. b : y = w[h] /\ \A j \in 1 .. h - 1 : w[j] = {}
      BY <2>3, <1>5 DEF First
    <3>3. PICK k \in a + 1 .. a + b : k = h + a
      OBVIOUS
    <3>4. k - a = h /\ k \in 1 .. a + b
      BY <3>3
    <3>5. u[k] = y
      BY <3>2, <3>4, <1>7
    <3>6. ASSUME NEW j \in 1 .. k - 1 PROVE u[j] = {}
      <4>1. CASE j <= a
        <5>1. j \in 1 .. a
          BY <4>1
        <5> QED BY <5>1, <3>1, <1>6
      <4>2. CASE ~(j <= a)
        <5>1. j \in a + 1 .. a + b /\ j - a \in 1 .. h - 1
          BY <4>2, <3>3
        <5> QED BY <5>1, <3>2, <1>7
      <4> QED BY <4>1, <4>2
    <3> QED BY <3>4, <3>5, <3>6, <2>3 DEF First
  <2> QED BY <2>1, <2>2, <2>3
<1> QED BY <1>1, <1>3, <1>4, <1>9 DEF SeqFirst

(* The first answer of many lists joined.                                  *)
LEMMA FlattenFirst ==
  ASSUME NEW S, NEW n \in Nat, NEW ss \in [1 .. n -> Seq(S)], NEW g, NEW u, NEW w,
         \A b \in 1 .. n : SeqFirst(g, ss[b], u[b]), First(u, n, w)
  PROVE  /\ FlattenSeq(ss) \in Seq(S)
         /\ SeqFirst(g, FlattenSeq(ss), w)
<1>0. Len(ss) = n
  OBVIOUS
<1>1. CASE n = 0
  <2>1. FlattenSeq(ss) = ss /\ ss = <<>>
    BY <1>0, <1>1 DEF FlattenSeq
  <2>2. w = {}
    BY <1>1 DEF First
  <2>6. <<>> \in Seq(S) /\ Len(<<>>) = 0
    OBVIOUS
  <2>3. PICK flat \in Seq(S) : flat = FlattenSeq(ss) /\ Len(flat) = 0
    BY <2>1, <2>6
  <2>4. \A k \in 1 .. 0 : FALSE
    OBVIOUS
  <2>5. SeqFirst(g, flat, {})
    BY <2>3, <2>4 DEF SeqFirst, First
  <2> QED BY <2>2, <2>3, <2>5
<1>2. CASE n # 0
  <2>1. PICK f : Joint(ss, f, n) /\ FlattenSeq(ss) = f[n]
    BY <1>2, FlattenIsJoint
  <2>2. \A i \in 1 .. n : f[i] = IF i = 1 THEN ss[i] ELSE f[i - 1] \o ss[i]
    BY <2>1 DEF Joint
  <2> DEFINE Good(i) == f[i] \in Seq(S) /\ \E x : SeqFirst(g, f[i], x) /\ First(u, i, x)
             Have == {i \in Nat : i + 1 <= n => Good(i + 1)}
  <2>3. 0 \in Have
    <3>1. f[1] = ss[1] /\ ss[1] \in Seq(S) /\ SeqFirst(g, ss[1], u[1])
      BY <2>2, <1>2
    <3>2. First(u, 1, u[1])
      BY DEF First
    <3> QED BY <3>1, <3>2
  <2>4. ASSUME NEW i \in Nat, i \in Have PROVE i + 1 \in Have
    <3> SUFFICES ASSUME (i + 1) + 1 <= n PROVE Good((i + 1) + 1)
      OBVIOUS
    <3>1. PICK j \in 1 .. n, k \in 1 .. n : j = (i + 1) + 1 /\ k = i + 1 /\ j = k + 1
      OBVIOUS
    <3>2. Good(k)
      BY <2>4, <3>1
    <3>3. f[j] = f[k] \o ss[j]
      <4>1. j # 1 /\ j - 1 = k
        BY <3>1
      <4> QED BY <2>2, <4>1
    <3>4. PICK s \in Seq(S), t \in Seq(S) : s = f[k] /\ t = ss[j] /\ f[j] = s \o t
      BY <3>2, <3>3
    <3>5. f[j] \in Seq(S)
      BY <3>4, ConcatRange
    <3>6. PICK x, y, z : SeqFirst(g, s, x) /\ First(u, k, x) /\ y = u[j] /\ z = IF x # {} THEN x ELSE y
      BY <3>2, <3>4
    <3>7. SeqFirst(g, t, y)
      BY <3>4, <3>6
    <3>8. SeqFirst(g, s \o t, z)
      BY <3>6, <3>7, SeqFirstConcat
    <3>9. First(u, j, z)
      <4>1. CASE x = {}
        <5>1. \A a \in 1 .. k : u[a] = {}
          BY <4>1, <3>6 DEF First
        <5>2. \A a \in 1 .. j - 1 : u[a] = {}
          BY <5>1, <3>1
        <5>3. \A a \in 1 .. j : a = j \/ a \in 1 .. j - 1
          BY <3>1
        <5>4. j \in 1 .. j
          BY <3>1
        <5>5. z = y
          BY <4>1, <3>6
        <5>6. CASE y = {}
          BY <5>2, <5>3, <5>5, <5>6, <3>6 DEF First
        <5>7. CASE y # {}
          BY <5>2, <5>4, <5>5, <5>7, <3>6 DEF First
        <5> QED BY <5>6, <5>7
      <4>2. CASE x # {}
        <5>1. z = x
          BY <4>2, <3>6
        <5>2. PICK a \in 1 .. k : x = u[a] /\ \A b \in 1 .. a - 1 : u[b] = {}
          BY <4>2, <3>6 DEF First
        <5>3. a \in 1 .. j
          BY <3>1, <5>2
        <5> QED BY <5>1, <5>2, <5>3, <4>2 DEF First
      <4> QED BY <4>1, <4>2
    <3>10. Good(j)
      BY <3>4, <3>5, <3>8, <3>9
    <3> HIDE DEF Good
    <3> QED BY <3>1, <3>10
  <2>5. Nat \subseteq Have
    <3> HIDE DEF Have
    <3> QED BY <2>3, <2>4, SetInduction
  <2>6. Good(n)
    <3>1. n - 1 \in Nat /\ (n - 1) + 1 = n /\ (n - 1) + 1 <= n
      BY <1>2
    <3>2. Good((n - 1) + 1)
      BY <2>5, <3>1
    <3> HIDE DEF Good
    <3> QED BY <3>1, <3>2
  <2>7. PICK x : SeqFirst(g, f[n], x) /\ First(u, n, x)
    BY <2>6
  <2>8. x = w
    BY <2>7, FirstUnique
  <2> QED BY <2>1, <2>6, <2>7, <2>8
<1> QED BY <1>1, <1>2
-----------------------------------------------------------------------------
(* The calls of the matcher: what they want, and what it is sure of.       *)
Wants(c) == WantAt(c.ti, c.pi, c.pi_end, c.n, c.partial)

TryWants(c, t) ==
  IF ~t.branch THEN Wants(t.call)
  ELSE IF Wants(t.call) = {} THEN {}
  ELSE WantAt(t.end, plan.close_parens[c.pi] + 1, c.pi_end, c.n, c.partial)

TriesWant(c, tries, w) == First([k \in 1 .. Len(tries) |-> TryWants(c, tries[k])], Len(tries), w)

(* A position behind the end of the text left for the call, as when prefix *)
(* and suffix overlap: nothing can match, and the part is not stars alone. *)
Stuck(c) ==
  /\ c.partial = FALSE
  /\ c.pi < c.pi_end => \E k \in c.pi .. c.pi_end - 1 : P(k) # "*"

PlaceOK(c) ==
  /\ c.n \in 0 .. Len(text) /\ c.ti \in 0 .. Len(text)
  /\ c.pi \in 0 .. Size /\ c.pi_end \in 0 .. Size /\ c.pi <= c.pi_end
  /\ c.partial \in BOOLEAN
  /\ c.pi_end = Size => c.n = Len(text)
  /\ c.partial = TRUE => c.pi_end = Size
  /\ c.ti <= c.n \/ Stuck(c)

(* A call in the list of those to try: behind a star or a group it goes on *)
(* like the caller; in a branch it is about the text up to its end.        *)
TryOK(c, t) ==
  /\ t.call = Call(t.call.n, t.call.ti, t.call.pi, t.call.pi_end, t.call.partial)
  /\ PlaceOK(t.call)
  /\ t.branch \in BOOLEAN
  /\ IF t.branch = TRUE
     THEN /\ IsGroup(c.pi, c.pi_end) /\ c.pi < c.pi_end /\ t.call.partial = FALSE
          /\ Wants(t.call) # {} => t.end \in 0 .. c.n
     ELSE t.call.n = c.n /\ t.call.pi_end = c.pi_end /\ t.call.partial = c.partial

(* The fields of a call.                                                   *)
LEMMA CallFields ==
  ASSUME NEW n, NEW ti, NEW pi, NEW pi_end, NEW partial
  PROVE  /\ Call(n, ti, pi, pi_end, partial).n = n
         /\ Call(n, ti, pi, pi_end, partial).ti = ti
         /\ Call(n, ti, pi, pi_end, partial).pi = pi
         /\ Call(n, ti, pi, pi_end, partial).pi_end = pi_end
         /\ Call(n, ti, pi, pi_end, partial).partial = partial
         /\ Call(n, ti, pi, pi_end, partial).began = <<ti, pi>>
         /\ Call(n, ti, pi, pi_end, partial).tries = <<>>
BY DEF Call

(* The calls one branch makes: every end it may have, shortest first.      *)
LEMMA BranchTriesWant ==
  ASSUME PlanOK, NEW c, PlaceOK(c), c.pi < c.pi_end, IsGroup(c.pi, c.pi_end), c.ti <= c.n,
         NEW b, BranchOK(b, c.pi, plan.close_parens[c.pi]),
         NEW u, FirstEnd(EndsAt(c.ti, b.from, b.to), plan.close_parens[c.pi] + 1, c.pi_end, c.n, c.partial, u)
  PROVE  \E m \in Nat :
           /\ DOMAIN BranchTries(c, b) = 1 .. m
           /\ \A k \in 1 .. m : TryOK(c, BranchTries(c, b)[k])
           /\ First([k \in 1 .. m |-> TryWants(c, BranchTries(c, b)[k])], m, u)
<1>0. Size \in Nat /\ Len(text) \in Nat
  BY Sizes
<1>23. c.partial \in BOOLEAN
  BY DEF PlaceOK
<1>22. PICK partial \in BOOLEAN : partial = c.partial
  BY <1>23
<1>1. PICK i, n, p, q : i = c.ti /\ n = c.n /\ p = c.pi /\ q = c.pi_end
  OBVIOUS
<1>2. i \in Nat /\ n \in Nat /\ i <= n /\ n <= Len(text) /\ p \in 0 .. Size /\ q \in 0 .. Size /\ p < q
      /\ i \in 0 .. Len(text) /\ n \in 0 .. Len(text)
  BY <1>0, <1>1 DEF PlaceOK
<1>3. PICK close : close = plan.close_parens[p] /\ close \in p + 1 .. q - 1
  BY <1>1, <1>2, GroupParts
<1>a. PICK f \in Nat, t \in Nat : f = b.from /\ t = b.to
  BY DEF BranchOK
<1>4. PICK max : f = b.from /\ t = b.to /\ max = b.max_length
  BY <1>a
<1>5. p < f /\ f <= t /\ t <= close /\ max = IF NoStar(f, t) THEN t - f ELSE NO_LIMIT
  BY <1>1, <1>3, <1>4 DEF BranchOK, NoStar
<1>6. f \in 0 .. Size /\ t \in 0 .. Size /\ t < Size
  BY <1>0, <1>2, <1>3, <1>5
<1>7. PICK last : last = LastEnd(c, b)
  OBVIOUS
<1>8. last = IF ~NoStar(f, t) \/ t - f >= n - i THEN n ELSE i + (t - f)
  <2>1. t - f # NO_LIMIT
    BY <1>5 DEF NO_LIMIT
  <2> QED BY <2>1, <1>1, <1>2, <1>4, <1>5, <1>7 DEF LastEnd
<1>9. last \in i .. n
  <2>1. CASE ~NoStar(f, t) \/ t - f >= n - i
    BY <1>8, <1>2, <2>1
  <2>2. CASE ~(~NoStar(f, t) \/ t - f >= n - i)
    BY <1>8, <1>2, <1>5, <2>2
  <2> QED BY <2>1, <2>2
<1>10. PICK m \in Nat : m = last - i + 1
  BY <1>9, <1>2
<1>11. PICK made : made = BranchTries(c, b)
  OBVIOUS
<1>12. made = [k \in 1 .. m |->
              [branch |-> TRUE, end |-> i + k - 1,
               call |-> Call(IF i + k - 1 < n THEN i + k - 1 ELSE n, i, f, t, FALSE)]]
  BY <1>1, <1>4, <1>7, <1>10, <1>11 DEF BranchTries
<1>13. ASSUME NEW k \in 1 .. m
       PROVE  /\ made[k].branch = TRUE /\ made[k].end = i + k - 1 /\ i + k - 1 \in i .. n
              /\ made[k].call = Call(i + k - 1, i, f, t, FALSE)
  <2>1. i + k - 1 \in i .. n
    BY <1>2, <1>9, <1>10
  <2>2. (IF i + k - 1 < n THEN i + k - 1 ELSE n) = i + k - 1
    BY <2>1, <1>2
  <2>3. made[k] = [branch |-> TRUE, end |-> i + k - 1, call |-> Call(i + k - 1, i, f, t, FALSE)]
    BY <1>12, <2>2
  <2> QED BY <2>1, <2>3
<1>14. ASSUME NEW k \in 1 .. m PROVE TryOK(c, made[k])
  <2>1. PICK e \in i .. n : e = i + k - 1
    BY <1>13
  <2>2. PICK call : call = Call(e, i, f, t, FALSE)
    OBVIOUS
  <2>3. call.n = e /\ call.ti = i /\ call.pi = f /\ call.pi_end = t /\ call.partial = FALSE
    BY <2>2 DEF Call
  <2>4. PlaceOK(call)
    <3>1. call.n \in 0 .. Len(text) /\ call.ti \in 0 .. Len(text) /\ call.pi \in 0 .. Size
          /\ call.pi_end \in 0 .. Size /\ call.pi <= call.pi_end /\ call.ti <= call.n /\ call.pi_end # Size
      BY <2>1, <2>3, <1>0, <1>2, <1>5, <1>6, SMTT(40)
    <3>2. call.partial \in BOOLEAN /\ call.partial # TRUE
      BY <2>3
    <3> QED BY <3>1, <3>2 DEF PlaceOK
  <2>5. call = Call(call.n, call.ti, call.pi, call.pi_end, call.partial)
    BY <2>2, <2>3
  <2>6. made[k].branch = TRUE /\ made[k].call = call /\ made[k].end = e
    BY <2>1, <2>2, <1>13
  <2>7. e \in 0 .. c.n
    BY <2>1, <1>1, <1>2
  <2> QED BY <2>3, <2>4, <2>5, <2>6, <2>7 DEF TryOK
<1>24. close + 1 \in 0 .. Size
  BY <1>0, <1>2, <1>3, SMTT(40)
<1>25. PICK E : E = EndsAt(i, f, t)
  OBVIOUS
<1>15. PICK d \in 0 .. Size : E = EndsAt(i, f, t) /\ d = close + 1
  BY <1>24, <1>25
<1>16. FirstEnd(E, d, q, n, partial, u)
  BY <1>1, <1>3, <1>4, <1>15, <1>22
<1>17. PICK v : v = [k \in 1 .. m |-> TryWants(c, made[k])]
  OBVIOUS
<1>18. ASSUME NEW k \in 1 .. m
       PROVE  v[k] = IF i + k - 1 \in E THEN WantAt(i + k - 1, d, q, n, partial) ELSE {}
  <2>1. PICK e \in i .. n : e = i + k - 1
    BY <1>13
  <2>2. made[k].branch = TRUE /\ made[k].end = e /\ made[k].call = Call(e, i, f, t, FALSE)
    BY <2>1, <1>13
  <2>3. PICK call : call = Call(e, i, f, t, FALSE)
    OBVIOUS
  <2>4. Wants(call) = WantAt(i, f, t, e, FALSE)
    <3>1. call.n = e /\ call.ti = i /\ call.pi = f /\ call.pi_end = t /\ call.partial = FALSE
      BY <2>3 DEF Call
    <3> QED BY <3>1 DEF Wants
  <2>5. e \in E <=> Wants(call) # {}
    BY <2>4, <1>2, <1>6, <1>15, WantsEnd
  <2>6. TryWants(c, made[k]) = IF Wants(call) = {} THEN {} ELSE WantAt(e, d, q, n, partial)
    BY <2>2, <2>3, <1>1, <1>3, <1>15, <1>22 DEF TryWants
  <2> QED BY <2>1, <2>5, <2>6, <1>17
<1>19. ASSUME NEW e \in E, WantAt(e, d, q, n, partial) # {} PROVE \E k \in 1 .. m : e = i + k - 1
  <2>1. e \in i .. Len(text)
    BY <1>2, <1>6, <1>15, EndsFollow
  <2>2. e \in 0 .. Len(text)
    BY <2>1, <1>2, <1>0
  <2>3. e <= n
    <3>1. CASE partial = TRUE
      <4>1. n = Len(text)
        BY <3>1, <1>1, <1>22 DEF PlaceOK
      <4> QED BY <4>1, <2>1
    <3>2. CASE partial = FALSE
      <4>3. n \in Int
        BY <1>2
      <4>1. WantAt(e, d, q, n, FALSE) # {}
        <5>1. WantAt(e, d, q, n, partial) = WantAt(e, d, q, n, FALSE)
          BY <3>2, Zenon
        <5>2. WantAt(e, d, q, n, partial) # {}
          BY <1>19, Zenon
        <5>3. WantAt(e, d, q, n, FALSE) # {}
          BY <5>1, <5>2, Zenon
        <5> QED BY <5>3
      <4>2. ~(n < e)
        <5>1. n < e => WantAt(e, d, q, n, FALSE) = {}
          BY <4>3, <2>2, <1>2, NothingBehind
        <5> QED BY <5>1, <4>1, Zenon
      <4> QED BY <4>2, <2>1, <1>2
    <3> QED BY <3>1, <3>2
  <2>4. NoStar(f, t) => e <= i + (t - f)
    BY <1>2, <1>5, <1>6, <1>15, Bounded
  <2>5. e <= last
    BY <2>1, <2>3, <2>4, <1>8, <1>2
  <2>6. e - i + 1 \in 1 .. m /\ e = i + (e - i + 1) - 1
    BY <2>1, <2>5, <1>2, <1>9, <1>10
  <2> QED BY <2>6
<1>20. First(v, m, u)
  <2>1. CASE u = {}
    <3>1. \A e \in E : WantAt(e, d, q, n, partial) = {}
      BY <1>16, <2>1 DEF FirstEnd
    <3>2. \A k \in 1 .. m : v[k] = {}
      BY <3>1, <1>18
    <3> QED BY <3>2, <2>1 DEF First
  <2>2. CASE u # {}
    <3>1. PICK e \in E : /\ u = WantAt(e, d, q, n, partial)
                         /\ \A h \in E : h < e => WantAt(h, d, q, n, partial) = {}
      BY <1>16, <2>2 DEF FirstEnd
    <3>2. PICK k \in 1 .. m : e = i + k - 1
      BY <3>1, <2>2, <1>19
    <3>3. v[k] = u
      BY <3>1, <3>2, <1>18
    <3>4. ASSUME NEW j \in 1 .. k - 1 PROVE v[j] = {}
      <4>1. j \in 1 .. m /\ i + j - 1 < e
        BY <3>2, <1>2
      <4> QED BY <4>1, <3>1, <1>18
    <3> QED BY <3>3, <3>4, <2>2 DEF First
  <2> QED BY <2>1, <2>2
<1>21. DOMAIN made = 1 .. m
  BY <1>12
<1> QED BY <1>11, <1>14, <1>17, <1>20, <1>21

(* A group at a position behind the text: no call has anything.            *)
LEMMA BranchTriesStuck ==
  ASSUME PlanOK, NEW c, PlaceOK(c), c.pi < c.pi_end, IsGroup(c.pi, c.pi_end), c.n < c.ti,
         NEW b, BranchOK(b, c.pi, plan.close_parens[c.pi])
  PROVE  \E m \in Nat :
           /\ DOMAIN BranchTries(c, b) = 1 .. m
           /\ \A k \in 1 .. m : TryOK(c, BranchTries(c, b)[k])
           /\ First([k \in 1 .. m |-> TryWants(c, BranchTries(c, b)[k])], m, {})
<1>0. Size \in Nat /\ Len(text) \in Nat
  BY Sizes
<1>1. PICK i, n, p, q : i = c.ti /\ n = c.n /\ p = c.pi /\ q = c.pi_end
  OBVIOUS
<1>2. i \in Nat /\ n \in Nat /\ n < i /\ n <= Len(text) /\ p \in 0 .. Size /\ q \in 0 .. Size /\ p < q
      /\ i \in 0 .. Len(text) /\ n \in 0 .. Len(text)
  BY <1>0, <1>1 DEF PlaceOK
<1>3. PICK close : close = plan.close_parens[p] /\ close \in p + 1 .. q - 1
  BY <1>1, <1>2, GroupParts
<1>a. PICK f \in Nat, t \in Nat : f = b.from /\ t = b.to
  BY DEF BranchOK
<1>4. PICK max : f = b.from /\ t = b.to /\ max = b.max_length
  BY <1>a
<1>5. p < f /\ f <= t /\ t <= close /\ max = IF NoStar(f, t) THEN t - f ELSE NO_LIMIT
  BY <1>1, <1>3, <1>4 DEF BranchOK, NoStar
<1>6. f \in 0 .. Size /\ t \in 0 .. Size /\ t < Size
  BY <1>0, <1>2, <1>3, <1>5
<1>7. PICK last : last = LastEnd(c, b)
  OBVIOUS
<1>8. last = IF NoStar(f, t) THEN i + (t - f) ELSE n
  <2>1. t - f # NO_LIMIT
    BY <1>5 DEF NO_LIMIT
  <2>2. ~(i <= n)
    BY <1>2
  <2> QED BY <2>1, <2>2, <1>1, <1>4, <1>5, <1>7 DEF LastEnd
<1>11. PICK made : made = BranchTries(c, b)
  OBVIOUS
<1>12. made = [k \in 1 .. last - i + 1 |->
              [branch |-> TRUE, end |-> i + k - 1,
               call |-> Call(IF i + k - 1 < n THEN i + k - 1 ELSE n, i, f, t, FALSE)]]
  BY <1>1, <1>4, <1>7, <1>11 DEF BranchTries
<1>13. PICK v : v = [k \in 1 .. last - i + 1 |-> TryWants(c, made[k])]
  OBVIOUS
<1>14. CASE ~NoStar(f, t)
  <2>1. 1 .. last - i + 1 = 1 .. 0 /\ \A k \in 1 .. 0 : FALSE
    BY <1>2, <1>8, <1>14
  <2>2. First(v, 0, {})
    BY <2>1 DEF First
  <2>3. DOMAIN made = 1 .. 0 /\ v = [k \in 1 .. 0 |-> TryWants(c, made[k])]
    BY <2>1, <1>12, <1>13
  <2> QED BY <2>1, <2>2, <2>3, <1>11
<1>15. CASE NoStar(f, t)
  <2>1. PICK m \in Nat : m = last - i + 1
    BY <1>2, <1>5, <1>8, <1>15
  <2>2. PICK call : call = Call(n, i, f, t, FALSE)
    OBVIOUS
  <2>3. call.n = n /\ call.ti = i /\ call.pi = f /\ call.pi_end = t /\ call.partial = FALSE
    BY <2>2 DEF Call
  <2>4. Wants(call) = {}
    <3>1. n \in Int
      BY <1>2
    <3>2. WantAt(i, f, t, n, FALSE) = {}
      BY <3>1, <1>2, <1>6, NothingBehind
    <3>3. Wants(call) = WantAt(i, f, t, n, FALSE)
      BY <2>3 DEF Wants
    <3> QED BY <3>2, <3>3, Zenon
  <2>5. PlaceOK(call)
    <3>1. call.n \in 0 .. Len(text) /\ call.ti \in 0 .. Len(text) /\ call.pi \in 0 .. Size
          /\ call.pi_end \in 0 .. Size /\ call.pi <= call.pi_end /\ call.pi_end # Size
      BY <2>3, <1>0, <1>2, <1>5, <1>6
    <3>2. call.partial \in BOOLEAN /\ call.partial # TRUE
      BY <2>3
    <3>3. f < t => P(f) # "*"
      BY <1>15, NoStarFirst
    <3>4. f < t => f \in f .. t - 1
      OBVIOUS
    <3>5. Stuck(call)
      BY <2>3, <3>3, <3>4 DEF Stuck
    <3> QED BY <3>1, <3>2, <3>5 DEF PlaceOK
  <2>6. ASSUME NEW k \in 1 .. m PROVE made[k].branch = TRUE /\ made[k].call = call
    <3>1. ~(i + k - 1 < n)
      BY <1>2
    <3>3. (IF i + k - 1 < n THEN i + k - 1 ELSE n) = n
      BY <3>1
    <3>2. made[k] = [branch |-> TRUE, end |-> i + k - 1, call |-> Call(n, i, f, t, FALSE)]
      BY <1>12, <2>1, <3>3
    <3>4. made[k] = [branch |-> TRUE, end |-> i + k - 1, call |-> call]
      BY <3>2, <2>2
    <3> QED BY <3>4
  <2>7. ASSUME NEW k \in 1 .. m PROVE TryOK(c, made[k]) /\ TryWants(c, made[k]) = {}
    <3>1. call = Call(call.n, call.ti, call.pi, call.pi_end, call.partial)
      BY <2>2, <2>3, ZenonT(60)
    <3> QED BY <3>1, <2>3, <2>4, <2>5, <2>6 DEF TryOK, TryWants
  <2>8. First(v, m, {})
    BY <2>1, <2>7, <1>13, Zenon DEF First
  <2>9. DOMAIN made = 1 .. m /\ v = [k \in 1 .. m |-> TryWants(c, made[k])]
    BY <2>1, <1>12, <1>13
  <2> QED BY <2>7, <2>8, <2>9, <1>11
<1> QED BY <1>14, <1>15

IsTries(c, tries) == tries \in Seq(Range(tries)) /\ \A k \in 1 .. Len(tries) : TryOK(c, tries[k])

(* The calls a group makes: those of its branches, one after the other.    *)
LEMMA GroupTries ==
  ASSUME PlanOK, NEW c, PlaceOK(c), c.pi < c.pi_end, IsGroup(c.pi, c.pi_end),
         NEW tries,
         tries = FlattenSeq([b \in DOMAIN plan.branches[c.pi] |-> BranchTries(c, plan.branches[c.pi][b])])
  PROVE  IsTries(c, tries) /\ TriesWant(c, tries, Wants(c))
<1>0. Size \in Nat /\ Len(text) \in Nat
  BY Sizes
<1>1. c.ti \in 0 .. Len(text) /\ c.pi \in 0 .. Size /\ c.pi_end \in 0 .. Size /\ c.partial \in BOOLEAN
      /\ c.n \in 0 .. Len(text) /\ c.n \in Int /\ c.ti \in Int
  BY DEF PlaceOK
<1>a. PICK m \in Nat : \E u : /\ DOMAIN plan.branches[c.pi] = 1 .. m
                              /\ BranchWants(c.ti, c.pi, c.pi_end, c.n, c.partial, u)
                              /\ First(u, m, Wants(c))
  <2>1. \E m, u : /\ m \in Nat /\ DOMAIN plan.branches[c.pi] = 1 .. m
                  /\ BranchWants(c.ti, c.pi, c.pi_end, c.n, c.partial, u)
                  /\ First(u, m, WantAt(c.ti, c.pi, c.pi_end, c.n, c.partial))
    BY <1>1, GroupWants
  <2> QED BY <2>1 DEF Wants
<1>2. PICK u : /\ DOMAIN plan.branches[c.pi] = 1 .. m
               /\ BranchWants(c.ti, c.pi, c.pi_end, c.n, c.partial, u)
               /\ First(u, m, Wants(c))
  BY <1>a
<1>3. \A k \in 1 .. m : BranchOK(plan.branches[c.pi][k], c.pi, plan.close_parens[c.pi])
  BY <1>1, <1>2, GroupParts
<1>4. PICK ss : ss = [b \in 1 .. m |-> BranchTries(c, plan.branches[c.pi][b])]
  OBVIOUS
<1>5. tries = FlattenSeq(ss)
  BY <1>2, <1>4
<1>6. PICK x : /\ First(x, m, Wants(c))
               /\ \A b \in 1 .. m : c.ti <= c.n => x[b] = u[b]
               /\ \A b \in 1 .. m : c.n < c.ti => x[b] = {}
  <2>1. CASE c.ti <= c.n
    <3>1. ~(c.n < c.ti)
      BY <2>1, <1>1
    <3> QED BY <3>1, <1>2
  <2>2. CASE c.n < c.ti
    <3>1. ~(c.ti <= c.n)
      BY <2>2, <1>1
    <3>2. c.partial = FALSE
      BY <3>1 DEF PlaceOK, Stuck
    <3>3. Wants(c) = {}
      <4>1. WantAt(c.ti, c.pi, c.pi_end, c.n, FALSE) = {}
        BY <2>2, <1>1, NothingBehind
      <4> QED BY <4>1, <3>2, Zenon DEF Wants
    <3>4. PICK none : none = [b \in 1 .. m |-> {}]
      OBVIOUS
    <3>5. First(none, m, {})
      BY <3>4 DEF First
    <3> QED BY <3>1, <3>3, <3>4, <3>5
  <2> QED BY <2>1, <2>2, <1>1
<1>7. ASSUME NEW b \in 1 .. m
      PROVE  \E l \in Nat :
               /\ DOMAIN ss[b] = 1 .. l /\ ss[b] = [k \in 1 .. l |-> ss[b][k]]
               /\ \A k \in 1 .. l : TryOK(c, ss[b][k])
               /\ First([k \in 1 .. l |-> TryWants(c, ss[b][k])], l, x[b])
  <2>1. PICK br : br = plan.branches[c.pi][b]
    OBVIOUS
  <2>2. ss[b] = BranchTries(c, br) /\ BranchOK(br, c.pi, plan.close_parens[c.pi])
    BY <2>1, <1>3, <1>4
  <2>3. PICK l \in Nat :
           /\ DOMAIN BranchTries(c, br) = 1 .. l
           /\ \A k \in 1 .. l : TryOK(c, BranchTries(c, br)[k])
           /\ First([k \in 1 .. l |-> TryWants(c, BranchTries(c, br)[k])], l, x[b])
    <3>1. CASE c.ti <= c.n
      <4>1. FirstEnd(EndsAt(c.ti, br.from, br.to), plan.close_parens[c.pi] + 1, c.pi_end, c.n, c.partial, u[b])
        BY <2>1, <1>2 DEF BranchWants
      <4>2. x[b] = u[b]
        BY <3>1, <1>6
      <4> QED BY <4>1, <4>2, <2>2, <3>1, BranchTriesWant
    <3>2. CASE c.n < c.ti
      <4>1. x[b] = {}
        BY <3>2, <1>6
      <4> QED BY <4>1, <2>2, <3>2, BranchTriesStuck
    <3>3. c.ti <= c.n \/ c.n < c.ti
      BY <1>1
    <3> QED BY <3>1, <3>2, <3>3
  <2>4. PICK made : made = BranchTries(c, br)
    OBVIOUS
  <2>5. made = [k \in DOMAIN made |-> made[k]]
    BY <2>4 DEF BranchTries
  <2> QED BY <2>2, <2>3, <2>4, <2>5
<1>8. PICK S : S = UNION {Range(ss[b]) : b \in 1 .. m}
  OBVIOUS
<1>9. ASSUME NEW t \in S PROVE TryOK(c, t)
  <2>1. PICK b \in 1 .. m : t \in Range(ss[b])
    BY <1>8
  <2>2. PICK k \in DOMAIN ss[b] : t = ss[b][k]
    BY <2>1 DEF Range
  <2> QED BY <2>2, <1>7
<1>10. PICK g : g = [t \in S |-> TryWants(c, t)]
  OBVIOUS
<1>11. ASSUME NEW b \in 1 .. m PROVE ss[b] \in Seq(S) /\ SeqFirst(g, ss[b], x[b])
  <2>1. PICK l \in Nat :
               /\ DOMAIN ss[b] = 1 .. l /\ ss[b] = [k \in 1 .. l |-> ss[b][k]]
               /\ First([k \in 1 .. l |-> TryWants(c, ss[b][k])], l, x[b])
    BY <1>7
  <2>2. PICK s : s = ss[b]
    OBVIOUS
  <2>3. \A k \in 1 .. l : s[k] \in S
    <3>1. \A k \in 1 .. l : s[k] \in Range(s)
      BY <2>1, <2>2 DEF Range
    <3> QED BY <3>1, <2>2, <1>8
  <2>4. s \in [1 .. l -> S]
    BY <2>1, <2>2, <2>3
  <2>5. s \in Seq(S) /\ Len(s) = l
    BY <2>4
  <2>6. [k \in 1 .. l |-> TryWants(c, s[k])] = [k \in 1 .. l |-> g[s[k]]]
    BY <2>3, <1>10
  <2>7. First([k \in 1 .. l |-> TryWants(c, s[k])], l, x[b])
    BY <2>1, <2>2
  <2> QED BY <2>2, <2>5, <2>6, <2>7 DEF SeqFirst
<1>12. ss \in [1 .. m -> Seq(S)]
  BY <1>4, <1>11
<1>13. tries \in Seq(S) /\ SeqFirst(g, tries, Wants(c))
  <2>1. FlattenSeq(ss) \in Seq(S) /\ SeqFirst(g, FlattenSeq(ss), Wants(c))
    BY <1>6, <1>11, <1>12, FlattenFirst
  <2> QED BY <2>1, <1>5
<1>14. \A k \in 1 .. Len(tries) : tries[k] \in S
  BY <1>13
<1>15. IsTries(c, tries)
  BY <1>9, <1>13, <1>14, SeqOfRange DEF IsTries
<1>16. [k \in 1 .. Len(tries) |-> g[tries[k]]] = [k \in 1 .. Len(tries) |-> TryWants(c, tries[k])]
  BY <1>10, <1>14
<1> QED BY <1>13, <1>15, <1>16, Zenon DEF TriesWant, SeqFirst
-----------------------------------------------------------------------------
(* The call a frame was made for, and what is sure of every frame: either  *)
(* what is left to do wants what the call wants, or the first call left to *)
(* try that has something has it.                                          *)
Origin(c) == Call(c.n, c.began[1], c.began[2], c.pi_end, c.partial)

FrameOK(c) ==
  /\ c = [n |-> c.n, ti |-> c.ti, pi |-> c.pi, pi_end |-> c.pi_end, partial |-> c.partial,
          began |-> <<c.began[1], c.began[2]>>, tries |-> c.tries]
  /\ PlaceOK(c)
  /\ PlaceOK(Origin(c))
  /\ IsTries(c, c.tries)
  /\ IF c.tries = <<>> THEN Wants(c) = Wants(Origin(c)) ELSE TriesWant(c, c.tries, Wants(Origin(c)))

Stack(cs, root) ==
  /\ cs \in Seq(Range(cs))
  /\ \A k \in 1 .. Len(cs) : FrameOK(cs[k])
  /\ \A k \in 1 .. Len(cs) - 1 : cs[k].tries # <<>> /\ Origin(cs[k + 1]) = Head(cs[k].tries).call
  /\ Len(cs) > 0 => Origin(cs[1]) = root

(* The call the last frame waits for, and what it may return.              *)
Awaited(cs, root) == IF cs = <<>> THEN root ELSE Head(Last(cs).tries).call
Awaiting(cs) == cs # <<>> => Last(cs).tries # <<>>

RetOK(r, c) ==
  /\ r \in [matched : BOOLEAN, pos : Nat]
  /\ Wants(c) = IF r.matched THEN {r.pos} ELSE {}

(* The stack without its last frame, which waits for it.                   *)
LEMMA StackPop ==
  ASSUME NEW cs, NEW root, Stack(cs, root), cs # <<>>
  PROVE  /\ FrameOK(Last(cs)) /\ Stack(Front(cs), root) /\ Awaiting(Front(cs))
         /\ Origin(Last(cs)) = Awaited(Front(cs), root)
<1>1. PICK R : R = Range(cs)
  OBVIOUS
<1>2. cs \in Seq(R) /\ Len(cs) \in Nat /\ Len(cs) # 0
  BY <1>1, EmptySeq DEF Stack
<1>3. PICK l \in Nat : l + 1 = Len(cs) /\ Len(cs) - 1 = l
  BY <1>2
<1>4. PICK f : f = Front(cs)
  OBVIOUS
<1>5. f \in Seq(R) /\ Len(f) = l /\ \A k \in 1 .. l : f[k] = cs[k]
  <2>1. f = SubSeq(cs, 1, l)
    BY <1>3, <1>4 DEF Front
  <2> QED BY <2>1, <1>2, <1>3
<1>6. f \in Seq(Range(f))
  BY <1>5, SeqOfRange
<1>7. Last(cs) = cs[l + 1] /\ l + 1 \in 1 .. Len(cs)
  BY <1>3 DEF Last
<1>8. FrameOK(Last(cs))
  BY <1>7 DEF Stack
<1>9. Stack(f, root)
  <2>1. \A k \in 1 .. Len(f) : FrameOK(f[k])
    <3>1. \A k \in 1 .. l : k \in 1 .. Len(cs)
      BY <1>3
    <3> QED BY <3>1, <1>5 DEF Stack
  <2>2. ASSUME NEW k \in 1 .. Len(f) - 1 PROVE f[k].tries # <<>> /\ Origin(f[k + 1]) = Head(f[k].tries).call
    <3>1. k \in 1 .. l /\ k + 1 \in 1 .. l /\ k \in 1 .. Len(cs) - 1
      BY <1>3, <1>5
    <3>2. cs[k].tries # <<>> /\ Origin(cs[k + 1]) = Head(cs[k].tries).call
      BY <3>1 DEF Stack
    <3> QED BY <3>1, <3>2, <1>5
  <2>3. Len(f) > 0 => Origin(f[1]) = root
    <3>1. l > 0 => 1 \in 1 .. l /\ Len(cs) > 0
      BY <1>3
    <3> QED BY <3>1, <1>5 DEF Stack
  <2> QED BY <1>6, <2>1, <2>2, <2>3 DEF Stack
<1>10. CASE l = 0
  <2>1. f = <<>>
    BY <1>5, <1>10, EmptySeq
  <2>2. Last(cs) = cs[1] /\ Len(cs) > 0
    BY <1>3, <1>7, <1>10
  <2>3. Origin(Last(cs)) = root
    BY <2>2 DEF Stack
  <2> QED BY <2>1, <2>3, <1>4, <1>8, <1>9 DEF Awaiting, Awaited
<1>11. CASE l # 0
  <2>1. f # <<>> /\ l \in 1 .. l /\ l \in 1 .. Len(cs) - 1
    BY <1>3, <1>5, <1>11, EmptySeq
  <2>2. Last(f) = cs[l]
    BY <2>1, <1>5 DEF Last
  <2>3. cs[l].tries # <<>> /\ Origin(cs[l + 1]) = Head(cs[l].tries).call
    BY <2>1 DEF Stack
  <2> QED BY <2>1, <2>2, <2>3, <1>4, <1>7, <1>8, <1>9 DEF Awaiting, Awaited
<1> QED BY <1>10, <1>11

(* The stack with one frame more, for the call awaited.                    *)
LEMMA StackPush ==
  ASSUME NEW cs, NEW root, Stack(cs, root), Awaiting(cs),
         NEW c, FrameOK(c), Origin(c) = Awaited(cs, root)
  PROVE  Stack(Append(cs, c), root) /\ Append(cs, c) # <<>> /\ Last(Append(cs, c)) = c
<1>1. PICK R : R = Range(cs) \cup {c}
  OBVIOUS
<1>2. PICK l \in Nat : l = Len(cs)
  BY DEF Stack
<1>3. cs \in Seq(R)
  BY <1>1 DEF Stack
<1>4. PICK a : a = Append(cs, c)
  OBVIOUS
<1>5. /\ a \in Seq(R) /\ a # <<>> /\ Len(a) = l + 1
      /\ \A k \in 1 .. l : a[k] = cs[k]
      /\ a[l + 1] = c
  BY <1>1, <1>2, <1>3, <1>4, AppendProperties
<1>6. a \in Seq(Range(a))
  BY <1>5, SeqOfRange
<1>7. Last(a) = c
  BY <1>5 DEF Last
<1>8. ASSUME NEW k \in 1 .. l + 1 PROVE FrameOK(a[k])
  <2>1. k \in 1 .. l \/ k = l + 1
    OBVIOUS
  <2> QED BY <2>1, <1>2, <1>5 DEF Stack
<1>9. l # 0 => cs # <<>> /\ Last(cs) = cs[l]
  BY <1>2 DEF Last
<1>10. l = 0 => cs = <<>>
  BY <1>2, <1>3, EmptySeq
<1>11. ASSUME NEW k \in 1 .. l PROVE a[k].tries # <<>> /\ Origin(a[k + 1]) = Head(a[k].tries).call
  <2>1. CASE k = l
    <3>1. cs # <<>> /\ Last(cs) = a[k] /\ a[k + 1] = c
      BY <2>1, <1>5, <1>9
    <3> QED BY <3>1 DEF Awaiting, Awaited
  <2>2. CASE k # l
    <3>1. k \in 1 .. Len(cs) - 1 /\ k + 1 \in 1 .. l
      BY <2>2, <1>2
    <3> QED BY <3>1, <1>5 DEF Stack
  <2> QED BY <2>1, <2>2
<1>12. Origin(a[1]) = root
  <2>1. CASE l = 0
    BY <2>1, <1>5, <1>10 DEF Awaited
  <2>2. CASE l # 0
    <3>1. 1 \in 1 .. l /\ Len(cs) > 0
      BY <2>2, <1>2
    <3> QED BY <3>1, <1>5 DEF Stack
  <2> QED BY <2>1, <2>2
<1>13. Stack(a, root)
  <2>1. (l + 1) - 1 = l
    OBVIOUS
  <2> QED BY <2>1, <1>5, <1>6, <1>8, <1>11, <1>12 DEF Stack
<1> QED BY <1>4, <1>5, <1>7, <1>13

MemoOK(mm) ==
  \A entry \in mm :
    \E i \in 0 .. Len(text), p \in 0 .. Size, partial \in BOOLEAN :
      entry = <<<<i, p>>, partial>> /\ WantAt(i, p, Size, Len(text), partial) = {}

MatcherOK(cs, r, mm, root) ==
  /\ cs # <<>> \/ r # NoRet
  /\ Stack(cs, root)
  /\ MemoOK(mm)
  /\ r # NoRet => RetOK(r, Awaited(cs, root)) /\ Awaiting(cs)

(* Failed is right when nothing is wanted.                                 *)
LEMMA FailedIs ==
  ASSUME NEW c, Wants(c) = {}
  PROVE  RetOK(Failed, c)
BY DEF RetOK, Failed

(* What is returned is not NoRet.                                          *)
LEMMA ReturnedIsRet ==
  ASSUME NEW r, NEW c, RetOK(r, c)
  PROVE  r # NoRet
BY DEF RetOK, NoRet, NPOS

(* Matched is right when its position is wanted.                           *)
LEMMA MatchedIs ==
  ASSUME NEW c, NEW pos \in Nat, Wants(c) = {pos}
  PROVE  RetOK(Matched(pos), c)
BY DEF RetOK, Matched

(* What a frame was made for is wanted from where it began.                *)
LEMMA OriginFields ==
  ASSUME NEW c
  PROVE  /\ Origin(c).n = c.n /\ Origin(c).ti = c.began[1] /\ Origin(c).pi = c.began[2]
         /\ Origin(c).pi_end = c.pi_end /\ Origin(c).partial = c.partial
BY DEF Origin, Call

(* A frame may return what its call wants; what failed is remembered as    *)
(* failed.                                                                 *)
LEMMA ReturnKeeps ==
  ASSUME NEW root, MatcherOK(calls, ret, memo, root), calls # <<>>,
         NEW result, RetOK(result, Origin(Top)), Return(result)
  PROVE  MatcherOK(calls', ret', memo', root)
<1>1. /\ FrameOK(Top) /\ Stack(Others, root) /\ Awaiting(Others)
      /\ Origin(Top) = Awaited(Others, root)
  BY StackPop DEF MatcherOK, Top, Others
<1>2. calls' = Others /\ ret' = result /\ memo' = IF result.matched THEN memo ELSE memo \cup Slot(Top)
  BY DEF Return
<1>3. MemoOK(memo')
  <2>1. MemoOK(memo)
    BY DEF MatcherOK
  <2>2. CASE result.matched
    BY <2>1, <2>2, <1>2
  <2>3. CASE ~result.matched
    <3>1. Wants(Origin(Top)) = {}
      BY <2>3 DEF RetOK
    <3>2. PICK t : t = Top
      OBVIOUS
    <3>3. PICK i, p : t.began = <<i, p>> /\ i = t.began[1] /\ p = t.began[2]
      BY <1>1, <3>2 DEF FrameOK
    <3>4. PlaceOK(Origin(t))
      BY <1>1, <3>2 DEF FrameOK
    <3>5. Origin(t).n = t.n /\ Origin(t).ti = i /\ Origin(t).pi = p
          /\ Origin(t).pi_end = t.pi_end /\ Origin(t).partial = t.partial
      BY <3>3, OriginFields
    <3>6. ASSUME NEW entry \in Slot(t)
          PROVE  \E j \in 0 .. Len(text), d \in 0 .. Size, partial \in BOOLEAN :
                   entry = <<<<j, d>>, partial>> /\ WantAt(j, d, Size, Len(text), partial) = {}
      <4>1. t.pi_end = Size /\ entry = <<t.began, t.partial>>
        BY DEF Slot
      <4>2. i \in 0 .. Len(text) /\ p \in 0 .. Size /\ t.partial \in BOOLEAN /\ t.n = Len(text)
        BY <4>1, <3>4, <3>5 DEF PlaceOK
      <4>3. WantAt(i, p, Size, Len(text), t.partial) = {}
        BY <4>1, <4>2, <3>1, <3>2, <3>5 DEF Wants
      <4> QED BY <4>1, <4>2, <4>3, <3>3
    <3>7. memo' = memo \cup Slot(t)
      BY <2>3, <3>2, <1>2
    <3> QED BY <2>1, <3>6, <3>7 DEF MemoOK
  <2> QED BY <2>2, <2>3
<1>4. ret' # NoRet
  BY <1>2, ReturnedIsRet
<1> QED BY <1>1, <1>2, <1>3, <1>4 DEF MatcherOK

(* A frame may go on with another place that wants the same.               *)
LEMMA ContinueKeeps ==
  ASSUME NEW root, MatcherOK(calls, ret, memo, root), calls # <<>>,
         NEW c, FrameOK(c), Origin(c) = Origin(Top), Continue(c)
  PROVE  MatcherOK(calls', ret', memo', root)
<1>1. /\ Stack(Others, root) /\ Awaiting(Others)
      /\ Origin(c) = Awaited(Others, root)
  BY StackPop DEF MatcherOK, Top, Others
<1>2. Stack(Append(Others, c), root) /\ Append(Others, c) # <<>>
  BY <1>1, StackPush
<1>3. calls' = Append(Others, c) /\ ret' = NoRet /\ memo' = memo
  BY DEF Continue
<1> QED BY <1>2, <1>3 DEF MatcherOK

(* A frame with other calls left to try is still one.                      *)
LEMMA SameTries ==
  ASSUME NEW c, NEW d, NEW tries, IsTries(c, tries),
         c.n = d.n, c.pi = d.pi, c.pi_end = d.pi_end, c.partial = d.partial
  PROVE  IsTries(d, tries)
<1>1. ASSUME NEW k \in 1 .. Len(tries), TryOK(c, tries[k]) PROVE TryOK(d, tries[k])
  BY <1>1 DEF TryOK
<1> QED BY <1>1 DEF IsTries

(* A frame may try a list of calls whose first success is what it wants.   *)
LEMMA TryAllKeeps ==
  ASSUME NEW root, MatcherOK(calls, ret, memo, root), calls # <<>>,
         NEW tries, IsTries(Top, tries), TriesWant(Top, tries, Wants(Origin(Top))), TryAll(tries)
  PROVE  MatcherOK(calls', ret', memo', root)
<1>1. PICK t : t = Top
  OBVIOUS
<1>2. FrameOK(t)
  BY <1>1, StackPop DEF MatcherOK, Top
<1>3. CASE tries = <<>>
  <2>1. Wants(Origin(t)) = {}
    <3>1. Len(tries) = 0
      BY <1>3
    <3>2. PICK v, m : m = 0 /\ First(v, m, Wants(Origin(t)))
      BY <1>1, <3>1 DEF TriesWant
    <3> QED BY <3>2 DEF First
  <2>2. RetOK(Failed, Origin(Top))
    BY <2>1, <1>1, FailedIs
  <2>3. Return(Failed)
    BY <1>3 DEF TryAll
  <2> QED BY <2>2, <2>3, ReturnKeeps
<1>4. CASE tries # <<>>
  <2>1. PICK c : c = [t EXCEPT !.tries = tries]
    OBVIOUS
  <2>2. /\ c = [n |-> c.n, ti |-> c.ti, pi |-> c.pi, pi_end |-> c.pi_end, partial |-> c.partial,
                began |-> <<c.began[1], c.began[2]>>, tries |-> c.tries]
        /\ c.n = t.n /\ c.ti = t.ti /\ c.pi = t.pi /\ c.pi_end = t.pi_end /\ c.partial = t.partial
        /\ c.began = t.began /\ c.tries = tries
    BY <1>2, <2>1 DEF FrameOK
  <2>3. Origin(c) = Origin(t)
    BY <2>2 DEF Origin
  <2>4. PlaceOK(c)
    <3>1. Stuck(t) => Stuck(c)
      BY <2>2 DEF Stuck
    <3>2. PlaceOK(t)
      BY <1>2 DEF FrameOK
    <3> QED BY <3>1, <3>2, <2>2 DEF PlaceOK
  <2>5. IsTries(c, c.tries)
    BY <2>2, <1>1, SameTries
  <2>6. TriesWant(c, c.tries, Wants(Origin(c)))
    <3>1. \A k : TryWants(c, tries[k]) = TryWants(t, tries[k])
      BY <2>2 DEF TryWants
    <3>2. [k \in 1 .. Len(tries) |-> TryWants(c, tries[k])] = [k \in 1 .. Len(tries) |-> TryWants(t, tries[k])]
      BY <3>1
    <3> QED BY <3>2, <2>2, <2>3, <1>1 DEF TriesWant
  <2>7. FrameOK(c)
    <3>1. PlaceOK(Origin(c))
      BY <2>3, <1>2 DEF FrameOK
    <3>2. c.tries # <<>>
      BY <2>2, <1>4
    <3> QED BY <3>1, <3>2, <2>2, <2>4, <2>5, <2>6 DEF FrameOK
  <2>8. Continue(c)
    BY <1>1, <1>4, <2>1 DEF TryAll
  <2> QED BY <2>3, <2>7, <2>8, <1>1, ContinueKeeps
<1> QED BY <1>3, <1>4

(* A call that has just been made is a frame.                              *)
LEMMA NewFrame ==
  ASSUME NEW call, PlaceOK(call), call = Call(call.n, call.ti, call.pi, call.pi_end, call.partial)
  PROVE  FrameOK(call) /\ Origin(call) = call
<1>1. PICK n, ti, pi, pi_end, partial :
        n = call.n /\ ti = call.ti /\ pi = call.pi /\ pi_end = call.pi_end /\ partial = call.partial
  OBVIOUS
<1>2. call = [n |-> n, ti |-> ti, pi |-> pi, pi_end |-> pi_end, partial |-> partial,
              began |-> <<ti, pi>>, tries |-> <<>>]
  BY <1>1 DEF Call
<1>3. call.began = <<ti, pi>> /\ call.tries = <<>> /\ call.began[1] = ti /\ call.began[2] = pi
  BY <1>2
<1>4. Origin(call) = call
  BY <1>1, <1>3 DEF Origin
<1>5. IsTries(call, call.tries)
  <2>1. PICK none : none = call.tries
    OBVIOUS
  <2>2. none = <<>>
    BY <2>1, <1>3
  <2>3. none \in Seq(Range(none)) /\ \A k \in 1 .. Len(none) : FALSE
    BY <2>2
  <2> QED BY <2>1, <2>3 DEF IsTries
<1> QED BY <1>1, <1>2, <1>3, <1>4, <1>5 DEF FrameOK

(* A call is made, or answered by what the memo remembers.                 *)
LEMMA EnterKeeps ==
  ASSUME NEW root, Stack(calls, root), MemoOK(memo), Awaiting(calls),
         NEW call, PlaceOK(call), call = Call(call.n, call.ti, call.pi, call.pi_end, call.partial),
         call = Awaited(calls, root), Enter(call)
  PROVE  MatcherOK(calls', ret', memo', root)
<1>0. memo' = memo
  BY DEF Enter
<1>1. CASE Slot(call) \cap memo # {}
  <2>1. calls' = calls /\ ret' = Failed
    BY <1>1 DEF Enter
  <2>2. call.pi_end = Size /\ <<call.began, call.partial>> \in memo
    BY <1>1 DEF Slot
  <2>3. call.began = <<call.ti, call.pi>>
    BY DEF Call
  <2>4. PICK i \in 0 .. Len(text), p \in 0 .. Size, partial \in BOOLEAN :
           <<call.began, call.partial>> = <<<<i, p>>, partial>> /\ WantAt(i, p, Size, Len(text), partial) = {}
    BY <2>2 DEF MemoOK
  <2>5. call.ti = i /\ call.pi = p /\ call.partial = partial
    BY <2>3, <2>4
  <2>6. call.n = Len(text)
    BY <2>2 DEF PlaceOK
  <2>7. Wants(call) = {}
    BY <2>2, <2>4, <2>5, <2>6 DEF Wants
  <2>8. RetOK(Failed, Awaited(calls, root))
    BY <2>7, FailedIs
  <2>9. Failed # NoRet
    BY <2>8, ReturnedIsRet
  <2> QED BY <2>1, <2>8, <2>9, <1>0 DEF MatcherOK
<1>2. CASE ~(Slot(call) \cap memo # {})
  <2>1. calls' = Append(calls, call) /\ ret' = NoRet
    BY <1>2 DEF Enter
  <2>2. FrameOK(call) /\ Origin(call) = call
    BY NewFrame
  <2>3. Stack(Append(calls, call), root) /\ Append(calls, call) # <<>>
    BY <2>2, StackPush
  <2> QED BY <2>1, <2>3, <1>0 DEF MatcherOK
<1> QED BY <1>1, <1>2

(* The frame on top is sound and is for the call awaited below.            *)
LEMMA TopFrame ==
  ASSUME NEW root, MatcherOK(calls, ret, memo, root), calls # <<>>
  PROVE  /\ FrameOK(Top)
         /\ Origin(Top) = Awaited(Others, root)
BY StackPop DEF MatcherOK, Top, Others

(* The first of the calls left to try.                                     *)
LEMMA HeadIsFirst ==
  ASSUME NEW c, NEW tries, IsTries(c, tries), tries # <<>>, NEW w, TriesWant(c, tries, w)
  PROVE  /\ TryOK(c, Head(tries))
         /\ TryWants(c, Head(tries)) # {} => w = TryWants(c, Head(tries))
<1>1. PICK m \in Nat : m = Len(tries) /\ 1 \in 1 .. m /\ Head(tries) = tries[1]
  BY DEF IsTries
<1>2. PICK v : v = [k \in 1 .. m |-> TryWants(c, tries[k])]
  OBVIOUS
<1>3. First(v, m, w)
  BY <1>1, <1>2 DEF TriesWant
<1>4. v[1] # {} => w = v[1]
  <2>1. ASSUME NEW k \in 1 .. m, v[1] # {}, \A j \in 1 .. k - 1 : v[j] = {} PROVE k = 1
    <3>1. k # 1 => 1 \in 1 .. k - 1
      BY <1>1
    <3> QED BY <2>1, <3>1
  <2> QED BY <1>1, <1>3, <2>1 DEF First
<1>5. v[1] = TryWants(c, Head(tries))
  BY <1>1, <1>2
<1> QED BY <1>1, <1>4, <1>5 DEF IsTries

(* A call that failed is taken off the list.                               *)
LEMMA TailTries ==
  ASSUME NEW c, NEW tries, IsTries(c, tries), tries # <<>>, NEW w, TriesWant(c, tries, w),
         TryWants(c, Head(tries)) = {}
  PROVE  IsTries(c, Tail(tries)) /\ TriesWant(c, Tail(tries), w)
<1>1. PICK m \in Nat : m + 1 = Len(tries) /\ m = Len(tries) - 1
  BY DEF IsTries
<1>2. PICK v : v = [k \in 1 .. m + 1 |-> TryWants(c, tries[k])]
  OBVIOUS
<1>3. First(v, m + 1, w)
  BY <1>1, <1>2 DEF TriesWant
<1>4. PICK s : s = Tail(tries)
  OBVIOUS
<1>5. PICK R : R = Range(tries)
  OBVIOUS
<1>6. s \in Seq(R) /\ Len(s) = m /\ \A k \in 1 .. m : s[k] = tries[k + 1]
  BY <1>1, <1>4, <1>5 DEF IsTries
<1>7. IsTries(c, s)
  <2>1. s \in Seq(Range(s))
    BY <1>6, SeqOfRange
  <2>2. \A k \in 1 .. m : k + 1 \in 1 .. Len(tries)
    BY <1>1
  <2> QED BY <2>1, <2>2, <1>6 DEF IsTries
<1>8. PICK u : u = [k \in 1 .. m |-> TryWants(c, s[k])]
  OBVIOUS
<1>9. \A k \in 1 .. m : u[k] = v[k + 1]
  <2>1. \A k \in 1 .. m : k + 1 \in 1 .. m + 1
    OBVIOUS
  <2> QED BY <2>1, <1>2, <1>6, <1>8
<1>10. v[1] = {}
  <2>1. 1 \in 1 .. m + 1 /\ Head(tries) = tries[1]
    BY DEF IsTries
  <2> QED BY <2>1, <1>2
<1>11. First(u, m, w)
  <2>1. CASE w = {}
    <3>1. \A k \in 1 .. m + 1 : v[k] = {}
      BY <2>1, <1>3 DEF First
    <3>2. \A k \in 1 .. m : u[k] = {}
      <4>1. \A k \in 1 .. m : k + 1 \in 1 .. m + 1
        OBVIOUS
      <4> QED BY <3>1, <4>1, <1>9
    <3> QED BY <2>1, <3>2 DEF First
  <2>2. CASE w # {}
    <3>1. PICK k \in 1 .. m + 1 : w = v[k] /\ \A j \in 1 .. k - 1 : v[j] = {}
      BY <2>2, <1>3 DEF First
    <3>2. k # 1
      BY <3>1, <2>2, <1>10
    <3>3. PICK l \in 1 .. m : k = l + 1
      <4>1. k - 1 \in 1 .. m /\ k = (k - 1) + 1
        BY <3>2
      <4> QED BY <4>1
    <3>4. w = u[l]
      BY <3>1, <3>3, <1>9
    <3>5. ASSUME NEW j \in 1 .. l - 1 PROVE u[j] = {}
      <4>1. j + 1 \in 1 .. k - 1 /\ j \in 1 .. m
        BY <3>3
      <4> QED BY <4>1, <3>1, <1>9
    <3> QED BY <3>4, <3>5, <2>2 DEF First
  <2> QED BY <2>1, <2>2
<1>12. TriesWant(c, s, w)
  BY <1>6, <1>8, <1>11 DEF TriesWant
<1> QED BY <1>4, <1>7, <1>12

(* A branch that matched is replaced by what follows the group.            *)
LEMMA HeadReplaced ==
  ASSUME NEW c, NEW tries, IsTries(c, tries), tries # <<>>, NEW w, TriesWant(c, tries, w),
         NEW t, TryOK(c, t), TryWants(c, t) = TryWants(c, Head(tries))
  PROVE  IsTries(c, <<t>> \o Tail(tries)) /\ TriesWant(c, <<t>> \o Tail(tries), w)
<1>1. PICK m \in Nat : m + 1 = Len(tries) /\ m = Len(tries) - 1
  BY DEF IsTries
<1>2. PICK R : R = Range(tries) \cup {t}
  OBVIOUS
<1>3. PICK rest, one : rest = Tail(tries) /\ one = <<t>>
  OBVIOUS
<1>4. rest \in Seq(R) /\ Len(rest) = m /\ \A k \in 1 .. m : rest[k] = tries[k + 1]
  BY <1>1, <1>2, <1>3 DEF IsTries
<1>5. one \in Seq(R) /\ Len(one) = 1 /\ one[1] = t
  BY <1>2, <1>3
<1>6. PICK s : s = one \o rest
  OBVIOUS
<1>7. s \in Seq(R) /\ Len(s) = m + 1
      /\ \A k \in 1 .. m + 1 : s[k] = IF k <= 1 THEN one[k] ELSE rest[k - 1]
  BY <1>4, <1>5, <1>6, ConcatProperties, SMTT(40)
<1>8. ASSUME NEW k \in 1 .. m + 1 PROVE s[k] = IF k = 1 THEN t ELSE tries[k]
  <2>1. CASE k = 1
    BY <2>1, <1>5, <1>7
  <2>2. CASE k # 1
    <3>1. k - 1 \in 1 .. m /\ (k - 1) + 1 = k /\ ~(k <= 1)
      BY <2>2
    <3> QED BY <2>2, <3>1, <1>4, <1>7
  <2> QED BY <2>1, <2>2
<1>9. IsTries(c, s)
  <2>1. s \in Seq(Range(s))
    BY <1>7, SeqOfRange
  <2> QED BY <2>1, <1>1, <1>7, <1>8 DEF IsTries
<1>10. [k \in 1 .. m + 1 |-> TryWants(c, s[k])] = [k \in 1 .. m + 1 |-> TryWants(c, tries[k])]
  <2>1. Head(tries) = tries[1]
    BY DEF IsTries
  <2>2. \A k \in 1 .. m + 1 : TryWants(c, s[k]) = TryWants(c, tries[k])
    BY <2>1, <1>8
  <2> QED BY <2>2
<1>11. TriesWant(c, s, w)
  BY <1>1, <1>7, <1>10 DEF TriesWant
<1> QED BY <1>3, <1>6, <1>9, <1>11

(* The rest behind a group is a call to try, and wants what follows.       *)
LEMMA RestIs ==
  ASSUME PlanOK, PlaceOK(Top), NEW x \in 0 .. Top.n, NEW d \in 0 .. Top.pi_end
  PROVE  /\ TryOK(Top, Rest(x, d))
         /\ TryWants(Top, Rest(x, d)) = WantAt(x, d, Top.pi_end, Top.n, Top.partial)
<1>0. Size \in Nat /\ Len(text) \in Nat
  BY Sizes
<1>1. PICK t, rest, call : t = Top /\ rest = Rest(x, d) /\ call = Call(t.n, x, d, t.pi_end, t.partial)
  OBVIOUS
<1>2. rest.branch = FALSE /\ rest.call = call
  BY <1>1 DEF Rest
<1>3. call.n = t.n /\ call.ti = x /\ call.pi = d /\ call.pi_end = t.pi_end /\ call.partial = t.partial
  BY <1>1, CallFields
<1>4. PlaceOK(call)
  <2>1. t.n \in 0 .. Len(text) /\ t.pi_end \in 0 .. Size /\ t.partial \in BOOLEAN
        /\ (t.pi_end = Size => t.n = Len(text)) /\ (t.partial = TRUE => t.pi_end = Size)
    BY <1>1 DEF PlaceOK
  <2>2. x \in 0 .. Len(text) /\ x <= t.n /\ d \in 0 .. Size /\ d <= t.pi_end
    BY <2>1, <1>0, <1>1
  <2> QED BY <2>1, <2>2, <1>3 DEF PlaceOK
<1>5. TryOK(t, rest)
  BY <1>1, <1>2, <1>3, <1>4 DEF TryOK
<1>6. TryWants(t, rest) = WantAt(x, d, t.pi_end, t.n, t.partial)
  BY <1>2, <1>3 DEF TryWants, Wants
<1> QED BY <1>1, <1>5, <1>6

(* What is known of the innermost call: its place, and what it still wants.*)
LEMMA RunningTop ==
  ASSUME PlanOK, NEW root, MatcherOK(calls, ret, memo, root), Running
  PROVE  /\ PlaceOK(Top)
         /\ Wants(Origin(Top)) = WantAt(Top.ti, Top.pi, Top.pi_end, Top.n, Top.partial)
         /\ Top.ti \in 0 .. Len(text) /\ Top.n \in 0 .. Len(text) /\ Top.partial \in BOOLEAN
         /\ Top.pi \in 0 .. Size /\ Top.pi_end \in 0 .. Size /\ Top.pi <= Top.pi_end
         /\ Len(text) \in Nat /\ Size \in Nat
<1>1. FrameOK(Top)
  BY TopFrame DEF Running
<1>2. Top.tries = <<>>
  BY DEF Running
<1>3. PlaceOK(Top) /\ Wants(Top) = Wants(Origin(Top))
  BY <1>1, <1>2 DEF FrameOK
<1> QED BY <1>3, Sizes DEF Wants, PlaceOK

(* A character, a class or an escape.                                      *)
LEMMA MatchOneKeeps ==
  ASSUME PlanOK, NEW root, MatcherOK(calls, ret, memo, root), MatchOne
  PROVE  MatcherOK(calls', ret', memo', root)
<1>0. Running /\ calls # <<>> /\ Top.pi < Top.pi_end /\ P(Top.pi) # "*" /\ ~IsGroup(Top.pi, Top.pi_end)
  BY DEF MatchOne, Running
<1>1. PICK t : t = Top
  OBVIOUS
<1>2. PICK i, n, p, q, partial : i = t.ti /\ n = t.n /\ p = t.pi /\ q = t.pi_end /\ partial = t.partial
  OBVIOUS
<1>3. /\ PlaceOK(t) /\ Wants(Origin(t)) = WantAt(i, p, q, n, partial)
      /\ i \in 0 .. Len(text) /\ n \in 0 .. Len(text) /\ partial \in BOOLEAN
      /\ p \in 0 .. Size /\ q \in 0 .. Size /\ p < q /\ Len(text) \in Nat /\ Size \in Nat
  BY <1>0, <1>1, <1>2, RunningTop
<1>4. PICK chars, next : chars = OneChar(p, q).chars /\ next = OneChar(p, q).next
  OBVIOUS
<1>5. WantAt(i, p, q, n, partial) = IF i < Len(text) /\ T(i) \in chars
                                    THEN WantAt(i + 1, next, q, n, partial) ELSE {}
  <2>1. P(p) # "*" /\ ~IsGroup(p, q)
    BY <1>0, <1>1, <1>2
  <2>2. WantAt(i, p, q, n, partial) = IF i < Len(text) /\ T(i) \in OneChar(p, q).chars
                                      THEN WantAt(i + 1, OneChar(p, q).next, q, n, partial) ELSE {}
    BY <2>1, <1>3, CharWants
  <2> QED BY <2>2, <1>4
<1>6. IF i < n /\ T(i) \in chars
      THEN Continue([t EXCEPT !.ti = @ + 1, !.pi = next]) ELSE Return(Failed)
  BY <1>1, <1>2, <1>4 DEF MatchOne
<1>7. T(i) \in chars => next \in p + 1 .. q
  BY <1>3, <1>4, OneCharNext
<1>8. CASE i < n /\ T(i) \in chars
  <2>1. PICK c : c = [t EXCEPT !.ti = @ + 1, !.pi = next]
    OBVIOUS
  <2>2. /\ FrameOK(t) /\ t.tries = <<>>
    BY <1>0, <1>1, TopFrame DEF Running
  <2>3. /\ c = [n |-> c.n, ti |-> c.ti, pi |-> c.pi, pi_end |-> c.pi_end, partial |-> c.partial,
                began |-> <<c.began[1], c.began[2]>>, tries |-> c.tries]
        /\ c.n = n /\ c.ti = i + 1 /\ c.pi = next /\ c.pi_end = q /\ c.partial = partial
        /\ c.began = t.began /\ c.tries = t.tries
    <3>1. t = [n |-> t.n, ti |-> t.ti, pi |-> t.pi, pi_end |-> t.pi_end, partial |-> t.partial,
               began |-> <<t.began[1], t.began[2]>>, tries |-> t.tries]
      BY <2>2 DEF FrameOK
    <3>2. PICK began, tries : began = <<t.began[1], t.began[2]>> /\ tries = t.tries
      OBVIOUS
    <3>3. PICK j : j = i + 1
      OBVIOUS
    <3>4. t = [n |-> n, ti |-> i, pi |-> p, pi_end |-> q, partial |-> partial, began |-> began, tries |-> tries]
      BY <3>1, <3>2, <1>2
    <3>5. c = [t EXCEPT !.ti = j, !.pi = next]
      BY <2>1, <3>3, <1>2
    <3>6. c = [n |-> n, ti |-> j, pi |-> next, pi_end |-> q, partial |-> partial, began |-> began, tries |-> tries]
      BY <3>4, <3>5
    <3>7. began = <<began[1], began[2]>>
      BY <3>2
    <3> QED BY <3>2, <3>3, <3>4, <3>6, <3>7
  <2>4. Origin(c) = Origin(t)
    BY <2>3, <1>2 DEF Origin
  <2>5. PlaceOK(c)
    <3>1. (q = Size => n = Len(text)) /\ (partial = TRUE => q = Size)
      BY <1>2, <1>3 DEF PlaceOK
    <3>2. i + 1 \in 0 .. Len(text) /\ i + 1 <= n /\ next \in 0 .. Size /\ next <= q
      BY <1>3, <1>7, <1>8
    <3> QED BY <3>1, <3>2, <1>3, <2>3 DEF PlaceOK
  <2>6. IsTries(c, c.tries)
    <3>1. IsTries(t, t.tries)
      BY <2>2 DEF FrameOK
    <3>2. PICK none : none = c.tries
      OBVIOUS
    <3>3. none = <<>>
      BY <3>2, <2>2, <2>3
    <3>4. none \in Seq(Range(none)) /\ \A k \in 1 .. Len(none) : FALSE
      BY <3>3
    <3> QED BY <3>2, <3>4 DEF IsTries
  <2>7. Wants(c) = Wants(Origin(c))
    <3>1. i < Len(text)
      BY <1>3, <1>8
    <3>2. Wants(c) = WantAt(i + 1, next, q, n, partial)
      BY <2>3 DEF Wants
    <3> QED BY <3>1, <3>2, <1>3, <1>5, <1>8, <2>4
  <2>8. FrameOK(c)
    <3>1. PlaceOK(Origin(c))
      BY <2>2, <2>4 DEF FrameOK
    <3> QED BY <3>1, <2>2, <2>3, <2>5, <2>6, <2>7 DEF FrameOK
  <2>9. Continue(c)
    BY <1>6, <1>8, <2>1
  <2> QED BY <2>4, <2>8, <2>9, <1>0, <1>1, ContinueKeeps
<1>9. CASE ~(i < n /\ T(i) \in chars)
  <2>1. Return(Failed)
    BY <1>6, <1>9
  <2>2. WantAt(i, p, q, n, partial) = {}
    <3>1. CASE ~(i < Len(text) /\ T(i) \in chars)
      BY <3>1, <1>5
    <3>2. CASE i < Len(text) /\ T(i) \in chars
      <4>1. n <= i /\ n < i + 1 /\ n # Len(text) /\ i + 1 \in 0 .. Len(text) /\ n \in Int
        BY <3>2, <1>3, <1>9
      <4>2. partial = FALSE
        BY <4>1, <1>2, <1>3 DEF PlaceOK
      <4>3. next \in 0 .. Size
        BY <3>2, <1>3, <1>7
      <4>4. PICK j \in 0 .. Len(text) : j = i + 1 /\ n < j
        BY <4>1
      <4>5. PICK d \in 0 .. Size : d = next
        BY <4>3
      <4>6. WantAt(j, d, q, n, FALSE) = {}
        BY <4>1, <4>4, <1>3, NothingBehind
      <4>7. WantAt(i, p, q, n, partial) = WantAt(j, d, q, n, partial)
        BY <3>2, <4>4, <4>5, <1>5
      <4> QED BY <4>2, <4>6, <4>7, Zenon
    <3> QED BY <3>1, <3>2
  <2>3. RetOK(Failed, Origin(Top))
    BY <2>2, <1>1, <1>3, FailedIs
  <2> QED BY <2>1, <2>3, <1>0, ReturnKeeps
<1> QED BY <1>8, <1>9

(* The pattern is at its end.                                              *)
LEMMA PatternEndsKeeps ==
  ASSUME PlanOK, NEW root, MatcherOK(calls, ret, memo, root), PatternEnds
  PROVE  MatcherOK(calls', ret', memo', root)
<1>0. Running /\ calls # <<>> /\ Top.pi >= Top.pi_end
  BY DEF PatternEnds, Running
<1>1. PICK t : t = Top
  OBVIOUS
<1>2. PICK i, n, p, q, partial : i = t.ti /\ n = t.n /\ p = t.pi /\ q = t.pi_end /\ partial = t.partial
  OBVIOUS
<1>3. /\ PlaceOK(t) /\ Wants(Origin(t)) = WantAt(i, p, q, n, partial)
      /\ i \in 0 .. Len(text) /\ n \in 0 .. Len(text) /\ partial \in BOOLEAN
      /\ p \in 0 .. Size /\ q \in 0 .. Size /\ p >= q /\ Len(text) \in Nat /\ Size \in Nat
  BY <1>0, <1>1, <1>2, RunningTop
<1>4. WantAt(i, p, q, n, partial) = IF partial \/ i = n THEN {i} ELSE {}
  BY <1>3, EmptyWants
<1>5. PICK result : result = IF partial \/ i = n THEN Matched(i) ELSE Failed
  OBVIOUS
<1>6. RetOK(result, Origin(Top))
  <2>1. i \in Nat
    BY <1>3
  <2>2. CASE partial \/ i = n
    <3>1. RetOK(Matched(i), Origin(t))
      BY <2>1, <2>2, <1>3, <1>4, MatchedIs
    <3> QED BY <3>1, <2>2, <1>1, <1>5
  <2>3. CASE ~(partial \/ i = n)
    <3>1. RetOK(Failed, Origin(t))
      BY <2>3, <1>3, <1>4, FailedIs
    <3> QED BY <3>1, <2>3, <1>1, <1>5
  <2> QED BY <2>2, <2>3
<1>7. Return(result)
  BY <1>1, <1>2, <1>5 DEF PatternEnds
<1> QED BY <1>0, <1>6, <1>7, ReturnKeeps

(* Stars at the end of the part take the rest, or nothing when a prefix    *)
(* will do.                                                                *)
LEMMA StarsAtEnd ==
  ASSUME PlanOK, NEW c, PlaceOK(c), c.pi < c.pi_end, \A k \in c.pi .. c.pi_end - 1 : P(k) = "*"
  PROVE  Wants(c) = {IF c.partial THEN c.ti ELSE c.n}
<1>1. PICK i, n, p, q, partial : i = c.ti /\ n = c.n /\ p = c.pi /\ q = c.pi_end /\ partial = c.partial
  OBVIOUS
<1>2. /\ i \in 0 .. Len(text) /\ n \in 0 .. Len(text) /\ partial \in BOOLEAN
      /\ p \in 0 .. Size /\ q \in 0 .. Size /\ p < q /\ Len(text) \in Nat /\ Size \in Nat
      /\ \A k \in p .. q - 1 : P(k) = "*"
  BY <1>1, Sizes DEF PlaceOK
<1>3. i <= n
  <2>1. i <= n \/ Stuck(c)
    BY <1>1 DEF PlaceOK
  <2>2. ~Stuck(c)
    BY <1>1, <1>2 DEF Stuck
  <2> QED BY <2>1, <2>2
<1>4. PICK w : w = WantAt(i, p, q, n, partial)
  OBVIOUS
<1>5. FirstEnd(i .. Len(text), q, q, n, partial, w)
  <2>1. q <= q
    BY <1>2
  <2> QED BY <2>1, <1>2, <1>4, StarsWant
<1>6. ASSUME NEW e \in i .. Len(text)
      PROVE  WantAt(e, q, q, n, partial) = IF partial \/ e = n THEN {e} ELSE {}
  <2>1. e \in 0 .. Len(text) /\ q >= q
    BY <1>2
  <2> QED BY <2>1, <1>2, EmptyWants
<1>7. i \in i .. Len(text) /\ n \in i .. Len(text)
  BY <1>2, <1>3
<1>8. w = {IF partial THEN i ELSE n}
  <2>1. w # {}
    <3>1. \E e \in i .. Len(text) : WantAt(e, q, q, n, partial) # {}
      BY <1>6, <1>7
    <3> QED BY <3>1, <1>5 DEF FirstEnd
  <2>2. PICK e \in i .. Len(text) : /\ w = WantAt(e, q, q, n, partial)
                                    /\ \A d \in i .. Len(text) : d < e => WantAt(d, q, q, n, partial) = {}
    BY <2>1, <1>5 DEF FirstEnd
  <2>3. (partial \/ e = n) /\ w = {e}
    BY <2>1, <2>2, <1>6
  <2>4. CASE partial
    <3>1. ~(i < e)
      BY <2>2, <2>4, <1>6, <1>7
    <3>2. e = i
      BY <3>1, <1>2
    <3> QED BY <3>2, <2>3, <2>4
  <2>5. CASE ~partial
    BY <2>3, <2>5
  <2> QED BY <2>4, <2>5
<1> QED BY <1>1, <1>4, <1>8 DEF Wants

(* A star: every place where what is next stands.                          *)
LEMMA MatchStarKeeps ==
  ASSUME PlanOK, NEW root, MatcherOK(calls, ret, memo, root), MatchStar
  PROVE  MatcherOK(calls', ret', memo', root)
<1>0. Running /\ calls # <<>> /\ Top.pi < Top.pi_end /\ P(Top.pi) = "*"
  BY DEF MatchStar, Running
<1>1. PICK t : t = Top
  OBVIOUS
<1>2. PICK i, n, p, q, partial : i = t.ti /\ n = t.n /\ p = t.pi /\ q = t.pi_end /\ partial = t.partial
  OBVIOUS
<1>3. /\ PlaceOK(t) /\ Wants(Origin(t)) = WantAt(i, p, q, n, partial)
      /\ i \in 0 .. Len(text) /\ n \in 0 .. Len(text) /\ partial \in BOOLEAN
      /\ p \in 0 .. Size /\ q \in 0 .. Size /\ p < q /\ Len(text) \in Nat /\ Size \in Nat
  BY <1>0, <1>1, <1>2, RunningTop
<1>4. PICK r, e, found : r = AfterStars(p, q) /\ e = ChunkEnd(r, q) /\ found = Found(r, e, i, n)
  OBVIOUS
<1>5. IF r = q
      THEN Return(Matched(IF partial THEN i ELSE n))
      ELSE TryAll([k \in DOMAIN found |-> Rest(found[k] + (e - r), e)])
  BY <1>1, <1>2, <1>4 DEF MatchStar
<1>6. P(p) = "*"
  BY <1>0, <1>1, <1>2
<1>7. CASE r = q
  <2>1. \A k \in p .. q - 1 : P(k) = "*"
    <3>1. p \in Nat /\ q \in Nat /\ p <= q
      BY <1>3
    <3>2. PICK x \in p .. q : AfterStars(p, q) = x /\ \A k \in p .. x - 1 : P(k) = "*"
      BY <3>1, AfterStarsIs
    <3> QED BY <3>2, <1>4, <1>7
  <2>2. PICK pos : pos = IF partial THEN i ELSE n
    OBVIOUS
  <2>3. Wants(t) = {pos}
    BY <2>1, <2>2, <1>2, <1>3, StarsAtEnd
  <2>4. Wants(Origin(Top)) = {pos}
    BY <2>3, <1>1, <1>2, <1>3 DEF Wants
  <2>5. pos \in Nat
    BY <2>2, <1>3
  <2>6. RetOK(Matched(pos), Origin(Top))
    BY <2>4, <2>5, MatchedIs
  <2>7. Return(Matched(pos))
    BY <2>2, <1>5, <1>7
  <2> QED BY <2>6, <2>7, <1>0, ReturnKeeps
<1>8. CASE r # q
  <2>1. partial => n = Len(text)
    BY <1>2, <1>3 DEF PlaceOK
  <2>a. PICK m \in Nat : \E v :
          /\ DOMAIN found = 1 .. m
          /\ e \in r .. q /\ r \in p + 1 .. q
          /\ \A k \in 1 .. m : found[k] \in i .. n /\ found[k] + (e - r) \in i .. n
          /\ \A k \in 1 .. m : v[k] = WantAt(found[k] + (e - r), e, q, n, partial)
          /\ First(v, m, WantAt(i, p, q, n, partial))
    <3>1. /\ i \in 0 .. Len(text) /\ p \in 0 .. Size /\ q \in 0 .. Size /\ p < q /\ P(p) = "*"
          /\ n \in 0 .. Len(text) /\ partial \in BOOLEAN /\ (partial => n = Len(text))
      BY <2>1, <1>3, <1>6
    <3>2. r = AfterStars(p, q) /\ r # q
      BY <1>4, <1>8
    <3>3. e = ChunkEnd(r, q)
      BY <1>4
    <3>4. found = Found(r, e, i, n)
      BY <1>4
    <3>5. StarList(i, p, q, n, partial, r, e, found)
      BY <3>1, <3>2, <3>3, <3>4, StarTries
    <3> QED BY <3>5 DEF StarList
  <2>2. PICK v :
          /\ DOMAIN found = 1 .. m
          /\ e \in r .. q /\ r \in p + 1 .. q
          /\ \A k \in 1 .. m : found[k] \in i .. n /\ found[k] + (e - r) \in i .. n
          /\ \A k \in 1 .. m : v[k] = WantAt(found[k] + (e - r), e, q, n, partial)
          /\ First(v, m, WantAt(i, p, q, n, partial))
    BY <2>a
  <2>3. PICK tries : tries = [k \in 1 .. m |-> Rest(found[k] + (e - r), e)]
    OBVIOUS
  <2>4. e \in 0 .. q
    BY <2>2, <1>3
  <2>5. ASSUME NEW k \in 1 .. m
        PROVE  /\ TryOK(t, tries[k])
               /\ TryWants(t, tries[k]) = WantAt(found[k] + (e - r), e, q, n, partial)
    <3>1. PICK x \in 0 .. n : x = found[k] + (e - r)
      <4>1. found[k] + (e - r) \in i .. n
        BY <2>2
      <4>2. found[k] + (e - r) \in 0 .. n
        BY <4>1, <1>3
      <4> QED BY <4>2
    <3>2. x \in 0 .. Top.n /\ e \in 0 .. Top.pi_end /\ PlaceOK(Top)
      BY <3>1, <2>4, <1>1, <1>2, <1>3
    <3>3. /\ TryOK(Top, Rest(x, e))
          /\ TryWants(Top, Rest(x, e)) = WantAt(x, e, Top.pi_end, Top.n, Top.partial)
      BY <3>2, RestIs
    <3>4. tries[k] = Rest(x, e)
      BY <3>1, <2>3
    <3> QED BY <3>1, <3>3, <3>4, <1>1, <1>2
  <2>6. PICK R : R = {tries[k] : k \in 1 .. m}
    OBVIOUS
  <2>7. tries \in [1 .. m -> R]
    BY <2>3, <2>6
  <2>8. tries \in Seq(R) /\ Len(tries) = m
    BY <2>7
  <2>9. IsTries(t, tries)
    <3>1. tries \in Seq(Range(tries))
      BY <2>8, SeqOfRange
    <3> QED BY <3>1, <2>5, <2>8 DEF IsTries
  <2>10. TriesWant(t, tries, Wants(Origin(t)))
    <3>1. PICK u : u = [k \in 1 .. m |-> TryWants(t, tries[k])]
      OBVIOUS
    <3>2. \A k \in 1 .. m : u[k] = v[k]
      BY <3>1, <2>2, <2>5
    <3>3. PICK want : want = Wants(Origin(t)) /\ First(v, m, want)
      BY <2>2, <1>3
    <3>4. First(u, m, want)
      <4>1. ASSUME NEW k \in 1 .. m, NEW j \in 1 .. k - 1 PROVE u[j] = v[j]
        <5>1. j \in 1 .. m
          OBVIOUS
        <5> QED BY <5>1, <3>2
      <4> QED BY <4>1, <3>2, <3>3 DEF First
    <3> QED BY <3>1, <3>3, <3>4, <2>8 DEF TriesWant
  <2>11. TryAll(tries)
    BY <2>2, <2>3, <1>5, <1>8
  <2> QED BY <2>9, <2>10, <2>11, <1>0, <1>1, TryAllKeeps
<1> QED BY <1>7, <1>8

(* A group: every end every branch may have.                               *)
LEMMA MatchGroupKeeps ==
  ASSUME PlanOK, NEW root, MatcherOK(calls, ret, memo, root), MatchGroup
  PROVE  MatcherOK(calls', ret', memo', root)
<1>0. Running /\ calls # <<>> /\ Top.pi < Top.pi_end /\ IsGroup(Top.pi, Top.pi_end)
  BY DEF MatchGroup, Running
<1>1. PlaceOK(Top) /\ Wants(Origin(Top)) = Wants(Top)
  BY <1>0, RunningTop DEF Wants
<1>2. PICK t : t = Top
  OBVIOUS
<1>3. PICK tries : tries = FlattenSeq([b \in DOMAIN plan.branches[t.pi] |-> BranchTries(t, plan.branches[t.pi][b])])
  OBVIOUS
<1>4. IsTries(t, tries) /\ TriesWant(t, tries, Wants(t))
  BY <1>0, <1>1, <1>2, <1>3, GroupTries
<1>5. TryAll(tries)
  BY <1>2, <1>3 DEF MatchGroup
<1> QED BY <1>0, <1>1, <1>2, <1>4, <1>5, TryAllKeeps

(* The first call on the list is made.                                     *)
LEMMA TryKeeps ==
  ASSUME PlanOK, NEW root, MatcherOK(calls, ret, memo, root), Try
  PROVE  MatcherOK(calls', ret', memo', root)
<1>0. calls # <<>> /\ Top.tries # <<>> /\ Enter(Head(Top.tries).call)
  BY DEF Try
<1>1. PICK t : t = Top /\ t = Last(calls)
  BY DEF Top
<1>2. FrameOK(t)
  BY <1>0, <1>1, TopFrame
<1>3. IsTries(t, t.tries)
  BY <1>2 DEF FrameOK
<1>4. TryOK(t, Head(t.tries))
  BY <1>0, <1>1, <1>3 DEF IsTries
<1>5. PICK call : call = Head(t.tries).call
  OBVIOUS
<1>6. PlaceOK(call) /\ call = Call(call.n, call.ti, call.pi, call.pi_end, call.partial)
  BY <1>4, <1>5 DEF TryOK
<1>7. call = Awaited(calls, root) /\ Awaiting(calls) /\ Enter(call)
  BY <1>0, <1>1, <1>5 DEF Awaited, Awaiting
<1>8. Stack(calls, root) /\ MemoOK(memo)
  BY DEF MatcherOK
<1> QED BY <1>6, <1>7, <1>8, EnterKeeps

(* What a call returned, and what was wanted from the first one left.      *)
LEMMA RetriedTop ==
  ASSUME NEW root, MatcherOK(calls, ret, memo, root), Retried
  PROVE  /\ FrameOK(Top) /\ PlaceOK(Top) /\ Top.tries # <<>>
         /\ IsTries(Top, Top.tries) /\ TriesWant(Top, Top.tries, Wants(Origin(Top)))
         /\ TryOK(Top, Head(Top.tries)) /\ RetOK(ret, Head(Top.tries).call)
<1>1. calls # <<>> /\ ret # NoRet
  BY DEF Retried
<1>2. PICK t : t = Top /\ t = Last(calls)
  BY DEF Top
<1>3. FrameOK(t)
  BY <1>1, <1>2, TopFrame
<1>4. t.tries # <<>> /\ RetOK(ret, Head(t.tries).call)
  BY <1>1, <1>2 DEF MatcherOK, Awaited, Awaiting
<1>5. PlaceOK(t) /\ IsTries(t, t.tries) /\ TriesWant(t, t.tries, Wants(Origin(t)))
  BY <1>3, <1>4 DEF FrameOK
<1>6. TryOK(t, Head(t.tries))
  BY <1>4, <1>5 DEF IsTries
<1> QED BY <1>2, <1>3, <1>4, <1>5, <1>6

(* It failed.                                                              *)
LEMMA TryFailedKeeps ==
  ASSUME PlanOK, NEW root, MatcherOK(calls, ret, memo, root), TryFailed
  PROVE  MatcherOK(calls', ret', memo', root)
<1>0. Retried /\ calls # <<>> /\ ~ret.matched /\ TryAll(Tail(Top.tries))
  BY DEF TryFailed, Retried
<1>1. PICK t, head : t = Top /\ head = Head(t.tries)
  OBVIOUS
<1>2. /\ t.tries # <<>> /\ IsTries(t, t.tries) /\ TriesWant(t, t.tries, Wants(Origin(t)))
      /\ RetOK(ret, head.call)
  BY <1>0, <1>1, RetriedTop
<1>3. Wants(head.call) = {}
  BY <1>0, <1>2 DEF RetOK
<1>4. TryWants(t, Head(t.tries)) = {}
  BY <1>1, <1>3 DEF TryWants
<1>5. PICK tries, w : tries = t.tries /\ w = Wants(Origin(t))
  OBVIOUS
<1>6. IsTries(t, Tail(tries)) /\ TriesWant(t, Tail(tries), w)
  BY <1>2, <1>4, <1>5, TailTries
<1> QED BY <1>0, <1>1, <1>5, <1>6, TryAllKeeps

(* It matched, and it was the rest.                                        *)
LEMMA RestMatchedKeeps ==
  ASSUME PlanOK, NEW root, MatcherOK(calls, ret, memo, root), RestMatched
  PROVE  MatcherOK(calls', ret', memo', root)
<1>0. Retried /\ calls # <<>> /\ ret.matched /\ ~Head(Top.tries).branch /\ Return(ret)
  BY DEF RestMatched, Retried
<1>1. PICK t, head : t = Top /\ head = Head(t.tries)
  OBVIOUS
<1>2. /\ t.tries # <<>> /\ IsTries(t, t.tries) /\ TriesWant(t, t.tries, Wants(Origin(t)))
      /\ RetOK(ret, head.call)
  BY <1>0, <1>1, RetriedTop
<1>3. TryWants(t, Head(t.tries)) = Wants(head.call) /\ Wants(head.call) # {}
  <2>1. Wants(head.call) = {ret.pos}
    BY <1>0, <1>2 DEF RetOK
  <2> QED BY <2>1, <1>0, <1>1 DEF TryWants
<1>4. PICK tries, w : tries = t.tries /\ w = Wants(Origin(t))
  OBVIOUS
<1>5. w = TryWants(t, Head(tries))
  BY <1>2, <1>3, <1>4, HeadIsFirst
<1>6. RetOK(ret, Origin(Top))
  BY <1>1, <1>2, <1>3, <1>4, <1>5 DEF RetOK
<1> QED BY <1>0, <1>6, ReturnKeeps

(* It matched, and it was a branch: the rest must match as well.           *)
LEMMA BranchMatchedKeeps ==
  ASSUME PlanOK, NEW root, MatcherOK(calls, ret, memo, root), BranchMatched
  PROVE  MatcherOK(calls', ret', memo', root)
<1>0. Retried /\ calls # <<>> /\ ret.matched /\ Head(Top.tries).branch
  BY DEF BranchMatched, Retried
<1>1. PICK t, head : t = Top /\ head = Head(t.tries)
  OBVIOUS
<1>2. /\ PlaceOK(t) /\ t.tries # <<>> /\ IsTries(t, t.tries) /\ TriesWant(t, t.tries, Wants(Origin(t)))
      /\ TryOK(t, head) /\ RetOK(ret, head.call)
  BY <1>0, <1>1, RetriedTop
<1>3. PICK i, n, p, q, partial : i = t.ti /\ n = t.n /\ p = t.pi /\ q = t.pi_end /\ partial = t.partial
  OBVIOUS
<1>4. /\ n \in 0 .. Len(text) /\ partial \in BOOLEAN
      /\ p \in 0 .. Size /\ q \in 0 .. Size /\ Len(text) \in Nat /\ Size \in Nat
  BY <1>2, <1>3, Sizes DEF PlaceOK
<1>5. Wants(head.call) # {}
  BY <1>0, <1>2 DEF RetOK
<1>6. PICK e, after_alt : e = head.end /\ after_alt = plan.close_parens[p] + 1
  OBVIOUS
<1>7. head.branch = TRUE /\ IsGroup(p, q) /\ p < q /\ e \in 0 .. n
  <2>1. head.branch = TRUE
    BY <1>0, <1>1, <1>2 DEF TryOK
  <2> QED BY <2>1, <1>2, <1>3, <1>5, <1>6 DEF TryOK
<1>8. after_alt \in 0 .. q
  <2>1. plan.close_parens[p] \in p + 1 .. q - 1
    BY <1>4, <1>7, GroupParts
  <2> QED BY <2>1, <1>4, <1>6, SMTT(40)
<1>9. PICK tries, w : tries = t.tries /\ w = Wants(Origin(t))
  OBVIOUS
<1>10. TryWants(t, Head(tries)) = WantAt(e, after_alt, q, n, partial)
  BY <1>1, <1>3, <1>5, <1>6, <1>7, <1>9 DEF TryWants
<1>11. IF after_alt < q THEN TryAll(<<Rest(e, after_alt)>> \o Tail(tries))
       ELSE IF partial \/ e = n THEN Return(Matched(e)) ELSE TryAll(Tail(tries))
  BY <1>1, <1>3, <1>6, <1>9 DEF BranchMatched
<1>12. CASE after_alt < q
  <2>1. PICK rest : rest = Rest(e, after_alt)
    OBVIOUS
  <2>2. /\ TryOK(Top, Rest(e, after_alt))
        /\ TryWants(Top, Rest(e, after_alt)) = WantAt(e, after_alt, Top.pi_end, Top.n, Top.partial)
    <3>1. e \in 0 .. Top.n /\ after_alt \in 0 .. Top.pi_end /\ PlaceOK(Top)
      BY <1>1, <1>2, <1>3, <1>7, <1>8
    <3> QED BY <3>1, RestIs
  <2>3. TryOK(t, rest) /\ TryWants(t, rest) = TryWants(t, Head(tries))
    BY <2>1, <2>2, <1>1, <1>3, <1>10
  <2>4. PICK list : list = <<rest>> \o Tail(tries)
    OBVIOUS
  <2>5. IsTries(t, list) /\ TriesWant(t, list, w)
    BY <2>3, <2>4, <1>2, <1>9, HeadReplaced
  <2>6. TryAll(list)
    BY <2>1, <2>4, <1>11, <1>12
  <2> QED BY <2>5, <2>6, <1>0, <1>1, <1>9, TryAllKeeps
<1>13. CASE ~(after_alt < q)
  <2>1. WantAt(e, after_alt, q, n, partial) = IF partial \/ e = n THEN {e} ELSE {}
    <3>1. e \in 0 .. Len(text) /\ after_alt \in 0 .. Size /\ after_alt >= q
      BY <1>4, <1>7, <1>8, <1>13
    <3> QED BY <3>1, <1>4, EmptyWants
  <2>2. CASE partial \/ e = n
    <3>1. TryWants(t, Head(tries)) = {e}
      BY <2>1, <2>2, <1>10
    <3>2. w = {e}
      <4>1. TryWants(t, Head(tries)) # {}
        BY <3>1
      <4>2. w = TryWants(t, Head(tries))
        BY <4>1, <1>2, <1>9, HeadIsFirst
      <4> QED BY <3>1, <4>2
    <3>3. e \in Nat
      BY <1>4, <1>7
    <3>4. RetOK(Matched(e), Origin(Top))
      BY <3>2, <3>3, <1>1, <1>9, MatchedIs
    <3>5. Return(Matched(e))
      BY <2>2, <1>11, <1>13
    <3> QED BY <3>4, <3>5, <1>0, ReturnKeeps
  <2>3. CASE ~(partial \/ e = n)
    <3>1. TryWants(t, Head(tries)) = {}
      BY <2>1, <2>3, <1>10
    <3>2. IsTries(t, Tail(tries)) /\ TriesWant(t, Tail(tries), w)
      BY <3>1, <1>2, <1>9, TailTries
    <3>3. TryAll(Tail(tries))
      BY <2>3, <1>11, <1>13
    <3> QED BY <3>2, <3>3, <1>0, <1>1, <1>9, TryAllKeeps
  <2> QED BY <2>2, <2>3
<1> QED BY <1>12, <1>13

(* Every step of the matcher keeps what is sure of its calls.              *)
LEMMA MatcherKeeps ==
  ASSUME PlanOK, NEW root, MatcherOK(calls, ret, memo, root), Matcher
  PROVE  MatcherOK(calls', ret', memo', root)
<1>1. CASE MatchOne
  BY <1>1, MatchOneKeeps
<1>2. CASE PatternEnds
  BY <1>2, PatternEndsKeeps
<1>3. CASE MatchStar
  BY <1>3, MatchStarKeeps
<1>4. CASE MatchGroup
  BY <1>4, MatchGroupKeeps
<1>5. CASE Try
  BY <1>5, TryKeeps
<1>6. CASE TryFailed
  BY <1>6, TryFailedKeeps
<1>7. CASE RestMatched
  BY <1>7, RestMatchedKeeps
<1>8. CASE BranchMatched
  BY <1>8, BranchMatchedKeeps
<1> QED BY <1>1, <1>2, <1>3, <1>4, <1>5, <1>6, <1>7, <1>8 DEF Matcher
-----------------------------------------------------------------------------
(* Full, as a place where the pattern ends.                                *)
LEMMA FullIs ==
  ASSUME PlanOK
  PROVE  Full <=> Len(text) \in EndsAt(0, 0, Size)
<1>1. Ends[<<0, 0, Size>>] \in Seq(0 .. Len(text))
  <2>1. 0 \in 0 .. Len(text) /\ 0 \in 0 .. Size /\ Size \in 0 .. Size
    BY Sizes
  <2> QED BY <2>1, EndsTyped
<1>2. PICK s : s = Ends[<<0, 0, Size>>]
  OBVIOUS
<1>3. Contains(s, Len(text)) <=> Len(text) \in Range(s)
  BY <1>1, <1>2, SMTT(40) DEF Contains, Range
<1> QED BY <1>2, <1>3 DEF Full, EndsAt

(* The literal part a pattern begins with.                                 *)
LEMMA PrefixIs ==
  ASSUME PlanOK
  PROVE  /\ pref_len \in 0 .. Size /\ Plain(0, pref_len)
         /\ has_escape => pref_len = 0
<1>1. Size \in Nat /\ 0 \in Nat /\ 0 <= Size
  BY Sizes
<1>2. Prefix \in 0 .. Size /\ Plain(0, Prefix)
  BY <1>1, ChunkEndIs DEF Prefix
<1>3. Plain(0, 0)
  BY DEF Plain
<1>4. CASE has_escape
  BY <1>1, <1>3, <1>4 DEF pref_len
<1>5. CASE ~has_escape
  BY <1>2, <1>5 DEF pref_len
<1> QED BY <1>4, <1>5

(* The literal part it ends with, behind its last star.                    *)
Tailed(s) ==
  /\ ~has_escape /\ s \in 1 .. Size /\ P(s - 1) = "*"
  /\ \A j \in s .. Size - 1 : P(j) \notin {"*", "?", "[", "(", ")", "|", "]"}

(* The suffix is what is literal behind the last star, or empty.           *)
LEMMA SuffixIs ==
  ASSUME PlanOK
  PROVE  suff_start \in 0 .. Size /\ (suff_start = Size \/ Tailed(suff_start))
<1>1. Size \in Nat
  BY Sizes
<1>2. CASE has_escape
  BY <1>1, <1>2 DEF suff_start
<1>3. CASE ~has_escape
  <2>1. PICK S : S = {i + 1 : i \in {i \in LastStar : \A j \in i + 1 .. Size - 1 :
                                       P(j) \notin {"?", "[", "(", ")", "|", "]"}}}
    OBVIOUS
  <2>2. suff_start = FirstOf(S)
    BY <2>1, <1>3 DEF suff_start
  <2>3. ASSUME NEW x \in S PROVE x \in Nat /\ x \in 1 .. Size /\ Tailed(x)
    <3>1. PICK i : i \in LastStar /\ x = i + 1 /\ \A j \in i + 1 .. Size - 1 : P(j) \notin {"?", "[", "(", ")", "|", "]"}
      BY <2>1
    <3>2. i \in 0 .. Size - 1 /\ P(i) = "*" /\ \A j \in i + 1 .. Size - 1 : P(j) # "*"
      BY <3>1 DEF LastStar
    <3>3. x \in Nat /\ x \in 1 .. Size /\ x - 1 = i
      BY <3>1, <3>2, <1>1
    <3> QED BY <3>1, <3>2, <3>3, <1>3 DEF Tailed
  <2>4. S \in SUBSET Nat
    BY <2>3
  <2>5. \/ S = {} /\ FirstOf(S) = Size
        \/ S # {} /\ FirstOf(S) \in S
    BY <2>4, FirstIsLeast
  <2> QED BY <2>2, <2>3, <2>5, <1>1
<1> QED BY <1>2, <1>3

(* Prefix and suffix are used only when nothing is escaped.                *)
LEMMA NoEscapes ==
  ASSUME PlanOK, ~has_escape, NEW k \in 0 .. Size - 1
  PROVE  P(k) # "\\"
<1>1. k + 1 \in DOMAIN pat
  BY Sizes DEF PlanOK, Size
<1> QED BY <1>1 DEF has_escape, P

(* A literal part at the end stands for itself alone.                      *)
LEMMA PlainEnds ==
  ASSUME PlanOK, NEW i \in 0 .. Len(text), NEW s \in 0 .. Size, Plain(s, Size)
  PROVE  Len(text) \in EndsAt(i, s, Size) <=> i = Len(text) - (Size - s) /\ Reads(i, s, Size)
<1>1. Size \in Nat /\ Len(text) \in Nat
  BY Sizes
<1>2. PICK n, d : n = Len(text) /\ d = Size
  OBVIOUS
<1>3. d \in 0 .. Size /\ s <= d
  BY <1>1, <1>2
<1>4. n \in EndsAt(i, s, d) <=> WantAt(i, s, d, n, FALSE) # {}
  BY <1>3, WantsEnd
<1>5. WantAt(i, s, d, n, FALSE) = IF Reads(i, s, d) THEN WantAt(i + (d - s), d, d, n, FALSE) ELSE {}
  <2>1. Plain(s, d) /\ d <= d
    BY <1>1, <1>2
  <2>2. PICK partial \in BOOLEAN : partial = FALSE
    OBVIOUS
  <2>3. WantAt(i, s, d, n, partial) = IF Reads(i, s, d) THEN WantAt(i + (d - s), d, d, n, partial) ELSE {}
    BY <2>1, <1>3, PlainWants
  <2> QED BY <2>2, <2>3, Zenon
<1>6. ASSUME Reads(i, s, d) PROVE WantAt(i + (d - s), d, d, n, FALSE) # {} <=> i + (d - s) = n
  <2>1. PICK e \in 0 .. Len(text) : e = i + (d - s)
    <3>1. i + (d - s) \in 0 .. Len(text)
      BY <1>1, <1>3, <1>6 DEF Reads
    <3> QED BY <3>1
  <2>2. PICK partial \in BOOLEAN : partial = FALSE
    OBVIOUS
  <2>3. d >= d
    BY <1>3, <1>1
  <2>4. WantAt(e, d, d, n, partial) = IF partial \/ e = n THEN {e} ELSE {}
    BY <2>3, <1>3, EmptyWants
  <2>5. WantAt(e, d, d, n, FALSE) = IF e = n THEN {e} ELSE {}
    BY <2>2, <2>4, Zenon
  <2>6. WantAt(e, d, d, n, FALSE) # {} <=> e = n
    BY <2>5
  <2> QED BY <2>1, <2>6
<1>7. CASE Reads(i, s, d)
  <2>1. i + (d - s) = n <=> i = n - (d - s)
    BY <1>1, <1>2
  <2> QED BY <2>1, <1>2, <1>4, <1>5, <1>6, <1>7
<1>8. CASE ~Reads(i, s, d)
  BY <1>2, <1>4, <1>5, <1>8
<1> QED BY <1>7, <1>8

(* Before the last star, the part up to the suffix ends where the suffix   *)
(* begins in the text.                                                     *)
SplitAt(s, at, i, p) ==
  Len(text) \in EndsAt(i, p, Size) <=> Reads(at, s, Size) /\ at \in EndsAt(i, p, s)

(* A star before the suffix.                                               *)
LEMMA SplitStar ==
  ASSUME PlanOK, NEW s, Tailed(s), NEW at, at = Len(text) - (Size - s),
         NEW i \in 0 .. Len(text), NEW p \in 0 .. s - 1, P(p) = "*",
         p + 1 < s => \A k \in 0 .. Len(text) : SplitAt(s, at, k, p + 1)
  PROVE  SplitAt(s, at, i, p)
<1>1. Size \in Nat /\ Len(text) \in Nat /\ s \in 1 .. Size /\ s \in 0 .. Size
  BY Sizes DEF Tailed
<1>2. p \in 0 .. Size /\ p < Size /\ p < s /\ Size \in 0 .. Size /\ p + 1 \in 0 .. Size
  BY <1>1
<1>3. PICK n : n = Len(text)
  OBVIOUS
<1>4. n \in EndsAt(i, p, Size) <=> \E k \in i .. Len(text) : n \in EndsAt(k, p + 1, Size)
  BY <1>2, EndsOfStars
<1>5. at \in EndsAt(i, p, s) <=> \E k \in i .. Len(text) : at \in EndsAt(k, p + 1, s)
  BY <1>1, <1>2, EndsOfStars
<1>6. ASSUME NEW k \in i .. Len(text) PROVE SplitAt(s, at, k, p + 1)
  <2>1. k \in 0 .. Len(text)
    BY <1>1
  <2>2. CASE p + 1 < s
    BY <2>1, <2>2
  <2>3. CASE ~(p + 1 < s)
    <3>1. p + 1 = s
      BY <2>3, <1>1, <1>2
    <3>2. Plain(s, Size)
      <4>1. ASSUME NEW j \in s .. Size - 1 PROVE P(j) \notin Special
        <5>1. j \in 0 .. Size - 1
          BY <1>1
        <5>2. P(j) # "\\"
          BY <5>1, NoEscapes DEF Tailed
        <5>3. P(j) \notin {"*", "?", "[", "("}
          BY DEF Tailed
        <5> QED BY <5>2, <5>3 DEF Special
      <4> QED BY <4>1 DEF Plain
    <3>3. Len(text) \in EndsAt(k, s, Size) <=> k = Len(text) - (Size - s) /\ Reads(k, s, Size)
      BY <2>1, <3>2, <1>1, PlainEnds
    <3>4. EndsAt(k, s, s) = {k}
      <4>1. s >= s /\ TRUE \in BOOLEAN
        BY <1>1
      <4> QED BY <4>1, <2>1, <1>1, EmptyWants
    <3> QED BY <3>1, <3>3, <3>4 DEF SplitAt
  <2> QED BY <2>2, <2>3
<1> QED BY <1>3, <1>4, <1>5, <1>6 DEF SplitAt

(* A group before the suffix.                                              *)
LEMMA SplitGroup ==
  ASSUME PlanOK, NEW s, Tailed(s), NEW at,
         NEW i \in 0 .. Len(text), NEW p \in 0 .. s - 1, IsGroup(p, Size),
         \A q \in p + 1 .. s - 1 : \A k \in 0 .. Len(text) : SplitAt(s, at, k, q)
  PROVE  SplitAt(s, at, i, p)
<1>1. Size \in Nat /\ Len(text) \in Nat /\ s \in 1 .. Size /\ s \in 0 .. Size
  BY Sizes DEF Tailed
<1>2. p \in 0 .. Size /\ p < Size /\ p < s /\ Size \in 0 .. Size
  BY <1>1
<1>3. /\ plan.close_parens[p] \in p + 1 .. Size - 1
      /\ P(plan.close_parens[p]) = ")"
      /\ \A k \in DOMAIN plan.branches[p] : BranchOK(plan.branches[p][k], p, plan.close_parens[p])
  BY <1>2, GroupParts
<1>4. PICK close : close = plan.close_parens[p]
  OBVIOUS
<1>5. close \in p + 1 .. s - 2
  <2>1. close \notin s .. Size - 1
    BY <1>3, <1>4 DEF Tailed
  <2>2. close # s - 1
    BY <1>3, <1>4 DEF Tailed
  <2> QED BY <2>1, <2>2, <1>1, <1>3, <1>4
<1>6. IsGroup(p, s)
  <2>1. close < s
    BY <1>1, <1>2, <1>5
  <2> QED BY <2>1, <1>4 DEF IsGroup
<1>7. PICK n : n = Len(text)
  OBVIOUS
<1>8. n \in EndsAt(i, p, Size) <=>
        \E k \in DOMAIN plan.branches[p] :
          \E e \in EndsAt(i, plan.branches[p][k].from, plan.branches[p][k].to) :
            n \in EndsAt(e, plan.close_parens[p] + 1, Size)
  BY <1>2, EndsOfGroups
<1>9. at \in EndsAt(i, p, s) <=>
        \E k \in DOMAIN plan.branches[p] :
          \E e \in EndsAt(i, plan.branches[p][k].from, plan.branches[p][k].to) :
            at \in EndsAt(e, plan.close_parens[p] + 1, s)
  BY <1>1, <1>2, <1>6, EndsOfGroups
<1>10. ASSUME NEW k \in DOMAIN plan.branches[p],
              NEW e \in EndsAt(i, plan.branches[p][k].from, plan.branches[p][k].to)
       PROVE  SplitAt(s, at, e, close + 1)
  <2>1. PICK a, b : a = plan.branches[p][k].from /\ b = plan.branches[p][k].to
    OBVIOUS
  <2>2. a \in Nat /\ b \in Nat /\ a <= b /\ b <= close
    BY <2>1, <1>3, <1>4 DEF BranchOK
  <2>3. a \in 0 .. Size /\ b \in 0 .. Size
    BY <2>2, <1>1, <1>5
  <2>4. e \in 0 .. Len(text)
    <3>1. EndsAt(i, a, b) \in SUBSET (0 .. Len(text))
      <4>1. TRUE \in BOOLEAN
        OBVIOUS
      <4> QED BY <4>1, <2>3, WantTyped
    <3> QED BY <3>1, <2>1
  <2>5. close + 1 \in p + 1 .. s - 1
    BY <1>5, <1>1
  <2> QED BY <2>4, <2>5
<1> QED BY <1>4, <1>7, <1>8, <1>9, <1>10 DEF SplitAt

(* A character before the suffix.                                          *)
LEMMA SplitChar ==
  ASSUME PlanOK, NEW s, Tailed(s), NEW at,
         NEW i \in 0 .. Len(text), NEW p \in 0 .. s - 1, P(p) # "*", ~IsGroup(p, Size),
         \A q \in p + 1 .. s - 1 : \A k \in 0 .. Len(text) : SplitAt(s, at, k, q)
  PROVE  SplitAt(s, at, i, p)
<1>1. Size \in Nat /\ Len(text) \in Nat /\ s \in 1 .. Size /\ s \in 0 .. Size
  BY Sizes DEF Tailed
<1>2. p \in 0 .. Size /\ p < Size /\ p < s /\ Size \in 0 .. Size /\ p \in 0 .. Size - 1
  BY <1>1
<1>3. P(p) # "\\"
  BY <1>2, NoEscapes DEF Tailed
<1>4. ~IsGroup(p, s)
  <2>1. plan.close_parens[p] < s /\ P(p) = "(" => plan.close_parens[p] < Size
    <3>1. P(p) = "(" => plan.close_parens[p] \in Int
      BY <1>2 DEF PlanOK
    <3> QED BY <3>1, <1>1
  <2> QED BY <2>1 DEF IsGroup
<1>5. IsSet(p, Size) <=> IsSet(p, s)
  <2>1. ASSUME P(p) = "[" PROVE plan.close_brackets[p] < Size <=> plan.close_brackets[p] < s
    <3>1. plan.close_brackets[p] \in p + 1 .. Size
          /\ (plan.close_brackets[p] < Size => P(plan.close_brackets[p]) = "]")
      BY <2>1, <1>2 DEF PlanOK
    <3>2. plan.close_brackets[p] < Size => plan.close_brackets[p] \notin s .. Size - 1
      BY <3>1 DEF Tailed
    <3> QED BY <3>1, <3>2, <1>1
  <2> QED BY <2>1 DEF IsSet
<1>6. OneChar(p, Size) = OneChar(p, s)
  <2>1. CASE P(p) = "?"
    BY <2>1, <1>3 DEF OneChar, IsSet
  <2>2. CASE P(p) # "?" /\ IsSet(p, s)
    BY <2>2, <1>3, <1>5 DEF OneChar
  <2>3. CASE P(p) # "?" /\ ~IsSet(p, s)
    BY <2>3, <1>3, <1>5 DEF OneChar
  <2> QED BY <2>1, <2>2, <2>3
<1>7. PICK one : one = OneChar(p, s)
  OBVIOUS
<1>8. ASSUME NEW c \in one.chars PROVE one.next \in p + 1 .. s - 1
  <2>1. one.next \in p + 1 .. s
    BY <1>1, <1>2, <1>7, OneCharNext
  <2>2. one.next # s
    <3>1. CASE P(p) # "?" /\ IsSet(p, s)
      <4>1. one.next = plan.close_brackets[p] + 1 /\ P(p) = "["
        BY <3>1, <1>3, <1>7 DEF OneChar, IsSet
      <4>2. plan.close_brackets[p] \in p + 1 .. Size /\ plan.close_brackets[p] < s
        BY <4>1, <3>1, <1>2 DEF PlanOK, IsSet
      <4>3. P(plan.close_brackets[p]) = "]"
        BY <4>1, <4>2, <1>1, <1>2 DEF PlanOK
      <4>4. plan.close_brackets[p] # s - 1
        BY <4>3 DEF Tailed
      <4> QED BY <4>1, <4>2, <4>4, <1>1
    <3>2. CASE ~(P(p) # "?" /\ IsSet(p, s))
      <4>1. one.next = p + 1
        <5>1. CASE P(p) = "?"
          BY <5>1, <1>3, <1>7 DEF OneChar, IsSet
        <5>2. CASE P(p) # "?" /\ ~IsSet(p, s)
          BY <5>2, <1>3, <1>7 DEF OneChar
        <5> QED BY <5>1, <5>2, <3>2
      <4>2. p # s - 1
        BY DEF Tailed
      <4> QED BY <4>1, <4>2, <1>1
    <3> QED BY <3>1, <3>2
  <2> QED BY <2>1, <2>2, <1>1
<1>9. EndsAt(i, p, Size) = IF i < Len(text) /\ T(i) \in one.chars THEN EndsAt(i + 1, one.next, Size) ELSE {}
  <2>1. TRUE \in BOOLEAN
    OBVIOUS
  <2>2. EndsAt(i, p, Size) = IF i < Len(text) /\ T(i) \in OneChar(p, Size).chars
                             THEN EndsAt(i + 1, OneChar(p, Size).next, Size) ELSE {}
    BY <2>1, <1>2, CharWants
  <2> QED BY <2>2, <1>6, <1>7
<1>10. EndsAt(i, p, s) = IF i < Len(text) /\ T(i) \in one.chars THEN EndsAt(i + 1, one.next, s) ELSE {}
  <2>1. TRUE \in BOOLEAN
    OBVIOUS
  <2>2. EndsAt(i, p, s) = IF i < Len(text) /\ T(i) \in OneChar(p, s).chars
                             THEN EndsAt(i + 1, OneChar(p, s).next, s) ELSE {}
    BY <2>1, <1>1, <1>2, <1>4, CharWants
  <2> QED BY <2>2, <1>7
<1>11. CASE i < Len(text) /\ T(i) \in one.chars
  <2>1. i + 1 \in 0 .. Len(text) /\ one.next \in p + 1 .. s - 1
    BY <1>1, <1>8, <1>11
  <2>2. SplitAt(s, at, i + 1, one.next)
    BY <2>1
  <2> QED BY <2>2, <1>9, <1>10, <1>11 DEF SplitAt
<1>12. CASE ~(i < Len(text) /\ T(i) \in one.chars)
  BY <1>9, <1>10, <1>12 DEF SplitAt
<1> QED BY <1>11, <1>12

(* The text ends with the pattern exactly when the suffix stands at its    *)
(* end and the part before ends there.                                     *)
LEMMA SuffixSplits ==
  ASSUME PlanOK, NEW s, Tailed(s), NEW at, at = Len(text) - (Size - s),
         NEW i \in 0 .. Len(text), NEW p \in 0 .. s - 1
  PROVE  SplitAt(s, at, i, p)
<1>0. Size \in Nat /\ Len(text) \in Nat /\ s \in 1 .. Size
  BY Sizes DEF Tailed
<1> DEFINE Good(d) == \A a \in 0 .. s - 1 : s - a <= d => \A k \in 0 .. Len(text) : SplitAt(s, at, k, a)
           Have == {d \in Nat : Good(d)}
<1>1. 0 \in Have
  <2>1. \A a \in 0 .. s - 1 : ~(s - a <= 0)
    BY <1>0
  <2> QED BY <2>1
<1>2. ASSUME NEW d \in Nat, d \in Have PROVE d + 1 \in Have
  <2>1. ASSUME NEW a \in 0 .. s - 1, s - a <= d + 1, NEW k \in 0 .. Len(text) PROVE SplitAt(s, at, k, a)
    <3>1. ASSUME NEW q \in a + 1 .. s - 1, NEW e \in 0 .. Len(text) PROVE SplitAt(s, at, e, q)
      <4>1. q \in 0 .. s - 1 /\ s - q <= d
        BY <2>1, <1>0
      <4> QED BY <4>1, <1>2
    <3>2. CASE P(a) = "*"
      <4>1. ASSUME a + 1 < s, NEW e \in 0 .. Len(text) PROVE SplitAt(s, at, e, a + 1)
        <5>1. a + 1 \in a + 1 .. s - 1
          BY <4>1, <1>0
        <5> QED BY <5>1, <3>1
      <4> HIDE DEF Good, Have
      <4> QED BY <4>1, <3>2, SplitStar
    <3>3. CASE IsGroup(a, Size)
      <4> HIDE DEF Good, Have
      <4> QED BY <3>1, <3>3, SplitGroup
    <3>4. CASE P(a) # "*" /\ ~IsGroup(a, Size)
      <4> HIDE DEF Good, Have
      <4> QED BY <3>1, <3>4, SplitChar
    <3> QED BY <3>2, <3>3, <3>4
  <2> QED BY <2>1
<1>3. Nat \subseteq Have
  <2> HIDE DEF Have
  <2> QED BY <1>1, <1>2, SetInduction
<1>4. s - p \in Nat /\ s - p <= s - p
  BY <1>0
<1>5. Good(s - p)
  BY <1>3, <1>4
<1> QED BY <1>4, <1>5

(* The call wildcard_match makes when prefix and suffix are in place.      *)
MatchRoot == Call(middle, pref_len, pref_len, suff_start, FALSE)

(* The whole pattern matches exactly when the prefix stands at the start   *)
(* and the rest matches behind it.                                         *)
LEMMA PrefixSplits ==
  ASSUME PlanOK
  PROVE  Full <=> Reads(0, 0, pref_len) /\ Len(text) \in EndsAt(pref_len, pref_len, Size)
<1>0. Size \in Nat /\ Len(text) \in Nat
  BY Sizes
<1>1. PICK n, d, e : n = Len(text) /\ d = Size /\ e = pref_len
  OBVIOUS
<1>2. e \in 0 .. d /\ Plain(0, e)
  BY <1>1, PrefixIs
<1>3. Full <=> n \in EndsAt(0, 0, d)
  BY <1>1, FullIs
<1>4. 0 \in 0 .. Len(text) /\ 0 \in 0 .. Size /\ e \in 0 .. Size /\ d \in 0 .. Size /\ 0 <= e /\ e <= d
  BY <1>0, <1>1, <1>2
<1>5. n \in EndsAt(0, 0, d) <=> WantAt(0, 0, d, n, FALSE) # {}
  BY <1>4, WantsEnd
<1>6. WantAt(0, 0, d, n, FALSE) = IF Reads(0, 0, e) THEN WantAt(e, e, d, n, FALSE) ELSE {}
  <2>1. PICK i \in 0 .. Len(text), p \in 0 .. Size, partial \in BOOLEAN : i = 0 /\ p = 0 /\ partial = FALSE
    BY <1>4
  <2>2. p <= e /\ Plain(p, e)
    BY <2>1, <1>2, <1>4
  <2>3. WantAt(i, p, d, n, partial) = IF Reads(i, p, e) THEN WantAt(i + (e - p), e, d, n, partial) ELSE {}
    BY <2>2, <1>4, PlainWants
  <2>4. i + (e - p) = e
    BY <2>1, <1>0, <1>4
  <2>5. WantAt(i, p, d, n, partial) = IF Reads(i, p, e) THEN WantAt(e, e, d, n, partial) ELSE {}
    BY <2>3, <2>4
  <2> QED BY <2>1, <2>5, Zenon
<1>7. Reads(0, 0, e) => (n \in EndsAt(e, e, d) <=> WantAt(e, e, d, n, FALSE) # {})
  <2>1. Reads(0, 0, e) => e \in 0 .. Len(text)
    BY <1>0, <1>4 DEF Reads
  <2> QED BY <2>1, <1>4, WantsEnd
<1>8. CASE Reads(0, 0, e)
  BY <1>1, <1>3, <1>5, <1>6, <1>7, <1>8
<1>9. CASE ~Reads(0, 0, e)
  BY <1>1, <1>3, <1>5, <1>6, <1>9
<1> QED BY <1>8, <1>9

(* Both ends compared first: nothing the pattern stands for is rejected,   *)
(* and the matcher is asked for what is left, the middle.                  *)
LEMMA EndsCompared ==
  ASSUME PlanOK
  PROVE  Full <=> Plausible /\ middle \in EndsAt(pref_len, pref_len, suff_start)
<1>0. Size \in Nat /\ Len(text) \in Nat
  BY Sizes
<1>1. PICK e, s : e = pref_len /\ s = suff_start
  OBVIOUS
<1>2. e \in 0 .. Size /\ Plain(0, e)
  BY <1>1, PrefixIs
<1>3. s \in 0 .. Size /\ (s = Size \/ Tailed(s))
  BY <1>1, SuffixIs
<1>4. PICK at : at = Len(text) - (Size - s)
  OBVIOUS
<1>5. suff_at = at /\ middle = at
  BY <1>1, <1>4 DEF suff_at, middle
<1>6. StandsAt(0, e, 0) <=> Reads(0, 0, e)
  BY DEF StandsAt, Reads
<1>7. at \in Int
  BY <1>0, <1>3, <1>4
<1>8. StandsAt(s, Size, at) <=> 0 <= at /\ Reads(at, s, Size)
  BY DEF StandsAt, Reads
<1>9. Plausible <=> Reads(0, 0, e) /\ 0 <= at /\ Reads(at, s, Size)
  BY <1>1, <1>5, <1>6, <1>8 DEF Plausible
<1>10. Full <=> Reads(0, 0, e) /\ Len(text) \in EndsAt(e, e, Size)
  BY <1>1, PrefixSplits
<1>11. Reads(0, 0, e) => e \in 0 .. Len(text)
  BY <1>0, <1>2 DEF Reads
<1>12. ASSUME Reads(0, 0, e)
       PROVE  Len(text) \in EndsAt(e, e, Size) <=> 0 <= at /\ Reads(at, s, Size) /\ at \in EndsAt(e, e, s)
  <2>1. CASE s = Size
    <3>1. at = Len(text)
      BY <2>1, <1>0, <1>4
    <3>2. Reads(at, s, Size) /\ 0 <= at
      <4>1. at + (Size - s) <= Len(text)
        BY <2>1, <3>1, <1>0
      <4>2. \A k \in s .. Size - 1 : FALSE
        BY <2>1, <1>0
      <4> QED BY <4>1, <4>2, <3>1, <1>0 DEF Reads
    <3> QED BY <2>1, <3>1, <3>2
  <2>2. CASE Tailed(s)
    <3>1. s \in 1 .. Size /\ P(s - 1) = "*"
      BY <2>2 DEF Tailed
    <3>2. e \in 0 .. s - 1
      <4>1. s - 1 \in 0 .. e - 1 => P(s - 1) # "*"
        BY <1>2 DEF Plain, Special
      <4> QED BY <3>1, <4>1, <1>0, <1>2
    <3>3. e \in 0 .. Len(text)
      BY <1>11, <1>12
    <3>4. SplitAt(s, at, e, e)
      BY <2>2, <3>2, <3>3, <1>4, SuffixSplits
    <3>5. at \in EndsAt(e, e, s) => 0 <= at
      <4>1. EndsAt(e, e, s) \in SUBSET (0 .. Len(text))
        <5>1. TRUE \in BOOLEAN
          OBVIOUS
        <5> QED BY <5>1, <3>3, <1>2, <1>3, WantTyped
      <4> QED BY <4>1, <1>0
    <3> QED BY <3>4, <3>5 DEF SplitAt
  <2> QED BY <2>1, <2>2, <1>3
<1> QED BY <1>1, <1>5, <1>9, <1>10, <1>12

(* The call made is in range, and decides Full.                            *)
LEMMA RootIsPlace ==
  ASSUME PlanOK, Plausible, ~is_simple_glob
  PROVE  /\ PlaceOK(MatchRoot)
         /\ MatchRoot = Call(MatchRoot.n, MatchRoot.ti, MatchRoot.pi, MatchRoot.pi_end, MatchRoot.partial)
         /\ Full <=> Wants(MatchRoot) # {}
<1>0. Size \in Nat /\ Len(text) \in Nat
  BY Sizes
<1>1. PICK e, s, at : e = pref_len /\ s = suff_start /\ at = middle
  OBVIOUS
<1>2. e \in 0 .. Size /\ Plain(0, e) /\ (has_escape => e = 0)
  BY <1>1, PrefixIs
<1>3. s \in 0 .. Size /\ (s = Size \/ Tailed(s))
  BY <1>1, SuffixIs
<1>4. at = Len(text) - (Size - s)
  BY <1>1 DEF suff_at, middle
<1>5. e <= Len(text) /\ 0 <= at
  BY <1>0, <1>1, <1>2 DEF Plausible, StandsAt, middle
<1>6. e <= s
  <2>1. CASE Tailed(s)
    <3>1. s - 1 \in 0 .. e - 1 => P(s - 1) # "*"
      BY <1>2 DEF Plain, Special
    <3> QED BY <2>1, <3>1, <1>0, <1>2 DEF Tailed
  <2> QED BY <2>1, <1>2, <1>3
<1>7. PICK root : root = MatchRoot
  OBVIOUS
<1>8. root.n = at /\ root.ti = e /\ root.pi = e /\ root.pi_end = s /\ root.partial = FALSE
      /\ root = Call(at, e, e, s, FALSE)
  BY <1>1, <1>7 DEF MatchRoot, Call
<1>9. PlaceOK(root)
  <2>1. /\ at \in 0 .. Len(text) /\ e \in 0 .. Len(text) /\ (s = Size => at = Len(text))
    BY <1>0, <1>2, <1>3, <1>4, <1>5
  <2>2. e <= at \/ Stuck(root)
    <3>1. CASE s = Size
      BY <2>1, <3>1, <1>5
    <3>2. CASE Tailed(s)
      <4>1. PICK j \in DOMAIN pat : pat[j] \in {"[", "(", "\\"}
        BY DEF is_simple_glob
      <4>2. PICK k \in 0 .. Size - 1 : P(k) \in {"[", "(", "\\"}
        <5>1. j - 1 \in 0 .. Size - 1 /\ P(j - 1) = pat[j]
          BY <4>1 DEF PlanOK, Size, P
        <5> QED BY <4>1, <5>1
      <4>3. P(k) # "\\"
        BY <3>2, <4>2, NoEscapes DEF Tailed
      <4>4. k \notin s .. Size - 1
        BY <3>2, <4>2, <4>3 DEF Tailed
      <4>5. k \notin 0 .. e - 1
        BY <4>2, <4>3, <1>2 DEF Plain, Special
      <4>6. k \in e .. s - 1 /\ P(k) # "*"
        BY <4>2, <4>4, <4>5, <1>0, <1>2, <1>3
      <4> QED BY <4>6, <1>8 DEF Stuck
    <3> QED BY <3>1, <3>2, <1>3
  <2>3. root.partial \in BOOLEAN /\ root.partial # TRUE
    BY <1>8
  <2>4. root.n \in 0 .. Len(text) /\ root.ti \in 0 .. Len(text) /\ root.pi \in 0 .. Size
        /\ root.pi_end \in 0 .. Size /\ root.pi <= root.pi_end /\ (root.pi_end = Size => root.n = Len(text))
    BY <2>1, <1>2, <1>3, <1>6, <1>8
  <2> QED BY <2>2, <2>3, <2>4, <1>8 DEF PlaceOK
<1>10. root = Call(root.n, root.ti, root.pi, root.pi_end, root.partial)
  BY <1>8
<1>11. Full <=> Wants(root) # {}
  <2>1. Full <=> at \in EndsAt(e, e, s)
    BY <1>1, EndsCompared
  <2>2. e \in 0 .. Len(text)
    BY <1>0, <1>2, <1>5
  <2>3. at \in EndsAt(e, e, s) <=> WantAt(e, e, s, at, FALSE) # {}
    BY <2>2, <1>2, <1>3, WantsEnd
  <2>4. Wants(root) = WantAt(e, e, s, at, FALSE)
    BY <1>8 DEF Wants
  <2> QED BY <2>1, <2>3, <2>4
<1> QED BY <1>7, <1>9, <1>10, <1>11
-----------------------------------------------------------------------------
(* The greedy loop: whether the rest of the text is one the rest of the    *)
(* pattern stands for.                                                     *)
Rests(i, p) == Len(text) \in EndsAt(i, p, Size)

(* Nothing left of the pattern: nothing may be left of the text.           *)
LEMMA RestsEmpty ==
  ASSUME PlanOK, NEW i \in 0 .. Len(text)
  PROVE  Rests(i, Size) <=> i = Len(text)
<1>1. Size \in 0 .. Size /\ Size >= Size /\ TRUE \in BOOLEAN
  BY Sizes
<1>2. EndsAt(i, Size, Size) = {i}
  BY <1>1, EmptyWants
<1> QED BY <1>2 DEF Rests

(* A simple glob has no brackets, groups or escapes.                       *)
LEMMA GlobPlain ==
  ASSUME PlanOK, is_simple_glob, NEW p \in 0 .. Size - 1
  PROVE  P(p) \notin {"[", "(", "\\"}
<1>1. p + 1 \in DOMAIN pat
  BY Sizes DEF PlanOK, Size
<1> QED BY <1>1 DEF is_simple_glob, P

(* A character or question mark of a simple glob.                          *)
LEMMA RestsChar ==
  ASSUME PlanOK, is_simple_glob, NEW i \in 0 .. Len(text), NEW p \in 0 .. Size - 1, P(p) # "*"
  PROVE  Rests(i, p) <=> i < Len(text) /\ P(p) \in {"?", T(i)} /\ Rests(i + 1, p + 1)
<1>1. p \in 0 .. Size /\ Size \in 0 .. Size /\ p < Size /\ TRUE \in BOOLEAN /\ Len(text) \in Nat
  BY Sizes
<1>2. P(p) \notin {"[", "(", "\\"}
  BY GlobPlain
<1>3. ~IsGroup(p, Size) /\ ~IsSet(p, Size)
  BY <1>2 DEF IsGroup, IsSet
<1>4. PICK one : one = OneChar(p, Size)
  OBVIOUS
<1>5. EndsAt(i, p, Size) = IF i < Len(text) /\ T(i) \in one.chars THEN EndsAt(i + 1, one.next, Size) ELSE {}
  <2>1. EndsAt(i, p, Size) = IF i < Len(text) /\ T(i) \in OneChar(p, Size).chars
                             THEN EndsAt(i + 1, OneChar(p, Size).next, Size) ELSE {}
    BY <1>1, <1>3, CharWants
  <2> QED BY <2>1, <1>4
<1>6. one.next = p + 1 /\ (i < Len(text) => (T(i) \in one.chars <=> P(p) \in {"?", T(i)}))
  <2>1. CASE P(p) = "?"
    <3>1. one.next = p + 1 /\ one.chars = Range(Ascii)
      BY <2>1, <1>2, <1>3, <1>4 DEF OneChar, IsSet
    <3>2. i < Len(text) => T(i) \in Range(Ascii)
      <4>1. i < Len(text) => i + 1 \in 1 .. Len(text)
        BY <1>1
      <4>2. PICK R : R = Range(Ascii)
        OBVIOUS
      <4>3. text \in Seq(R)
        BY <4>2 DEF PlanOK
      <4>4. i < Len(text) => text[i + 1] \in R
        BY <4>1, <4>3
      <4> QED BY <4>2, <4>4 DEF T
    <3> QED BY <2>1, <3>1, <3>2
  <2>2. CASE P(p) # "?"
    <3>1. one.next = p + 1 /\ one.chars = {P(p)}
      BY <2>2, <1>2, <1>3, <1>4 DEF OneChar
    <3> QED BY <2>2, <3>1
  <2> QED BY <2>1, <2>2
<1> QED BY <1>5, <1>6 DEF Rests

(* Stars: any number of characters may be skipped.                         *)
LEMMA RestsStars ==
  ASSUME PlanOK, NEW i \in 0 .. Len(text), NEW p \in 0 .. Size, NEW r \in 0 .. Size, p < r,
         \A k \in p .. r - 1 : P(k) = "*"
  PROVE  Rests(i, p) <=> \E k \in i .. Len(text) : Rests(k, r)
<1>0. Size \in Nat /\ Len(text) \in Nat
  BY Sizes
<1>1. PICK n, d, w : n = Len(text) /\ d = Size /\ w = WantAt(i, p, d, n, FALSE)
  OBVIOUS
<1>2. d \in 0 .. Size /\ r <= d /\ FALSE \in BOOLEAN
  BY <1>0, <1>1
<1>3. FirstEnd(i .. Len(text), r, d, n, FALSE, w)
  <2>1. PICK partial \in BOOLEAN : partial = FALSE
    OBVIOUS
  <2>2. FirstEnd(i .. Len(text), r, d, n, partial, WantAt(i, p, d, n, partial))
    BY <1>2, StarsWant
  <2> QED BY <2>1, <2>2, <1>1, Zenon
<1>4. n \in EndsAt(i, p, d) <=> w # {}
  BY <1>1, <1>2, WantsEnd
<1>5. ASSUME NEW k \in i .. Len(text) PROVE n \in EndsAt(k, r, d) <=> WantAt(k, r, d, n, FALSE) # {}
  <2>1. k \in 0 .. Len(text)
    BY <1>0
  <2> QED BY <2>1, <1>2, WantsEnd
<1> QED BY <1>1, <1>3, <1>4, <1>5 DEF FirstEnd, Rests
-----------------------------------------------------------------------------
(* The pattern, its plan and the text never change, nor does what is said  *)
(* of them.                                                                *)
LEMMA SameEnds ==
  ASSUME UNCHANGED <<pat, text, plan>>
  PROVE  /\ Ends' = Ends /\ Size' = Size /\ Len(text)' = Len(text)
         /\ \A i : P(i)' = P(i) /\ T(i)' = T(i)
         /\ \A p, q : IsGroup(p, q)' = IsGroup(p, q)
         /\ PlanOK => PlanOK'
<1>1. Size' = Size /\ Len(text)' = Len(text) /\ \A i : P(i)' = P(i) /\ T(i)' = T(i)
  BY DEF Size, P, T
<1>2. \A p, q : IsGroup(p, q)' = IsGroup(p, q)
  BY DEF IsGroup, P
<1>3. Ends' = Ends
  BY DEF Ends, EndsOf, Behind, IsGroup, IsSet, OneChar, P, T, Size
<1>4. PlanOK => PlanOK'
  <2>1. \A chars, a, b : Marks(chars, a, b)' = Marks(chars, a, b)
    BY DEF Marks, Unescaped, BackslashesBefore, P
  <2>2. \A b, p, close : BranchOK(b, p, close)' = BranchOK(b, p, close)
    BY <2>1 DEF BranchOK, P
  <2>3. \A p : BranchesOK(p)' = BranchesOK(p)
    BY <2>2 DEF BranchesOK
  <2> QED BY <2>3, <1>1 DEF PlanOK
<1> QED BY <1>1, <1>2, <1>3, <1>4

(* Nor what a call wants, ...                                              *)
LEMMA SameWants ==
  ASSUME UNCHANGED <<pat, text, plan>>
  PROVE  \A c : Wants(c)' = Wants(c)
BY SameEnds DEF Wants, WantAt

(* ... what a place is, ...                                                *)
LEMMA SamePlace ==
  ASSUME UNCHANGED <<pat, text, plan>>
  PROVE  \A c : PlaceOK(c)' = PlaceOK(c)
BY DEF PlaceOK, Stuck, P, Size

(* ... what a call to try wants, ...                                       *)
LEMMA SameTry ==
  ASSUME UNCHANGED <<pat, text, plan>>
  PROVE  /\ \A c, t : TryWants(c, t)' = TryWants(c, t)
         /\ \A c, t : TryOK(c, t)' = TryOK(c, t)
<1>1. \A c, t : TryWants(c, t)' = TryWants(c, t)
  BY SameEnds, SameWants DEF TryWants, WantAt
<1>2. \A c, t : TryOK(c, t)' = TryOK(c, t)
  BY SameEnds, SameWants, SamePlace DEF TryOK
<1> QED BY <1>1, <1>2

(* ... what is sure of the matcher, ...                                    *)
LEMMA SameMatcher ==
  ASSUME UNCHANGED <<pat, text, plan>>
  PROVE  \A cs, r, mm, root : MatcherOK(cs, r, mm, root)' = MatcherOK(cs, r, mm, root)
<1>1. \A c, tries : IsTries(c, tries)' = IsTries(c, tries)
  BY SameTry DEF IsTries
<1>2. \A c, tries, w : TriesWant(c, tries, w)' = TriesWant(c, tries, w)
  BY SameTry DEF TriesWant
<1>3. ASSUME NEW c PROVE FrameOK(c)' = FrameOK(c)
  <2>1. Origin(c)' = Origin(c)
    BY DEF Origin
  <2>2. PICK d : d = Origin(c)
    OBVIOUS
  <2>3. Wants(d)' = Wants(d) /\ Wants(c)' = Wants(c)
    BY SameWants
  <2>4. PlaceOK(d)' = PlaceOK(d) /\ PlaceOK(c)' = PlaceOK(c)
    BY SamePlace
  <2>5. PICK w : w = Wants(d)
    OBVIOUS
  <2>6. TriesWant(c, c.tries, w)' = TriesWant(c, c.tries, w)
    BY <1>2
  <2>7. IsTries(c, c.tries)' = IsTries(c, c.tries)
    BY <1>1
  <2> QED BY <2>1, <2>2, <2>3, <2>4, <2>5, <2>6, <2>7 DEF FrameOK
<1>4. \A cs, root : Stack(cs, root)' = Stack(cs, root)
  BY <1>3 DEF Stack
<1>5. \A mm : MemoOK(mm)' = MemoOK(mm)
  <2>1. Size' = Size /\ Len(text)' = Len(text) /\ Ends' = Ends
    BY SameEnds
  <2> QED BY <2>1 DEF MemoOK, WantAt, Want
<1>6. \A r, c : RetOK(r, c)' = RetOK(r, c)
  BY SameWants DEF RetOK
<1> QED BY <1>4, <1>5, <1>6 DEF MatcherOK

(* ... and the call wildcard_match makes.                                  *)
LEMMA SameRoot ==
  ASSUME UNCHANGED <<pat, text, plan>>
  PROVE  MatchRoot' = MatchRoot /\ Full' = Full /\ is_simple_glob' = is_simple_glob
<1>1. Size' = Size /\ Len(text)' = Len(text) /\ \A i : P(i)' = P(i)
  BY DEF Size, P
<1>2. pref_len' = pref_len
  <2>1. \A p, q : ChunkEnd(p, q)' = ChunkEnd(p, q)
    BY DEF ChunkEnd, P
  <2>2. PICK d : d = Size
    OBVIOUS
  <2>3. Prefix' = Prefix
    BY <2>1, <2>2, <1>1 DEF Prefix
  <2> QED BY <2>3 DEF pref_len, has_escape
<1>3. suff_start' = suff_start
  <2>1. LastStar' = LastStar
    BY <1>1 DEF LastStar
  <2>2. \A S : FirstOf(S)' = FirstOf(S)
    BY <1>1 DEF FirstOf
  <2> QED BY <1>1, <2>1, <2>2 DEF suff_start, has_escape
<1>4. middle' = middle
  BY <1>1, <1>3 DEF middle, suff_at
<1>5. Full' = Full
  BY SameEnds DEF Full
<1> QED BY <1>2, <1>3, <1>4, <1>5 DEF MatchRoot, is_simple_glob
-----------------------------------------------------------------------------
(* The greedy loop: behind its last star the whole text matches exactly    *)
(* when what follows that star matches from retry_ti or later; what it has *)
(* read since then is forced.                                              *)
Behinds(g) ==
  /\ g.star_pi \in 0 .. Size /\ g.retry_ti \in 0 .. Len(text)
  /\ g.retry_ti <= g.ti /\ g.ti - g.retry_ti = g.pi - g.star_pi
  /\ Full <=> \E k \in g.retry_ti .. Len(text) : Rests(k, g.star_pi)
  /\ \A k \in g.retry_ti .. Len(text) :
       Rests(k, g.star_pi) => /\ k + (g.pi - g.star_pi) <= Len(text)
                              /\ Rests(k + (g.pi - g.star_pi), g.pi)
  /\ Rests(g.ti, g.pi) => Rests(g.retry_ti, g.star_pi)

GlobOK(g) ==
  /\ g \in [ti : Int, pi : Int, star_pi : Int, retry_ti : Int]
  /\ g.ti \in 0 .. Len(text) /\ g.pi \in 0 .. Size
  /\ IF g.star_pi = NPOS THEN Full <=> Rests(g.ti, g.pi) ELSE Behinds(g)

(* What is sure of the loop depends on its own variables alone.            *)
LEMMA SameGlob ==
  ASSUME UNCHANGED <<pat, text, plan>>
  PROVE  \A g : GlobOK(g)' = GlobOK(g)
<1>1. \A i, p : Rests(i, p)' = Rests(i, p)
  BY SameEnds DEF Rests, EndsAt
<1>2. Size' = Size /\ Len(text)' = Len(text) /\ Full' = Full
  BY SameEnds, SameRoot
<1>3. \A g : Behinds(g)' = Behinds(g)
  BY <1>1, <1>2 DEF Behinds
<1> QED BY <1>1, <1>2, <1>3 DEF GlobOK

(* The variables of the loop are in range.                                 *)
LEMMA GlobFields ==
  ASSUME PlanOK, NEW g, GlobOK(g)
  PROVE  /\ Size \in Nat /\ Len(text) \in Nat /\ g.ti \in 0 .. Len(text) /\ g.pi \in 0 .. Size
         /\ g.ti \in Int /\ g.pi \in Int /\ g.star_pi \in Int /\ g.retry_ti \in Int
         /\ g = [ti |-> g.ti, pi |-> g.pi, star_pi |-> g.star_pi, retry_ti |-> g.retry_ti]
BY Sizes DEF GlobOK

(* What is sure behind a star, spelled out.                                *)
LEMMA BehindsMeans ==
  ASSUME PlanOK, NEW g, GlobOK(g), g.star_pi # NPOS,
         NEW i, i = g.ti, NEW p, p = g.pi, NEW n, n = Len(text), NEW s, s = g.star_pi, NEW t, t = g.retry_ti,
         NEW d, d = p - s
  PROVE  /\ s \in 0 .. Size /\ t \in 0 .. n /\ t <= i /\ i - t = d /\ d \in Nat
         /\ Full <=> \E k \in t .. n : Rests(k, s)
         /\ \A k \in t .. n : Rests(k, s) => k + d <= n /\ Rests(k + d, p)
         /\ Rests(i, p) => Rests(t, s)
<1>1. Behinds(g)
  BY DEF GlobOK
<1>2. s \in 0 .. Size /\ t \in 0 .. n /\ t <= i /\ i - t = d
  BY <1>1 DEF Behinds
<1>3. d \in Nat
  <2>1. Size \in Nat /\ n \in Nat /\ i \in Int
    BY GlobFields
  <2> QED BY <2>1, <1>2
<1>4. Full <=> \E k \in t .. n : Rests(k, s)
  BY <1>1 DEF Behinds
<1>5. \A k \in t .. n : Rests(k, s) => k + d <= n /\ Rests(k + d, p)
  <2>1. \A k \in t .. n : Rests(k, s) => k + (p - s) <= n /\ Rests(k + (p - s), p)
    BY <1>1 DEF Behinds
  <2> QED BY <2>1
<1>6. Rests(i, p) => Rests(t, s)
  BY <1>1 DEF Behinds
<1> QED BY <1>2, <1>3, <1>4, <1>5, <1>6

(* The whole text matches only if what is left of it matches from here or  *)
(* from a later start behind the last star.                                *)
LEMMA StarAgain ==
  ASSUME PlanOK, NEW g, GlobOK(g), NEW r \in g.pi + 1 .. Size, \A k \in g.pi .. r - 1 : P(k) = "*",
         NEW h, h = [ti |-> g.ti, pi |-> r, star_pi |-> r, retry_ti |-> g.ti]
  PROVE  GlobOK(h) /\ (r = Size => Full)
<1>0. /\ Size \in Nat /\ Len(text) \in Nat /\ g.ti \in 0 .. Len(text) /\ g.pi \in 0 .. Size
      /\ g.ti \in Int /\ g.pi \in Int /\ g.star_pi \in Int /\ g.retry_ti \in Int
  BY GlobFields
<1>1. PICK i, p, n : i = g.ti /\ p = g.pi /\ n = Len(text)
  OBVIOUS
<1>2. h.ti = i /\ h.pi = r /\ h.star_pi = r /\ h.retry_ti = i
      /\ h \in [ti : Int, pi : Int, star_pi : Int, retry_ti : Int]
  BY <1>0, <1>1
<1>3. \A e \in 0 .. n : Rests(e, p) <=> \E k \in e .. n : Rests(k, r)
  <2> SUFFICES ASSUME NEW e \in 0 .. n PROVE Rests(e, p) <=> \E k \in e .. n : Rests(k, r)
    OBVIOUS
  <2>1. p \in 0 .. Size /\ r \in 0 .. Size /\ p < r /\ e \in 0 .. Len(text)
    BY <1>0, <1>1
  <2>2. \A k \in p .. r - 1 : P(k) = "*"
    BY <1>1
  <2> QED BY <2>1, <2>2, <1>1, RestsStars
<1>4. Full <=> \E k \in i .. n : Rests(k, r)
  <2>1. CASE g.star_pi = NPOS
    <3>1. Full <=> Rests(i, p)
      BY <2>1, <1>1 DEF GlobOK
    <3> QED BY <3>1, <1>0, <1>1, <1>3
  <2>2. CASE g.star_pi # NPOS
    <3>1. PICK s, t, d : s = g.star_pi /\ t = g.retry_ti /\ d = p - s
      OBVIOUS
    <3>2. /\ s \in 0 .. Size /\ t \in 0 .. n /\ t <= i /\ i - t = d /\ d \in Nat
          /\ Full <=> \E k \in t .. n : Rests(k, s)
          /\ \A k \in t .. n : Rests(k, s) => k + d <= n /\ Rests(k + d, p)
          /\ Rests(i, p) => Rests(t, s)
      BY <2>2, <3>1, <1>1, BehindsMeans
    <3>3. ASSUME Full PROVE \E k \in i .. n : Rests(k, r)
      <4>1. PICK k \in t .. n : Rests(k, s)
        BY <3>2, <3>3
      <4>2. k + d \in 0 .. n /\ i <= k + d /\ Rests(k + d, p)
        BY <4>1, <3>2, <1>0, <1>1, SMTT(40)
      <4>3. PICK m \in k + d .. n : Rests(m, r)
        BY <4>2, <1>3
      <4>4. m \in i .. n
        BY <4>2, <4>3, <3>2, <1>0, <1>1
      <4> QED BY <4>3, <4>4
    <3>4. ASSUME NEW k \in i .. n, Rests(k, r) PROVE Full
      <4>1. Rests(i, p)
        BY <3>4, <1>0, <1>1, <1>3
      <4>2. t \in t .. n
        BY <3>2, <1>0, <1>1
      <4> QED BY <4>1, <4>2, <3>2
    <3> QED BY <3>3, <3>4
  <2> QED BY <2>1, <2>2
<1>5. Behinds(h)
  <2>1. /\ h.star_pi \in 0 .. Size /\ h.retry_ti \in 0 .. Len(text)
        /\ h.retry_ti <= h.ti /\ h.ti - h.retry_ti = h.pi - h.star_pi
    BY <1>0, <1>1, <1>2
  <2>2. Full <=> \E k \in h.retry_ti .. Len(text) : Rests(k, h.star_pi)
    BY <1>1, <1>2, <1>4
  <2>3. ASSUME NEW k \in h.retry_ti .. Len(text), Rests(k, h.star_pi)
        PROVE  k + (h.pi - h.star_pi) <= Len(text) /\ Rests(k + (h.pi - h.star_pi), h.pi)
    <3>1. k + (h.pi - h.star_pi) = k
      BY <1>0, <1>1, <1>2
    <3>2. k <= Len(text)
      BY <1>0, <1>1, <1>2
    <3> QED BY <3>1, <3>2, <2>3, <1>2
  <2>4. Rests(h.ti, h.pi) => Rests(h.retry_ti, h.star_pi)
    BY <1>2
  <2> QED BY <2>1, <2>2, <2>3, <2>4 DEF Behinds
<1>6. GlobOK(h)
  <2>1. h.star_pi # NPOS
    BY <1>0, <1>2 DEF NPOS
  <2>2. h.ti \in 0 .. Len(text) /\ h.pi \in 0 .. Size
    BY <1>0, <1>1, <1>2
  <2> QED BY <2>1, <2>2, <1>2, <1>5 DEF GlobOK
<1>7. r = Size => Full
  <2>1. n \in i .. n /\ n \in 0 .. Len(text)
    BY <1>0, <1>1
  <2>2. Rests(n, Size)
    BY <2>1, <1>1, RestsEmpty
  <2> QED BY <2>1, <2>2, <1>4
<1> QED BY <1>6, <1>7

(* One character read: whatever start works, works behind it too.          *)
LEMMA CharAgain ==
  ASSUME PlanOK, is_simple_glob, NEW g, GlobOK(g), g.ti < Len(text), g.pi < Size,
         P(g.pi) # "*", P(g.pi) \in {"?", T(g.ti)},
         NEW h, h = [ti |-> g.ti + 1, pi |-> g.pi + 1, star_pi |-> g.star_pi, retry_ti |-> g.retry_ti]
  PROVE  GlobOK(h)
<1>0. /\ Size \in Nat /\ Len(text) \in Nat /\ g.ti \in 0 .. Len(text) /\ g.pi \in 0 .. Size
      /\ g.ti \in Int /\ g.pi \in Int /\ g.star_pi \in Int /\ g.retry_ti \in Int
  BY GlobFields
<1>1. PICK i, p, n, s, t : i = g.ti /\ p = g.pi /\ n = Len(text) /\ s = g.star_pi /\ t = g.retry_ti
  OBVIOUS
<1>2. h.ti = i + 1 /\ h.pi = p + 1 /\ h.star_pi = s /\ h.retry_ti = t
      /\ h \in [ti : Int, pi : Int, star_pi : Int, retry_ti : Int]
  BY <1>0, <1>1
<1>3. \A e \in 0 .. n : Rests(e, p) => e < n /\ Rests(e + 1, p + 1)
  <2> SUFFICES ASSUME NEW e \in 0 .. n PROVE Rests(e, p) => e < n /\ Rests(e + 1, p + 1)
    OBVIOUS
  <2>1. p \in 0 .. Size - 1 /\ P(p) # "*" /\ e \in 0 .. Len(text)
    BY <1>0, <1>1
  <2>2. Rests(e, p) <=> e < Len(text) /\ P(p) \in {"?", T(e)} /\ Rests(e + 1, p + 1)
    BY <2>1, RestsChar
  <2> QED BY <2>2, <1>1
<1>4. Rests(i, p) <=> Rests(i + 1, p + 1)
  <2>1. p \in 0 .. Size - 1 /\ P(p) # "*" /\ i \in 0 .. Len(text) /\ i < Len(text) /\ P(p) \in {"?", T(i)}
    BY <1>0, <1>1
  <2>2. Rests(i, p) <=> i < Len(text) /\ P(p) \in {"?", T(i)} /\ Rests(i + 1, p + 1)
    BY <2>1, RestsChar
  <2> QED BY <2>1, <2>2
<1>5. i + 1 \in 0 .. n /\ p + 1 \in 0 .. Size
  BY <1>0, <1>1
<1>6. CASE s = NPOS
  <2>1. Full <=> Rests(i, p)
    BY <1>1, <1>6 DEF GlobOK
  <2> QED BY <2>1, <1>1, <1>2, <1>4, <1>5, <1>6 DEF GlobOK
<1>7. CASE s # NPOS
  <2>1. PICK d : d = p - s
    OBVIOUS
  <2>2. /\ s \in 0 .. Size /\ t \in 0 .. n /\ t <= i /\ i - t = d /\ d \in Nat
        /\ Full <=> \E k \in t .. n : Rests(k, s)
        /\ \A k \in t .. n : Rests(k, s) => k + d <= n /\ Rests(k + d, p)
        /\ Rests(i, p) => Rests(t, s)
    BY <2>1, <1>1, <1>7, BehindsMeans
  <2>3. ASSUME NEW k \in t .. n, Rests(k, s) PROVE k + (p + 1 - s) <= n /\ Rests(k + (p + 1 - s), p + 1)
    <3>1. k + d <= n /\ Rests(k + d, p)
      BY <2>2, <2>3
    <3>2. PICK e \in 0 .. n : e = k + d
      <4>1. k + d \in 0 .. n
        BY <3>1, <2>2, <1>0, <1>1
      <4> QED BY <4>1
    <3>3. e < n /\ Rests(e + 1, p + 1)
      BY <3>1, <3>2, <1>3
    <3>4. p \in Int /\ s \in Int /\ n \in Int
      BY <1>0, <1>1
    <3>5. k + (p + 1 - s) = e + 1 /\ e + 1 <= n
      BY <3>2, <3>3, <3>4, <2>1
    <3> QED BY <3>3, <3>5
  <2>4. Behinds(h)
    <3>1. /\ h.star_pi \in 0 .. Size /\ h.retry_ti \in 0 .. Len(text)
          /\ h.retry_ti <= h.ti /\ h.ti - h.retry_ti = h.pi - h.star_pi
      <4>1. i \in Int /\ p \in Int /\ s \in Int /\ t \in Int
        BY <1>0, <1>1
      <4>2. t <= i + 1 /\ (i + 1) - t = (p + 1) - s
        BY <4>1, <2>1, <2>2
      <4> QED BY <4>2, <2>2, <1>1, <1>2
    <3>2. Full <=> \E k \in h.retry_ti .. Len(text) : Rests(k, h.star_pi)
      BY <2>2, <1>1, <1>2
    <3>3. \A k \in h.retry_ti .. Len(text) : Rests(k, h.star_pi) =>
            k + (h.pi - h.star_pi) <= Len(text) /\ Rests(k + (h.pi - h.star_pi), h.pi)
      <4>1. h.pi - h.star_pi = p + 1 - s
        BY <1>0, <1>1, <1>2, SMTT(40)
      <4>2. PICK x : x = p + 1 - s
        OBVIOUS
      <4>3. \A k \in t .. n : Rests(k, s) => k + x <= n /\ Rests(k + x, p + 1)
        BY <4>2, <2>3
      <4> QED BY <4>1, <4>2, <4>3, <1>1, <1>2
    <3>4. Rests(h.ti, h.pi) => Rests(h.retry_ti, h.star_pi)
      BY <2>2, <1>2, <1>4
    <3> QED BY <3>1, <3>2, <3>3, <3>4 DEF Behinds
  <2> QED BY <2>4, <1>1, <1>2, <1>5, <1>7 DEF GlobOK
<1> QED BY <1>6, <1>7

(* A position where the pattern's rest cannot stand: one start less.       *)
LEMMA RetryAgain ==
  ASSUME PlanOK, NEW g, GlobOK(g), g.ti < Len(text), ~Rests(g.ti, g.pi), g.star_pi # NPOS,
         NEW h, h = [ti |-> g.retry_ti + 1, pi |-> g.star_pi, star_pi |-> g.star_pi, retry_ti |-> g.retry_ti + 1]
  PROVE  GlobOK(h)
<1>0. /\ Size \in Nat /\ Len(text) \in Nat /\ g.ti \in 0 .. Len(text) /\ g.pi \in 0 .. Size
      /\ g.ti \in Int /\ g.pi \in Int /\ g.star_pi \in Int /\ g.retry_ti \in Int
  BY GlobFields
<1>1. PICK i, p, n, s, t, d : i = g.ti /\ p = g.pi /\ n = Len(text) /\ s = g.star_pi /\ t = g.retry_ti /\ d = p - s
  OBVIOUS
<1>2. h.ti = t + 1 /\ h.pi = s /\ h.star_pi = s /\ h.retry_ti = t + 1
      /\ h \in [ti : Int, pi : Int, star_pi : Int, retry_ti : Int]
  BY <1>0, <1>1
<1>3. /\ s \in 0 .. Size /\ t \in 0 .. n /\ t <= i /\ i - t = d /\ d \in Nat
      /\ Full <=> \E k \in t .. n : Rests(k, s)
      /\ \A k \in t .. n : Rests(k, s) => k + d <= n /\ Rests(k + d, p)
  BY <1>1, BehindsMeans
<1>4. ~Rests(t, s)
  <2>1. t \in t .. n /\ t + d = i
    BY <1>0, <1>1, <1>3, SMTT(40)
  <2> QED BY <2>1, <1>1, <1>3
<1>5. Full <=> \E k \in t + 1 .. n : Rests(k, s)
  <2>1. ASSUME NEW k \in t .. n, Rests(k, s) PROVE k \in t + 1 .. n
    <3>1. k # t
      BY <2>1, <1>4
    <3> QED BY <3>1, <1>0, <1>1, <1>3
  <2>2. \A k \in t + 1 .. n : k \in t .. n
    BY <1>0, <1>1, <1>3
  <2> QED BY <2>1, <2>2, <1>3
<1>6. Behinds(h)
  <2>1. /\ h.star_pi \in 0 .. Size /\ h.retry_ti \in 0 .. Len(text)
        /\ h.retry_ti <= h.ti /\ h.ti - h.retry_ti = h.pi - h.star_pi
    BY <1>0, <1>1, <1>2, <1>3, SMTT(40)
  <2>2. Full <=> \E k \in h.retry_ti .. Len(text) : Rests(k, h.star_pi)
    BY <1>1, <1>2, <1>5
  <2>3. ASSUME NEW k \in h.retry_ti .. Len(text), Rests(k, h.star_pi)
        PROVE  k + (h.pi - h.star_pi) <= Len(text) /\ Rests(k + (h.pi - h.star_pi), h.pi)
    <3>1. k + (h.pi - h.star_pi) = k
      BY <1>0, <1>1, <1>2, <1>3
    <3>2. k <= Len(text)
      BY <1>0, <1>1, <1>2, <1>3
    <3> QED BY <3>1, <3>2, <2>3, <1>2
  <2>4. Rests(h.ti, h.pi) => Rests(h.retry_ti, h.star_pi)
    BY <1>2
  <2> QED BY <2>1, <2>2, <2>3, <2>4 DEF Behinds
<1>7. t + 1 \in 0 .. n
  BY <1>0, <1>1, <1>3, SMTT(40)
<1> QED BY <1>1, <1>2, <1>3, <1>6, <1>7 DEF GlobOK

(* At the end of the text the rest of the pattern must be stars.           *)
LEMMA StarsAreLeft ==
  ASSUME PlanOK, is_simple_glob, NEW p \in 0 .. Size
  PROVE  Rests(Len(text), p) <=> AfterStars(p, Size) = Size
<1>0. Size \in Nat /\ Len(text) \in Nat /\ Len(text) \in 0 .. Len(text) /\ Size \in 0 .. Size
  BY Sizes
<1>1. PICK n, r : n = Len(text) /\ r = AfterStars(p, Size)
  OBVIOUS
<1>2. r \in p .. Size /\ (\A k \in p .. r - 1 : P(k) = "*") /\ (r = Size \/ P(r) # "*")
  <2>1. p \in Nat /\ p <= Size
    BY <1>0
  <2>2. PICK q \in Nat : q = Size /\ p <= q
    BY <2>1, <1>0
  <2>3. \E x \in p .. q : /\ AfterStars(p, q) = x
                          /\ \A k \in p .. x - 1 : P(k) = "*"
                          /\ x = q \/ P(x) # "*"
    BY <2>1, <2>2, AfterStarsIs
  <2> QED BY <2>2, <2>3, <1>1
<1>3. Rests(n, p) <=> Rests(n, r)
  <2>1. CASE p < r
    <3>1. r \in 0 .. Size
      BY <1>0, <1>2
    <3>2. Rests(n, p) <=> \E k \in n .. n : Rests(k, r)
      BY <2>1, <3>1, <1>0, <1>1, <1>2, RestsStars
    <3>3. \A k \in n .. n : k = n
      BY <1>0, <1>1
    <3>4. n \in n .. n
      BY <1>0, <1>1
    <3> QED BY <3>2, <3>3, <3>4
  <2>2. CASE ~(p < r)
    <3>1. p = r
      BY <2>2, <1>0, <1>2
    <3> QED BY <3>1
  <2> QED BY <2>1, <2>2
<1>4. CASE r = Size
  <2>1. Rests(n, Size)
    BY <1>0, <1>1, RestsEmpty
  <2> QED BY <2>1, <1>1, <1>3, <1>4
<1>5. CASE r # Size
  <2>1. r \in 0 .. Size - 1 /\ P(r) # "*" /\ n \in 0 .. Len(text)
    BY <1>0, <1>1, <1>2, <1>5
  <2>2. Rests(n, r) <=> n < Len(text) /\ P(r) \in {"?", T(n)} /\ Rests(n + 1, r + 1)
    BY <2>1, RestsChar
  <2>3. ~(n < Len(text))
    BY <1>0, <1>1
  <2> QED BY <2>2, <2>3, <1>1, <1>3, <1>5
<1> QED BY <1>4, <1>5

(* At the end of the text only the present start is left.                  *)
LEMMA EndDecides ==
  ASSUME PlanOK, NEW g, GlobOK(g)
  PROVE  g.ti = Len(text) => (Full <=> Rests(g.ti, g.pi))
<1>0. /\ Size \in Nat /\ Len(text) \in Nat /\ g.ti \in 0 .. Len(text) /\ g.pi \in 0 .. Size
      /\ g.ti \in Int /\ g.pi \in Int /\ g.star_pi \in Int /\ g.retry_ti \in Int
  BY GlobFields
<1>1. CASE g.star_pi = NPOS
  BY <1>1 DEF GlobOK
<1>2. CASE g.star_pi # NPOS
  <2>1. PICK i, p, n, s, t, d : i = g.ti /\ p = g.pi /\ n = Len(text) /\ s = g.star_pi /\ t = g.retry_ti /\ d = p - s
    OBVIOUS
  <2>2. /\ s \in 0 .. Size /\ t \in 0 .. n /\ t <= i /\ i - t = d /\ d \in Nat
        /\ Full <=> \E k \in t .. n : Rests(k, s)
        /\ \A k \in t .. n : Rests(k, s) => k + d <= n /\ Rests(k + d, p)
        /\ Rests(i, p) => Rests(t, s)
    BY <2>1, <1>2, BehindsMeans
  <2>3. ASSUME i = n, Full PROVE Rests(i, p)
    <3>1. PICK k \in t .. n : Rests(k, s)
      BY <2>2, <2>3
    <3>2. k + d <= n /\ Rests(k + d, p)
      BY <3>1, <2>2
    <3>3. k + d = i
      BY <3>1, <3>2, <2>3, <2>1, <2>2, <1>0, SMTT(40)
    <3> QED BY <3>2, <3>3
  <2>4. ASSUME Rests(i, p) PROVE Full
    <3>1. t \in t .. n
      BY <2>1, <2>2, <1>0
    <3> QED BY <3>1, <2>2, <2>4
  <2> QED BY <2>1, <2>3, <2>4
<1> QED BY <1>1, <1>2
-----------------------------------------------------------------------------
FindRoot == Call(Len(text), Head(starts), 0, Size, TRUE)

Sure(root) ==
  \E cs, r, mm, first : /\ cs = calls /\ r = ret /\ mm = memo /\ first = root
                        /\ MatcherOK(cs, r, mm, first)
MemoSure == \E mm : mm = memo /\ MemoOK(mm)
GlobSure == \E g : g = glob /\ GlobOK(g)
RootSure == \E root : root = MatchRoot /\ (Full <=> Wants(root) # {})

(* What holds between any two steps, phase by phase.                       *)
WildcardInv ==
  /\ PlanOK /\ MemoSure
  /\ phase \in {"ready", "glob", "match", "find", "done"}
  /\ phase \notin {"match", "find"} => calls = <<>>
  /\ phase \in {"ready", "glob"} => ret = NoRet
  /\ phase = "ready" => glob = GlobStart
  /\ phase = "glob" => is_simple_glob /\ GlobSure
  /\ phase = "match" => Sure(MatchRoot) /\ RootSure
  /\ phase = "find" => /\ starts \in Seq(0 .. Len(text))
                       /\ calls # <<>> \/ ret # NoRet => starts # <<>> /\ Sure(FindRoot)
  /\ phase # "done" => answer = "none"
  /\ ~regex.can_delegate /\ answer # "none" => (answer = "yes" <=> Full)

(* No step changes the plan or what the pattern stands for.                *)
LEMMA SamePlan ==
  ASSUME WildcardInv, UNCHANGED <<pat, text, plan>>
  PROVE  PlanOK' /\ Full' = Full /\ is_simple_glob' = is_simple_glob /\ Len(text)' = Len(text)
BY SameEnds, SameRoot DEF WildcardInv

(* What is remembered stays true.                                          *)
LEMMA MemoStays ==
  ASSUME UNCHANGED <<pat, text, plan>>, NEW mm, MemoOK(mm), memo' = mm
  PROVE  MemoSure'
<1>1. MemoOK(mm)'
  <2>1. Ends' = Ends /\ Size' = Size /\ Len(text)' = Len(text)
    BY SameEnds
  <2> QED BY <2>1 DEF MemoOK, WantAt, Want
<1> QED BY <1>1 DEF MemoSure

(* So does what is sure of the calls.                                      *)
LEMMA SureStays ==
  ASSUME UNCHANGED <<pat, text, plan>>, NEW cs, NEW r, NEW mm, NEW root, MatcherOK(cs, r, mm, root),
         calls' = cs, ret' = r, memo' = mm
  PROVE  /\ root = MatchRoot => Sure(MatchRoot)'
         /\ root = FindRoot' => Sure(FindRoot)'
         /\ MemoSure'
<1>1. MatcherOK(cs, r, mm, root)'
  BY SameMatcher
<1>2. root = MatchRoot => root = MatchRoot'
  BY SameRoot
<1>3. MemoOK(mm)
  BY DEF MatcherOK
<1>4. MemoSure'
  BY <1>3, MemoStays
<1> QED BY <1>1, <1>2, <1>4 DEF Sure

(* The call that was made still decides Full.                              *)
LEMMA RootStays ==
  ASSUME UNCHANGED <<pat, text, plan>>, NEW root, root = MatchRoot, Full <=> Wants(root) # {}
  PROVE  RootSure'
<1>1. Wants(root)' = Wants(root)
  BY SameWants
<1>2. root = MatchRoot' /\ Full' = Full
  BY SameRoot
<1> QED BY <1>1, <1>2 DEF RootSure

(* So do the variables of the loop.                                        *)
LEMMA GlobStays ==
  ASSUME UNCHANGED <<pat, text, plan>>, NEW g, GlobOK(g), glob' = g
  PROVE  GlobSure'
<1>1. GlobOK(g)'
  BY SameGlob
<1> QED BY <1>1 DEF GlobSure

(* A step to the end is right when its answer is.                          *)
LEMMA StepsIntoDone ==
  ASSUME WildcardInv, UNCHANGED <<pat, text, plan, regex, memo>>, phase' = "done", calls' = <<>>,
         ~regex.can_delegate /\ answer' # "none" => (answer' = "yes" <=> Full)
  PROVE  WildcardInv'
<1>1. PlanOK' /\ Full' = Full
  BY SamePlan
<1>2. MemoSure'
  <2>1. PICK mm : mm = memo /\ MemoOK(mm)
    BY DEF WildcardInv, MemoSure
  <2> QED BY <2>1, MemoStays
<1> QED BY <1>1, <1>2 DEF WildcardInv

(* The invariant holds when a program starts.                              *)
LEMMA InitIsSure ==
  ASSUME Init
  PROVE  WildcardInv
<1>1. PlanOK
  <2>1. pat \in Seq(Range(Ascii)) /\ text \in Seq(Range(Ascii)) /\ plan = make_metadata
    BY CharsAssumption DEF Init
  <2> QED BY <2>1, PlanMade
<1>2. MemoSure
  <2>1. PICK mm : mm = {}
    OBVIOUS
  <2>2. MemoOK(mm)
    BY <2>1 DEF MemoOK
  <2> QED BY <2>1, <2>2 DEF Init, MemoSure
<1> QED BY <1>1, <1>2 DEF Init, WildcardInv
-----------------------------------------------------------------------------
(* Delegate: frozen_regex answers, which the theorem leaves to the runs.   *)
LEMMA DelegateKeeps ==
  ASSUME WildcardInv, Delegate
  PROVE  WildcardInv'
<1>1. UNCHANGED <<pat, text, plan, regex, memo>> /\ phase' = "done" /\ calls' = <<>>
  BY DEF WildcardInv, Delegate, Answer, inputs
<1>2. ~regex.can_delegate /\ answer' # "none" => (answer' = "yes" <=> Full)
  BY DEF Delegate
<1> QED BY <1>1, <1>2, StepsIntoDone

(* StartGlob: a simple glob goes to the loop.                              *)
LEMMA StartGlobKeeps ==
  ASSUME WildcardInv, StartGlob
  PROVE  WildcardInv'
<1>1. UNCHANGED <<pat, text, plan, regex, memo, calls, ret, glob, answer>> /\ phase = "ready" /\ phase' = "glob" /\ is_simple_glob
  BY DEF StartGlob, inputs
<1>2. PlanOK' /\ is_simple_glob' /\ Full' = Full
  BY <1>1, SamePlan
<1>3. MemoSure'
  <2>1. PICK mm : mm = memo /\ MemoOK(mm)
    BY DEF WildcardInv, MemoSure
  <2> QED BY <2>1, <1>1, MemoStays
<1>4. GlobSure'
  <2>1. PICK g : g = glob
    OBVIOUS
  <2>2. g = [ti |-> 0, pi |-> 0, star_pi |-> NPOS, retry_ti |-> 0]
    BY <2>1, <1>1 DEF WildcardInv, GlobStart
  <2>3. PlanOK
    BY DEF WildcardInv
  <2>4. Full <=> Rests(0, 0)
    BY <2>3, FullIs DEF Rests
  <2>5. Size \in Nat /\ Len(text) \in Nat
    BY <2>3, Sizes
  <2>6. GlobOK(g)
    BY <2>2, <2>4, <2>5 DEF GlobOK, NPOS
  <2> QED BY <2>1, <2>6, <1>1, GlobStays
<1> QED BY <1>1, <1>2, <1>3, <1>4 DEF WildcardInv

(* Reject: prefix or suffix is not in place, and nothing matches.          *)
LEMMA RejectKeeps ==
  ASSUME WildcardInv, Reject
  PROVE  WildcardInv'
<1>1. UNCHANGED <<pat, text, plan, regex, memo>> /\ phase' = "done" /\ calls' = <<>> /\ answer' = "no" /\ ~Plausible
  BY DEF WildcardInv, Reject, Answer, inputs
<1>2. ~Full
  <2>1. PlanOK
    BY DEF WildcardInv
  <2> QED BY <2>1, <1>1, EndsCompared
<1> QED BY <1>1, <1>2, StepsIntoDone

(* No call is running: the first one is awaited.                           *)
LEMMA EmptyStack ==
  ASSUME NEW root
  PROVE  \E none : none = <<>> /\ Stack(none, root) /\ Awaiting(none) /\ Awaited(none, root) = root
<1>1. PICK none : none = <<>>
  OBVIOUS
<1>2. none \in Seq(Range(none)) /\ Len(none) = 0
  BY <1>1
<1>3. Stack(none, root)
  <2>1. \A k \in 1 .. Len(none) : FALSE
    BY <1>2
  <2>2. \A k \in 1 .. Len(none) - 1 : FALSE
    BY <1>2
  <2> QED BY <2>1, <2>2, <1>2 DEF Stack
<1> QED BY <1>1, <1>3 DEF Awaiting, Awaited

(* StartMatcher: the matcher is called for the middle.                     *)
LEMMA StartMatcherKeeps ==
  ASSUME WildcardInv, StartMatcher
  PROVE  WildcardInv'
<1>1. /\ UNCHANGED <<pat, text, plan, regex, starts, answer>>
      /\ phase = "ready" /\ phase' = "match" /\ ~is_simple_glob /\ Plausible /\ Enter(MatchRoot)
  BY DEF StartMatcher, inputs, MatchRoot
<1>2. PlanOK /\ calls = <<>> /\ MemoOK(memo) /\ answer = "none"
  BY <1>1 DEF WildcardInv, MemoSure
<1>3. PlanOK' /\ Full' = Full
  BY <1>1, SamePlan
<1>4. PICK root : root = MatchRoot
  OBVIOUS
<1>5. /\ PlaceOK(root) /\ root = Call(root.n, root.ti, root.pi, root.pi_end, root.partial)
      /\ Full <=> Wants(root) # {}
  BY <1>1, <1>2, <1>4, RootIsPlace
<1>6. Stack(calls, root) /\ Awaiting(calls) /\ root = Awaited(calls, root)
  <2>1. PICK none : none = <<>> /\ Stack(none, root) /\ Awaiting(none) /\ Awaited(none, root) = root
    BY EmptyStack
  <2>2. none = calls
    BY <2>1, <1>2
  <2> QED BY <2>1, <2>2
<1>7. MatcherOK(calls', ret', memo', root)
  BY <1>1, <1>2, <1>4, <1>5, <1>6, EnterKeeps
<1>8. PICK cs, r, mm : cs = calls' /\ r = ret' /\ mm = memo' /\ MatcherOK(cs, r, mm, root)
  BY <1>7
<1>9. Sure(MatchRoot)' /\ MemoSure'
  BY <1>1, <1>4, <1>8, SureStays
<1>10. RootSure'
  BY <1>1, <1>4, <1>5, RootStays
<1> QED BY <1>1, <1>2, <1>3, <1>9, <1>10 DEF WildcardInv

(* MatchEnds: what the matcher found is the answer.                        *)
LEMMA MatchEndsKeeps ==
  ASSUME WildcardInv, MatchEnds
  PROVE  WildcardInv'
<1>1. UNCHANGED <<pat, text, plan, regex, memo>> /\ phase = "match" /\ phase' = "done" /\ calls = <<>> /\ calls' = <<>>
      /\ answer' = IF ret.matched THEN "yes" ELSE "no"
  BY DEF MatchEnds, Answer, inputs
<1>2. PICK r, root : r = ret /\ root = MatchRoot /\ MatcherOK(calls, r, memo, root)
  BY <1>1 DEF WildcardInv, Sure
<1>3. Full <=> Wants(root) # {}
  BY <1>1, <1>2 DEF WildcardInv, RootSure
<1>4. RetOK(r, root)
  BY <1>1, <1>2 DEF MatcherOK, Awaited
<1>5. r.matched <=> Full
  BY <1>3, <1>4 DEF RetOK
<1>6. answer' = "yes" <=> Full
  BY <1>1, <1>2, <1>5
<1> QED BY <1>1, <1>6, StepsIntoDone

(* A step of the greedy loop that goes on.                                 *)
LEMMA GlobGoesOn ==
  ASSUME WildcardInv, phase = "glob", GlobKeeps, UNCHANGED <<phase, answer>>, NEW h, GlobOK(h), glob' = h
  PROVE  WildcardInv'
<1>1. UNCHANGED <<pat, text, plan, regex, memo, calls, ret, answer, phase>>
  BY DEF GlobKeeps, inputs
<1>2. PlanOK' /\ is_simple_glob' /\ Full' = Full
  BY <1>1, SamePlan DEF WildcardInv
<1>3. MemoSure'
  <2>1. PICK mm : mm = memo /\ MemoOK(mm)
    BY DEF WildcardInv, MemoSure
  <2> QED BY <2>1, <1>1, MemoStays
<1>4. GlobSure'
  BY <1>1, GlobStays
<1> QED BY <1>1, <1>2, <1>3, <1>4 DEF WildcardInv

(* One that comes to an answer.                                            *)
LEMMA GlobAnswers ==
  ASSUME WildcardInv, phase = "glob", GlobKeeps, NEW yes \in BOOLEAN, yes <=> Full, Answer(yes)
  PROVE  WildcardInv'
<1>1. UNCHANGED <<pat, text, plan, regex, memo, calls>>
  BY DEF GlobKeeps, inputs
<1>2. calls' = <<>>
  BY <1>1 DEF WildcardInv
<1>3. phase' = "done" /\ (answer' = "yes" <=> Full)
  BY DEF Answer
<1> QED BY <1>1, <1>2, <1>3, StepsIntoDone

(* What is known while the loop runs.                                      *)
LEMMA GlobKnown ==
  ASSUME WildcardInv, phase = "glob"
  PROVE  /\ PlanOK /\ is_simple_glob /\ GlobOK(glob)
         /\ Size \in Nat /\ Len(text) \in Nat /\ glob.ti \in 0 .. Len(text) /\ glob.pi \in 0 .. Size
         /\ glob = [ti |-> glob.ti, pi |-> glob.pi, star_pi |-> glob.star_pi, retry_ti |-> glob.retry_ti]
<1>1. PlanOK /\ is_simple_glob
  BY DEF WildcardInv
<1>2. PICK g : g = glob /\ GlobOK(g)
  BY DEF WildcardInv, GlobSure
<1> QED BY <1>1, <1>2, GlobFields

(* GlobStar: a star becomes the last one seen.                             *)
LEMMA GlobStarKeeps ==
  ASSUME WildcardInv, GlobStar
  PROVE  WildcardInv'
<1>1. phase = "glob" /\ glob.pi < Size /\ P(glob.pi) = "*" /\ GlobKeeps
  BY DEF GlobStar, GlobLeft, CharIn
<1>2. PICK g : g = glob
  OBVIOUS
<1>3. /\ PlanOK /\ is_simple_glob /\ GlobOK(g)
      /\ Size \in Nat /\ Len(text) \in Nat /\ g.ti \in 0 .. Len(text) /\ g.pi \in 0 .. Size
      /\ g = [ti |-> g.ti, pi |-> g.pi, star_pi |-> g.star_pi, retry_ti |-> g.retry_ti]
  BY <1>1, <1>2, GlobKnown
<1>4. PICK r : r = AfterStars(g.pi, Size)
  OBVIOUS
<1>5. r \in g.pi + 1 .. Size /\ \A k \in g.pi .. r - 1 : P(k) = "*"
  <2>1. PICK p \in Nat, q \in Nat : p = g.pi /\ q = Size /\ p <= q
    BY <1>3
  <2>2. \E x \in p .. q : /\ AfterStars(p, q) = x
                          /\ \A k \in p .. x - 1 : P(k) = "*"
                          /\ x = q \/ P(x) # "*"
    BY <2>1, AfterStarsIs, ZenonT(60)
  <2>3. r \in p .. q /\ (\A k \in p .. r - 1 : P(k) = "*") /\ (r = q \/ P(r) # "*")
    BY <2>1, <2>2, <1>4
  <2>4. r # p
    BY <2>1, <2>3, <1>1, <1>2
  <2> QED BY <2>1, <2>3, <2>4
<1>6. PICK h : h = [ti |-> g.ti, pi |-> r, star_pi |-> r, retry_ti |-> g.ti]
  OBVIOUS
<1>7. GlobOK(h) /\ (r = Size => Full)
  BY <1>3, <1>5, <1>6, StarAgain
<1>8. glob' = h
  <2>1. glob' = [g EXCEPT !.pi = r, !.star_pi = r, !.retry_ti = g.ti]
    BY <1>2, <1>4 DEF GlobStar
  <2>2. PICK i, p, s, t : i = g.ti /\ p = g.pi /\ s = g.star_pi /\ t = g.retry_ti
    OBVIOUS
  <2>3. g = [ti |-> i, pi |-> p, star_pi |-> s, retry_ti |-> t]
    BY <2>2, <1>3
  <2>4. glob' = [g EXCEPT !.pi = r, !.star_pi = r, !.retry_ti = i]
    BY <2>1, <2>2
  <2>5. glob' = [ti |-> i, pi |-> r, star_pi |-> r, retry_ti |-> i]
    BY <2>3, <2>4
  <2> QED BY <2>2, <2>5, <1>6
<1>9. IF r = Size THEN Answer(TRUE) ELSE UNCHANGED <<phase, answer>>
  BY <1>2, <1>4 DEF GlobStar
<1>10. CASE r = Size
  BY <1>1, <1>7, <1>9, <1>10, GlobAnswers
<1>11. CASE r # Size
  BY <1>1, <1>7, <1>8, <1>9, <1>11, GlobGoesOn
<1> QED BY <1>10, <1>11

(* GlobChar: pattern and text move on.                                     *)
LEMMA GlobCharKeeps ==
  ASSUME WildcardInv, GlobChar
  PROVE  WildcardInv'
<1>1. /\ phase = "glob" /\ glob.ti < Len(text) /\ GlobKeeps /\ UNCHANGED <<phase, answer>>
      /\ glob.pi < Size /\ P(glob.pi) # "*" /\ P(glob.pi) \in {"?", T(glob.ti)}
      /\ glob' = [glob EXCEPT !.ti = @ + 1, !.pi = @ + 1]
  BY DEF GlobChar, GlobLeft, GlobHere, CharIn
<1>2. PICK g : g = glob
  OBVIOUS
<1>3. /\ PlanOK /\ is_simple_glob /\ GlobOK(g)
      /\ g = [ti |-> g.ti, pi |-> g.pi, star_pi |-> g.star_pi, retry_ti |-> g.retry_ti]
  BY <1>1, <1>2, GlobKnown
<1>4. PICK h : h = [ti |-> g.ti + 1, pi |-> g.pi + 1, star_pi |-> g.star_pi, retry_ti |-> g.retry_ti]
  OBVIOUS
<1>5. GlobOK(h)
  BY <1>1, <1>2, <1>3, <1>4, CharAgain
<1>6. glob' = h
  <2>1. glob' = [g EXCEPT !.ti = @ + 1, !.pi = @ + 1]
    BY <1>1, <1>2
  <2>2. PICK i, p, s, t : i = g.ti /\ p = g.pi /\ s = g.star_pi /\ t = g.retry_ti
    OBVIOUS
  <2>3. g = [ti |-> i, pi |-> p, star_pi |-> s, retry_ti |-> t]
    BY <2>2, <1>3
  <2>4. PICK j, o : j = i + 1 /\ o = p + 1
    OBVIOUS
  <2>5. glob' = [g EXCEPT !.ti = j, !.pi = o]
    <3>1. g.ti + 1 = j /\ g.pi + 1 = o
      BY <2>2, <2>4
    <3> QED BY <2>1, <3>1
  <2>6. glob' = [ti |-> j, pi |-> o, star_pi |-> s, retry_ti |-> t]
    BY <2>3, <2>5
  <2> QED BY <2>2, <2>4, <2>6, <1>4
<1> QED BY <1>1, <1>5, <1>6, GlobGoesOn

(* Neither a star nor the character that is next: the rest cannot match.   *)
LEMMA NotHere ==
  ASSUME PlanOK, is_simple_glob, GlobOK(glob), glob.ti < Len(text), ~CharIn(glob.pi, {"*"}), ~GlobHere
  PROVE  ~Rests(glob.ti, glob.pi)
<1>1. PICK g : g = glob
  OBVIOUS
<1>2. Size \in Nat /\ Len(text) \in Nat /\ g.ti \in 0 .. Len(text) /\ g.pi \in 0 .. Size
  BY <1>1, Sizes DEF GlobOK
<1>3. PICK i \in 0 .. Len(text), p \in 0 .. Size : i = g.ti /\ p = g.pi
  BY <1>2
<1>4. CASE p = Size
  <2>1. Rests(i, Size) <=> i = Len(text)
    BY <1>3, RestsEmpty
  <2> QED BY <2>1, <1>1, <1>2, <1>3, <1>4
<1>5. CASE p # Size
  <2>1. p \in 0 .. Size - 1 /\ p < Size
    BY <1>2, <1>5
  <2>2. P(p) # "*" /\ P(p) \notin {"?", T(i)}
    BY <2>1, <1>1, <1>3 DEF CharIn, GlobHere
  <2>3. Rests(i, p) <=> i < Len(text) /\ P(p) \in {"?", T(i)} /\ Rests(i + 1, p + 1)
    BY <2>1, <2>2, RestsChar
  <2> QED BY <2>2, <2>3, <1>1, <1>3
<1> QED BY <1>4, <1>5

(* GlobRetry: the last star takes one character more.                      *)
LEMMA GlobRetryKeeps ==
  ASSUME WildcardInv, GlobRetry
  PROVE  WildcardInv'
<1>1. /\ phase = "glob" /\ glob.ti < Len(text) /\ GlobKeeps /\ UNCHANGED <<phase, answer>>
      /\ ~CharIn(glob.pi, {"*"}) /\ ~GlobHere /\ glob.star_pi # NPOS
      /\ glob' = [glob EXCEPT !.pi = glob.star_pi, !.ti = glob.retry_ti + 1, !.retry_ti = @ + 1]
  BY DEF GlobRetry, GlobLeft
<1>2. PICK g : g = glob
  OBVIOUS
<1>3. /\ PlanOK /\ is_simple_glob /\ GlobOK(g) /\ GlobOK(glob)
      /\ g = [ti |-> g.ti, pi |-> g.pi, star_pi |-> g.star_pi, retry_ti |-> g.retry_ti]
  BY <1>1, <1>2, GlobKnown
<1>4. ~Rests(g.ti, g.pi)
  BY <1>1, <1>2, <1>3, NotHere
<1>5. PICK h : h = [ti |-> g.retry_ti + 1, pi |-> g.star_pi, star_pi |-> g.star_pi, retry_ti |-> g.retry_ti + 1]
  OBVIOUS
<1>6. GlobOK(h)
  BY <1>1, <1>2, <1>3, <1>4, <1>5, RetryAgain
<1>7. glob' = h
  <2>1. glob' = [g EXCEPT !.pi = g.star_pi, !.ti = g.retry_ti + 1, !.retry_ti = @ + 1]
    BY <1>1, <1>2
  <2>2. PICK i, p, s, t : i = g.ti /\ p = g.pi /\ s = g.star_pi /\ t = g.retry_ti
    OBVIOUS
  <2>3. g = [ti |-> i, pi |-> p, star_pi |-> s, retry_ti |-> t]
    BY <2>2, <1>3
  <2>4. PICK j : j = t + 1
    OBVIOUS
  <2>5. glob' = [g EXCEPT !.pi = s, !.ti = j, !.retry_ti = j]
    <3>1. g.retry_ti + 1 = j /\ g.star_pi = s
      BY <2>2, <2>4
    <3> QED BY <2>1, <3>1
  <2>6. glob' = [ti |-> j, pi |-> s, star_pi |-> s, retry_ti |-> j]
    BY <2>3, <2>5
  <2> QED BY <2>2, <2>4, <2>6, <1>5
<1> QED BY <1>1, <1>6, <1>7, GlobGoesOn

(* GlobFails: no star to go back to.                                       *)
LEMMA GlobFailsKeeps ==
  ASSUME WildcardInv, GlobFails
  PROVE  WildcardInv'
<1>1. /\ phase = "glob" /\ glob.ti < Len(text) /\ GlobKeeps /\ Answer(FALSE)
      /\ ~CharIn(glob.pi, {"*"}) /\ ~GlobHere /\ glob.star_pi = NPOS
  BY DEF GlobFails, GlobLeft
<1>2. PlanOK /\ is_simple_glob /\ GlobOK(glob)
  BY <1>1, GlobKnown
<1>3. ~Rests(glob.ti, glob.pi)
  BY <1>1, <1>2, NotHere
<1>4. ~Full
  BY <1>1, <1>2, <1>3 DEF GlobOK
<1> QED BY <1>1, <1>4, GlobAnswers

(* GlobEnds: the text is at its end.                                       *)
LEMMA GlobEndsKeeps ==
  ASSUME WildcardInv, GlobEnds
  PROVE  WildcardInv'
<1>1. /\ phase = "glob" /\ glob.ti >= Len(text) /\ GlobKeeps
      /\ Answer(AfterStars(glob.pi, Size) = Size)
  BY DEF GlobEnds
<1>2. PICK g : g = glob
  OBVIOUS
<1>3. PlanOK /\ is_simple_glob /\ GlobOK(g) /\ g.ti = Len(text) /\ g.pi \in 0 .. Size
  <2>1. /\ PlanOK /\ is_simple_glob /\ GlobOK(g) /\ Len(text) \in Nat
        /\ g.ti \in 0 .. Len(text) /\ g.pi \in 0 .. Size
    BY <1>1, <1>2, GlobKnown
  <2> QED BY <2>1, <1>1, <1>2
<1>4. Full <=> Rests(g.ti, g.pi)
  BY <1>3, EndDecides
<1>5. Rests(Len(text), g.pi) <=> AfterStars(g.pi, Size) = Size
  BY <1>3, StarsAreLeft
<1>6. PICK yes \in BOOLEAN : yes = (AfterStars(g.pi, Size) = Size)
  OBVIOUS
<1>7. yes <=> Full
  BY <1>3, <1>4, <1>5, <1>6
<1>8. Answer(yes)
  BY <1>1, <1>2, <1>6 DEF Answer
<1> QED BY <1>1, <1>7, <1>8, GlobAnswers
-----------------------------------------------------------------------------
(* Every start that is tried lies in the text.                             *)
LEMMA FoundTyped ==
  ASSUME NEW p \in Nat, NEW q \in Nat, p <= q, NEW from \in Nat, NEW n \in Nat
  PROVE  Found(p, q, from, n) \in Seq(0 .. n)
<1>1. PICK S : S = {k \in from .. n - (q - p) : \A j \in 0 .. q - p - 1 : T(k + j) = P(p + j)}
  OBVIOUS
<1>2. S \in SUBSET (0 .. n) /\ S \in SUBSET Int
  BY <1>1
<1>3. IsFiniteSet(S)
  <2>1. IsFiniteSet(0 .. n)
    BY FS_Interval
  <2> QED BY <2>1, <1>2, FS_Subset
<1>4. PICK s, m : s = InOrder(S) /\ m = Cardinality(S)
  OBVIOUS
<1>5. m \in Nat /\ s \in [1 .. m -> S]
  BY <1>2, <1>3, <1>4, InOrderLists
<1>6. s \in Seq(0 .. n)
  <2>1. \A k \in 1 .. m : s[k] \in 0 .. n
    BY <1>2, <1>5
  <2>2. s = [k \in 1 .. m |-> s[k]]
    BY <1>5
  <2>3. s \in [1 .. m -> 0 .. n]
    BY <2>1, <2>2
  <2> QED BY <2>3, <1>5
<1> QED BY <1>1, <1>4, <1>6 DEF Found

(* So does every start of a search.                                        *)
LEMMA StartsTyped ==
  ASSUME PlanOK, NEW from \in 0 .. Len(text)
  PROVE  Starts(from) \in Seq(0 .. Len(text))
<1>0. Size \in Nat /\ Len(text) \in Nat /\ from \in Nat
  BY Sizes
<1>1. Prefix \in Nat
  <2>1. 0 \in Nat /\ 0 <= Size
    BY <1>0
  <2>2. Prefix \in 0 .. Size
    BY <2>1, <1>0, ChunkEndIs DEF Prefix
  <2> QED BY <2>2
<1>2. PICK none, one, every : none = <<>> /\ one = <<from>> /\ every = EveryStart(from)
  OBVIOUS
<1>3. none \in Seq(0 .. Len(text)) /\ one \in Seq(0 .. Len(text))
  BY <1>2
<1>4. every \in Seq(0 .. Len(text))
  <2>1. PICK m \in Nat : m = Len(text) - from + 1
    BY <1>0, SMTT(40)
  <2>2. every = [k \in 1 .. m |-> from + k - 1]
    BY <2>1, <1>2 DEF EveryStart
  <2>3. \A k \in 1 .. m : from + k - 1 \in 0 .. Len(text)
    BY <2>1, <1>0
  <2> QED BY <2>2, <2>3
<1>5. Found(0, Prefix, from, Len(text)) \in Seq(0 .. Len(text))
  <2>1. 0 \in Nat /\ 0 <= Prefix
    BY <1>1
  <2> QED BY <2>1, <1>0, <1>1, FoundTyped
<1>6. PICK found : found = Found(0, Prefix, from, Len(text))
  OBVIOUS
<1>7. Starts(from) \in {none, one, every, found}
  BY <1>2, <1>6 DEF Starts
<1> QED BY <1>3, <1>4, <1>5, <1>6, <1>7

(* The search between two starts.                                          *)
LEMMA SearchGoesOn ==
  ASSUME WildcardInv, UNCHANGED <<pat, text, plan, regex, memo, answer, calls>>, answer = "none",
         calls = <<>>, ret' = NoRet, phase' = "find", starts' \in Seq(0 .. Len(text))
  PROVE  WildcardInv'
<1>1. PlanOK' /\ Full' = Full /\ Len(text)' = Len(text)
  BY SamePlan
<1>2. MemoSure'
  <2>1. PICK mm : mm = memo /\ MemoOK(mm)
    BY DEF WildcardInv, MemoSure
  <2> QED BY <2>1, MemoStays
<1> QED BY <1>1, <1>2 DEF WildcardInv

(* StartFind: the search begins.                                           *)
LEMMA StartFindKeeps ==
  ASSUME WildcardInv, StartFind
  PROVE  WildcardInv'
<1>1. UNCHANGED <<pat, text, plan, regex, memo, answer, calls, ret>> /\ phase = "ready" /\ phase' = "find" /\ starts' = Starts(0)
  BY DEF StartFind, inputs
<1>2. answer = "none" /\ calls = <<>> /\ ret = NoRet /\ PlanOK
  BY <1>1 DEF WildcardInv
<1>3. Starts(0) \in Seq(0 .. Len(text))
  <2>1. 0 \in 0 .. Len(text)
    BY <1>2, Sizes
  <2> QED BY <2>1, <1>2, StartsTyped
<1> QED BY <1>1, <1>2, <1>3, SearchGoesOn

(* The call the search makes for a start is in range.                      *)
LEMMA FindRootIsPlace ==
  ASSUME PlanOK, starts \in Seq(0 .. Len(text)), starts # <<>>
  PROVE  /\ PlaceOK(FindRoot)
         /\ FindRoot = Call(FindRoot.n, FindRoot.ti, FindRoot.pi, FindRoot.pi_end, FindRoot.partial)
         /\ Wants(FindRoot) \in SUBSET (0 .. Len(text))
<1>0. Size \in Nat /\ Len(text) \in Nat
  BY Sizes
<1>1. PICK i \in 0 .. Len(text) : i = Head(starts)
  OBVIOUS
<1>2. PICK root : root = FindRoot
  OBVIOUS
<1>3. root.n = Len(text) /\ root.ti = i /\ root.pi = 0 /\ root.pi_end = Size /\ root.partial = TRUE
      /\ root = Call(Len(text), i, 0, Size, TRUE)
  BY <1>1, <1>2 DEF FindRoot, Call
<1>4. PlaceOK(root)
  <2>1. /\ root.n \in 0 .. Len(text) /\ root.ti \in 0 .. Len(text) /\ root.pi \in 0 .. Size
        /\ root.pi_end \in 0 .. Size /\ root.pi <= root.pi_end /\ root.ti <= root.n /\ root.n = Len(text)
    BY <1>0, <1>3
  <2>2. root.partial \in BOOLEAN /\ root.pi_end = Size
    BY <1>3
  <2> QED BY <2>1, <2>2 DEF PlaceOK
<1>5. root = Call(root.n, root.ti, root.pi, root.pi_end, root.partial)
  BY <1>3
<1>6. Wants(root) \in SUBSET (0 .. Len(text))
  <2>0. PICK p \in 0 .. Size, q \in 0 .. Size : p = root.pi /\ q = root.pi_end
    <3>1. 0 \in 0 .. Size /\ Size \in 0 .. Size
      BY <1>0
    <3>2. root.pi \in 0 .. Size /\ root.pi_end \in 0 .. Size
      BY <3>1, <1>3
    <3> QED BY <3>2
  <2>a. PICK partial \in BOOLEAN : partial = root.partial
    <3>1. root.partial \in BOOLEAN
      BY <1>3
    <3> QED BY <3>1
  <2>1. PICK n : n = root.n
    OBVIOUS
  <2>2. EndsAt(i, p, q) \in SUBSET (0 .. Len(text))
    BY WantTyped
  <2>3. WantAt(i, p, q, n, partial) \in SUBSET EndsAt(i, p, q)
    BY WantTyped
  <2>4. Wants(root) = WantAt(i, p, q, n, partial)
    BY <2>0, <2>a, <2>1, <1>3 DEF Wants
  <2> QED BY <2>2, <2>3, <2>4
<1> QED BY <1>2, <1>4, <1>5, <1>6

(* TryStart: the matcher is called for a start.                            *)
LEMMA TryStartKeeps ==
  ASSUME WildcardInv, TryStart
  PROVE  WildcardInv'
<1>1. /\ UNCHANGED <<pat, text, plan, regex, answer, ret, starts, phase>>
      /\ phase = "find" /\ ret = NoRet /\ starts # <<>>
      /\ calls' = <<FindRoot>> /\ memo' = {}
  BY DEF TryStart, FindReady, inputs, FindRoot
<1>2. PlanOK /\ starts \in Seq(0 .. Len(text)) /\ answer = "none"
  BY <1>1 DEF WildcardInv
<1>3. PlanOK' /\ Full' = Full /\ Len(text)' = Len(text)
  BY <1>1, SamePlan
<1>4. PICK root : root = FindRoot
  OBVIOUS
<1>5. PlaceOK(root) /\ root = Call(root.n, root.ti, root.pi, root.pi_end, root.partial)
  BY <1>1, <1>2, <1>4, FindRootIsPlace
<1>6. FrameOK(root) /\ Origin(root) = root
  BY <1>5, NewFrame
<1>7. PICK cs : cs = <<root>>
  OBVIOUS
<1>8. Stack(cs, root) /\ cs # <<>>
  <2>1. PICK none : none = <<>> /\ Stack(none, root) /\ Awaiting(none) /\ Awaited(none, root) = root
    BY EmptyStack
  <2>2. Stack(Append(none, root), root) /\ Append(none, root) # <<>>
    BY <2>1, <1>6, StackPush, ZenonT(60)
  <2>3. Append(none, root) = cs
    BY <2>1, <1>7
  <2> QED BY <2>2, <2>3
<1>9. PICK mm, r : mm = {} /\ r = NoRet
  OBVIOUS
<1>10. MatcherOK(cs, r, mm, root)
  BY <1>8, <1>9 DEF MatcherOK, MemoOK
<1>11. calls' = cs /\ ret' = r /\ memo' = mm
  BY <1>1, <1>4, <1>7, <1>9
<1>12. FindRoot' = root
  BY <1>1, <1>4, SameEnds DEF FindRoot
<1>13. Sure(FindRoot)' /\ MemoSure'
  BY <1>1, <1>10, <1>11, <1>12, SureStays
<1> QED BY <1>1, <1>2, <1>3, <1>13 DEF WildcardInv

(* StartFound: a match, and the search goes on behind it.                  *)
LEMMA StartFoundKeeps ==
  ASSUME WildcardInv, StartFound
  PROVE  WildcardInv'
<1>1. /\ UNCHANGED <<pat, text, plan, regex, memo, answer, calls, phase>>
      /\ phase = "find" /\ calls = <<>> /\ ret # NoRet /\ ret.matched /\ ret' = NoRet
      /\ starts' = Starts(ret.pos)
  BY DEF StartFound, FindReady, inputs, IsHit
<1>2. PlanOK /\ starts \in Seq(0 .. Len(text)) /\ answer = "none" /\ starts # <<>>
  BY <1>1 DEF WildcardInv
<1>3. PICK r, root : r = ret /\ root = FindRoot /\ MatcherOK(calls, r, memo, root)
  BY <1>1 DEF WildcardInv, Sure
<1>4. RetOK(r, root)
  BY <1>1, <1>3 DEF MatcherOK, Awaited
<1>5. r.pos \in 0 .. Len(text)
  <2>1. Wants(root) = {r.pos}
    BY <1>1, <1>3, <1>4 DEF RetOK
  <2>2. Wants(root) \in SUBSET (0 .. Len(text))
    BY <1>2, <1>3, FindRootIsPlace
  <2> QED BY <2>1, <2>2
<1>6. Starts(r.pos) \in Seq(0 .. Len(text))
  BY <1>2, <1>5, StartsTyped
<1> QED BY <1>1, <1>2, <1>3, <1>6, SearchGoesOn

(* StartMissed: no match from this start.                                  *)
LEMMA StartMissedKeeps ==
  ASSUME WildcardInv, StartMissed
  PROVE  WildcardInv'
<1>1. /\ UNCHANGED <<pat, text, plan, regex, memo, answer, calls, phase>>
      /\ phase = "find" /\ calls = <<>> /\ ret # NoRet /\ ret' = NoRet /\ starts' = Tail(starts)
  BY DEF StartMissed, FindReady, inputs
<1>2. starts \in Seq(0 .. Len(text)) /\ answer = "none" /\ starts # <<>>
  BY <1>1 DEF WildcardInv
<1>3. Tail(starts) \in Seq(0 .. Len(text))
  BY <1>2
<1> QED BY <1>1, <1>2, <1>3, SearchGoesOn

(* FindEnds: no start is left.                                             *)
LEMMA FindEndsKeeps ==
  ASSUME WildcardInv, FindEnds
  PROVE  WildcardInv'
<1>1. UNCHANGED <<pat, text, plan, regex, memo, answer, calls>> /\ phase = "find" /\ phase' = "done" /\ calls = <<>>
  BY DEF FindEnds, FindReady, inputs
<1>2. answer = "none"
  BY <1>1 DEF WildcardInv
<1> QED BY <1>1, <1>2, StepsIntoDone

(* A step of the matcher, for either of its two callers.                   *)
LEMMA MatcherStepKeeps ==
  ASSUME WildcardInv, Matcher, UNCHANGED <<regex, phase, glob, starts, hit, answer>>
  PROVE  WildcardInv'
<1>1. UNCHANGED <<pat, text, plan>> /\ calls # <<>>
  BY DEF Matcher, MatchOne, PatternEnds, MatchStar, MatchGroup, Try, TryFailed, RestMatched, BranchMatched,
         Running, Retried
<1>2. PlanOK /\ phase \in {"match", "find"} /\ answer = "none"
  BY <1>1 DEF WildcardInv
<1>3. PlanOK' /\ Full' = Full /\ Len(text)' = Len(text)
  BY <1>1, SamePlan
<1>4. ASSUME NEW root, MatcherOK(calls, ret, memo, root)
      PROVE  /\ root = MatchRoot => Sure(MatchRoot)'
             /\ root = FindRoot' => Sure(FindRoot)'
             /\ MemoSure'
  <2>1. MatcherOK(calls', ret', memo', root)
    BY <1>2, <1>4, MatcherKeeps
  <2>2. PICK cs, r, mm : cs = calls' /\ r = ret' /\ mm = memo' /\ MatcherOK(cs, r, mm, root)
    BY <2>1
  <2> QED BY <2>2, <1>1, SureStays
<1>5. CASE phase = "match"
  <2>1. PICK root : root = MatchRoot /\ MatcherOK(calls, ret, memo, root) /\ (Full <=> Wants(root) # {})
    BY <1>5 DEF WildcardInv, Sure, RootSure
  <2>2. Sure(MatchRoot)' /\ MemoSure'
    BY <2>1, <1>4
  <2>3. RootSure'
    BY <2>1, <1>1, RootStays
  <2> QED BY <2>2, <2>3, <1>2, <1>3, <1>5 DEF WildcardInv
<1>6. CASE phase = "find"
  <2>1. PICK root : root = FindRoot /\ MatcherOK(calls, ret, memo, root) /\ starts # <<>>
    BY <1>1, <1>6 DEF WildcardInv, Sure
  <2>2. FindRoot' = root
    BY <2>1, <1>1, SameEnds DEF FindRoot
  <2>3. Sure(FindRoot)' /\ MemoSure'
    BY <2>1, <2>2, <1>4
  <2> QED BY <2>1, <2>3, <1>2, <1>3, <1>6 DEF WildcardInv
<1> QED BY <1>2, <1>5, <1>6

(* A step in which nothing changes.                                        *)
LEMMA NothingHappens ==
  ASSUME WildcardInv, UNCHANGED vars
  PROVE  WildcardInv'
<1>1. UNCHANGED <<pat, text, plan, regex, calls, ret, memo, phase, glob, starts, hit, answer>>
  BY DEF vars
<1>2. PlanOK' /\ Full' = Full /\ is_simple_glob' = is_simple_glob /\ Len(text)' = Len(text)
  BY <1>1, SamePlan
<1>3. MemoSure'
  <2>1. PICK mm : mm = memo /\ MemoOK(mm)
    BY DEF WildcardInv, MemoSure
  <2> QED BY <2>1, <1>1, MemoStays
<1>4. ASSUME NEW root, MatcherOK(calls, ret, memo, root)
      PROVE  /\ root = MatchRoot => Sure(MatchRoot)'
             /\ root = FindRoot' => Sure(FindRoot)'
  <2>1. PICK cs, r, mm : cs = calls' /\ r = ret' /\ mm = memo' /\ MatcherOK(cs, r, mm, root)
    BY <1>1, <1>4
  <2> QED BY <2>1, <1>1, SureStays
<1>5. phase = "match" => Sure(MatchRoot)' /\ RootSure'
  <2>1. ASSUME phase = "match" PROVE Sure(MatchRoot)' /\ RootSure'
    <3>1. PICK root : root = MatchRoot /\ MatcherOK(calls, ret, memo, root) /\ (Full <=> Wants(root) # {})
      BY <2>1 DEF WildcardInv, Sure, RootSure
    <3>2. Sure(MatchRoot)'
      BY <3>1, <1>4
    <3>3. RootSure'
      BY <3>1, <1>1, RootStays
    <3> QED BY <3>2, <3>3
  <2> QED BY <2>1
<1>6. phase = "find" /\ (calls # <<>> \/ ret # NoRet) => Sure(FindRoot)'
  <2>1. ASSUME phase = "find", calls # <<>> \/ ret # NoRet PROVE Sure(FindRoot)'
    <3>1. PICK root : root = FindRoot /\ MatcherOK(calls, ret, memo, root)
      BY <2>1 DEF WildcardInv, Sure
    <3>2. FindRoot' = root
      BY <3>1, <1>1, SameEnds DEF FindRoot
    <3> QED BY <3>1, <3>2, <1>4
  <2> QED BY <2>1
<1>7. phase = "glob" => GlobSure'
  <2>1. ASSUME phase = "glob" PROVE GlobSure'
    <3>1. PICK g : g = glob /\ GlobOK(g)
      BY <2>1 DEF WildcardInv, GlobSure
    <3> QED BY <3>1, <1>1, GlobStays
  <2> QED BY <2>1
<1>8. GlobStart' = GlobStart
  BY DEF GlobStart
<1> QED BY <1>1, <1>2, <1>3, <1>5, <1>6, <1>7, <1>8 DEF WildcardInv

(* Every step keeps the invariant.                                         *)
LEMMA InvIsInductive ==
  ASSUME WildcardInv, [Next]_vars
  PROVE  WildcardInv'
<1>1. CASE Delegate
  BY <1>1, DelegateKeeps
<1>2. CASE StartGlob
  BY <1>2, StartGlobKeeps
<1>3. CASE Reject
  BY <1>3, RejectKeeps
<1>4. CASE StartMatcher
  BY <1>4, StartMatcherKeeps
<1>5. CASE MatchEnds
  BY <1>5, MatchEndsKeeps
<1>6. CASE GlobStar
  BY <1>6, GlobStarKeeps
<1>7. CASE GlobChar
  BY <1>7, GlobCharKeeps
<1>8. CASE GlobRetry
  BY <1>8, GlobRetryKeeps
<1>9. CASE GlobFails
  BY <1>9, GlobFailsKeeps
<1>10. CASE GlobEnds
  BY <1>10, GlobEndsKeeps
<1>11. CASE StartFind
  BY <1>11, StartFindKeeps
<1>12. CASE TryStart
  BY <1>12, TryStartKeeps
<1>13. CASE StartFound
  BY <1>13, StartFoundKeeps
<1>14. CASE StartMissed
  BY <1>14, StartMissedKeeps
<1>15. CASE FindEnds
  BY <1>15, FindEndsKeeps
<1>16. CASE Matcher /\ UNCHANGED <<regex, phase, glob, starts, hit, answer>>
  BY <1>16, MatcherStepKeeps
<1>17. CASE UNCHANGED vars
  BY <1>17, NothingHappens
<1> QED BY <1>1, <1>2, <1>3, <1>4, <1>5, <1>6, <1>7, <1>8, <1>9, <1>10, <1>11, <1>12, <1>13, <1>14,
           <1>15, <1>16, <1>17 DEF Next

(* So it always holds.                                                     *)
LEMMA InvHolds == Spec => []WildcardInv
<1>1. Init => WildcardInv
  BY InitIsSure
<1>2. WildcardInv /\ [Next]_vars => WildcardInv'
  BY InvIsInductive
<1> QED BY <1>1, <1>2, PTL DEF Spec

(* The half of MatchIsRight about the memo.                                *)
RemembersFailures ==
  calls = <<>> =>
    \A entry \in memo :
      LET ends == Ends[<<entry[1][1], entry[1][2], Size>>]
      IN  IF entry[2] THEN ends = <<>> ELSE ~Contains(ends, Len(text))

(* The invariant says so of the memo.                                      *)
LEMMA MemoIsRight ==
  ASSUME WildcardInv
  PROVE  RemembersFailures
<1>1. PlanOK /\ MemoOK(memo)
  BY DEF WildcardInv, MemoSure
<1>2. ASSUME NEW entry \in memo
      PROVE  IF entry[2] THEN Ends[<<entry[1][1], entry[1][2], Size>>] = <<>>
             ELSE ~Contains(Ends[<<entry[1][1], entry[1][2], Size>>], Len(text))
  <2>1. PICK i \in 0 .. Len(text), p \in 0 .. Size, partial \in BOOLEAN :
          entry = <<<<i, p>>, partial>> /\ WantAt(i, p, Size, Len(text), partial) = {}
    BY <1>1 DEF MemoOK
  <2>2. PICK s : s = Ends[<<i, p, Size>>]
    OBVIOUS
  <2>3. s \in Seq(0 .. Len(text))
    <3>1. Size \in 0 .. Size
      BY <1>1, Sizes
    <3> QED BY <2>2, <3>1, <1>1, EndsTyped
  <2>4. entry[1][1] = i /\ entry[1][2] = p /\ entry[2] = partial
    BY <2>1
  <2>5. CASE partial
    <3>1. s = <<>>
      BY <2>1, <2>2, <2>5 DEF WantAt, Want
    <3> QED BY <3>1, <2>2, <2>4, <2>5
  <2>6. CASE ~partial
    <3>1. Len(text) \notin Range(s)
      BY <2>1, <2>2, <2>6 DEF WantAt, Want
    <3>2. ~Contains(s, Len(text))
      BY <3>1, <2>3 DEF Contains, Range
    <3> QED BY <3>2, <2>2, <2>4, <2>6
  <2> QED BY <2>5, <2>6
<1> QED BY <1>2 DEF RemembersFailures

(* The memo of the backtracking matcher: at every moment, what it          *)
(* remembers as failed has no end the call could have wanted, for every    *)
(* pattern and every text, in wildcard_match and in wildcard_find.         *)
THEOREM WhatIsRememberedFailed == Spec => []RemembersFailures
<1>1. WildcardInv => RemembersFailures
  BY MemoIsRight
<1> QED BY <1>1, InvHolds, PTL

(* wildcard_match on every pattern and text, unless it delegates to        *)
(* frozen_regex: the greedy loop, the rejection by prefix and suffix and   *)
(* the backtracking matcher with its memo answer yes exactly for the       *)
(* texts the pattern stands for.                                           *)
THEOREM MatchesRight == Spec => [](~regex.can_delegate => MatchIsRight)
<1>1. WildcardInv => (~regex.can_delegate => MatchIsRight)
  <2> SUFFICES ASSUME WildcardInv, ~regex.can_delegate PROVE MatchIsRight
    OBVIOUS
  <2>1. RemembersFailures
    BY MemoIsRight
  <2>2. answer # "none" => (answer = "yes" <=> Full)
    BY DEF WildcardInv
  <2> QED BY <2>1, <2>2 DEF MatchIsRight, RemembersFailures
<1> QED BY <1>1, InvHolds, PTL
-----------------------------------------------------------------------------
(* What the search finds from a start.                                     *)
WantFrom(s) == WantAt(s, 0, Size, Len(text), TRUE)

(* A start counts when the call made for it finds an end behind it.        *)
LEMMA CountsIs ==
  ASSUME PlanOK, NEW s \in 0 .. Len(text)
  PROVE  /\ \A x : WantFrom(s) = {x} => Head(EndsFrom(s)) = x /\ (Counts(s) <=> pat # <<>> /\ x > s)
         /\ WantFrom(s) = {} => ~Counts(s)
         /\ WantFrom(s) = {} \/ \E x \in EndsAt(s, 0, Size) : WantFrom(s) = {x}
<1>1. PICK list : list = Ends[<<s, 0, Size>>]
  OBVIOUS
<1>2. list \in Seq(0 .. Len(text))
  <2>1. 0 \in 0 .. Size /\ Size \in 0 .. Size
    BY Sizes
  <2> QED BY <2>1, <1>1, EndsTyped
<1>3. EndsFrom(s) = list /\ EndsAt(s, 0, Size) = Range(list)
  BY <1>1 DEF EndsFrom, EndsAt
<1>4. WantFrom(s) = IF list = <<>> THEN {} ELSE {Head(list)}
  BY <1>1 DEF WantFrom, WantAt, Want
<1>5. list # <<>> => Head(list) \in Range(list)
  <2>1. ASSUME list # <<>> PROVE Head(list) \in Range(list)
    <3>1. 1 \in DOMAIN list /\ Head(list) = list[1]
      BY <1>2, <2>1
    <3> QED BY <3>1 DEF Range
  <2> QED BY <2>1
<1>6. Counts(s) <=> pat # <<>> /\ list # <<>> /\ Head(list) > s
  BY <1>3 DEF Counts
<1> QED BY <1>3, <1>4, <1>5, <1>6

(* What begins with something literal is found only where that stands.     *)
LEMMA PlainFrom ==
  ASSUME PlanOK, NEW i \in 0 .. Len(text), NEW p \in 0 .. Size, NEW e \in 0 .. Size, p <= e,
         Plain(p, e)
  PROVE  WantAt(i, p, Size, Len(text), TRUE) # {} => Reads(i, p, e)
<1>1. PICK q \in 0 .. Size : q = Size /\ e <= q
  <2>1. Size \in 0 .. Size /\ e <= Size
    BY Sizes
  <2> QED BY <2>1
<1>2. PICK n : n = Len(text)
  OBVIOUS
<1>2a. PICK partial \in BOOLEAN : partial = TRUE
  OBVIOUS
<1>3. WantAt(i, p, q, n, partial) = IF Reads(i, p, e) THEN WantAt(i + (e - p), e, q, n, partial) ELSE {}
  BY <1>1, PlainWants
<1>4. WantAt(i, p, Size, Len(text), TRUE) = WantAt(i, p, q, n, partial)
  BY <1>1, <1>2, <1>2a
<1> QED BY <1>3, <1>4

(* text.find tries every place where the literal part stands, from left to *)
(* right.                                                                  *)
Finds(list, p, e, from) ==
  \E m \in Nat : /\ list \in [1 .. m -> from .. Len(text)]
                 /\ \A j, k \in 1 .. m : j < k => list[j] < list[k]
                 /\ \A i \in from .. Len(text) : Reads(i, p, e) => \E k \in 1 .. m : list[k] = i

(* Found is such a list.                                                   *)
LEMMA FoundFinds ==
  ASSUME PlanOK, NEW p \in Nat, NEW e \in Nat, p <= e, NEW from \in Nat
  PROVE  Finds(Found(p, e, from, Len(text)), p, e, from)
<1>0. Len(text) \in Nat
  BY Sizes
<1>1. PICK n \in Nat, w \in Nat : n = Len(text) /\ w = e - p
  BY <1>0
<1>2. PICK S : S = {k \in from .. n - w : \A j \in 0 .. w - 1 : T(k + j) = P(p + j)}
  OBVIOUS
<1>3. S \in SUBSET (from .. n) /\ S \in SUBSET Int
  BY <1>2
<1>4. IsFiniteSet(S)
  <2>1. IsFiniteSet(from .. n)
    BY FS_Interval
  <2> QED BY <2>1, <1>3, FS_Subset
<1>5. PICK list, m : list = InOrder(S) /\ m = Cardinality(S)
  OBVIOUS
<1>6. /\ m \in Nat /\ list \in [1 .. m -> S]
      /\ \A x \in S : \E k \in 1 .. m : list[k] = x
      /\ \A j, k \in 1 .. m : j < k => list[j] < list[k]
  BY <1>3, <1>4, <1>5, InOrderLists
<1>7. list \in [1 .. m -> from .. Len(text)]
  <2>1. \A k \in 1 .. m : list[k] \in from .. Len(text)
    BY <1>1, <1>3, <1>6
  <2>2. list = [k \in 1 .. m |-> list[k]]
    BY <1>6
  <2> QED BY <2>1, <2>2
<1>8. \A i \in from .. Len(text) : Reads(i, p, e) => \E k \in 1 .. m : list[k] = i
  <2>1. ASSUME NEW i \in from .. Len(text), Reads(i, p, e) PROVE i \in S
    <3>1. i + w <= n /\ \A k \in p .. e - 1 : T(i + (k - p)) = P(k)
      BY <1>1, <2>1 DEF Reads
    <3>2. ASSUME NEW j \in 0 .. w - 1 PROVE T(i + j) = P(p + j)
      <4>1. PICK k \in p .. e - 1 : k = p + j
        BY <1>1
      <4>2. i + (k - p) = i + j
        BY <4>1
      <4>3. T(i + (k - p)) = P(k)
        BY <3>1
      <4> QED BY <4>1, <4>2, <4>3
    <3>3. i \in from .. n - w
      BY <3>1, <1>1
    <3> QED BY <3>2, <3>3, <1>2
  <2> QED BY <2>1, <1>6
<1>9. Found(p, e, from, Len(text)) = list
  BY <1>1, <1>2, <1>5 DEF Found
<1> QED BY <1>6, <1>7, <1>8, <1>9 DEF Finds

(* A simple glob that stands for nothing is stars alone.                   *)
LEMMA EmptyIsStars ==
  ASSUME PlanOK, is_simple_glob, NEW i \in 0 .. Len(text), i \in EndsAt(i, 0, Size)
  PROVE  \A k \in 0 .. Size - 1 : P(k) = "*"
<1>0. Size \in Nat /\ Len(text) \in Nat
  BY Sizes
<1> DEFINE Stars(p) == p \in 0 .. Size /\ i \in EndsAt(i, p, Size) /\ \A k \in 0 .. p - 1 : P(k) = "*"
           Far == {p \in Nat : p <= Size => Stars(p)}
<1>1. 0 \in Far
  BY <1>0
<1>2. ASSUME NEW p \in Nat, p \in Far PROVE p + 1 \in Far
  <2> SUFFICES ASSUME p + 1 <= Size PROVE Stars(p + 1)
    OBVIOUS
  <2>1. PICK q \in 0 .. Size, a \in 0 .. Size, b \in 0 .. Size : q = Size /\ a = p /\ b = p + 1 /\ a < q
    BY <1>0
  <2>2. i \in EndsAt(i, a, q) /\ \A k \in 0 .. p - 1 : P(k) = "*"
    BY <1>0, <1>2, <2>1
  <2>3. CASE P(a) = "*"
    <3>1. PICK k \in i .. Len(text) : i \in EndsAt(k, a + 1, q)
      BY <2>1, <2>2, <2>3, EndsOfStars
    <3>2. k \in 0 .. Len(text) /\ i \in EndsAt(k, b, q)
      BY <3>1, <2>1, <1>0
    <3>3. i \in k .. Len(text)
      BY <3>2, EndsFollow
    <3>4. k = i
      BY <3>1, <3>3, <1>0
    <3> QED BY <3>2, <3>4, <2>1, <2>2, <2>3
  <2>4. CASE P(a) # "*"
    <3>1. P(a) # "("
      <4>1. a \in 0 .. Size - 1
        BY <1>0, <2>1
      <4> QED BY <4>1, GlobPlain
    <3>2. ~IsGroup(a, q)
      BY <3>1 DEF IsGroup
    <3>3. PICK n, partial : partial \in BOOLEAN
      OBVIOUS
    <3>4. EndsAt(i, a, q) = IF i < Len(text) /\ T(i) \in OneChar(a, q).chars
                            THEN EndsAt(i + 1, OneChar(a, q).next, q) ELSE {}
      BY <2>1, <2>4, <3>2, <3>3, CharWants
    <3>5. i < Len(text) /\ T(i) \in OneChar(a, q).chars /\ i \in EndsAt(i + 1, OneChar(a, q).next, q)
      BY <3>4, <2>2
    <3>6. OneChar(a, q).next \in a + 1 .. q
      BY <3>5, <2>1, OneCharNext
    <3>7. PICK j \in 0 .. Len(text), c \in 0 .. Size : j = i + 1 /\ c = OneChar(a, q).next
      BY <3>5, <3>6, <2>1, <1>0
    <3>8. i \in EndsAt(j, c, q)
      BY <3>5, <3>7
    <3>9. i \in j .. Len(text)
      BY <3>8, EndsFollow
    <3> QED BY <3>7, <3>9, <1>0
  <2> QED BY <2>3, <2>4
<1>3. Nat \subseteq Far
  <2> HIDE DEF Far
  <2> QED BY <1>1, <1>2, SetInduction
<1>4. Stars(Size)
  BY <1>0, <1>3
<1> QED BY <1>4

(* Stars alone match the empty text first, from every start.               *)
LEMMA StarsFindNothing ==
  ASSUME PlanOK, NEW s \in 0 .. Len(text), Size > 0, \A k \in 0 .. Size - 1 : P(k) = "*"
  PROVE  WantFrom(s) = {s}
<1>0. Size \in Nat /\ Len(text) \in Nat
  BY Sizes
<1>1. PICK c : c = Call(Len(text), s, 0, Size, TRUE)
  OBVIOUS
<1>2. c.n = Len(text) /\ c.ti = s /\ c.pi = 0 /\ c.pi_end = Size /\ c.partial = TRUE
  BY <1>1 DEF Call
<1>3. PlaceOK(c)
  <2>1. /\ c.n \in 0 .. Len(text) /\ c.ti \in 0 .. Len(text) /\ c.pi \in 0 .. Size
        /\ c.pi_end \in 0 .. Size /\ c.pi <= c.pi_end /\ c.ti <= c.n /\ c.n = Len(text)
    BY <1>0, <1>2
  <2>2. c.partial \in BOOLEAN /\ c.pi_end = Size
    BY <1>2
  <2> QED BY <2>1, <2>2 DEF PlaceOK
<1>4. c.pi < c.pi_end /\ \A k \in c.pi .. c.pi_end - 1 : P(k) = "*"
  BY <1>2
<1>5. Wants(c) = {IF c.partial THEN c.ti ELSE c.n}
  BY <1>3, <1>4, StarsAtEnd
<1>6. Wants(c) = WantFrom(s)
  BY <1>2 DEF Wants, WantFrom
<1> QED BY <1>2, <1>5, <1>6

(* Of a simple glob that begins with a star one start is tried: if a later *)
(* one counts, so does the first.                                          *)
LEMMA OneStart ==
  ASSUME PlanOK, is_simple_glob, pat # <<>>, P(0) = "*",
         NEW from \in 0 .. Len(text), NEW s \in from .. Len(text), Counts(s)
  PROVE  Counts(from)
<1>0. Size \in Nat /\ Len(text) \in Nat /\ Size > 0 /\ s \in 0 .. Len(text)
  <2>1. Size \in Nat /\ Len(text) \in Nat
    BY Sizes
  <2>2. Size # 0
    BY DEF Size, PlanOK
  <2> QED BY <2>1, <2>2
<1>1. PICK x \in EndsAt(s, 0, Size) : WantFrom(s) = {x} /\ x > s
  BY <1>0, CountsIs
<1>2. PICK a \in 0 .. Size, q \in 0 .. Size : a = 0 /\ q = Size /\ a < q
  BY <1>0
<1>3. PICK k \in s .. Len(text) : x \in EndsAt(k, a + 1, q)
  BY <1>0, <1>1, <1>2, EndsOfStars
<1>4. x \in EndsAt(from, a, q)
  <2>1. k \in from .. Len(text)
    BY <1>0, <1>3
  <2> QED BY <2>1, <1>2, <1>3, EndsOfStars
<1>5. PICK y \in EndsAt(from, 0, Size) : WantFrom(from) = {y}
  <2>1. PICK partial \in BOOLEAN : partial = TRUE
    OBVIOUS
  <2>2. PICK n : n = Len(text)
    OBVIOUS
  <2>3. EndsAt(from, a, q) = {} <=> WantAt(from, a, q, n, partial) = {}
    BY <2>1, WantTyped, ZenonT(60)
  <2>4. WantFrom(from) # {}
    BY <2>1, <2>2, <2>3, <1>2, <1>4 DEF WantFrom
  <2> QED BY <2>4, CountsIs
<1>6. y \in from .. Len(text)
  <2>1. y \in EndsAt(from, a, q)
    BY <1>2, <1>5
  <2> QED BY <2>1, EndsFollow
<1>7. y # from
  <2> SUFFICES ASSUME y = from PROVE FALSE
    OBVIOUS
  <2>1. from \in EndsAt(from, 0, Size)
    BY <1>5
  <2>2. \A j \in 0 .. Size - 1 : P(j) = "*"
    BY <2>1, EmptyIsStars
  <2>3. WantFrom(s) = {s}
    BY <2>2, <1>0, StarsFindNothing
  <2> QED BY <2>3, <1>0, <1>1
<1>8. Counts(from) <=> pat # <<>> /\ y > from
  BY <1>5, CountsIs
<1> QED BY <1>6, <1>7, <1>8

(* What wildcard_find_from has yet to try from a position on: starts from  *)
(* left to right, and of those that count, none before the first that is   *)
(* tried.                                                                  *)
LeftToTry(list, from) ==
  /\ list \in Seq(from .. Len(text))
  /\ \A j, k \in 1 .. Len(list) : j < k => list[j] < list[k]
  /\ list # <<>> => pat # <<>>
  /\ \A s \in from .. Len(text) : Counts(s) => \E k \in 1 .. Len(list) : list[k] <= s /\ Counts(list[k])

(* Nothing is tried, because nothing counts.                               *)
LEMMA NothingLeft ==
  ASSUME NEW from, \A s \in from .. Len(text) : ~Counts(s)
  PROVE  LeftToTry(<<>>, from)
<1>1. PICK none : none = <<>>
  OBVIOUS
<1>2. none \in Seq(from .. Len(text)) /\ Len(none) = 0
  BY <1>1
<1> QED BY <1>1, <1>2 DEF LeftToTry

(* Every place of a list is tried that has every start that counts.        *)
LEMMA ListLeft ==
  ASSUME PlanOK, pat # <<>>, NEW from, NEW m \in Nat, NEW list \in [1 .. m -> from .. Len(text)],
         \A j, k \in 1 .. m : j < k => list[j] < list[k],
         \A s \in from .. Len(text) : Counts(s) => \E k \in 1 .. m : list[k] = s
  PROVE  LeftToTry(list, from)
<1>1. list \in Seq(from .. Len(text)) /\ Len(list) = m
  <2>1. PICK X : X = from .. Len(text)
    OBVIOUS
  <2>2. list \in [1 .. m -> X]
    BY <2>1
  <2>3. list \in Seq(X) /\ Len(list) = m
    BY <2>2
  <2> QED BY <2>1, <2>3
<1>2. ASSUME NEW s \in from .. Len(text), Counts(s)
      PROVE  \E k \in 1 .. m : list[k] <= s /\ Counts(list[k])
  <2>1. PICK k \in 1 .. m : list[k] = s
    BY <1>2
  <2> QED BY <2>1, <1>2
<1> QED BY <1>1, <1>2 DEF LeftToTry

(* Starts leaves out no start that counts before the first it tries: a     *)
(* literal beginning is looked for, a glob with a star is tried once or,   *)
(* when what must follow the star is nowhere, not at all.                  *)
LEMMA StartsSuffice ==
  ASSUME PlanOK, NEW from \in 0 .. Len(text)
  PROVE  LeftToTry(Starts(from), from)
<1>0. Size \in Nat /\ Len(text) \in Nat /\ from \in Nat
  BY Sizes
<1>1. Prefix \in 0 .. Size /\ Plain(0, Prefix)
  <2>1. 0 \in Nat /\ 0 <= Size
    BY <1>0
  <2> QED BY <2>1, <1>0, ChunkEndIs DEF Prefix
<1>2. CASE pat = <<>>
  <2>1. Starts(from) = <<>>
    BY <1>2 DEF Starts
  <2>2. \A s \in from .. Len(text) : ~Counts(s)
    BY <1>2 DEF Counts
  <2> QED BY <2>1, <2>2, NothingLeft
<1>3. CASE pat # <<>> /\ Prefix > 0
  <2>1. PICK p \in 0 .. Size, e \in 0 .. Size : p = 0 /\ e = Prefix /\ p <= e /\ Plain(p, e)
    BY <1>0, <1>1
  <2>2. PICK list : list = Found(p, e, from, Len(text))
    OBVIOUS
  <2>3. Starts(from) = list
    BY <2>1, <2>2, <1>3 DEF Starts
  <2>4. p \in Nat /\ e \in Nat
    BY <1>0
  <2>5. Finds(list, p, e, from)
    BY <2>1, <2>2, <2>4, <1>0, FoundFinds
  <2>6. ASSUME NEW s \in from .. Len(text), Counts(s) PROVE Reads(s, p, e)
    <3>1. s \in 0 .. Len(text)
      BY <1>0
    <3>2. WantFrom(s) # {}
      BY <3>1, <2>6, CountsIs
    <3>3. WantAt(s, p, Size, Len(text), TRUE) # {}
      BY <3>2, <2>1 DEF WantFrom
    <3> QED BY <3>1, <3>3, <2>1, PlainFrom
  <2>7. PICK m \in Nat : /\ list \in [1 .. m -> from .. Len(text)]
                         /\ \A j, k \in 1 .. m : j < k => list[j] < list[k]
                         /\ \A i \in from .. Len(text) : Reads(i, p, e) => \E k \in 1 .. m : list[k] = i
    BY <2>5 DEF Finds
  <2>8. LeftToTry(list, from)
    BY <2>6, <2>7, <1>3, ListLeft, ZenonT(60)
  <2> QED BY <2>3, <2>8
<1>4. CASE pat # <<>> /\ ~(Prefix > 0) /\ is_simple_glob /\ P(0) = "*"
  <2>0. Size > 0
    BY <1>0, <1>4 DEF Size, PlanOK
  <2>1. Starts(from) = IF AnchorMissing(from) THEN <<>> ELSE <<from>>
    BY <1>4 DEF Starts
  <2>2. CASE AnchorMissing(from)
    <3>1. PICK r, e : r = AfterStars(0, Size) /\ e = ChunkEnd(r, Size)
      OBVIOUS
    <3>2. e > r /\ Found(r, e, from, Len(text)) = <<>>
      BY <2>2, <3>1 DEF AnchorMissing
    <3>3. r \in 0 .. Size /\ r # 0 /\ \A k \in 0 .. r - 1 : P(k) = "*"
      <4>1. 0 \in Nat /\ 0 <= Size
        BY <1>0
      <4>2. \E x \in 0 .. Size : /\ AfterStars(0, Size) = x
                                 /\ \A k \in 0 .. x - 1 : P(k) = "*"
                                 /\ x = Size \/ P(x) # "*"
        BY <4>1, <1>0, AfterStarsIs
      <4> QED BY <4>2, <3>1, <2>0, <1>4
    <3>4. r \in Nat /\ e \in r .. Size /\ Plain(r, e)
      <4>1. r \in Nat /\ r <= Size
        BY <3>3, <1>0
      <4> QED BY <4>1, <3>1, <1>0, ChunkEndIs
    <3>5. Finds(Found(r, e, from, Len(text)), r, e, from)
      <4>1. e \in Nat /\ r <= e
        BY <3>4, <1>0
      <4> QED BY <4>1, <3>4, <1>0, FoundFinds
    <3>6. \A i \in from .. Len(text) : ~Reads(i, r, e)
      <4>1. PICK none : none = Found(r, e, from, Len(text)) /\ none = <<>>
        BY <3>2
      <4>2. PICK m \in Nat : /\ none \in [1 .. m -> from .. Len(text)]
                             /\ \A i \in from .. Len(text) : Reads(i, r, e) => \E k \in 1 .. m : none[k] = i
        BY <4>1, <3>5 DEF Finds
      <4>3. m = 0
        BY <4>1, <4>2
      <4> QED BY <4>2, <4>3
    <3>7. ASSUME NEW s \in from .. Len(text) PROVE ~Counts(s)
      <4> SUFFICES ASSUME WantFrom(s) # {} PROVE FALSE
        <5>1. s \in 0 .. Len(text)
          BY <1>0
        <5> QED BY <5>1, CountsIs
      <4>1. PICK i \in 0 .. Len(text), a \in 0 .. Size, b \in 0 .. Size, q \in 0 .. Size :
              i = s /\ a = 0 /\ b = r /\ q = Size /\ a < b /\ b <= q
        BY <1>0, <3>3
      <4>2. PICK partial \in BOOLEAN : partial = TRUE
        OBVIOUS
      <4>3. PICK n : n = Len(text)
        OBVIOUS
      <4>4. \A k \in a .. b - 1 : P(k) = "*"
        BY <4>1, <3>3
      <4>5. FirstEnd(i .. Len(text), b, q, n, partial, WantAt(i, a, q, n, partial))
        BY <4>1, <4>4, StarsWant
      <4>6. WantAt(i, a, q, n, partial) # {}
        BY <4>1, <4>2, <4>3 DEF WantFrom
      <4>7. PICK k \in i .. Len(text) : WantAt(k, b, q, n, partial) # {}
        BY <4>5, <4>6 DEF FirstEnd
      <4>8. k \in 0 .. Len(text) /\ k \in from .. Len(text)
        BY <4>1, <4>7, <1>0
      <4>9. PICK f \in 0 .. Size : f = e /\ b <= f /\ Plain(b, f)
        BY <4>1, <3>4, <1>0
      <4>10. WantAt(k, b, Size, Len(text), TRUE) # {}
        BY <4>1, <4>2, <4>3, <4>7
      <4>11. Reads(k, b, f)
        BY <4>8, <4>9, <4>10, PlainFrom
      <4> QED BY <4>1, <4>8, <4>9, <4>11, <3>6
    <3> QED BY <3>7, <2>1, <2>2, NothingLeft
  <2>3. CASE ~AnchorMissing(from)
    <3>1. PICK list : list = <<from>>
      OBVIOUS
    <3>2. list \in Seq(from .. Len(text)) /\ Len(list) = 1 /\ list[1] = from
      BY <3>1, <1>0
    <3>3. ASSUME NEW s \in from .. Len(text), Counts(s)
          PROVE  \E k \in 1 .. Len(list) : list[k] <= s /\ Counts(list[k])
      <4>1. Counts(from)
        BY <3>3, <1>4, OneStart
      <4>2. list[1] <= s /\ Counts(list[1])
        BY <4>1, <3>2, <1>0
      <4> QED BY <4>2, <3>2
    <3>4. LeftToTry(list, from)
      BY <3>2, <3>3, <1>4 DEF LeftToTry
    <3> QED BY <3>1, <3>4, <2>1, <2>3
  <2> QED BY <2>2, <2>3
<1>5. CASE pat # <<>> /\ ~(Prefix > 0) /\ ~(is_simple_glob /\ P(0) = "*")
  <2>1. PICK m \in Nat : m = Len(text) - from + 1
    BY <1>0, SMTT(40)
  <2>2. PICK list : list = EveryStart(from)
    OBVIOUS
  <2>3. list = [k \in 1 .. m |-> from + k - 1]
    BY <2>1, <2>2 DEF EveryStart
  <2>4. \A k \in 1 .. m : from + k - 1 \in from .. Len(text)
    BY <2>1, <1>0
  <2>5. list \in [1 .. m -> from .. Len(text)] /\ \A j, k \in 1 .. m : j < k => list[j] < list[k]
    BY <2>3, <2>4, <1>0
  <2>6. ASSUME NEW s \in from .. Len(text) PROVE \E k \in 1 .. m : list[k] = s
    <3>1. s - from + 1 \in 1 .. m /\ from + (s - from + 1) - 1 = s
      BY <2>1, <1>0
    <3> QED BY <3>1, <2>3
  <2>7. LeftToTry(list, from)
    BY <2>5, <2>6, <1>5, ListLeft, SMTT(40)
  <2>8. Starts(from) = list
    BY <2>2, <1>5 DEF Starts
  <2> QED BY <2>7, <2>8
<1> QED BY <1>2, <1>3, <1>4, <1>5
-----------------------------------------------------------------------------
(* The search, between any two steps.                                      *)
SearchSure(list, behind) == behind \in 0 .. Len(text) /\ LeftToTry(list, behind)

SearchInv ==
  /\ WildcardInv
  /\ phase = "ready" => hit.end = 0
  /\ phase = "find" => \E list, behind : list = starts /\ behind = hit.end /\ SearchSure(list, behind)

(* What is sure of the search depends on pattern and text alone.           *)
LEMMA SameSearch ==
  ASSUME UNCHANGED <<pat, text, plan>>
  PROVE  /\ \A s : Counts(s)' = Counts(s)
         /\ \A list, behind : SearchSure(list, behind)' = SearchSure(list, behind)
<1>1. Ends' = Ends /\ Size' = Size /\ Len(text)' = Len(text)
  BY SameEnds
<1> QED BY <1>1 DEF SearchSure, LeftToTry, Counts, EndsFrom

(* A step outside the search, or one that leaves it where it is.           *)
LEMMA SearchStays ==
  ASSUME SearchInv, WildcardInv', UNCHANGED <<pat, text, plan, hit>>,
         phase' \notin {"ready", "find"} \/ UNCHANGED <<phase, starts>>
  PROVE  SearchInv'
BY SameSearch DEF SearchInv

(* What the call returned says whether the first start counts.             *)
LEMMA HitCounts ==
  ASSUME WildcardInv, phase = "find", calls = <<>>, ret # NoRet
  PROVE  /\ starts # <<>> /\ Head(starts) \in 0 .. Len(text)
         /\ pat # <<>> => (IsHit <=> Counts(Head(starts)))
         /\ IsHit => ret.pos = Head(EndsFrom(Head(starts))) /\ ret.pos \in 0 .. Len(text)
<1>0. PlanOK
  BY DEF WildcardInv
<1>1. starts \in Seq(0 .. Len(text)) /\ starts # <<>>
  BY DEF WildcardInv
<1>2. PICK r, root : r = ret /\ root = FindRoot /\ MatcherOK(calls, r, memo, root)
  BY DEF WildcardInv, Sure
<1>3. RetOK(r, root)
  BY <1>2 DEF MatcherOK, Awaited
<1>4. PICK s \in 0 .. Len(text) : s = Head(starts)
  BY <1>1
<1>5. Wants(root) = WantFrom(s)
  <2>1. root.n = Len(text) /\ root.ti = s /\ root.pi = 0 /\ root.pi_end = Size /\ root.partial = TRUE
    BY <1>2, <1>4 DEF FindRoot, Call
  <2> QED BY <2>1 DEF Wants, WantFrom
<1>6. WantFrom(s) = IF r.matched THEN {r.pos} ELSE {}
  BY <1>3, <1>5 DEF RetOK
<1>7. IsHit <=> r.matched /\ r.pos > s
  BY <1>2, <1>4 DEF IsHit
<1>8. CASE r.matched
  <2>1. PICK x \in EndsAt(s, 0, Size) : WantFrom(s) = {x}
    BY <1>0, <1>6, <1>8, CountsIs
  <2>2. x = r.pos
    BY <2>1, <1>6, <1>8
  <2>3. Head(EndsFrom(s)) = x /\ (Counts(s) <=> pat # <<>> /\ x > s)
    BY <1>0, <2>1, CountsIs
  <2>4. x \in 0 .. Len(text)
    <3>1. 0 \in 0 .. Size /\ Size \in 0 .. Size
      BY <1>0, Sizes
    <3>2. x \in s .. Len(text)
      BY <3>1, <2>1, <1>0, EndsFollow
    <3> QED BY <3>2
  <2> QED BY <2>2, <2>3, <2>4, <1>1, <1>2, <1>4, <1>7, <1>8
<1>9. CASE ~r.matched
  <2>1. ~Counts(s)
    BY <1>0, <1>6, <1>9, CountsIs
  <2> QED BY <2>1, <1>1, <1>4, <1>7, <1>9
<1> QED BY <1>8, <1>9

(* What a step of the search may report.                                   *)
NextHit ==
  /\ hit' # hit =>
       /\ hit'.start >= hit.end /\ Counts(hit'.start)
       /\ hit'.end = Head(EndsFrom(hit'.start))
       /\ \A start \in hit.end .. hit'.start - 1 : ~Counts(start)
  /\ phase = "find" /\ phase' = "done" =>
       \A start \in hit.end .. Len(text) : ~Counts(start)

(* StartFind: everything is left to try.                                   *)
LEMMA StartFindSearches ==
  ASSUME SearchInv, WildcardInv', StartFind
  PROVE  SearchInv' /\ NextHit
<1>1. /\ UNCHANGED <<pat, text, plan, hit>> /\ phase = "ready" /\ phase' = "find" /\ starts' = Starts(0)
      /\ hit.end = 0 /\ PlanOK
  BY DEF StartFind, inputs, SearchInv, WildcardInv
<1>2. PICK list, behind : list = Starts(behind) /\ behind = 0
  OBVIOUS
<1>3. behind \in 0 .. Len(text)
  BY <1>1, <1>2, Sizes
<1>4. SearchSure(list, behind)
  BY <1>1, <1>2, <1>3, StartsSuffice DEF SearchSure
<1>5. SearchSure(list, behind)'
  BY <1>1, <1>4, SameSearch
<1>6. list = starts' /\ behind = hit'.end
  BY <1>1, <1>2
<1> QED BY <1>1, <1>5, <1>6 DEF SearchInv, NextHit

(* StartFound: the first start that counts, and the search goes on behind  *)
(* it.                                                                     *)
LEMMA StartFoundSearches ==
  ASSUME SearchInv, WildcardInv', StartFound
  PROVE  SearchInv' /\ NextHit
<1>1. /\ UNCHANGED <<pat, text, plan, phase>> /\ phase = "find" /\ calls = <<>> /\ ret # NoRet /\ IsHit
      /\ hit' = [start |-> Head(starts), end |-> ret.pos] /\ starts' = Starts(ret.pos)
      /\ PlanOK /\ WildcardInv
  BY DEF StartFound, FindReady, inputs, SearchInv, WildcardInv
<1>2. PICK list, behind : list = starts /\ behind = hit.end /\ SearchSure(list, behind)
  BY <1>1 DEF SearchInv
<1>3. /\ list \in Seq(behind .. Len(text)) /\ list # <<>> /\ pat # <<>> /\ behind \in 0 .. Len(text)
      /\ \A j, k \in 1 .. Len(list) : j < k => list[j] < list[k]
      /\ \A s \in behind .. Len(text) : Counts(s) => \E k \in 1 .. Len(list) : list[k] <= s /\ Counts(list[k])
  BY <1>1, <1>2, HitCounts DEF SearchSure, LeftToTry
<1>4. PICK s, x : s = Head(starts) /\ x = ret.pos
  OBVIOUS
<1>5. Counts(s) /\ x = Head(EndsFrom(s)) /\ x \in 0 .. Len(text)
  BY <1>1, <1>3, <1>4, HitCounts
<1>6. s = list[1] /\ s \in behind .. Len(text) /\ Len(list) >= 1
  BY <1>2, <1>3, <1>4
<1>7. hit'.start = s /\ hit'.end = x
  BY <1>1, <1>4
<1>8. ASSUME NEW start \in behind .. s - 1 PROVE ~Counts(start)
  <2> SUFFICES ASSUME Counts(start) PROVE FALSE
    OBVIOUS
  <2>1. start \in behind .. Len(text)
    BY <1>3, <1>6
  <2>2. PICK k \in 1 .. Len(list) : list[k] <= start
    BY <2>1, <1>3
  <2>3. list[k] >= s
    BY <1>3, <1>6
  <2> QED BY <2>2, <2>3, <1>3, <1>6
<1>9. NextHit
  <2>1. s >= behind
    BY <1>3, <1>6
  <2> QED BY <2>1, <1>1, <1>2, <1>5, <1>7, <1>8 DEF NextHit
<1>10. PICK todo : todo = Starts(x)
  OBVIOUS
<1>11. SearchSure(todo, x)
  BY <1>1, <1>5, <1>10, StartsSuffice DEF SearchSure
<1>12. SearchSure(todo, x)' /\ todo = starts' /\ x = hit'.end
  BY <1>1, <1>4, <1>7, <1>10, <1>11, SameSearch
<1> QED BY <1>1, <1>9, <1>12 DEF SearchInv

(* StartMissed: the first start does not count.                            *)
LEMMA StartMissedSearches ==
  ASSUME SearchInv, WildcardInv', StartMissed
  PROVE  SearchInv' /\ NextHit
<1>1. /\ UNCHANGED <<pat, text, plan, phase, hit>> /\ phase = "find" /\ calls = <<>> /\ ret # NoRet /\ ~IsHit
      /\ starts' = Tail(starts) /\ WildcardInv
  BY DEF StartMissed, FindReady, inputs, SearchInv
<1>2. PICK list, behind : list = starts /\ behind = hit.end /\ SearchSure(list, behind)
  BY <1>1 DEF SearchInv
<1>3. /\ list \in Seq(behind .. Len(text)) /\ list # <<>> /\ pat # <<>> /\ behind \in 0 .. Len(text)
      /\ \A j, k \in 1 .. Len(list) : j < k => list[j] < list[k]
      /\ \A s \in behind .. Len(text) : Counts(s) => \E k \in 1 .. Len(list) : list[k] <= s /\ Counts(list[k])
  BY <1>1, <1>2, HitCounts DEF SearchSure, LeftToTry
<1>4. ~Counts(list[1])
  <2>1. ~Counts(Head(starts))
    BY <1>1, <1>3, HitCounts
  <2> QED BY <2>1, <1>2, <1>3
<1>5. PICK rest : rest = Tail(list)
  OBVIOUS
<1>6. rest \in Seq(behind .. Len(text)) /\ Len(rest) = Len(list) - 1 /\ \A k \in 1 .. Len(rest) : rest[k] = list[k + 1]
  BY <1>3, <1>5
<1>7. \A j, k \in 1 .. Len(rest) : j < k => rest[j] < rest[k]
  <2> SUFFICES ASSUME NEW j \in 1 .. Len(rest), NEW k \in 1 .. Len(rest), j < k PROVE rest[j] < rest[k]
    OBVIOUS
  <2>1. j + 1 \in 1 .. Len(list) /\ k + 1 \in 1 .. Len(list) /\ j + 1 < k + 1
    BY <1>3, <1>6
  <2> QED BY <2>1, <1>3, <1>6
<1>8. ASSUME NEW s \in behind .. Len(text), Counts(s)
      PROVE  \E k \in 1 .. Len(rest) : rest[k] <= s /\ Counts(rest[k])
  <2>1. PICK k \in 1 .. Len(list) : list[k] <= s /\ Counts(list[k])
    BY <1>3, <1>8
  <2>2. k # 1
    BY <2>1, <1>4
  <2>3. PICK j \in 1 .. Len(rest) : k = j + 1
    BY <2>2, <1>3, <1>6
  <2>4. rest[j] = list[k]
    BY <2>3, <1>6
  <2> QED BY <2>1, <2>4
<1>9. SearchSure(rest, behind)
  BY <1>3, <1>6, <1>7, <1>8 DEF SearchSure, LeftToTry
<1>10. SearchSure(rest, behind)' /\ rest = starts' /\ behind = hit'.end
  BY <1>1, <1>2, <1>5, <1>9, SameSearch
<1> QED BY <1>1, <1>10 DEF SearchInv, NextHit

(* FindEnds: nothing is left, so nothing counts.                           *)
LEMMA FindEndsSearches ==
  ASSUME SearchInv, WildcardInv', FindEnds
  PROVE  SearchInv' /\ NextHit
<1>1. UNCHANGED <<pat, text, plan, hit>> /\ phase = "find" /\ phase' = "done" /\ starts = <<>>
  BY DEF FindEnds, FindReady, inputs
<1>2. PICK list, behind : list = starts /\ behind = hit.end /\ SearchSure(list, behind)
  BY <1>1 DEF SearchInv
<1>3. Len(list) = 0
  BY <1>1, <1>2
<1>4. \A s \in behind .. Len(text) : ~Counts(s)
  BY <1>2, <1>3 DEF SearchSure, LeftToTry
<1>5. NextHit
  BY <1>1, <1>2, <1>4 DEF NextHit
<1>6. SearchInv'
  BY <1>1, SearchStays
<1> QED BY <1>5, <1>6

(* The steps of wildcard_match and of the matcher report nothing.          *)
LEMMA OthersSearch ==
  ASSUME SearchInv, WildcardInv', UNCHANGED <<pat, text, plan, hit>>,
         \/ phase # "find" /\ phase' \notin {"ready", "find"}
         \/ UNCHANGED <<phase, starts>>
  PROVE  SearchInv' /\ NextHit
<1>1. SearchInv'
  BY SearchStays
<1> QED BY <1>1 DEF NextHit

(* Every step keeps what is sure of the search and reports the next        *)
(* match.                                                                  *)
LEMMA SearchKeeps ==
  ASSUME SearchInv, [Next]_vars
  PROVE  SearchInv' /\ NextHit
<1>1. WildcardInv'
  BY InvIsInductive DEF SearchInv
<1>2. CASE Delegate \/ StartGlob \/ Reject \/ StartMatcher \/ MatchEnds
  BY <1>1, <1>2, OthersSearch DEF Delegate, StartGlob, Reject, StartMatcher, MatchEnds, Answer, inputs
<1>3. CASE GlobStar \/ GlobChar \/ GlobRetry \/ GlobFails \/ GlobEnds
  <2>1. /\ UNCHANGED <<pat, text, plan, hit>>
        /\ \/ phase # "find" /\ phase' \notin {"ready", "find"}
           \/ UNCHANGED <<phase, starts>>
    BY <1>3 DEF GlobStar, GlobChar, GlobRetry, GlobFails, GlobEnds, GlobLeft, GlobKeeps, Answer, inputs
  <2> QED BY <1>1, <2>1, OthersSearch
<1>4. CASE StartFind
  BY <1>1, <1>4, StartFindSearches
<1>5. CASE TryStart
  BY <1>1, <1>5, OthersSearch DEF TryStart, inputs
<1>6. CASE StartFound
  BY <1>1, <1>6, StartFoundSearches
<1>7. CASE StartMissed
  BY <1>1, <1>7, StartMissedSearches
<1>8. CASE FindEnds
  BY <1>1, <1>8, FindEndsSearches
<1>9. CASE Matcher /\ UNCHANGED <<regex, phase, glob, starts, hit, answer>>
  <2>1. UNCHANGED <<pat, text, plan, hit, phase, starts>>
    BY <1>9 DEF Matcher
  <2> QED BY <1>1, <2>1, OthersSearch
<1>10. CASE UNCHANGED vars
  BY <1>1, <1>10, OthersSearch DEF vars
<1> QED BY <1>2, <1>3, <1>4, <1>5, <1>6, <1>7, <1>8, <1>9, <1>10 DEF Next

(* wildcard_find_all on every pattern and text: each match it reports is   *)
(* the preferred match of the first start behind the last match that has   *)
(* one, and when it ends there is none left. No start that                 *)
(* wildcard_find_from skips would have had a match before.                 *)
THEOREM MatchesAreNext == Spec => HitsAreNext
<1>1. Init => SearchInv
  <2> SUFFICES ASSUME Init PROVE SearchInv
    OBVIOUS
  <2>1. WildcardInv
    BY InitIsSure
  <2>2. phase = "ready" /\ hit.end = 0
    BY DEF Init
  <2> QED BY <2>1, <2>2 DEF SearchInv
<1>2. SearchInv /\ [Next]_vars => SearchInv'
  BY SearchKeeps
<1>3. SearchInv /\ [Next]_vars => [NextHit]_vars
  BY SearchKeeps
<1>4. Spec => [][NextHit]_vars
  BY <1>1, <1>2, <1>3, PTL DEF Spec
<1> QED BY <1>4 DEF HitsAreNext, NextHit
=============================================================================
