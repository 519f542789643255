-------------------------- MODULE JsonCrushProofs --------------------------
(***************************************************************************)
(* Proofs about JsonCrush: in every state of a crush, for every alphabet,  *)
(* every text, every list of replacement characters and whatever the hash  *)
(* values collide, uncrush gives the text back, and no surrogate pair is   *)
(* torn.  The library's induction theorems take operators, which the       *)
(* provers cannot instantiate: induction is by the length of a text, from  *)
(* the least element of a set of lengths, and the functions the model      *)
(* defines by recursion are shown to exist the same way.                   *)
(***************************************************************************)
EXTENDS JsonCrush, SequenceTheorems, WellFoundedInduction, TLAPS

(***************************************************************************)
(* Induction and recursion, for sets and functions instead of operators.   *)
(***************************************************************************)
LEMMA LeastOf ==
  ASSUME NEW S \in SUBSET Nat, S # {}
  PROVE  \E m \in S : \A n \in S : m <= n
<1>1. IsWellFoundedOn(OpToRel(<, Nat), Nat)
  BY NatLessThanWellFounded
<1>2. PICK m \in S : \A n \in S : ~(<<n, m>> \in OpToRel(<, Nat))
  BY <1>1, WFMin
<1>3. ASSUME NEW n \in S PROVE m <= n
  <2>1. m \in Nat /\ n \in Nat
    OBVIOUS
  <2>2. ~(n < m)
    BY <1>2, <2>1 DEF OpToRel
  <2> QED BY <2>1, <2>2
<1> QED BY <1>3

(* What holds of x if it holds of all of lower rank holds of all. *)
LEMMA RankInduction ==
  ASSUME NEW D, NEW rank, \A x \in D : rank[x] \in Nat, NEW S,
         \A x \in D : (\A y \in D : rank[y] < rank[x] => y \in S) => x \in S
  PROVE  D \subseteq S
<1> SUFFICES ASSUME D \ S # {} PROVE FALSE
  OBVIOUS
<1> DEFINE R == {rank[x] : x \in D \ S}
<1>1. R \in SUBSET Nat /\ R # {}
  OBVIOUS
<1>2. PICK m \in R : \A n \in R : m <= n
  BY <1>1, LeastOf
<1>3. PICK x \in D \ S : m = rank[x]
  BY <1>2
<1>4. \A y \in D : rank[y] < rank[x] => y \in S
  BY <1>2, <1>3, SMTT(40)
<1> QED
  BY <1>3, <1>4

Agree(D, rank, x, f, g) == \A y \in D : rank[y] < rank[x] => f[y] = g[y]
(* A step looks at what has a lower rank only.                             *)
LooksDown(D, S, rank, step) ==
  \A x \in D : \A f, g \in [D -> S] : Agree(D, rank, x, f, g) => step[x][f] = step[x][g]
IsFixed(D, S, step) == \E f \in [D -> S] : \A x \in D : f[x] = step[x][f]

(* A step that looks at lower ranks only defines a function. *)
LEMMA RankRecursion ==
  ASSUME NEW D, NEW S, S # {}, NEW rank, \A x \in D : rank[x] \in Nat,
         NEW step \in [D -> [[D -> S] -> S]], LooksDown(D, S, rank, step)
  PROVE  IsFixed(D, S, step)
<1> DEFINE Part(n, f) == f \in [D -> S] /\ \A x \in D : rank[x] < n => f[x] = step[x][f]
<1> DEFINE Have == {n \in Nat : \E f \in [D -> S] : Part(n, f)}
<1>1. PICK b \in S : TRUE
  OBVIOUS
<1>2. 0 \in Have
  <2> DEFINE f == [x \in D |-> b]
  <2>1. f \in [D -> S] /\ Part(0, f)
    BY <1>1
  <2> HIDE DEF f
  <2> QED BY <2>1
<1>3. ASSUME NEW n \in Nat, n \in Have PROVE n + 1 \in Have
  <2>1. PICK f \in [D -> S] : Part(n, f)
    BY <1>3
  <2> DEFINE g == [x \in D |-> IF rank[x] < n THEN f[x] ELSE step[x][f]]
  <2>2. g \in [D -> S]
    OBVIOUS
  <2>3. \A x \in D : g[x] = step[x][f]
    BY <2>1
  <2>4. \A y \in D : rank[y] < n => g[y] = f[y]
    OBVIOUS
  <2> HIDE DEF g
  <2>5. ASSUME NEW x \in D, rank[x] < n + 1 PROVE step[x][f] = step[x][g]
    <3>1. \A y \in D : rank[y] < rank[x] => f[y] = g[y]
      BY <2>4, <2>5
    <3> QED BY <3>1, <2>2 DEF Agree, LooksDown
  <2>6. Part(n + 1, g)
    BY <2>2, <2>3, <2>5
  <2> QED BY <2>2, <2>6
<1>4. \A n \in Nat : n \in Have
  <2> DEFINE id == [n \in Nat |-> n]
  <2> HIDE DEF Have
  <2>1. ASSUME NEW n \in Nat, \A m \in Nat : id[m] < id[n] => m \in Have PROVE n \in Have
    <3>1. CASE n = 0
      BY <3>1, <1>2
    <3>2. CASE n # 0
      <4>1. n - 1 \in Nat /\ id[n - 1] < id[n] /\ (n - 1) + 1 = n
        BY <3>2
      <4>2. n - 1 \in Have
        BY <4>1, <2>1
      <4> QED BY <4>1, <4>2, <1>3
    <3> QED BY <3>1, <3>2
  <2>2. \A n \in Nat : id[n] \in Nat
    OBVIOUS
  <2> HIDE DEF id
  <2> QED BY <2>1, <2>2, RankInduction
<1> DEFINE p == [n \in Nat |-> CHOOSE f \in [D -> S] : Part(n, f)]
<1>5. \A n \in Nat : Part(n, p[n])
  BY <1>4
<1> HIDE DEF p
<1>6. ASSUME NEW n \in Nat, NEW m \in Nat PROVE \A x \in D : rank[x] < n /\ rank[x] < m => p[n][x] = p[m][x]
  <2> DEFINE Same == {x \in D : rank[x] < n /\ rank[x] < m => p[n][x] = p[m][x]}
  <2>1. ASSUME NEW x \in D, \A y \in D : rank[y] < rank[x] => y \in Same PROVE x \in Same
    <3> SUFFICES ASSUME rank[x] < n, rank[x] < m PROVE p[n][x] = p[m][x]
      OBVIOUS
    <3>1. \A y \in D : rank[y] < rank[x] => p[n][y] = p[m][y]
      BY <2>1
    <3>2. p[n] \in [D -> S] /\ p[m] \in [D -> S]
      BY <1>5
    <3>3. step[x][p[n]] = step[x][p[m]]
      BY <3>1, <3>2 DEF Agree, LooksDown
    <3> QED BY <3>3, <1>5
  <2> HIDE DEF Same
  <2>2. D \subseteq Same
    BY <2>1, RankInduction
  <2> QED BY <2>2 DEF Same
<1> DEFINE h == [x \in D |-> p[rank[x] + 1][x]]
<1>7. h \in [D -> S]
  <2>1. \A x \in D : p[rank[x] + 1] \in [D -> S]
    BY <1>5
  <2> QED BY <2>1
<1>8. ASSUME NEW x \in D PROVE h[x] = step[x][h]
  <2> DEFINE n == rank[x] + 1
  <2>1. n \in Nat /\ rank[x] < n
    OBVIOUS
  <2>2. h[x] = step[x][p[n]]
    BY <2>1, <1>5
  <2>3. ASSUME NEW y \in D, rank[y] < rank[x] PROVE p[n][y] = h[y]
    <3>1. rank[y] < n /\ rank[y] < rank[y] + 1 /\ rank[y] + 1 \in Nat
      BY <2>3, <2>1
    <3>2. p[n][y] = p[rank[y] + 1][y]
      BY <3>1, <2>1, <1>6
    <3> QED BY <3>2
  <2>4. p[n] \in [D -> S]
    BY <2>1, <1>5
  <2> HIDE DEF h, n
  <2>5. step[x][p[n]] = step[x][h]
    BY <2>3, <2>4, <1>7 DEF Agree, LooksDown
  <2> QED BY <2>2, <2>5
<1> HIDE DEF h
<1> QED BY <1>7, <1>8 DEF IsFixed

(* Induction on the length of a sequence.                                  *)
LEMMA LengthInduction ==
  ASSUME NEW T, NEW S,
         \A t \in Seq(T) : (\A u \in Seq(T) : Len(u) < Len(t) => u \in S) => t \in S
  PROVE  Seq(T) \subseteq S
<1> DEFINE rank == [t \in Seq(T) |-> Len(t)]
<1>1. \A t \in Seq(T) : rank[t] \in Nat /\ rank[t] = Len(t)
  OBVIOUS
<1> HIDE DEF rank
<1>2. ASSUME NEW x \in Seq(T), \A y \in Seq(T) : rank[y] < rank[x] => y \in S PROVE x \in S
  <2>1. \A u \in Seq(T) : Len(u) < Len(x) => u \in S
    BY <1>1, <1>2
  <2> QED BY <2>1
<1> DEFINE D == Seq(T)
<1>3. \A t \in D : rank[t] \in Nat
  BY <1>1
<1>4. \A x \in D : (\A y \in D : rank[y] < rank[x] => y \in S) => x \in S
  BY <1>2
<1> HIDE DEF D
<1>6. D \subseteq S
  BY <1>3, <1>4, RankInduction
<1> QED BY <1>6 DEF D

(***************************************************************************)
(* One pass.                                                               *)
(***************************************************************************)
Behind(t, front) == SubSeq(t, Len(front) + 1, Len(t))
PassStep(f, t, a, x, b, y) ==
  IF t = <<>> THEN <<>>
  ELSE IF IsPrefix(a, t) THEN x \o f[Behind(t, a)]
  ELSE IF IsPrefix(b, t) THEN y \o f[Behind(t, b)]
  ELSE <<Head(t)>> \o f[Tail(t)]
PassFunction(a, x, b, y) == CHOOSE f : f = [t \in Seq(Units) |-> PassStep(f, t, a, x, b, y)]

(* Pass is the value of the function it defines. *)
LEMMA PassIsFunction == \A s, a, x, b, y : Pass(s, a, x, b, y) = PassFunction(a, x, b, y)[s]
BY DEF Pass, PassFunction, PassStep, Behind

(* The rest of a text is a text. *)
LEMMA BehindIsText ==
  ASSUME NEW T, NEW t \in Seq(T), NEW front, Len(front) \in Nat
  PROVE  Behind(t, front) \in Seq(T)
<1>1. \A i \in Len(front) + 1 .. Len(t) : t[i] \in T
  OBVIOUS
<1> QED BY <1>1, SubSeqProperties DEF Behind

(* The rest behind a front that is not empty is shorter. *)
LEMMA BehindIsShorter ==
  ASSUME NEW T, NEW t \in Seq(T), NEW front \in Seq(T), front # <<>>, IsPrefix(front, t)
  PROVE  Behind(t, front) \in Seq(T) /\ Len(Behind(t, front)) < Len(t)
<1>1. Len(front) \in Nat /\ Len(front) > 0 /\ Len(t) \in Nat /\ Len(front) <= Len(t)
  BY DEF IsPrefix
<1>2. \A i \in Len(front) + 1 .. Len(t) : t[i] \in T
  BY <1>1
<1>3. Len(Behind(t, front)) = IF Len(front) + 1 <= Len(t) THEN Len(t) - (Len(front) + 1) + 1 ELSE 0
  <2>1. Len(front) + 1 \in Int /\ Len(t) \in Int
    BY <1>1
  <2> QED BY <1>2, <2>1, SubSeqProperties DEF Behind
<1>4. Len(Behind(t, front)) < Len(t)
  BY <1>1, <1>3
<1>5. Behind(t, front) \in Seq(T)
  BY <1>1, BehindIsText
<1> QED BY <1>4, <1>5

(* So is the tail. *)
LEMMA TailIsShorter ==
  ASSUME NEW T, NEW t \in Seq(T), t # <<>>
  PROVE  Tail(t) \in Seq(T) /\ Len(Tail(t)) < Len(t) /\ Head(t) \in T /\ <<Head(t)>> \in Seq(T)
OBVIOUS

IsRule(a, x) == a \in Seq(Units) /\ a # <<>> /\ x \in Seq(Units)

(* The recursion of Pass defines a function on all texts. *)
LEMMA PassDefined ==
  ASSUME NEW a, NEW x, NEW b, NEW y, IsRule(a, x), IsRule(b, y)
  PROVE  LET f == PassFunction(a, x, b, y)
         IN  f = [t \in Seq(Units) |-> PassStep(f, t, a, x, b, y)] /\ f \in [Seq(Units) -> Seq(Units)]
<1> DEFINE D == Seq(Units)
<1> DEFINE rank == [t \in D |-> Len(t)]
<1> DEFINE step == [t \in D |-> [f \in [D -> D] |-> PassStep(f, t, a, x, b, y)]]
<1>1. \A t \in D : rank[t] \in Nat /\ rank[t] = Len(t)
  OBVIOUS
<1>2. ASSUME NEW t \in D, t # <<>>
      PROVE  /\ Tail(t) \in D /\ rank[Tail(t)] < rank[t] /\ <<Head(t)>> \in D
             /\ IsPrefix(a, t) => Behind(t, a) \in D /\ rank[Behind(t, a)] < rank[t]
             /\ IsPrefix(b, t) => Behind(t, b) \in D /\ rank[Behind(t, b)] < rank[t]
  <2>1. Tail(t) \in D /\ Len(Tail(t)) < Len(t) /\ <<Head(t)>> \in D
    BY <1>2, TailIsShorter
  <2>2. IsPrefix(a, t) => Behind(t, a) \in D /\ Len(Behind(t, a)) < Len(t)
    BY BehindIsShorter DEF IsRule
  <2>3. IsPrefix(b, t) => Behind(t, b) \in D /\ Len(Behind(t, b)) < Len(t)
    BY BehindIsShorter DEF IsRule
  <2> QED BY <1>1, <2>1, <2>2, <2>3
<1>3. ASSUME NEW t \in D, NEW f \in [D -> D] PROVE PassStep(f, t, a, x, b, y) \in D
  <2> HIDE DEF rank, step
  <2>1. <<>> \in D /\ x \in D /\ y \in D
    BY DEF IsRule
  <2>2. \A u, v \in D : u \o v \in D
    BY ConcatProperties
  <2>3. CASE t = <<>>
    BY <2>1, <2>3 DEF PassStep
  <2>4. CASE t # <<>>
    <3>1. IsPrefix(a, t) => x \o f[Behind(t, a)] \in D
      BY <2>1, <2>2, <2>4, <1>2
    <3>2. IsPrefix(b, t) => y \o f[Behind(t, b)] \in D
      BY <2>1, <2>2, <2>4, <1>2
    <3>3. <<Head(t)>> \o f[Tail(t)] \in D
      BY <2>2, <2>4, <1>2
    <3> HIDE DEF D
    <3> QED BY <2>4, <3>1, <3>2, <3>3 DEF PassStep
  <2> QED BY <2>3, <2>4
<1>4. step \in [D -> [[D -> D] -> D]] /\ \A t \in D : \A f \in [D -> D] : step[t][f] = PassStep(f, t, a, x, b, y)
  BY <1>3
<1> HIDE DEF rank, step
<1>5. LooksDown(D, D, rank, step)
  <2> SUFFICES ASSUME NEW t \in D, NEW f \in [D -> D], NEW g \in [D -> D], Agree(D, rank, t, f, g)
               PROVE  step[t][f] = step[t][g]
    BY DEF LooksDown
  <2>1. t # <<>> => /\ f[Tail(t)] = g[Tail(t)]
                    /\ IsPrefix(a, t) => f[Behind(t, a)] = g[Behind(t, a)]
                    /\ IsPrefix(b, t) => f[Behind(t, b)] = g[Behind(t, b)]
    BY <1>2 DEF Agree
  <2>2. PassStep(f, t, a, x, b, y) = PassStep(g, t, a, x, b, y)
    BY <2>1 DEF PassStep
  <2> QED BY <2>2, <1>4
<1>6. D # {}
  <2>1. <<>> \in D
    OBVIOUS
  <2> QED BY <2>1
<1>7. \A t \in D : rank[t] \in Nat
  BY <1>1
<1> HIDE DEF D
<1>8. PICK f \in [D -> D] : \A t \in D : f[t] = step[t][f]
  <2>1. IsFixed(D, D, step)
    BY <1>4, <1>5, <1>6, <1>7, RankRecursion
  <2> QED BY <2>1 DEF IsFixed
<1>9. f = [t \in D |-> PassStep(f, t, a, x, b, y)]
  BY <1>8, <1>4
<1> DEFINE p == PassFunction(a, x, b, y)
<1>10. p = [t \in D |-> PassStep(p, t, a, x, b, y)]
  BY <1>9 DEF PassFunction, D
<1> HIDE DEF p
<1>11. D \subseteq {t \in D : p[t] = f[t]}
  <2> DEFINE S == {t \in D : p[t] = f[t]}
  <2>1. ASSUME NEW t \in D, \A u \in D : rank[u] < rank[t] => u \in S PROVE t \in S
    <3>1. t # <<>> => /\ f[Tail(t)] = p[Tail(t)]
                      /\ IsPrefix(a, t) => f[Behind(t, a)] = p[Behind(t, a)]
                      /\ IsPrefix(b, t) => f[Behind(t, b)] = p[Behind(t, b)]
      BY <1>2, <2>1
    <3>2. PassStep(f, t, a, x, b, y) = PassStep(p, t, a, x, b, y)
      BY <3>1 DEF PassStep
    <3>3. p[t] = PassStep(p, t, a, x, b, y) /\ f[t] = PassStep(f, t, a, x, b, y)
      BY <1>9, <1>10
    <3> QED BY <3>2, <3>3
  <2> HIDE DEF S
  <2>2. D \subseteq S
    BY <2>1, <1>7, RankInduction
  <2> QED BY <2>2 DEF S
<1>12. p \in [D -> D]
  <2>1. \A t \in D : p[t] \in D
    BY <1>8, <1>11
  <2> QED BY <1>10, <2>1
<1> QED BY <1>10, <1>12 DEF p, D

(* What a pass makes of a text.                                            *)
LEMMA PassIsText ==
  ASSUME NEW s \in Seq(Units), NEW a, NEW x, NEW b, NEW y, IsRule(a, x), IsRule(b, y)
  PROVE  Pass(s, a, x, b, y) \in Seq(Units)
BY PassDefined, PassIsFunction

(* The four cases of a pass. *)
LEMMA PassUnfolds ==
  ASSUME NEW s \in Seq(Units), NEW a, NEW x, NEW b, NEW y, IsRule(a, x), IsRule(b, y)
  PROVE  /\ s = <<>> => Pass(s, a, x, b, y) = <<>>
         /\ s # <<>> /\ IsPrefix(a, s) => Pass(s, a, x, b, y) = x \o Pass(Behind(s, a), a, x, b, y)
         /\ s # <<>> /\ ~IsPrefix(a, s) /\ IsPrefix(b, s) =>
              Pass(s, a, x, b, y) = y \o Pass(Behind(s, b), a, x, b, y)
         /\ s # <<>> /\ ~IsPrefix(a, s) /\ ~IsPrefix(b, s) =>
              Pass(s, a, x, b, y) = <<Head(s)>> \o Pass(Tail(s), a, x, b, y)
<1> DEFINE p == PassFunction(a, x, b, y)
<1>1. p = [t \in Seq(Units) |-> PassStep(p, t, a, x, b, y)]
  BY PassDefined
<1>2. \A t : Pass(t, a, x, b, y) = p[t]
  BY PassIsFunction
<1> HIDE DEF p
<1>3. p[s] = PassStep(p, s, a, x, b, y)
  BY <1>1
<1> QED BY <1>2, <1>3 DEF PassStep

(***************************************************************************)
(* Texts by what stands in front.                                          *)
(***************************************************************************)
LEMMA FrontOfJoined ==
  ASSUME NEW T, NEW u \in Seq(T), NEW v \in Seq(T)
  PROVE  IsPrefix(u, u \o v) /\ Behind(u \o v, u) = v
<1>1. u \o v \in Seq(T) /\ Len(u \o v) = Len(u) + Len(v) /\ Len(u) \in Nat /\ Len(v) \in Nat
  OBVIOUS
<1>2. SubSeq(u \o v, 1, Len(u)) = u
  <2>1. \A i \in 1 .. Len(u) : (u \o v)[i] = u[i]
    OBVIOUS
  <2>2. SubSeq(u \o v, 1, Len(u)) \in Seq(T) /\ Len(SubSeq(u \o v, 1, Len(u))) = Len(u)
        /\ \A i \in 1 .. Len(u) : SubSeq(u \o v, 1, Len(u))[i] = (u \o v)[i]
    BY <1>1
  <2> QED BY <2>1, <2>2, SeqEqual
<1>3. SubSeq(u, 1, Len(u)) = u
  BY SubSeqFull
<1>4. Behind(u \o v, u) = v
  <2> DEFINE w == u \o v  b == SubSeq(w, Len(u) + 1, Len(w))
  <2>1. \A i \in 1 .. Len(v) : w[Len(u) + i] = v[i]
    BY <1>1
  <2>2. \A i \in Len(u) + 1 .. Len(w) : w[i] \in T
    BY <1>1
  <2>3. Len(u) + 1 \in Int /\ Len(w) \in Int
    BY <1>1
  <2> HIDE DEF w
  <2>4. /\ b \in Seq(T)
        /\ Len(b) = IF Len(u) + 1 <= Len(w) THEN Len(w) - (Len(u) + 1) + 1 ELSE 0
        /\ \A i \in 1 .. Len(w) - (Len(u) + 1) + 1 : b[i] = w[(Len(u) + 1) + i - 1]
    BY <2>2, <2>3, SubSeqProperties
  <2>5. Len(w) = Len(u) + Len(v)
    BY <1>1 DEF w
  <2> HIDE DEF b
  <2>6. Len(b) = Len(v)
    BY <2>4, <2>5, <1>1
  <2>7. \A i \in 1 .. Len(v) : b[i] = v[i]
    <3> TAKE i \in 1 .. Len(v)
    <3>1. i \in 1 .. Len(w) - (Len(u) + 1) + 1 /\ (Len(u) + 1) + i - 1 = Len(u) + i
      BY <2>5, <1>1, SMTT(40)
    <3> QED BY <3>1, <2>1, <2>4
  <2>8. b = v
    BY <2>4, <2>6, <2>7, SeqEqual, SMTT(40)
  <2> QED BY <2>8 DEF b, w, Behind
<1>5. IsPrefix(u, u \o v)
  BY <1>1, <1>2, <1>3, SMTT(40) DEF IsPrefix
<1> QED BY <1>4, <1>5

(* A text is its front and what stands behind it. *)
LEMMA JoinedFromFront ==
  ASSUME NEW T, NEW u \in Seq(T), NEW t \in Seq(T), IsPrefix(u, t)
  PROVE  t = u \o Behind(t, u)
<1>1. Len(u) \in Nat /\ Len(t) \in Nat /\ Len(u) <= Len(t) /\ SubSeq(u, 1, Len(u)) = SubSeq(t, 1, Len(u))
  BY DEF IsPrefix
<1>2. SubSeq(u, 1, Len(u)) = u
  BY SubSeqFull
<1>3. SubSeq(t, 1, Len(u)) \o SubSeq(t, Len(u) + 1, Len(t)) = SubSeq(t, 1, Len(t))
  <2>1. 1 \in 1 .. Len(t) + 1 /\ Len(u) \in 1 - 1 .. Len(t) /\ Len(t) \in Len(u) .. Len(t)
    BY <1>1
  <2> QED BY <2>1, ConcatAdjacentSubSeq
<1>4. SubSeq(t, 1, Len(t)) = t
  BY SubSeqFull
<1> QED BY <1>1, <1>2, <1>3, <1>4, Zenon DEF Behind

(* A unit in front of a text. *)
LEMMA UnitInFront ==
  ASSUME NEW T, NEW c \in T, NEW v \in Seq(T)
  PROVE  /\ <<c>> \in Seq(T) /\ <<c>> # <<>>
         /\ <<c>> \o v \in Seq(T) /\ <<c>> \o v # <<>> /\ Len(<<c>> \o v) = Len(v) + 1
         /\ Head(<<c>> \o v) = c /\ Tail(<<c>> \o v) = v
         /\ (<<c>> \o v)[1] = c /\ \A i \in 1 .. Len(v) : (<<c>> \o v)[i + 1] = v[i]
<1> DEFINE w == <<c>> \o v
<1>1. <<c>> \in Seq(T) /\ <<c>> # <<>> /\ Len(<<c>>) = 1 /\ <<c>>[1] = c
  OBVIOUS
<1>2. w \in Seq(T) /\ Len(w) = Len(v) + 1 /\ Len(v) \in Nat
      /\ \A i \in 1 .. Len(v) + 1 : w[i] = IF i <= 1 THEN <<c>>[i] ELSE v[i - 1]
  <2>1. /\ w \in Seq(T) /\ Len(w) = Len(<<c>>) + Len(v)
        /\ \A i \in 1 .. Len(<<c>>) + Len(v) : w[i] = IF i <= Len(<<c>>) THEN <<c>>[i] ELSE v[i - Len(<<c>>)]
    BY <1>1, ConcatProperties
  <2> QED BY <1>1, <2>1
<1> HIDE DEF w
<1>3. w[1] = c
  BY <1>1, <1>2
<1>4. \A i \in 1 .. Len(v) : w[i + 1] = v[i]
  BY <1>2
<1>5. w # <<>>
  BY <1>2
<1>6. Head(w) = c /\ Tail(w) \in Seq(T) /\ Len(Tail(w)) = Len(v) /\ \A i \in 1 .. Len(v) : Tail(w)[i] = w[i + 1]
  BY <1>2, <1>3, <1>5
<1>7. Tail(w) = v
  BY <1>4, <1>6, SeqEqual
<1> QED BY <1>1, <1>2, <1>3, <1>4, <1>5, <1>6, <1>7 DEF w

(* A text is its head in front of its tail. *)
LEMMA HeadAndTail ==
  ASSUME NEW T, NEW t \in Seq(T), t # <<>>
  PROVE  /\ t = <<Head(t)>> \o Tail(t) /\ Head(t) \in T /\ Tail(t) \in Seq(T)
         /\ Len(Tail(t)) < Len(t) /\ Len(t) = Len(Tail(t)) + 1 /\ t[1] = Head(t)
OBVIOUS

(* A text that begins with a unit. *)
LEMMA UnitIsPrefix ==
  ASSUME NEW T, NEW t \in Seq(T), NEW c \in T
  PROVE  /\ IsPrefix(<<c>>, t) <=> t # <<>> /\ Head(t) = c
         /\ IsPrefix(<<c>>, t) => Behind(t, <<c>>) = Tail(t)
<1>1. ASSUME IsPrefix(<<c>>, t) PROVE t # <<>> /\ Head(t) = c /\ Behind(t, <<c>>) = Tail(t)
  <2>1. t = <<c>> \o Behind(t, <<c>>) /\ Behind(t, <<c>>) \in Seq(T)
    <3>1. <<c>> \in Seq(T) /\ Len(<<c>>) \in Nat
      OBVIOUS
    <3>2. t = <<c>> \o Behind(t, <<c>>)
      BY <1>1, <3>1, JoinedFromFront
    <3>3. Behind(t, <<c>>) \in Seq(T)
      BY <3>1, BehindIsText
    <3> QED BY <3>2, <3>3
  <2> DEFINE r == Behind(t, <<c>>)
  <2>2. t = <<c>> \o r /\ r \in Seq(T)
    BY <2>1
  <2> HIDE DEF r
  <2>3. t # <<>> /\ Head(t) = c /\ Tail(t) = r
    BY <2>2, UnitInFront
  <2> QED BY <2>3 DEF r
<1>2. ASSUME t # <<>>, Head(t) = c PROVE IsPrefix(<<c>>, t)
  <2>1. t = <<c>> \o Tail(t) /\ Tail(t) \in Seq(T) /\ <<c>> \in Seq(T)
    BY <1>2, HeadAndTail
  <2>2. IsPrefix(<<c>>, <<c>> \o Tail(t))
    BY <2>1, FrontOfJoined
  <2> QED BY <2>1, <2>2
<1> QED BY <1>1, <1>2

(***************************************************************************)
(* What a pass keeps.                                                      *)
(***************************************************************************)
(* A text of the units W becomes a text of the units V.                    *)
LEMMA PassStaysIn ==
  ASSUME NEW W \in SUBSET Units, NEW V \in SUBSET Units,
         NEW a, NEW x, NEW b, NEW y, IsRule(a, x), IsRule(b, y), x \in Seq(V), y \in Seq(V),
         \A t \in Seq(W) : t # <<>> /\ ~IsPrefix(a, t) /\ ~IsPrefix(b, t) => Head(t) \in V
  PROVE  \A s \in Seq(W) : Pass(s, a, x, b, y) \in Seq(V)
<1> DEFINE S == {s \in Seq(W) : Pass(s, a, x, b, y) \in Seq(V)}
<1>1. ASSUME NEW s \in Seq(W), \A u \in Seq(W) : Len(u) < Len(s) => u \in S
      PROVE  s \in S
  <2>1. s \in Seq(Units)
    OBVIOUS
  <2>2. \A u \in Seq(W) : Len(u) < Len(s) => Pass(u, a, x, b, y) \in Seq(V)
    BY <1>1
  <2> DEFINE P(t) == Pass(t, a, x, b, y)
  <2>3. /\ s = <<>> => P(s) = <<>>
        /\ s # <<>> /\ IsPrefix(a, s) => P(s) = x \o P(Behind(s, a))
        /\ s # <<>> /\ ~IsPrefix(a, s) /\ IsPrefix(b, s) => P(s) = y \o P(Behind(s, b))
        /\ s # <<>> /\ ~IsPrefix(a, s) /\ ~IsPrefix(b, s) => P(s) = <<Head(s)>> \o P(Tail(s))
    BY <2>1, PassUnfolds
  <2> HIDE DEF P
  <2>4. \A u \in Seq(W) : Len(u) < Len(s) => P(u) \in Seq(V)
    BY <2>2 DEF P
  <2>5. CASE s = <<>>
    <3>1. <<>> \in Seq(V)
      OBVIOUS
    <3>2. P(s) \in Seq(V)
      BY <2>3, <2>5, <3>1
    <3> QED BY <3>2 DEF P
  <2>6. CASE s # <<>> /\ IsPrefix(a, s)
    <3>1. Behind(s, a) \in Seq(W) /\ Len(Behind(s, a)) < Len(s)
      <4>1. Len(a) \in Nat /\ Behind(s, a) \in Seq(Units) /\ Len(Behind(s, a)) < Len(s)
        BY <2>1, <2>6, BehindIsShorter DEF IsRule
      <4> QED BY <4>1, BehindIsText
    <3>2. P(s) \in Seq(V)
      BY <3>1, <2>3, <2>4, <2>6, ConcatProperties
    <3> QED BY <3>2 DEF P
  <2>7. CASE s # <<>> /\ ~IsPrefix(a, s) /\ IsPrefix(b, s)
    <3>1. Behind(s, b) \in Seq(W) /\ Len(Behind(s, b)) < Len(s)
      <4>1. Len(b) \in Nat /\ Behind(s, b) \in Seq(Units) /\ Len(Behind(s, b)) < Len(s)
        BY <2>1, <2>7, BehindIsShorter DEF IsRule
      <4> QED BY <4>1, BehindIsText
    <3>2. P(s) \in Seq(V)
      BY <3>1, <2>3, <2>4, <2>7, ConcatProperties
    <3> QED BY <3>2 DEF P
  <2>8. CASE s # <<>> /\ ~IsPrefix(a, s) /\ ~IsPrefix(b, s)
    <3>1. Tail(s) \in Seq(W) /\ Len(Tail(s)) < Len(s)
      BY <2>8, HeadAndTail
    <3>2. Head(s) \in V
      BY <2>8
    <3>3. <<Head(s)>> \in Seq(V)
      BY <3>2
    <3>4. P(s) \in Seq(V)
      BY <3>1, <3>3, <2>3, <2>4, <2>8, ConcatProperties, ZenonT(60)
    <3> QED BY <3>4 DEF P
  <2> QED BY <2>5, <2>6, <2>7, <2>8
<1> HIDE DEF S
<1>2. Seq(W) \subseteq S
  BY <1>1, LengthInduction
<1> QED BY <1>2 DEF S

(* The cases of a loop of find and replace. *)
LEMMA ReplacedUnfolds ==
  ASSUME NEW s \in Seq(Units), NEW old, NEW new, IsRule(old, new)
  PROVE  /\ Replaced(s, old, new) \in Seq(Units)
         /\ s = <<>> => Replaced(s, old, new) = <<>>
         /\ s # <<>> /\ IsPrefix(old, s) => Replaced(s, old, new) = new \o Replaced(Behind(s, old), old, new)
         /\ s # <<>> /\ ~IsPrefix(old, s) => Replaced(s, old, new) = <<Head(s)>> \o Replaced(Tail(s), old, new)
<1>1. Replaced(s, old, new) \in Seq(Units)
  BY PassIsText DEF Replaced
<1> QED BY <1>1, PassUnfolds DEF Replaced

(* A replaced text is restored: its units c stand for what was replaced.   *)
LEMMA ReplacedIsRestored ==
  ASSUME NEW c \in Units, NEW from \in Seq(Units \ {c}), from # <<>>
  PROVE  \A s \in Seq(Units \ {c}) : Replaced(Replaced(s, from, <<c>>), <<c>>, from) = s
<1> DEFINE W == Units \ {c}
           one == <<c>>
           R(t) == Replaced(t, from, one)
           C(t) == Replaced(t, one, from)
           S == {s \in Seq(W) : C(R(s)) = s}
<1>1. from \in Seq(Units) /\ one \in Seq(Units) /\ one # <<>> /\ Len(from) \in Nat
  OBVIOUS
<1>2. IsRule(from, one) /\ IsRule(one, from)
  BY <1>1 DEF IsRule
<1> HIDE DEF one
<1>3. \A t \in Seq(Units) : R(t) \in Seq(Units) /\ C(t) \in Seq(Units)
  BY <1>2, ReplacedUnfolds
<1>4. \A t \in Seq(Units) : /\ t = <<>> => R(t) = <<>>
                            /\ t # <<>> /\ IsPrefix(from, t) => R(t) = one \o R(Behind(t, from))
                            /\ t # <<>> /\ ~IsPrefix(from, t) => R(t) = <<Head(t)>> \o R(Tail(t))
  BY <1>2, ReplacedUnfolds
<1>5. \A t \in Seq(Units) : /\ t = <<>> => C(t) = <<>>
                            /\ t # <<>> /\ IsPrefix(one, t) => C(t) = from \o C(Behind(t, one))
                            /\ t # <<>> /\ ~IsPrefix(one, t) => C(t) = <<Head(t)>> \o C(Tail(t))
  BY <1>2, ReplacedUnfolds
<1>6. \A w \in Seq(Units) : C(one \o w) = from \o C(w)
  <2> TAKE w \in Seq(Units)
  <2>1. <<c>> \o w \in Seq(Units) /\ <<c>> \o w # <<>> /\ Head(<<c>> \o w) = c /\ Tail(<<c>> \o w) = w
    BY UnitInFront
  <2>2. IsPrefix(<<c>>, <<c>> \o w) /\ Behind(<<c>> \o w, <<c>>) = w
    BY <2>1, UnitIsPrefix
  <2> HIDE DEF C
  <2> QED BY <1>5, <2>1, <2>2 DEF one
<1>7. \A h \in W : \A w \in Seq(Units) : C(<<h>> \o w) = <<h>> \o C(w)
  <2> TAKE h \in W
  <2> TAKE w \in Seq(Units)
  <2>1. <<h>> \o w \in Seq(Units) /\ <<h>> \o w # <<>> /\ Head(<<h>> \o w) = h /\ Tail(<<h>> \o w) = w
    BY UnitInFront
  <2>2. ~IsPrefix(one, <<h>> \o w)
    BY <2>1, UnitIsPrefix DEF one
  <2> HIDE DEF C
  <2> QED BY <1>5, <2>1, <2>2
<1> HIDE DEF R, C
<1>8. ASSUME NEW s \in Seq(W), \A u \in Seq(W) : Len(u) < Len(s) => u \in S PROVE s \in S
  <2>1. s \in Seq(Units)
    OBVIOUS
  <2>2. CASE s = <<>>
    BY <1>4, <1>5, <2>1, <2>2
  <2>3. CASE s # <<>> /\ IsPrefix(from, s)
    <3>1. Behind(s, from) \in Seq(W) /\ Len(Behind(s, from)) < Len(s)
      BY <2>3, BehindIsShorter
    <3> DEFINE r == Behind(s, from)
    <3> HIDE DEF r
    <3>2. r \in Seq(W) /\ r \in Seq(Units) /\ C(R(r)) = r
      <4>1. r \in Seq(W) /\ Len(r) < Len(s)
        BY <3>1 DEF r
      <4> QED BY <4>1, <1>8
    <3>3. R(s) = one \o R(r) /\ R(r) \in Seq(Units)
      BY <2>1, <2>3, <3>2, <1>3, <1>4 DEF r
    <3>4. C(R(s)) = from \o r
      BY <3>2, <3>3, <1>6
    <3>5. s = from \o r
      BY <2>3, JoinedFromFront DEF r
    <3> QED BY <3>4, <3>5
  <2>4. CASE s # <<>> /\ ~IsPrefix(from, s)
    <3>1. s = <<Head(s)>> \o Tail(s) /\ Head(s) \in W /\ Tail(s) \in Seq(W) /\ Len(Tail(s)) < Len(s)
      BY <2>4, HeadAndTail
    <3> DEFINE r == Tail(s)
    <3>6. r \in Seq(W) /\ Len(r) < Len(s)
      BY <3>1
    <3> HIDE DEF r
    <3>7. r \in Seq(Units) /\ C(R(r)) = r
      BY <3>6, <1>8
    <3>2. Tail(s) \in Seq(Units) /\ C(R(Tail(s))) = Tail(s)
      BY <3>7 DEF r
    <3>3. R(s) = <<Head(s)>> \o R(Tail(s)) /\ R(Tail(s)) \in Seq(Units)
      BY <2>1, <2>4, <3>2, <1>3, <1>4
    <3>4. C(R(s)) = <<Head(s)>> \o Tail(s)
      BY <3>1, <3>2, <3>3, <1>7
    <3> QED BY <3>1, <3>4
  <2> QED BY <2>2, <2>3, <2>4
<1>9. Seq(W) \subseteq S
  <2> HIDE DEF S, W
  <2> QED BY <1>8, LengthInduction
<1> QED BY <1>9 DEF R, C, one

(* The two sides of a pair that changes places.                            *)
IsPair(a, b) ==
  \E first, mark \in Units :
    /\ first # mark /\ b = <<mark>>
    /\ \/ a = <<first>>
       \/ \E second \in Units : second # first /\ second # mark /\ a = <<first, second>>

(* Both directions of a pair are rules. *)
LEMMA PairIsRules ==
  ASSUME NEW a, NEW b, IsPair(a, b)
  PROVE  IsRule(a, b) /\ IsRule(b, a)
<1>1. PICK first \in Units, mark \in Units :
        /\ first # mark /\ b = <<mark>>
        /\ \/ a = <<first>>
           \/ \E second \in Units : second # first /\ second # mark /\ a = <<first, second>>
  BY DEF IsPair
<1>2. b \in Seq(Units) /\ b # <<>>
  BY <1>1
<1>3. a \in Seq(Units) /\ a # <<>>
  <2>1. CASE a = <<first>>
    BY <2>1
  <2>2. ASSUME NEW second \in Units, a = <<first, second>> PROVE a \in Seq(Units) /\ a # <<>>
    BY <2>2
  <2> QED BY <1>1, <2>1, <2>2
<1> QED BY <1>2, <1>3 DEF IsRule

(* The cases of one swap. *)
LEMMA ApplyUnfolds ==
  ASSUME NEW s \in Seq(Units), NEW a, NEW b, IsRule(a, b), IsRule(b, a)
  PROVE  /\ Apply(s, a, b) \in Seq(Units)
         /\ s = <<>> => Apply(s, a, b) = <<>>
         /\ s # <<>> /\ IsPrefix(a, s) => Apply(s, a, b) = b \o Apply(Behind(s, a), a, b)
         /\ s # <<>> /\ ~IsPrefix(a, s) /\ IsPrefix(b, s) => Apply(s, a, b) = a \o Apply(Behind(s, b), a, b)
         /\ s # <<>> /\ ~IsPrefix(a, s) /\ ~IsPrefix(b, s) => Apply(s, a, b) = <<Head(s)>> \o Apply(Tail(s), a, b)
<1>1. Apply(s, a, b) \in Seq(Units)
  BY PassIsText DEF Apply
<1> QED BY <1>1, PassUnfolds DEF Apply

(* The prefix of two units.                                                *)
LEMMA TwoUnitsArePrefix ==
  ASSUME NEW T, NEW t \in Seq(T), NEW c \in T, NEW d \in T
  PROVE  IsPrefix(<<c, d>>, t) <=> t # <<>> /\ Head(t) = c /\ Tail(t) # <<>> /\ Head(Tail(t)) = d
<1>1. ASSUME IsPrefix(<<c, d>>, t) PROVE t # <<>> /\ Head(t) = c /\ Tail(t) # <<>> /\ Head(Tail(t)) = d
  <2>1. Len(t) >= 2 /\ Len(t) \in Nat /\ SubSeq(<<c, d>>, 1, 2) = SubSeq(t, 1, 2)
    BY <1>1 DEF IsPrefix
  <2>2. SubSeq(<<c, d>>, 1, 2)[1] = c /\ SubSeq(<<c, d>>, 1, 2)[2] = d
    OBVIOUS
  <2>3. SubSeq(t, 1, 2)[1] = t[1] /\ SubSeq(t, 1, 2)[2] = t[2]
    BY <2>1
  <2>4. t[1] = c /\ t[2] = d
    BY <2>1, <2>2, <2>3
  <2>5. t # <<>> /\ Head(t) = t[1] /\ Tail(t) \in Seq(T) /\ Len(Tail(t)) = Len(t) - 1
        /\ \A i \in 1 .. Len(Tail(t)) : Tail(t)[i] = t[i + 1]
    <3>1. t # <<>>
      BY <2>1
    <3> QED BY <3>1, HeadTailProperties
  <2> DEFINE v == Tail(t)
  <2>6. v \in Seq(T) /\ Len(v) >= 1 /\ v[1] = t[2]
    BY <2>1, <2>5
  <2> HIDE DEF v
  <2>7. v # <<>> /\ Head(v) = t[2]
    BY <2>6
  <2> QED BY <2>4, <2>5, <2>7 DEF v
<1>2. ASSUME t # <<>>, Head(t) = c, Tail(t) # <<>>, Head(Tail(t)) = d PROVE IsPrefix(<<c, d>>, t)
  <2>1. Len(t) >= 2 /\ Len(t) \in Nat /\ t[1] = c /\ t[2] = d
    BY <1>2
  <2> DEFINE u == SubSeq(t, 1, 2)  v == SubSeq(<<c, d>>, 1, 2)
  <2>2. u \in Seq(T) /\ v \in Seq(T) /\ Len(u) = 2 /\ Len(v) = 2 /\ u[1] = c /\ v[1] = c /\ u[2] = d /\ v[2] = d
    BY <2>1
  <2>3. u = v
    <3> HIDE DEF u, v
    <3>1. \A i \in 1 .. Len(u) : u[i] = v[i]
      BY <2>2
    <3> QED BY <2>2, <3>1, SeqEqual
  <2>4. Len(<<c, d>>) = 2
    OBVIOUS
  <2> QED BY <2>1, <2>3, <2>4 DEF IsPrefix
<1> QED BY <1>1, <1>2

(* No pass puts the second unit of a pair to the front.                    *)
LEMMA SecondStaysBehind ==
  ASSUME NEW first \in Units, NEW mark \in Units, NEW second \in Units,
         first # mark, second # first, second # mark, NEW a, NEW b, a = <<first, second>>, b = <<mark>>,
         NEW t \in Seq(Units), t = <<>> \/ Head(t) # second
  PROVE  Apply(t, a, b) = <<>> \/ Head(Apply(t, a, b)) # second
<1>1. IsRule(a, b) /\ IsRule(b, a)
  BY DEF IsRule
<1> DEFINE A(u) == Apply(u, a, b)
<1>2. /\ t = <<>> => A(t) = <<>>
      /\ t # <<>> /\ IsPrefix(a, t) => A(t) = b \o A(Behind(t, a))
      /\ t # <<>> /\ ~IsPrefix(a, t) /\ IsPrefix(b, t) => A(t) = a \o A(Behind(t, b))
      /\ t # <<>> /\ ~IsPrefix(a, t) /\ ~IsPrefix(b, t) => A(t) = <<Head(t)>> \o A(Tail(t))
  BY <1>1, ApplyUnfolds, ZenonT(60)
<1>3. \A u \in Seq(Units) : A(u) \in Seq(Units)
  BY <1>1, ApplyUnfolds
<1> HIDE DEF A
<1>4. CASE t = <<>>
  BY <1>2, <1>4 DEF A
<1>5. CASE t # <<>> /\ IsPrefix(a, t)
  <2>1. A(Behind(t, a)) \in Seq(Units)
    <3>1. Behind(t, a) \in Seq(Units)
      BY <1>1, <1>5, BehindIsShorter DEF IsRule
    <3> QED BY <3>1, <1>3
  <2>2. Head(A(t)) = mark
    BY <2>1, <1>2, <1>5, UnitInFront
  <2> QED BY <2>2 DEF A
<1>6. CASE t # <<>> /\ ~IsPrefix(a, t) /\ IsPrefix(b, t)
  <2>1. A(Behind(t, b)) \in Seq(Units)
    <3>1. Behind(t, b) \in Seq(Units)
      BY <1>1, <1>6, BehindIsShorter DEF IsRule
    <3> QED BY <3>1, <1>3
  <2>2. A(t) = a \o A(Behind(t, b))
    BY <1>2, <1>6
  <2>3. Head(A(t)) = first
    <3> DEFINE r == A(Behind(t, b))
    <3>1. r \in Seq(Units) /\ A(t) = a \o r
      BY <2>1, <2>2
    <3> HIDE DEF r
    <3> QED BY <3>1
  <2> QED BY <2>3 DEF A
<1>7. CASE t # <<>> /\ ~IsPrefix(a, t) /\ ~IsPrefix(b, t)
  <2>1. A(Tail(t)) \in Seq(Units) /\ Head(t) \in Units
    BY <1>3, <1>7, HeadAndTail
  <2>2. Head(A(t)) = Head(t)
    BY <2>1, <1>2, <1>7, UnitInFront
  <2> QED BY <2>2, <1>7 DEF A
<1> QED BY <1>4, <1>5, <1>6, <1>7

(* A second pass takes the first one back.                                 *)
LEMMA ApplyIsUndone ==
  ASSUME NEW a, NEW b, IsPair(a, b)
  PROVE  \A s \in Seq(Units) : Apply(Apply(s, a, b), a, b) = s
<1> DEFINE A(u) == Apply(u, a, b)
           S == {s \in Seq(Units) : A(A(s)) = s}
<1>1. IsRule(a, b) /\ IsRule(b, a)
  BY PairIsRules
<1>2. \A u \in Seq(Units) : A(u) \in Seq(Units)
  BY <1>1, ApplyUnfolds
<1>3. \A t \in Seq(Units) :
        /\ t = <<>> => A(t) = <<>>
        /\ t # <<>> /\ IsPrefix(a, t) => A(t) = b \o A(Behind(t, a))
        /\ t # <<>> /\ ~IsPrefix(a, t) /\ IsPrefix(b, t) => A(t) = a \o A(Behind(t, b))
        /\ t # <<>> /\ ~IsPrefix(a, t) /\ ~IsPrefix(b, t) => A(t) = <<Head(t)>> \o A(Tail(t))
  BY <1>1, ApplyUnfolds
<1>4. PICK first \in Units, mark \in Units :
        /\ first # mark /\ b = <<mark>>
        /\ \/ a = <<first>>
           \/ \E second \in Units : second # first /\ second # mark /\ a = <<first, second>>
  BY DEF IsPair
<1>5. \A t \in Seq(Units) : IsPrefix(a, t) => t # <<>> /\ Head(t) = first
  BY <1>4, UnitIsPrefix, TwoUnitsArePrefix
<1>6. \A t \in Seq(Units) : IsPrefix(b, t) <=> t # <<>> /\ Head(t) = mark
  BY <1>4, UnitIsPrefix
<1>7. a \in Seq(Units) /\ a # <<>> /\ b \in Seq(Units) /\ b # <<>>
  BY <1>1 DEF IsRule
<1>8. \A h \in Units : \A t \in Seq(Units) : ~IsPrefix(a, <<h>> \o t) /\ t \in Seq(Units) =>
        \A u \in Seq(Units) : u = A(t) => ~IsPrefix(a, <<h>> \o u)
  <2> SUFFICES ASSUME NEW h \in Units, NEW t \in Seq(Units), ~IsPrefix(a, <<h>> \o t),
                      NEW u \in Seq(Units), u = A(t)
               PROVE  ~IsPrefix(a, <<h>> \o u)
    OBVIOUS
  <2>1. /\ <<h>> \o t \in Seq(Units) /\ <<h>> \o t # <<>> /\ Head(<<h>> \o t) = h /\ Tail(<<h>> \o t) = t
        /\ <<h>> \o u \in Seq(Units) /\ <<h>> \o u # <<>> /\ Head(<<h>> \o u) = h /\ Tail(<<h>> \o u) = u
    BY UnitInFront
  <2> DEFINE ht == <<h>> \o t  hu == <<h>> \o u
  <2>2. /\ ht \in Seq(Units) /\ ht # <<>> /\ Head(ht) = h /\ Tail(ht) = t
        /\ hu \in Seq(Units) /\ hu # <<>> /\ Head(hu) = h /\ Tail(hu) = u /\ ~IsPrefix(a, ht)
    BY <2>1
  <2> HIDE DEF ht, hu
  <2>3. CASE a = <<first>>
    BY <2>2, <2>3, UnitIsPrefix, ZenonT(60) DEF hu
  <2>4. ASSUME NEW second \in Units, second # first, second # mark, a = <<first, second>>
        PROVE  ~IsPrefix(a, hu)
    <3>1. h # first \/ t = <<>> \/ Head(t) # second
      BY <2>2, <2>4, TwoUnitsArePrefix, ZenonT(60)
    <3>2. h # first \/ u = <<>> \/ Head(u) # second
      BY <3>1, <2>4, <1>4, SecondStaysBehind DEF A
    <3> QED BY <3>2, <2>2, <2>4, TwoUnitsArePrefix
  <2> QED BY <2>3, <2>4, <1>4 DEF hu
<1> HIDE DEF A
<1>9. ASSUME NEW s \in Seq(Units), \A u \in Seq(Units) : Len(u) < Len(s) => u \in S PROVE s \in S
  <2>1. CASE s = <<>>
    BY <1>3, <2>1
  <2>2. CASE s # <<>> /\ IsPrefix(a, s)
    <3> DEFINE r == Behind(s, a)  w == A(r)  z == b \o w
    <3>1. r \in Seq(Units) /\ Len(r) < Len(s)
      BY <2>2, <1>7, BehindIsShorter
    <3>2. A(s) = z
      BY <1>3, <2>2
    <3>3. s = a \o r
      BY <2>2, <1>7, JoinedFromFront
    <3> HIDE DEF r
    <3>4. w \in Seq(Units) /\ A(w) = r
      BY <3>1, <1>2, <1>9
    <3> HIDE DEF w
    <3>5. z \in Seq(Units) /\ z # <<>> /\ Head(z) = mark
      BY <3>4, <1>4, UnitInFront
    <3>6. IsPrefix(b, z) /\ Behind(z, b) = w
      BY <3>4, <1>7, FrontOfJoined
    <3> HIDE DEF z
    <3>7. ~IsPrefix(a, z)
      BY <3>5, <1>4, <1>5
    <3>8. A(z) = a \o A(w)
      BY <3>5, <3>6, <3>7, <1>3
    <3> QED BY <3>2, <3>3, <3>4, <3>8
  <2>3. CASE s # <<>> /\ ~IsPrefix(a, s) /\ IsPrefix(b, s)
    <3> DEFINE r == Behind(s, b)  w == A(r)  z == a \o w
    <3>1. r \in Seq(Units) /\ Len(r) < Len(s)
      BY <2>3, <1>7, BehindIsShorter
    <3>2. A(s) = z
      BY <1>3, <2>3
    <3>3. s = b \o r
      BY <2>3, <1>7, JoinedFromFront
    <3> HIDE DEF r
    <3>4. w \in Seq(Units) /\ A(w) = r
      BY <3>1, <1>2, <1>9
    <3> HIDE DEF w
    <3>5. z \in Seq(Units) /\ z # <<>>
      BY <3>4, <1>7, ConcatProperties, ConcatEqualIffEmpty
    <3>6. IsPrefix(a, z) /\ Behind(z, a) = w
      BY <3>4, <1>7, FrontOfJoined
    <3> HIDE DEF z
    <3>8. A(z) = b \o A(w)
      BY <3>5, <3>6, <1>3
    <3> QED BY <3>2, <3>3, <3>4, <3>8
  <2>4. CASE s # <<>> /\ ~IsPrefix(a, s) /\ ~IsPrefix(b, s)
    <3> DEFINE h == Head(s)  r == Tail(s)  w == A(r)  z == <<h>> \o w
    <3>1. r \in Seq(Units) /\ Len(r) < Len(s) /\ h \in Units /\ s = <<h>> \o r
      BY <2>4, HeadAndTail
    <3>2. A(s) = z
      BY <1>3, <2>4
    <3>3. h # mark
      BY <2>4, <1>6
    <3> HIDE DEF r, h
    <3>4. w \in Seq(Units) /\ A(w) = r
      BY <3>1, <1>2, <1>9
    <3>5. ~IsPrefix(a, z)
      BY <3>1, <3>4, <2>4, <1>8
    <3> HIDE DEF w
    <3>6. z \in Seq(Units) /\ z # <<>> /\ Head(z) = h /\ Tail(z) = w
      BY <3>1, <3>4, UnitInFront
    <3> HIDE DEF z
    <3>7. ~IsPrefix(b, z)
      BY <3>3, <3>6, <1>6
    <3>8. A(z) = <<h>> \o A(w)
      BY <3>5, <3>6, <3>7, <1>3
    <3> QED BY <3>1, <3>2, <3>4, <3>8
  <2> QED BY <2>1, <2>2, <2>3, <2>4
<1>10. Seq(Units) \subseteq S
  <2> HIDE DEF S
  <2> QED BY <1>9, LengthInduction
<1> QED BY <1>10 DEF A

(***************************************************************************)
(* Entries are taken off one after the other.                              *)
(***************************************************************************)
ExpandStep(f, k, body, chars) == IF k = 0 THEN body ELSE TakenOff(f[k - 1], chars[k])
ExpandFunction(body, chars) ==
  CHOOSE f : f = [k \in 0 .. Len(chars) |-> ExpandStep(f, k, body, chars)]

(* Expand is the last value of the function it defines. *)
LEMMA ExpandIsFunction == \A body, chars : Expand(body, chars) = ExpandFunction(body, chars)[Len(chars)]
BY DEF Expand, ExpandFunction, ExpandStep

Texts == Seq(Units)
(* Taking an entry off leaves a text. *)
LEMMA TakenOffIsText ==
  ASSUME NEW data \in Texts, NEW char \in Units
  PROVE  TakenOff(data, char) \in Texts
<1> DEFINE p == RFind(data, char)
           old == <<char>>  s == SubSeq(data, 1, p - 1)  new == SubSeq(data, p + 1, Len(data))
<1>1. p \in 0 .. Len(data)
  <2> DEFINE found == {q \in DOMAIN data : data[q] = char}
  <2>1. found \subseteq 1 .. Len(data) /\ Len(data) \in Nat
    BY DEF Texts
  <2>2. CASE found = {}
    BY <2>1, <2>2 DEF RFind
  <2>3. CASE found # {}
    <3>1. \E x \in found : \A y \in found : x >= y
      <4> DEFINE R == {Len(data) - q : q \in found}
      <4>1. R \in SUBSET Nat /\ R # {}
        BY <2>1, <2>3
      <4>2. PICK m \in R : \A n \in R : m <= n
        BY <4>1, LeastOf
      <4>3. PICK x \in found : m = Len(data) - x
        BY <4>2
      <4>4. ASSUME NEW y \in found PROVE x >= y
        <5>1. Len(data) - y \in R /\ x \in Nat /\ y \in Nat
          BY <2>1
        <5>2. m <= Len(data) - y
          BY <4>2, <5>1
        <5> QED BY <2>1, <4>3, <5>1, <5>2
      <4> QED BY <4>4
    <3>2. Max(found) \in found
      BY <3>1 DEF Max
    <3>3. p = Max(found)
      BY <2>3 DEF RFind
    <3> QED BY <2>1, <3>2, <3>3
  <2> QED BY <2>2, <2>3
<1>2. data \in Seq(Units) /\ Len(data) \in Nat /\ \A i \in 1 .. Len(data) : data[i] \in Units
  BY DEF Texts
<1> HIDE DEF p
<1>3. s \in Seq(Units)
  <2>1. \A i \in 1 .. p - 1 : data[i] \in Units
    BY <1>1, <1>2
  <2> QED BY <1>1, <2>1, SubSeqProperties
<1>4. new \in Seq(Units)
  <2>1. \A i \in p + 1 .. Len(data) : data[i] \in Units
    BY <1>1, <1>2
  <2> QED BY <1>1, <1>2, <2>1, SubSeqProperties
<1>5. IsRule(old, new)
  BY <1>4 DEF IsRule
<1> HIDE DEF old, s, new
<1>6. Replaced(s, old, new) \in Seq(Units)
  BY <1>3, <1>5, ReplacedUnfolds
<1> QED BY <1>6 DEF TakenOff, p, old, s, new, Texts

(* The recursion of Expand defines a function. *)
LEMMA ExpandDefined ==
  ASSUME NEW body \in Texts, NEW chars \in Texts
  PROVE  LET f == ExpandFunction(body, chars)
         IN  f = [k \in 0 .. Len(chars) |-> ExpandStep(f, k, body, chars)]
<1> DEFINE D == 0 .. Len(chars)
           rank == [k \in D |-> k]
           step == [k \in D |-> [f \in [D -> Texts] |-> ExpandStep(f, k, body, chars)]]
<1>1. Len(chars) \in Nat /\ \A k \in 1 .. Len(chars) : chars[k] \in Units
  BY DEF Texts
<1>2. \A k \in D : rank[k] \in Nat /\ rank[k] = k /\ (k # 0 => k - 1 \in D /\ k \in 1 .. Len(chars))
  BY <1>1
<1>3. ASSUME NEW k \in D, NEW f \in [D -> Texts] PROVE ExpandStep(f, k, body, chars) \in Texts
  <2>1. CASE k = 0
    BY <2>1 DEF ExpandStep
  <2>2. CASE k # 0
    <3>1. f[k - 1] \in Texts /\ chars[k] \in Units
      BY <1>1, <1>2, <2>2
    <3> HIDE DEF D
    <3>2. TakenOff(f[k - 1], chars[k]) \in Texts
      BY <3>1, TakenOffIsText
    <3> QED BY <2>2, <3>2 DEF ExpandStep
  <2> QED BY <2>1, <2>2
<1>4. step \in [D -> [[D -> Texts] -> Texts]] /\ \A k \in D : \A f \in [D -> Texts] : step[k][f] = ExpandStep(f, k, body, chars)
  BY <1>3
<1> HIDE DEF rank, step
<1>5. LooksDown(D, Texts, rank, step)
  <2> SUFFICES ASSUME NEW k \in D, NEW f \in [D -> Texts], NEW g \in [D -> Texts], Agree(D, rank, k, f, g)
               PROVE  step[k][f] = step[k][g]
    BY DEF LooksDown
  <2>1. k # 0 => f[k - 1] = g[k - 1]
    <3>1. k # 0 => k - 1 \in D /\ rank[k - 1] < rank[k]
      BY <1>2
    <3> QED BY <3>1 DEF Agree
  <2>2. ExpandStep(f, k, body, chars) = ExpandStep(g, k, body, chars)
    BY <2>1 DEF ExpandStep
  <2> QED BY <2>2, <1>4
<1>6. Texts # {} /\ \A k \in D : rank[k] \in Nat
  BY <1>2
<1> HIDE DEF D
<1>7. PICK f \in [D -> Texts] : \A k \in D : f[k] = step[k][f]
  <2>1. IsFixed(D, Texts, step)
    BY <1>4, <1>5, <1>6, RankRecursion
  <2> QED BY <2>1 DEF IsFixed
<1>8. f = [k \in D |-> ExpandStep(f, k, body, chars)]
  BY <1>7, <1>4
<1> QED BY <1>8 DEF ExpandFunction, D

(* Induction up to n. *)
LEMMA NatIntervalInduction ==
  ASSUME NEW n \in Nat, NEW S, 0 \in S, \A k \in 0 .. n - 1 : k \in S => k + 1 \in S
  PROVE  0 .. n \subseteq S
<1> DEFINE D == 0 .. n
           rank == [k \in D |-> k]
<1>1. \A k \in D : rank[k] \in Nat
  OBVIOUS
<1>2. \A x \in D : (\A y \in D : rank[y] < rank[x] => y \in S) => x \in S
  <2> SUFFICES ASSUME NEW x \in D, \A y \in D : rank[y] < rank[x] => y \in S PROVE x \in S
    OBVIOUS
  <2>1. CASE x = 0
    BY <2>1
  <2>2. CASE x # 0
    <3>1. x - 1 \in 0 .. n - 1 /\ x - 1 \in D /\ rank[x - 1] < rank[x] /\ (x - 1) + 1 = x
      BY <2>2
    <3>2. x - 1 \in S
      BY <3>1
    <3> QED BY <3>1, <3>2
  <2> QED BY <2>1, <2>2
<1> HIDE DEF D, rank
<1>3. D \subseteq S
  BY <1>1, <1>2, RankInduction
<1> QED BY <1>3 DEF D

(* The first character is taken off first.                                 *)
LEMMA ExpandUnfolds ==
  ASSUME NEW body \in Texts, NEW chars \in Texts, NEW char \in Units
  PROVE  /\ Expand(body, <<>>) = body
         /\ Expand(body, <<char>> \o chars) = Expand(TakenOff(body, char), chars)
<1> DEFINE more == <<char>> \o chars
           next == TakenOff(body, char)
           f == ExpandFunction(body, more)
           g == ExpandFunction(next, chars)
           n == Len(chars)
<1>1. chars \in Seq(Units) /\ n \in Nat
  BY DEF Texts
<1>2. more \in Texts /\ Len(more) = n + 1 /\ more[1] = char /\ \A i \in 1 .. n : more[i + 1] = chars[i]
  BY <1>1, UnitInFront DEF Texts
<1>3. next \in Texts
  BY TakenOffIsText
<1> HIDE DEF more, next
<1>4. f = [k \in 0 .. Len(more) |-> ExpandStep(f, k, body, more)]
  BY <1>2, ExpandDefined
<1>5. g = [k \in 0 .. n |-> ExpandStep(g, k, next, chars)]
  BY <1>3, ExpandDefined
<1> HIDE DEF f, g, n
<1>6. \A k \in 0 .. n + 1 : f[k] = ExpandStep(f, k, body, more)
  BY <1>2, <1>4
<1>7. \A k \in 0 .. n : g[k] = ExpandStep(g, k, next, chars)
  BY <1>5
<1> DEFINE S == {k \in 0 .. n : f[k + 1] = g[k]}
<1>8. 0 \in S
  <2>1. 0 \in 0 .. n + 1 /\ 1 \in 0 .. n + 1 /\ 0 \in 0 .. n
    BY <1>1
  <2>2. f[0] = body
    BY <2>1, <1>6 DEF ExpandStep
  <2>3. f[1] = TakenOff(f[0], more[1])
    <3>1. f[1] = ExpandStep(f, 1, body, more)
      BY <2>1, <1>6
    <3> QED BY <3>1 DEF ExpandStep
  <2>4. g[0] = next
    BY <2>1, <1>7 DEF ExpandStep
  <2>5. f[0 + 1] = g[0]
    BY <2>2, <2>3, <2>4, <1>2 DEF next
  <2> QED BY <2>1, <2>5
<1>9. ASSUME NEW k \in 0 .. n - 1, k \in S PROVE k + 1 \in S
  <2>1. k + 1 \in 0 .. n /\ (k + 1) + 1 \in 0 .. n + 1 /\ k + 1 \in 1 .. n /\ ((k + 1) + 1) - 1 = k + 1 /\ (k + 1) - 1 = k
        /\ k + 1 # 0 /\ (k + 1) + 1 # 0
    BY <1>1
  <2>2. f[(k + 1) + 1] = TakenOff(f[k + 1], more[(k + 1) + 1])
    BY <2>1, <1>6 DEF ExpandStep
  <2>3. g[k + 1] = TakenOff(g[k], chars[k + 1])
    BY <2>1, <1>7 DEF ExpandStep
  <2>4. more[(k + 1) + 1] = chars[k + 1] /\ f[k + 1] = g[k]
    BY <2>1, <1>2, <1>9
  <2> QED BY <2>1, <2>2, <2>3, <2>4
<1>10. n \in S
  <2> HIDE DEF S
  <2>1. 0 .. n \subseteq S
    BY <1>1, <1>8, <1>9, NatIntervalInduction
  <2> QED BY <2>1, <1>1
<1>11. Expand(body, more) = Expand(next, chars)
  <2>1. Expand(body, more) = f[Len(more)]
    BY ExpandIsFunction DEF f
  <2>2. Expand(next, chars) = g[n]
    BY ExpandIsFunction DEF g, n
  <2> QED BY <2>1, <2>2, <1>2, <1>10
<1>12. Expand(body, <<>>) = body
  <2> DEFINE none == <<>>  h == ExpandFunction(body, none)
  <2>1. none \in Texts /\ Len(none) = 0
    BY DEF Texts
  <2> HIDE DEF none
  <2>2. h = [k \in 0 .. Len(none) |-> ExpandStep(h, k, body, none)]
    BY <2>1, ExpandDefined
  <2> HIDE DEF h
  <2>3. h[0] = body
    <3>1. 0 \in 0 .. Len(none)
      BY <2>1
    <3>2. h[0] = ExpandStep(h, 0, body, none)
      BY <2>2, <3>1
    <3> QED BY <3>2 DEF ExpandStep
  <2>4. Expand(body, none) = h[Len(none)]
    BY ExpandIsFunction DEF h
  <2> QED BY <2>1, <2>3, <2>4 DEF none
<1> QED BY <1>11, <1>12 DEF more, next

(***************************************************************************)
(* The swap of structure characters.                                       *)
(***************************************************************************)
Plain == Units \ {Delimiter}
Swap(s, k) == Apply(s, Groups[k][1], Groups[k][2])

(* Texts of one and two units. *)
LEMMA ShortTexts ==
  ASSUME NEW T, NEW c \in T, NEW d \in T
  PROVE  <<c>> \in Seq(T) /\ <<d>> \in Seq(T) /\ <<c, d>> \in Seq(T)
OBVIOUS

(* The five pairs. *)
LEMMA FivePairs == \A k \in 1 .. 5 : k = 1 \/ k = 2 \/ k = 3 \/ k = 4 \/ k = 5
OBVIOUS

(* Each group is a pair, without the delimiter. *)
LEMMA GroupsArePairs ==
  ASSUME NEW k \in 1 .. 5
  PROVE  IsPair(Groups[k][1], Groups[k][2]) /\ Groups[k][1] \in Seq(Plain) /\ Groups[k][2] \in Seq(Plain)
<1> USE UnitsAssumption DEF SwapMarks, Delimiter, Plain
<1>1. CASE k = 1
  <2>1. Groups[1][1] = <<"dq">> /\ Groups[1][2] = <<"sq">>
    BY DEF Groups
  <2>2. "dq" \in Plain /\ "sq" \in Plain /\ "dq" # "sq" /\ "dq" \in Units /\ "sq" \in Units
    OBVIOUS
  <2> HIDE DEF Plain
  <2>3. IsPair(<<"dq">>, <<"sq">>)
    BY <2>2 DEF IsPair
  <2>4. <<"dq">> \in Seq(Plain) /\ <<"sq">> \in Seq(Plain)
    BY <2>2, ShortTexts
  <2> QED BY <1>1, <2>1, <2>3, <2>4
<1>2. CASE k = 2
  <2>1. Groups[2][1] = <<"sq", ":">> /\ Groups[2][2] = <<"!">>
    BY DEF Groups
  <2>2. /\ "sq" \in Plain /\ "!" \in Plain /\ ":" \in Plain
        /\ "sq" \in Units /\ "!" \in Units /\ ":" \in Units
        /\ "sq" # "!" /\ ":" # "sq" /\ ":" # "!"
    OBVIOUS
  <2> HIDE DEF Plain
  <2>3. IsPair(<<"sq", ":">>, <<"!">>)
    BY <2>2 DEF IsPair
  <2>4. <<"sq", ":">> \in Seq(Plain) /\ <<"!">> \in Seq(Plain)
    BY <2>2, ShortTexts
  <2> QED BY <1>2, <2>1, <2>3, <2>4
<1>3. CASE k = 3
  <2>1. Groups[3][1] = <<",", "sq">> /\ Groups[3][2] = <<"~">>
    BY DEF Groups
  <2>2. /\ "," \in Plain /\ "~" \in Plain /\ "sq" \in Plain
        /\ "," \in Units /\ "~" \in Units /\ "sq" \in Units
        /\ "," # "~" /\ "sq" # "," /\ "sq" # "~"
    OBVIOUS
  <2> HIDE DEF Plain
  <2>3. IsPair(<<",", "sq">>, <<"~">>)
    BY <2>2 DEF IsPair
  <2>4. <<",", "sq">> \in Seq(Plain) /\ <<"~">> \in Seq(Plain)
    BY <2>2, ShortTexts
  <2> QED BY <1>3, <2>1, <2>3, <2>4
<1>4. CASE k = 4
  <2>1. Groups[4][1] = <<"}">> /\ Groups[4][2] = <<")">>
    BY DEF Groups
  <2>2. "}" \in Plain /\ ")" \in Plain /\ "}" # ")" /\ "}" \in Units /\ ")" \in Units
    OBVIOUS
  <2> HIDE DEF Plain
  <2>3. IsPair(<<"}">>, <<")">>)
    BY <2>2 DEF IsPair
  <2>4. <<"}">> \in Seq(Plain) /\ <<")">> \in Seq(Plain)
    BY <2>2, ShortTexts
  <2> QED BY <1>4, <2>1, <2>3, <2>4
<1>5. CASE k = 5
  <2>1. Groups[5][1] = <<"{">> /\ Groups[5][2] = <<"(">>
    BY DEF Groups
  <2>2. "{" \in Plain /\ "(" \in Plain /\ "{" # "(" /\ "{" \in Units /\ "(" \in Units
    OBVIOUS
  <2> HIDE DEF Plain
  <2>3. IsPair(<<"{">>, <<"(">>)
    BY <2>2 DEF IsPair
  <2>4. <<"{">> \in Seq(Plain) /\ <<"(">> \in Seq(Plain)
    BY <2>2, ShortTexts
  <2> QED BY <1>5, <2>1, <2>3, <2>4
<1> HIDE DEF Plain
<1>6. k = 1 \/ k = 2 \/ k = 3 \/ k = 4 \/ k = 5
  BY FivePairs
<1> QED BY <1>1, <1>2, <1>3, <1>4, <1>5, <1>6

(* One swap gives a text, and doing it again undoes it. *)
LEMMA SwapIsText ==
  ASSUME NEW k \in 1 .. 5, NEW s \in Seq(Units)
  PROVE  Swap(s, k) \in Seq(Units) /\ Swap(Swap(s, k), k) = s
<1> DEFINE a == Groups[k][1]  b == Groups[k][2]
<1>1. IsPair(a, b)
  BY GroupsArePairs
<1>2. Swap(s, k) = Apply(s, a, b) /\ Swap(Apply(s, a, b), k) = Apply(Apply(s, a, b), a, b)
  BY DEF Swap
<1> HIDE DEF a, b
<1>3. IsRule(a, b) /\ IsRule(b, a)
  BY <1>1, PairIsRules
<1>4. Apply(s, a, b) \in Seq(Units)
  BY <1>3, ApplyUnfolds
<1>5. Apply(Apply(s, a, b), a, b) = s
  BY <1>1, ApplyIsUndone
<1> QED BY <1>2, <1>4, <1>5

(* The head of a text is one of its units. *)
LEMMA HeadStaysIn ==
  ASSUME NEW W, NEW t \in Seq(W), t # <<>>
  PROVE  Head(t) \in W
OBVIOUS

(* One swap brings no delimiter in. *)
LEMMA SwapIsPlain ==
  ASSUME NEW k \in 1 .. 5, NEW s \in Seq(Plain)
  PROVE  Swap(s, k) \in Seq(Plain)
<1> DEFINE a == Groups[k][1]  b == Groups[k][2]
<1>1. IsPair(a, b) /\ a \in Seq(Plain) /\ b \in Seq(Plain)
  BY GroupsArePairs
<1>2. Swap(s, k) = Pass(s, a, b, b, a)
  BY DEF Swap, Apply
<1> HIDE DEF a, b
<1>3. IsRule(a, b) /\ IsRule(b, a)
  BY <1>1, PairIsRules
<1>4. Plain \in SUBSET Units
  BY DEF Plain
<1>5. \A t \in Seq(Plain) : t # <<>> => Head(t) \in Plain
  BY HeadStaysIn
<1> HIDE DEF Plain
<1>6. Pass(s, a, b, b, a) \in Seq(Plain)
  BY <1>1, <1>3, <1>4, <1>5, PassStaysIn
<1> QED BY <1>2, <1>6

(* The swap is five swaps, in either order. *)
LEMMA SwapInSteps ==
  ASSUME NEW s
  PROVE  /\ json_crush_swap(s, TRUE) = Swap(Swap(Swap(Swap(Swap(s, 1), 2), 3), 4), 5)
         /\ json_crush_swap(s, FALSE) = Swap(Swap(Swap(Swap(Swap(s, 5), 4), 3), 2), 1)
BY DEF json_crush_swap, Swap

(* json_crush_swap backward undoes json_crush_swap forward. *)
LEMMA SwapIsUndone ==
  ASSUME NEW s \in Seq(Units)
  PROVE  json_crush_swap(json_crush_swap(s, TRUE), FALSE) = s
<1>1. PICK s1 : s1 = Swap(s, 1)
  OBVIOUS
<1>2. PICK s2 : s2 = Swap(s1, 2)
  OBVIOUS
<1>3. PICK s3 : s3 = Swap(s2, 3)
  OBVIOUS
<1>4. PICK s4 : s4 = Swap(s3, 4)
  OBVIOUS
<1>5. PICK s5 : s5 = Swap(s4, 5)
  OBVIOUS
<1>6. s1 \in Seq(Units) /\ Swap(s1, 1) = s
  BY <1>1, SwapIsText, 1 \in 1 .. 5
<1>7. s2 \in Seq(Units) /\ Swap(s2, 2) = s1
  BY <1>2, <1>6, SwapIsText, 2 \in 1 .. 5
<1>8. s3 \in Seq(Units) /\ Swap(s3, 3) = s2
  BY <1>3, <1>7, SwapIsText, 3 \in 1 .. 5
<1>9. s4 \in Seq(Units) /\ Swap(s4, 4) = s3
  BY <1>4, <1>8, SwapIsText, 4 \in 1 .. 5
<1>10. s5 \in Seq(Units) /\ Swap(s5, 5) = s4
  BY <1>5, <1>9, SwapIsText, 5 \in 1 .. 5
<1>11. json_crush_swap(s, TRUE) = s5
  BY <1>1, <1>2, <1>3, <1>4, <1>5, SwapInSteps
<1>12. json_crush_swap(s5, FALSE) = s
  BY <1>6, <1>7, <1>8, <1>9, <1>10, SwapInSteps
<1> QED BY <1>11, <1>12

(* The swap brings no delimiter in. *)
LEMMA SwappedIsPlain ==
  ASSUME NEW s \in Seq(Plain)
  PROVE  json_crush_swap(s, TRUE) \in Seq(Plain)
<1>1. PICK s1 : s1 = Swap(s, 1)
  OBVIOUS
<1>2. PICK s2 : s2 = Swap(s1, 2)
  OBVIOUS
<1>3. PICK s3 : s3 = Swap(s2, 3)
  OBVIOUS
<1>4. PICK s4 : s4 = Swap(s3, 4)
  OBVIOUS
<1>6. s1 \in Seq(Plain)
  BY <1>1, SwapIsPlain, 1 \in 1 .. 5
<1>7. s2 \in Seq(Plain)
  BY <1>2, <1>6, SwapIsPlain, 2 \in 1 .. 5
<1>8. s3 \in Seq(Plain)
  BY <1>3, <1>7, SwapIsPlain, 3 \in 1 .. 5
<1>9. s4 \in Seq(Plain)
  BY <1>4, <1>8, SwapIsPlain, 4 \in 1 .. 5
<1>10. Swap(s4, 5) \in Seq(Plain)
  BY <1>9, SwapIsPlain, 5 \in 1 .. 5
<1> QED BY <1>1, <1>2, <1>3, <1>4, <1>10, SwapInSteps

(* crush leaves no delimiter in the text. *)
LEMMA DelimiterIsTakenOut ==
  ASSUME NEW s \in Seq(Units)
  PROVE  WithoutDelimiter(s) \in Seq(Plain)
<1> DEFINE old == <<Delimiter>>  none == <<>>
<1>1. Delimiter \in Units /\ Units \in SUBSET Units /\ Plain \in SUBSET Units
  BY UnitsAssumption DEF Plain
<1>2. old \in Seq(Units) /\ old # <<>> /\ none \in Seq(Units) /\ none \in Seq(Plain)
  BY <1>1
<1>3. IsRule(old, none)
  BY <1>2 DEF IsRule
<1>4. \A t \in Seq(Units) : t # <<>> /\ ~IsPrefix(old, t) => Head(t) \in Plain
  <2> SUFFICES ASSUME NEW t \in Seq(Units), t # <<>>, ~IsPrefix(old, t) PROVE Head(t) \in Plain
    OBVIOUS
  <2>1. Head(t) # Delimiter
    BY <1>1, UnitIsPrefix
  <2>2. Head(t) \in Units
    BY HeadStaysIn
  <2> QED BY <2>1, <2>2 DEF Plain
<1>5. WithoutDelimiter(s) = Pass(s, old, none, old, none)
  BY DEF WithoutDelimiter, Replaced
<1> HIDE DEF old, none, Plain
<1>6. Pass(s, old, none, old, none) \in Seq(Plain)
  BY <1>1, <1>2, <1>3, <1>4, PassStaysIn
<1> QED BY <1>5, <1>6

(* A text without the delimiter is a text. *)
LEMMA PlainIsText == Plain \in SUBSET Units /\ \A s \in Seq(Plain) : s \in Seq(Units)
BY DEF Plain

(***************************************************************************)
(* The last occurrence of a character cuts a text in two.                  *)
(***************************************************************************)
LEMMA GreatestOf ==
  ASSUME NEW n \in Nat, NEW S \in SUBSET (1 .. n), S # {}
  PROVE  Max(S) \in S /\ \A y \in S : Max(S) >= y
<1> DEFINE R == {n - q : q \in S}
<1>0. \A q \in S : q \in 1 .. n
  OBVIOUS
<1>1. R \in SUBSET Nat /\ R # {}
  <2>1. \A q \in S : n - q \in Nat
    BY <1>0
  <2> QED BY <2>1
<1>2. PICK m \in R : \A r \in R : m <= r
  BY <1>1, LeastOf
<1>3. PICK x \in S : m = n - x
  BY <1>2
<1>4. ASSUME NEW y \in S PROVE x >= y
  <2>1. n - y \in R /\ x \in Nat /\ y \in Nat
    OBVIOUS
  <2>2. m <= n - y
    BY <1>2, <2>1
  <2> QED BY <1>3, <2>1, <2>2
<1>5. \E z \in S : \A y \in S : z >= y
  BY <1>4
<1> QED BY <1>5 DEF Max

(* The units of two texts together. *)
LEMMA JoinedUnits ==
  ASSUME NEW T, NEW u \in Seq(T), NEW v \in Seq(T)
  PROVE  /\ u \o v \in Seq(T) /\ Len(u \o v) = Len(u) + Len(v)
         /\ \A i \in 1 .. Len(u) : (u \o v)[i] = u[i]
         /\ \A i \in 1 .. Len(v) : (u \o v)[Len(u) + i] = v[i]
<1>1. Len(u) \in Nat /\ Len(v) \in Nat
  OBVIOUS
<1>2. u \o v \in Seq(T) /\ Len(u \o v) = Len(u) + Len(v)
  OBVIOUS
<1>3. \A i \in 1 .. Len(u) : (u \o v)[i] = u[i]
  <2> SUFFICES ASSUME NEW i \in 1 .. Len(u) PROVE (u \o v)[i] = u[i]
    OBVIOUS
  <2> QED BY <1>1, ConcatProperties
<1>4. \A i \in 1 .. Len(v) : (u \o v)[Len(u) + i] = v[i]
  <2> SUFFICES ASSUME NEW i \in 1 .. Len(v) PROVE (u \o v)[Len(u) + i] = v[i]
    OBVIOUS
  <2>1. Len(u) + i \in 1 .. Len(u) + Len(v) /\ ~(Len(u) + i <= Len(u)) /\ (Len(u) + i) - Len(u) = i
    BY <1>1
  <2>2. (u \o v)[Len(u) + i] = IF Len(u) + i <= Len(u) THEN u[Len(u) + i] ELSE v[(Len(u) + i) - Len(u)]
    BY <2>1, ConcatProperties
  <2> QED BY <2>1, <2>2
<1> QED BY <1>2, <1>3, <1>4

(* rfind finds a character behind which it does not stand again. *)
LEMMA LastIsFound ==
  ASSUME NEW T, NEW u \in Seq(T), NEW c \in T, NEW v \in Seq(T \ {c})
  PROVE  LET data == u \o (<<c>> \o v)
         IN  /\ RFind(data, c) = Len(u) + 1
             /\ SubSeq(data, 1, Len(u)) = u
             /\ SubSeq(data, Len(u) + 2, Len(data)) = v
<1> DEFINE rest == <<c>> \o v
           data == u \o rest
           n == Len(u)
<1>1. v \in Seq(T) /\ Len(v) \in Nat /\ n \in Nat /\ \A i \in 1 .. Len(v) : v[i] # c
  OBVIOUS
<1>2. rest \in Seq(T) /\ Len(rest) = Len(v) + 1 /\ rest[1] = c /\ \A i \in 1 .. Len(v) : rest[i + 1] = v[i]
  BY <1>1, UnitInFront
<1> HIDE DEF rest
<1>3. /\ data \in Seq(T) /\ Len(data) = n + Len(v) + 1
      /\ \A i \in 1 .. n : data[i] = u[i]
      /\ \A i \in 1 .. Len(v) + 1 : data[n + i] = rest[i]
  <2>1. /\ data \in Seq(T) /\ Len(data) = n + Len(rest)
        /\ \A i \in 1 .. n : data[i] = u[i]
        /\ \A i \in 1 .. Len(rest) : data[n + i] = rest[i]
    <3>1. rest \in Seq(T)
      BY <1>2
    <3>2. data \in Seq(T) /\ Len(data) = n + Len(rest)
      BY <3>1, JoinedUnits
    <3>3. \A i \in 1 .. n : data[i] = u[i]
      BY <3>1, JoinedUnits
    <3>4. \A i \in 1 .. Len(rest) : data[n + i] = rest[i]
      BY <3>1, JoinedUnits
    <3> QED BY <3>2, <3>3, <3>4
  <2> HIDE DEF data, n
  <2> QED BY <2>1, <1>1, <1>2
<1> HIDE DEF data, n
<1>4. data[n + 1] = c /\ n + 1 \in 1 .. Len(data)
  <2>1. 1 \in 1 .. Len(v) + 1
    BY <1>1
  <2>2. data[n + 1] = rest[1]
    BY <1>3, <2>1
  <2> QED BY <2>2, <1>1, <1>2, <1>3
<1>5. \A i \in 1 .. Len(v) : data[n + 1 + i] = v[i]
  <2> SUFFICES ASSUME NEW i \in 1 .. Len(v) PROVE data[n + 1 + i] = v[i]
    OBVIOUS
  <2>1. i + 1 \in 1 .. Len(v) + 1 /\ n + (i + 1) = n + 1 + i
    BY <1>1
  <2>2. data[n + (i + 1)] = rest[i + 1]
    BY <1>3, <2>1
  <2> QED BY <2>1, <2>2, <1>2
<1>6. RFind(data, c) = n + 1
  <2> DEFINE found == {q \in DOMAIN data : data[q] = c}
  <2>1. found \in SUBSET (1 .. Len(data)) /\ n + 1 \in found /\ found # {} /\ Len(data) \in Nat
    BY <1>1, <1>3, <1>4
  <2>2. \A q \in found : q <= n + 1
    <3> SUFFICES ASSUME NEW q \in found, q > n + 1 PROVE FALSE
      BY <2>1, <1>1
    <3>1. q - (n + 1) \in 1 .. Len(v) /\ n + 1 + (q - (n + 1)) = q
      BY <2>1, <1>1, <1>3
    <3>2. data[q] = v[q - (n + 1)]
      BY <3>1, <1>5
    <3> QED BY <3>1, <3>2, <1>1
  <2>3. RFind(data, c) = Max(found)
    BY <2>1 DEF RFind
  <2> HIDE DEF found
  <2>4. Max(found) \in found /\ \A y \in found : Max(found) >= y
    BY <2>1, GreatestOf
  <2>5. PICK m : m = Max(found)
    OBVIOUS
  <2>6. m \in found /\ m >= n + 1
    BY <2>1, <2>4, <2>5
  <2>7. m \in 1 .. Len(data) /\ m <= n + 1
    BY <2>1, <2>2, <2>6
  <2>8. m = n + 1
    BY <2>1, <2>6, <2>7, <1>1
  <2> QED BY <2>3, <2>5, <2>8
<1>7. SubSeq(data, 1, n) = u
  <2> DEFINE w == SubSeq(data, 1, n)
  <2>1. w \in Seq(T) /\ Len(w) = n /\ \A i \in 1 .. n : w[i] = data[i]
    BY <1>1, <1>3
  <2> HIDE DEF w
  <2>2. Len(u) = n /\ \A i \in 1 .. n : w[i] = u[i]
    BY <2>1, <1>3 DEF n
  <2>3. w = u
    BY <2>1, <2>2, SeqEqual
  <2> QED BY <2>3 DEF w
<1>8. SubSeq(data, n + 2, Len(data)) = v
  <2> DEFINE w == SubSeq(data, n + 2, Len(data))
  <2>1. w \in Seq(T) /\ Len(w) = Len(v) /\ \A i \in 1 .. Len(v) : w[i] = data[n + 1 + i]
    <3>1. \A i \in n + 2 .. Len(data) : data[i] \in T
      BY <1>1, <1>3
    <3>2. w \in Seq(T) /\ Len(w) = Len(v)
      BY <1>1, <1>3, <3>1, SubSeqProperties
    <3>3. \A i \in 1 .. Len(v) : w[i] = data[n + 1 + i]
      <4> SUFFICES ASSUME NEW i \in 1 .. Len(v) PROVE w[i] = data[n + 1 + i]
        OBVIOUS
      <4>1. n + 2 + i - 1 = n + 1 + i /\ i \in 1 .. Len(data) - (n + 2) + 1
        BY <1>1, <1>3
      <4>2. w[i] = data[n + 2 + i - 1]
        BY <4>1, <1>1, <1>3
      <4> QED BY <4>1, <4>2
    <3> QED BY <3>2, <3>3
  <2> HIDE DEF w
  <2>2. \A i \in 1 .. Len(v) : w[i] = v[i]
    BY <2>1, <1>5
  <2>3. w = v
    BY <2>1, <2>2, <1>1, SeqEqual
  <2> QED BY <2>3 DEF w
<1> QED BY <1>6, <1>7, <1>8 DEF data, rest, n

(* rfind finds no character that does not stand in the text. *)
LEMMA NoneIsFound ==
  ASSUME NEW T, NEW c, NEW s \in Seq(T \ {c})
  PROVE  RFind(s, c) = 0
<1>1. {q \in DOMAIN s : s[q] = c} = {}
  OBVIOUS
<1> QED BY <1>1 DEF RFind

(* The front of a text and a character is the text. *)
LEMMA FrontOfAppended ==
  ASSUME NEW T, NEW s \in Seq(T), NEW c
  PROVE  Front(s \o <<c>>) = s
<1> DEFINE U == T \cup {c}  one == <<c>>  data == s \o one
<1>1. s \in Seq(U) /\ c \in U /\ Len(s) \in Nat
  OBVIOUS
<1>2. one \in Seq(U) /\ Len(one) = 1
  BY <1>1
<1> HIDE DEF U, one
<1>3. data \in Seq(U) /\ Len(data) = Len(s) + 1 /\ \A i \in 1 .. Len(s) : data[i] = s[i]
  BY <1>1, <1>2, JoinedUnits
<1> DEFINE w == SubSeq(data, 1, Len(s))
<1>4. Front(data) = w
  <2>1. Len(data) - 1 = Len(s)
    BY <1>1, <1>3
  <2> QED BY <2>1 DEF Front
<1> HIDE DEF data
<1>5. w \in Seq(U) /\ Len(w) = Len(s) /\ \A i \in 1 .. Len(s) : w[i] = data[i]
  BY <1>1, <1>3
<1> HIDE DEF w
<1>6. \A i \in 1 .. Len(s) : w[i] = s[i]
  BY <1>3, <1>5
<1>7. w = s
  BY <1>1, <1>5, <1>6, SeqEqual
<1> QED BY <1>4, <1>7 DEF data, one

(* What crush puts together, uncrush takes apart.                          *)
LEMMA CrushedIsRead ==
  ASSUME NEW s \in Seq(Plain), NEW chars \in Seq(Plain)
  PROVE  uncrush_to_string(Crushed(s, chars)) = json_crush_swap(Expand(s, chars), FALSE)
<1>1. Delimiter \in Units /\ Plain = Units \ {Delimiter} /\ s \in Seq(Units) /\ chars \in Seq(Units)
  BY UnitsAssumption DEF Plain
<1>2. CASE chars = <<>>
  <2>1. Crushed(s, chars) = s \o <<"_">>
    BY <1>1, <1>2 DEF Crushed
  <2>2. Front(s \o <<"_">>) = s
    BY <1>1, FrontOfAppended
  <2>3. RFind(s, Delimiter) = 0
    BY <1>1, NoneIsFound
  <2>4. uncrush_to_string(Crushed(s, chars)) = json_crush_swap(Expand(s, <<>>), FALSE)
    BY <2>1, <2>2, <2>3 DEF uncrush_to_string
  <2> QED BY <1>2, <2>4
<1>3. CASE chars # <<>>
  <2> DEFINE data == s \o (<<Delimiter>> \o chars)
  <2>1. Crushed(s, chars) = data \o <<"_">>
    BY <1>3 DEF Crushed
  <2>2. data \in Seq(Units)
    <3>1. <<Delimiter>> \o chars \in Seq(Units)
      BY <1>1, UnitInFront
    <3> QED BY <1>1, <3>1
  <2>3. chars \in Seq(Units \ {Delimiter})
    BY <1>1
  <2>4. /\ RFind(data, Delimiter) = Len(s) + 1
        /\ SubSeq(data, 1, Len(s)) = s
        /\ SubSeq(data, Len(s) + 2, Len(data)) = chars
    BY <1>1, <2>3, LastIsFound
  <2> HIDE DEF data
  <2>5. Front(Crushed(s, chars)) = data
    BY <2>1, <2>2, FrontOfAppended
  <2>6. Len(s) \in Nat /\ Len(s) + 1 # 0 /\ (Len(s) + 1) - 1 = Len(s) /\ (Len(s) + 1) + 1 = Len(s) + 2
    BY <1>1
  <2>7. uncrush_to_string(Crushed(s, chars)) =
          json_crush_swap(Expand(SubSeq(data, 1, (Len(s) + 1) - 1), SubSeq(data, (Len(s) + 1) + 1, Len(data))), FALSE)
    BY <2>4, <2>5, <2>6 DEF uncrush_to_string
  <2> QED BY <2>4, <2>6, <2>7
<1> QED BY <1>2, <1>3

(* An entry that was put at the end is taken off.                          *)
LEMMA TakenOffIsRestored ==
  ASSUME NEW c \in Units, NEW value \in Seq(Units \ {c}), value # <<>>, NEW s \in Seq(Units \ {c})
  PROVE  TakenOff(Replaced(s, value, <<c>>) \o (<<c>> \o value), c) = s
<1> DEFINE one == <<c>>
           shrunk == Replaced(s, value, one)
           data == shrunk \o (<<c>> \o value)
<1>1. s \in Seq(Units) /\ value \in Seq(Units) /\ one \in Seq(Units)
  OBVIOUS
<1>2. IsRule(value, one)
  BY <1>1 DEF IsRule
<1>3. Replaced(shrunk, one, value) = s
  BY ReplacedIsRestored
<1> HIDE DEF one
<1>4. shrunk \in Seq(Units)
  BY <1>1, <1>2, ReplacedUnfolds
<1> HIDE DEF shrunk
<1>5. /\ RFind(data, c) = Len(shrunk) + 1
      /\ SubSeq(data, 1, Len(shrunk)) = shrunk
      /\ SubSeq(data, Len(shrunk) + 2, Len(data)) = value
  BY <1>4, LastIsFound
<1> HIDE DEF data
<1>6. (Len(shrunk) + 1) - 1 = Len(shrunk) /\ (Len(shrunk) + 1) + 1 = Len(shrunk) + 2
  BY <1>4
<1>7. TakenOff(data, c) = Replaced(shrunk, <<c>>, value)
  BY <1>5, <1>6 DEF TakenOff
<1> QED BY <1>3, <1>7 DEF data, shrunk, one

(***************************************************************************)
(* The state of a crush: every candidate that counts stands in the text.   *)
(***************************************************************************)
StandsIn(v, s) == \A i \in 1 .. Len(v) : Contains(s, v[i])

IsCandidate(c, s) ==
  /\ c.value \in Seq(Units)
  /\ c.value # <<>>
  /\ c.count # 0 => StandsIn(c.value, s)

CrushInv ==
  /\ input \in Inputs
  /\ string \in Seq(Plain)
  /\ split \in Seq(Plain)
  /\ replacePos \in 0 .. Len(Replacements)
  /\ \A c \in candidates : IsCandidate(c, string)
  /\ Expand(string, split) = Swapped(input)

(* The units of a slice stand in the text. *)
LEMMA SliceStandsIn ==
  ASSUME NEW s \in Seq(Units), NEW p \in Nat, NEW len \in Nat, p >= 1, len >= 1, p + len - 1 <= Len(s)
  PROVE  LET v == Sub(s, p, len)
         IN  v \in Seq(Units) /\ Len(v) = len /\ v # <<>> /\ StandsIn(v, s)
<1> DEFINE v == Sub(s, p, len)
<1>1. Len(s) \in Nat /\ \A i \in 1 .. Len(s) : s[i] \in Units
  OBVIOUS
<1>2. \A i \in p .. p + len - 1 : s[i] \in Units
  BY <1>1
<1>3. v \in Seq(Units) /\ Len(v) = len /\ \A i \in 1 .. len : v[i] = s[p + i - 1]
  <2>1. p \in Int /\ p + len - 1 \in Int /\ p <= p + len - 1 /\ (p + len - 1) - p + 1 = len
    OBVIOUS
  <2> DEFINE q == p + len - 1
  <2> HIDE DEF q
  <2>2. /\ SubSeq(s, p, q) \in Seq(Units)
        /\ Len(SubSeq(s, p, q)) = IF p <= q THEN q - p + 1 ELSE 0
        /\ \A i \in 1 .. q - p + 1 : SubSeq(s, p, q)[i] = s[p + i - 1]
    <3>1. q \in Int /\ \A i \in p .. q : s[i] \in Units
      BY <1>2, <2>1 DEF q
    <3> QED BY <2>1, <3>1, SubSeqProperties
  <2>3. v = SubSeq(s, p, q) /\ p <= q /\ q - p + 1 = len
    BY <2>1 DEF Sub, q
  <2> QED BY <2>2, <2>3
<1> HIDE DEF v
<1>4. v # <<>>
  BY <1>3
<1>5. ASSUME NEW i \in 1 .. Len(v) PROVE Contains(s, v[i])
  <2>1. p + i - 1 \in 1 .. Len(s)
    BY <1>1, <1>3
  <2>2. v[i] = s[p + i - 1]
    BY <1>3
  <2> QED BY <2>1, <2>2 DEF Contains
<1>6. StandsIn(v, s)
  BY <1>5 DEF StandsIn
<1> QED BY <1>3, <1>4, <1>6 DEF v

(* Min is an element. *)
LEMMA FirstOfGroup ==
  ASSUME NEW S \in SUBSET Nat, S # {}
  PROVE  Min(S) \in S
<1>1. \E m \in S : \A n \in S : m <= n
  BY LeastOf
<1> QED BY <1>1 DEF Min

(* The slice that stands for a group is one of the text. *)
LEMMA SliceIsThere ==
  ASSUME NEW s \in Seq(Units), NEW len \in 2 .. MaxLen - 1, NEW g \in repeated_slices(s, len)
  PROVE  LET v == Sub(s, Min(g), len) IN v \in Seq(Units) /\ v # <<>> /\ StandsIn(v, s)
<1>1. Len(s) \in Nat /\ len \in Nat /\ len >= 1
  BY UnitsAssumption
<1>2. g \in SUBSET (1 .. Len(s) - len + 1) /\ Greedy(g, len) > 1
  BY DEF repeated_slices
<1>3. g # {}
  <2> SUFFICES ASSUME g = {} PROVE FALSE
    OBVIOUS
  <2>1. Greedy(g, len) = 0
    BY DEF Greedy
  <2> QED BY <1>2, <2>1
<1>4. g \in SUBSET Nat
  BY <1>1, <1>2
<1>5. Min(g) \in g
  BY <1>3, <1>4, FirstOfGroup
<1>6. PICK p : p = Min(g)
  OBVIOUS
<1>7. p \in Nat /\ p >= 1 /\ p + len - 1 <= Len(s)
  <2>1. p \in g
    BY <1>5, <1>6
  <2>2. p \in 1 .. Len(s) - len + 1
    BY <1>2, <2>1
  <2> QED BY <1>1, <2>2
<1> QED BY <1>1, <1>6, <1>7, SliceStandsIn

(* build_initial_candidates gives candidates. *)
LEMMA InitialCandidates ==
  ASSUME NEW s \in Seq(Units), NEW c \in build_initial_candidates(s)
  PROVE  IsCandidate(c, s)
<1>0. PICK len \in 2 .. MaxLen - 1 :
        \E g \in repeated_slices(s, len) : c = [value |-> Sub(s, Min(g), len), count |-> Greedy(g, len)]
  BY DEF build_initial_candidates
<1>1. PICK g \in repeated_slices(s, len) : c = [value |-> Sub(s, Min(g), len), count |-> Greedy(g, len)]
  BY <1>0
<1>2. PICK v : v = Sub(s, Min(g), len)
  OBVIOUS
<1>3. v \in Seq(Units) /\ v # <<>> /\ StandsIn(v, s)
  BY <1>2, SliceIsThere
<1>4. c.value = v
  BY <1>1, <1>2
<1> QED BY <1>3, <1>4 DEF IsCandidate

(* So does count_candidates: what occurs stands in the text. *)
LEMMA CountedCandidates ==
  ASSUME NEW s \in Seq(Units), NEW values, \A v \in values : v \in Seq(Units) /\ Len(v) >= 2,
         NEW c \in count_candidates(s, values)
  PROVE  IsCandidate(c, s)
<1>1. PICK v \in values : c = [value |-> v, count |-> Greedy(Occurrences(s, v), Len(v))]
  BY DEF count_candidates
<1>2. v \in Seq(Units) /\ Len(v) \in Nat /\ Len(v) >= 2 /\ v # <<>> /\ Len(s) \in Nat
  OBVIOUS
<1>3. ASSUME c.count # 0 PROVE StandsIn(v, s)
  <2>1. Greedy(Occurrences(s, v), Len(v)) # 0
    BY <1>1, <1>3
  <2>2. Occurrences(s, v) # {}
    BY <2>1 DEF Greedy
  <2>3. PICK p \in 1 .. Len(s) - Len(v) + 1 : Sub(s, p, Len(v)) = v
    BY <2>2 DEF Occurrences
  <2>4. p \in Nat /\ p >= 1 /\ Len(v) >= 1 /\ p + Len(v) - 1 <= Len(s)
    BY <1>2
  <2> QED BY <1>2, <2>3, <2>4, SliceStandsIn
<1>4. c.value = v
  BY <1>1
<1> QED BY <1>2, <1>3, <1>4 DEF IsCandidate

(* The delimiter is no replacement character. *)
LEMMA ReplacementIsPlain ==
  ASSUME NEW i \in 1 .. Len(Replacements)
  PROVE  Replacements[i] \in Plain /\ Replacements[i] \in Range(Replacements)
<1>1. Replacements[i] \in Units
  BY UnitsAssumption
<1>2. Replacements[i] \in Range(Replacements)
  BY UnitsAssumption DEF Range
<1> QED BY <1>1, <1>2, UnitsAssumption DEF Plain

(* Replacing brings no delimiter in. *)
LEMMA ReplacedIsPlain ==
  ASSUME NEW c \in Plain, NEW from \in Seq(Units), from # <<>>, NEW s \in Seq(Plain)
  PROVE  Replaced(s, from, <<c>>) \in Seq(Plain)
<1> DEFINE one == <<c>>
<1>1. one \in Seq(Plain) /\ one \in Seq(Units) /\ Plain \in SUBSET Units
  BY PlainIsText
<1> HIDE DEF one
<1>2. IsRule(from, one)
  BY <1>1 DEF IsRule
<1>3. \A t \in Seq(Plain) : t # <<>> => Head(t) \in Plain
  BY HeadStaysIn
<1>4. Pass(s, from, one, from, one) \in Seq(Plain)
  BY <1>1, <1>2, <1>3, PassStaysIn
<1> QED BY <1>4 DEF Replaced, one

(* The state in which a round may start, and the character and the         *)
(* candidate it takes.                                                     *)
LEMMA RoundTakes ==
  ASSUME CrushInv, NextUnused # 0, NEW best \in Kept
  PROVE  /\ NextUnused \in 1 .. replacePos /\ NextUnused \in 1 .. Len(Replacements)
         /\ ~Contains(string, Replacements[NextUnused])
         /\ best \in candidates /\ IsCandidate(best, string) /\ best.count # 0
         /\ StandsIn(best.value, string)
<1> DEFINE unused == {i \in 1 .. replacePos : ~Contains(string, Replacements[i])}
<1>1. replacePos \in Nat /\ replacePos <= Len(Replacements) /\ Len(Replacements) \in Nat
  BY UnitsAssumption DEF CrushInv
<1>2. unused # {} /\ NextUnused = Max(unused)
  BY DEF NextUnused
<1>3. unused \in SUBSET (1 .. replacePos)
  OBVIOUS
<1>4. Max(unused) \in unused
  <2> HIDE DEF unused
  <2> QED BY <1>1, <1>2, <1>3, GreatestOf
<1>5. NextUnused \in 1 .. replacePos /\ ~Contains(string, Replacements[NextUnused])
  BY <1>2, <1>4
<1>6. best \in candidates /\ Delta(best) > 0
  BY DEF Kept
<1>7. IsCandidate(best, string)
  BY <1>6 DEF CrushInv
<1>8. best.count # 0
  <2> SUFFICES ASSUME best.count = 0 PROVE FALSE
    OBVIOUS
  <2>1. PICK n : n = Len(best.value)
    OBVIOUS
  <2>2. n \in Nat
    BY <1>7, <2>1 DEF IsCandidate
  <2>3. (0 - 1) * n - (0 + 1) - (IF split = <<>> THEN 1 ELSE 0) > 0
    BY <1>6, <2>1 DEF Delta
  <2> QED BY <2>2, <2>3
<1>9. StandsIn(best.value, string)
  BY <1>7, <1>8 DEF IsCandidate
<1> QED BY <1>1, <1>5, <1>6, <1>7, <1>8, <1>9

(* A crush starts in the invariant. *)
LEMMA InitHasInv == Init => CrushInv
<1> SUFFICES ASSUME Init PROVE CrushInv
  OBVIOUS
<1>1. input \in Inputs /\ input \in Seq(Units)
  BY UnitsAssumption DEF Init
<1>2. WithoutDelimiter(input) \in Seq(Plain)
  BY <1>1, DelimiterIsTakenOut
<1>3. string \in Seq(Plain) /\ string = Swapped(input)
  <2>1. Swapped(input) \in Seq(Plain)
    BY <1>2, SwappedIsPlain DEF Swapped
  <2> QED BY <2>1 DEF Init
<1>4. string \in Seq(Units) /\ string \in Texts
  BY <1>3, PlainIsText DEF Texts
<1>5. split = <<>> /\ replacePos = Len(Replacements) /\ candidates = build_initial_candidates(string)
  BY DEF Init
<1>6. \A c \in candidates : IsCandidate(c, string)
  BY <1>4, <1>5, InitialCandidates
<1>7. Expand(string, split) = string
  <2>1. Delimiter \in Units /\ split \in Texts
    BY <1>5, UnitsAssumption DEF Texts
  <2>2. Expand(string, <<>>) = string
    BY <1>4, <2>1, ExpandUnfolds
  <2> QED BY <1>5, <2>2
<1>8. split \in Seq(Plain) /\ replacePos \in 0 .. Len(Replacements)
  BY <1>5, UnitsAssumption
<1> QED BY <1>1, <1>3, <1>6, <1>7, <1>8 DEF CrushInv

(* A round keeps it: its own entry is the first one taken off. *)
LEMMA RoundKeepsInv ==
  ASSUME CrushInv, Round
  PROVE  CrushInv'
<1> DEFINE char == Replacements[NextUnused]
<1>1. PICK best \in Kept :
        LET shrunk == replace_all_with_char(string, best.value, char)
            rest == {replace_all_with_char(c.value, best.value, char) : c \in Kept}
        IN  /\ string' = shrunk \o Entry(char, best)
            /\ split' = <<char>> \o split
            /\ candidates' = count_candidates(string', {v \in rest : Len(v) >= 2})
  BY DEF Round
<1>2. NextUnused # 0 /\ replacePos' = NextUnused - 1 /\ UNCHANGED <<input, status>>
  BY DEF Round
<1>3. /\ NextUnused \in 1 .. replacePos /\ NextUnused \in 1 .. Len(Replacements)
      /\ ~Contains(string, char)
      /\ IsCandidate(best, string)
      /\ StandsIn(best.value, string)
  BY <1>2, RoundTakes
<1>4. char \in Plain /\ char \in Units
  BY <1>3, ReplacementIsPlain, PlainIsText
<1>5. /\ string \in Seq(Plain) /\ split \in Seq(Plain) /\ replacePos \in 0 .. Len(Replacements)
      /\ \A c \in candidates : IsCandidate(c, string)
      /\ Expand(string, split) = Swapped(input)
      /\ input \in Inputs
  BY DEF CrushInv
<1>6. string \in Seq(Units) /\ split \in Seq(Units)
  BY <1>5, PlainIsText
<1> HIDE DEF char
<1>7. PICK value : value = best.value
  OBVIOUS
<1>8. value \in Seq(Units) /\ value # <<>> /\ StandsIn(value, string)
  BY <1>3, <1>7 DEF IsCandidate
<1>9. PICK shrunk : shrunk = Replaced(string, value, <<char>>)
  OBVIOUS
<1>10. string' = shrunk \o (<<char>> \o value) /\ split' = <<char>> \o split
  BY <1>1, <1>7, <1>9 DEF replace_all_with_char, Entry
<1>11. string \in Seq(Units \ {char}) /\ value \in Seq(Units \ {char}) /\ value \in Seq(Plain)
  <2>1. \A i \in 1 .. Len(string) : string[i] \in Units /\ string[i] # char /\ string[i] \in Plain
    BY <1>3, <1>5, <1>6 DEF Contains
  <2>2. \A i \in 1 .. Len(value) : value[i] \in Units \ {char} /\ value[i] \in Plain
    <3> SUFFICES ASSUME NEW i \in 1 .. Len(value) PROVE value[i] \in Units \ {char} /\ value[i] \in Plain
      OBVIOUS
    <3>1. Contains(string, value[i])
      BY <1>8 DEF StandsIn
    <3>2. PICK j \in 1 .. Len(string) : string[j] = value[i]
      BY <3>1 DEF Contains
    <3> QED BY <2>1, <3>2
  <2>3. ASSUME NEW W, NEW s \in Seq(Units), \A i \in 1 .. Len(s) : s[i] \in W PROVE s \in Seq(W)
    <3>1. Len(s) \in Nat /\ s = [i \in 1 .. Len(s) |-> s[i]]
      OBVIOUS
    <3> QED BY <2>3, <3>1, IsASeq
  <2>4. \A i \in 1 .. Len(string) : string[i] \in Units \ {char}
    BY <2>1
  <2>5. string \in Seq(Units \ {char})
    BY <1>6, <2>3, <2>4
  <2>6. value \in Seq(Units \ {char})
    BY <1>8, <2>2, <2>3
  <2>7. value \in Seq(Plain)
    BY <1>8, <2>2, <2>3
  <2> QED BY <2>5, <2>6, <2>7
<1>12. shrunk \in Seq(Plain) /\ shrunk \in Seq(Units)
  <2>1. shrunk \in Seq(Plain)
    BY <1>4, <1>5, <1>8, <1>9, ReplacedIsPlain
  <2> QED BY <2>1, PlainIsText
<1>13. <<char>> \o value \in Seq(Plain) /\ <<char>> \o split \in Seq(Plain)
  BY <1>4, <1>5, <1>11, UnitInFront
<1>14. string' \in Seq(Plain) /\ string' \in Seq(Units)
  <2> DEFINE entry == <<char>> \o value
  <2>1. entry \in Seq(Plain)
    BY <1>13
  <2> HIDE DEF entry
  <2>2. shrunk \o entry \in Seq(Plain)
    BY <1>12, <2>1, ConcatProperties
  <2>3. string' \in Seq(Plain)
    BY <1>10, <2>2 DEF entry
  <2> QED BY <2>3, PlainIsText
<1>15. TakenOff(string', char) = string
  <2>1. TakenOff(Replaced(string, value, <<char>>) \o (<<char>> \o value), char) = string
    BY <1>4, <1>8, <1>11, TakenOffIsRestored
  <2> QED BY <1>9, <1>10, <2>1
<1>16. Expand(string', split') = Expand(string, split)
  <2>1. PICK next : next = string'
    OBVIOUS
  <2>2. next \in Texts /\ split \in Texts
    BY <1>6, <1>14, <2>1 DEF Texts
  <2>3. Expand(next, <<char>> \o split) = Expand(TakenOff(next, char), split)
    BY <1>4, <2>2, ExpandUnfolds
  <2> QED BY <1>10, <1>15, <2>1, <2>3
<1>17. \A c \in candidates' : IsCandidate(c, string')
  <2> DEFINE rest == {replace_all_with_char(c.value, best.value, char) : c \in Kept}
             values == {v \in rest : Len(v) >= 2}
  <2>1. candidates' = count_candidates(string', values)
    BY <1>1
  <2>2. ASSUME NEW v \in values PROVE v \in Seq(Units) /\ Len(v) >= 2
    <3>1. PICK c \in Kept : v = replace_all_with_char(c.value, best.value, char)
      OBVIOUS
    <3>2. PICK w : w = c.value
      OBVIOUS
    <3>3. v = Replaced(w, value, <<char>>) /\ c \in candidates
      BY <1>7, <3>1, <3>2 DEF replace_all_with_char, Kept
    <3>4. w \in Seq(Units)
      BY <1>5, <3>2, <3>3 DEF IsCandidate
    <3>5. IsRule(value, <<char>>)
      BY <1>4, <1>8 DEF IsRule
    <3>6. Replaced(w, value, <<char>>) \in Seq(Units)
      BY <3>4, <3>5, ReplacedUnfolds
    <3> QED BY <3>3, <3>6
  <2> HIDE DEF values
  <2>3. PICK next : next = string'
    OBVIOUS
  <2>4. \A c \in count_candidates(next, values) : IsCandidate(c, next)
    BY <1>14, <2>2, <2>3, CountedCandidates
  <2> QED BY <2>1, <2>3, <2>4
<1>18. replacePos' \in 0 .. Len(Replacements)
  BY <1>2, <1>3, <1>5, UnitsAssumption
<1>19. Swapped(input)' = Swapped(input)
  BY <1>2 DEF Swapped
<1> QED BY <1>2, <1>5, <1>10, <1>13, <1>14, <1>16, <1>17, <1>18, <1>19 DEF CrushInv

(* Every step keeps it. *)
LEMMA NextKeepsInv == CrushInv /\ [Next]_vars => CrushInv'
<1> SUFFICES ASSUME CrushInv, [Next]_vars PROVE CrushInv'
  OBVIOUS
<1>1. CASE Round
  BY <1>1, RoundKeepsInv
<1>2. CASE Stop
  <2>1. UNCHANGED <<input, string, candidates, replacePos, split>>
    BY <1>2 DEF Stop
  <2> QED BY <2>1 DEF CrushInv, Swapped
<1>3. CASE UNCHANGED vars
  <2>1. UNCHANGED <<input, string, candidates, replacePos, split>>
    BY <1>3 DEF vars
  <2> QED BY <2>1 DEF CrushInv, Swapped
<1> QED BY <1>1, <1>2, <1>3 DEF Next

(* In every state the text, the entries and the characters in use are free of
   the delimiter, a candidate with a count stands in the text, and taking
   the entries off gives the swapped text. *)
THEOREM CrushInvariant == Spec => []CrushInv
<1> QED BY InitHasInv, NextKeepsInv, PTL DEF Spec

(* It implies that the text comes back. *)
LEMMA InvGivesTrip == CrushInv => RoundTrip
<1> SUFFICES ASSUME CrushInv PROVE RoundTrip
  OBVIOUS
<1>1. Expand(string, split) = Swapped(input) /\ string \in Seq(Plain) /\ split \in Seq(Plain) /\ input \in Seq(Units)
  BY UnitsAssumption DEF CrushInv
<1>2. PICK text : text = WithoutDelimiter(input)
  OBVIOUS
<1>3. text \in Seq(Units)
  BY <1>1, <1>2, DelimiterIsTakenOut, PlainIsText
<1>4. uncrush_to_string(Crushed(string, split)) = json_crush_swap(Swapped(input), FALSE)
  BY <1>1, CrushedIsRead
<1>5. json_crush_swap(json_crush_swap(text, TRUE), FALSE) = text
  BY <1>3, SwapIsUndone
<1>6. Swapped(input) = json_crush_swap(text, TRUE)
  BY <1>2 DEF Swapped
<1> QED BY <1>1, <1>2, <1>4, <1>5, <1>6 DEF RoundTrip

(* crush.hpp:59 for every input: uncrush gives back, at the end and with every
   entry of the rounds before taken off, the text that was crushed. *)
THEOREM CrushRoundTrip == Spec => []RoundTrip
<1> QED BY CrushInvariant, InvGivesTrip, PTL

(***************************************************************************)
(* No pair of surrogates is torn: what stands behind a front of a text may *)
(* begin with a low surrogate, and is whole otherwise.                     *)
(***************************************************************************)
StartsLow(t) == t # <<>> /\ t[1] \in Low
HighIsPaired(t) == \A i \in 1 .. Len(t) : t[i] \in High => i < Len(t) /\ t[i + 1] \in Low
LowIsPaired(t) == \A i \in 2 .. Len(t) : t[i] \in Low => t[i - 1] \in High
IsHalf(t) == HighIsPaired(t) /\ LowIsPaired(t)
IsWhole(t) == IsHalf(t) /\ ~StartsLow(t)

(* Every position but the last is below it. *)
LEMMA BelowTheEnd == \A n \in Nat : \A i \in 1 .. n : i < n <=> i # n
OBVIOUS

(* IsWhole is what has_unmatched_surrogate tests. *)
LEMMA WholeIsMatched ==
  ASSUME NEW t \in Seq(Units)
  PROVE  IsWhole(t) <=> ~has_unmatched_surrogate(t)
<1>1. DOMAIN t = 1 .. Len(t) /\ Len(t) \in Nat /\ (t # <<>> => 1 \in 1 .. Len(t))
  BY SMTT(40)
<1>2. ASSUME IsWhole(t) PROVE ~has_unmatched_surrogate(t)
  <2> SUFFICES ASSUME NEW i \in 1 .. Len(t)
               PROVE  /\ ~(t[i] \in High /\ (i = Len(t) \/ t[i + 1] \notin Low))
                      /\ ~(t[i] \in Low /\ (i = 1 \/ t[i - 1] \notin High))
    BY <1>1, ZenonT(60) DEF has_unmatched_surrogate
  <2>1. t # <<>> /\ (i # 1 => i \in 2 .. Len(t))
    BY <1>1, SMTT(40)
  <2>4. i < Len(t) => i # Len(t)
    BY <1>1, BelowTheEnd
  <2>5. t[i] \in High => i < Len(t) /\ t[i + 1] \in Low
    BY <1>2 DEF IsWhole, IsHalf, HighIsPaired
  <2>2. ~(t[i] \in High /\ (i = Len(t) \/ t[i + 1] \notin Low))
    BY <2>4, <2>5
  <2>3. ~(t[i] \in Low /\ (i = 1 \/ t[i - 1] \notin High))
    BY <1>2, <2>1, SMTT(40) DEF IsWhole, IsHalf, LowIsPaired, StartsLow
  <2> QED BY <2>2, <2>3, SMTT(40)
<1>3. ASSUME ~has_unmatched_surrogate(t) PROVE IsWhole(t)
  <2>1. ASSUME NEW i \in 1 .. Len(t)
        PROVE  /\ ~(t[i] \in High /\ (i = Len(t) \/ t[i + 1] \notin Low))
               /\ ~(t[i] \in Low /\ (i = 1 \/ t[i - 1] \notin High))
    BY <1>1, <1>3, ZenonT(60) DEF has_unmatched_surrogate
  <2>5. ASSUME NEW i \in 1 .. Len(t) PROVE i # Len(t) => i < Len(t)
    BY <1>1, BelowTheEnd, Zenon
  <2>2. HighIsPaired(t)
    BY <2>1, <2>5 DEF HighIsPaired
  <2>3. LowIsPaired(t)
    <3>1. ASSUME NEW i \in 2 .. Len(t) PROVE i \in 1 .. Len(t) /\ i # 1
      BY <1>1, SMTT(40)
    <3> QED BY <2>1, <3>1 DEF LowIsPaired
  <2>4. ~StartsLow(t)
    BY <1>1, <2>1 DEF StartsLow
  <2> QED BY <2>2, <2>3, <2>4, SMTT(40) DEF IsWhole, IsHalf
<1> QED BY <1>2, <1>3

(* A unit that is no surrogate is whole. *)
LEMMA UnitIsWhole ==
  ASSUME NEW c \in Units, c \notin High \cup Low
  PROVE  IsWhole(<<c>>) /\ IsWhole(<<>>)
BY DEF IsWhole, IsHalf, HighIsPaired, LowIsPaired, StartsLow

(* A high surrogate in front needs a low one behind it, and conversely. *)
LEMMA HalfBehindUnit ==
  ASSUME NEW h \in Units, NEW v \in Seq(Units)
  PROVE  /\ IsHalf(<<h>> \o v) <=> IsHalf(v) /\ (h \in High <=> StartsLow(v))
         /\ StartsLow(<<h>> \o v) <=> h \in Low
<1> DEFINE t == <<h>> \o v  n == Len(v)
<1>1. n \in Nat /\ (v # <<>> <=> n >= 1)
  OBVIOUS
<1>2. t # <<>> /\ Len(t) = n + 1 /\ t[1] = h /\ \A i \in 1 .. n : t[i + 1] = v[i]
  BY UnitInFront
<1> HIDE DEF t
<1>3. StartsLow(t) <=> h \in Low
  BY <1>2 DEF StartsLow
<1> HIDE DEF n
<1>4. Len(v) = n
  BY DEF n
<1>5. ASSUME NEW i \in 1 .. n
      PROVE  /\ i + 1 \in 2 .. Len(t) /\ i + 1 \in 1 .. Len(t) /\ t[i + 1] = v[i]
             /\ i < n => i + 1 \in 1 .. n /\ t[(i + 1) + 1] = v[i + 1]
             /\ i # 1 => i - 1 \in 1 .. n /\ t[(i + 1) - 1] = v[i - 1]
             /\ (i < n <=> i + 1 < Len(t)) /\ (i + 1) - 1 = i
  <2>1. i < n => i + 1 \in 1 .. n
    BY <1>1
  <2>2. i # 1 => i - 1 \in 1 .. n /\ (i - 1) + 1 = i /\ (i + 1) - 1 = i
    BY <1>1
  <2>3. i # 1 => t[(i - 1) + 1] = v[i - 1]
    BY <1>2, <2>2
  <2>4. i < n => t[(i + 1) + 1] = v[i + 1]
    BY <1>2, <2>1
  <2> QED BY <1>1, <1>2, <2>1, <2>2, <2>3, <2>4
<1>6. ASSUME IsHalf(t) PROVE IsHalf(v) /\ (h \in High <=> StartsLow(v))
  <2>1. ASSUME NEW i \in 1 .. n, v[i] \in High PROVE i < n /\ v[i + 1] \in Low
    BY <1>5, <1>6, <2>1 DEF IsHalf, HighIsPaired
  <2>2. ASSUME NEW i \in 2 .. n, v[i] \in Low PROVE v[i - 1] \in High
    <3>1. i \in 1 .. n /\ i # 1
      BY <1>1
    <3> QED BY <1>5, <1>6, <2>2, <3>1 DEF IsHalf, LowIsPaired
  <2>3. h \in High => StartsLow(v)
    <3> SUFFICES ASSUME h \in High PROVE StartsLow(v)
      OBVIOUS
    <3>1. 1 \in 1 .. Len(t)
      BY <1>1, <1>2
    <3>2. 1 < Len(t) /\ t[1 + 1] \in Low
      BY <1>2, <1>6, <3>1 DEF IsHalf, HighIsPaired
    <3>3. 1 \in 1 .. n
      BY <1>1, <1>2, <3>2
    <3> QED BY <1>1, <1>2, <3>2, <3>3 DEF StartsLow
  <2>4. StartsLow(v) => h \in High
    <3> SUFFICES ASSUME StartsLow(v) PROVE h \in High
      OBVIOUS
    <3>1. 1 \in 1 .. n /\ v[1] \in Low
      BY <1>1 DEF StartsLow
    <3>2. t[1 + 1] \in Low /\ 1 + 1 \in 2 .. Len(t)
      BY <1>5, <3>1
    <3>3. t[(1 + 1) - 1] \in High
      BY <1>6, <3>2 DEF IsHalf, LowIsPaired
    <3> QED BY <1>2, <3>3
  <2>5. IsHalf(v)
    BY <1>4, <2>1, <2>2 DEF IsHalf, HighIsPaired, LowIsPaired
  <2> QED BY <2>3, <2>4, <2>5
<1>7. ASSUME IsHalf(v), h \in High <=> StartsLow(v) PROVE IsHalf(t)
  <2>0. /\ \A i \in 1 .. n : v[i] \in High => i < n /\ v[i + 1] \in Low
        /\ \A i \in 2 .. n : v[i] \in Low => v[i - 1] \in High
    BY <1>4, <1>7 DEF IsHalf, HighIsPaired, LowIsPaired
  <2>1. ASSUME NEW j \in 1 .. Len(t), t[j] \in High PROVE j < Len(t) /\ t[j + 1] \in Low
    <3>1. CASE j = 1
      <4>1. StartsLow(v)
        BY <1>2, <1>7, <2>1, <3>1
      <4>2. 1 \in 1 .. n /\ v[1] \in Low
        BY <1>1, <4>1 DEF StartsLow
      <4>3. t[1 + 1] = v[1] /\ 1 < Len(t)
        BY <1>1, <1>2, <4>2
      <4> QED BY <3>1, <4>2, <4>3
    <3>2. CASE j # 1
      <4>1. PICK i \in 1 .. n : j = i + 1
        <5>1. j - 1 \in 1 .. n /\ j = (j - 1) + 1
          BY <1>1, <1>2, <3>2
        <5> QED BY <5>1
      <4>2. v[i] \in High
        BY <1>5, <2>1, <4>1
      <4>3. i < n /\ v[i + 1] \in Low
        BY <2>0, <4>2
      <4> QED BY <1>5, <4>1, <4>3
    <3> QED BY <3>1, <3>2
  <2>2. ASSUME NEW j \in 2 .. Len(t), t[j] \in Low PROVE t[j - 1] \in High
    <3>1. PICK i \in 1 .. n : j = i + 1
      <4>1. j - 1 \in 1 .. n /\ j = (j - 1) + 1
        BY <1>1, <1>2
      <4> QED BY <4>1
    <3>2. v[i] \in Low
      BY <1>5, <2>2, <3>1
    <3>3. CASE i = 1
      <4>1. StartsLow(v)
        BY <1>1, <3>2, <3>3 DEF StartsLow
      <4>2. h \in High /\ j - 1 = 1
        BY <1>7, <3>1, <3>3, <4>1
      <4> QED BY <1>2, <4>2
    <3>4. CASE i # 1
      <4>1. i \in 2 .. n
        BY <1>1, <3>4
      <4>2. v[i - 1] \in High
        BY <2>0, <3>2, <4>1
      <4> QED BY <1>5, <3>1, <3>4, <4>2
    <3> QED BY <3>3, <3>4
  <2> QED BY <2>1, <2>2 DEF IsHalf, HighIsPaired, LowIsPaired
<1> QED BY <1>3, <1>6, <1>7 DEF t

(* A text in front of another one.                                         *)
FrontIsHalf(u, v) == IsHalf(u) /\ IsWhole(v) => IsHalf(u \o v)
RestIsWhole(u, v) == u # <<>> /\ IsHalf(u) /\ IsHalf(u \o v) => IsWhole(v)
FrontStarts(u, v) == u # <<>> => (StartsLow(u \o v) <=> StartsLow(u))

(* By the length of the front: joining and splitting at a pair's border. *)
LEMMA FrontSplits ==
  ASSUME NEW v \in Seq(Units)
  PROVE  \A u \in Seq(Units) : FrontIsHalf(u, v) /\ RestIsWhole(u, v) /\ FrontStarts(u, v)
<1> DEFINE S == {u \in Seq(Units) : FrontIsHalf(u, v) /\ RestIsWhole(u, v) /\ FrontStarts(u, v)}
<1>1. ASSUME NEW u \in Seq(Units), \A w \in Seq(Units) : Len(w) < Len(u) => w \in S
      PROVE  u \in S
  <2>1. CASE u = <<>>
    <3>1. <<>> \o v = v
      BY ConcatEmptySeq
    <3> QED BY <2>1, <3>1 DEF FrontIsHalf, RestIsWhole, FrontStarts, IsWhole
  <2>2. CASE u # <<>>
    <3>1. PICK h \in Units, w \in Seq(Units) : u = <<h>> \o w /\ Len(w) < Len(u)
      BY <2>2, HeadAndTail
    <3>2. w \in S
      BY <1>1, <3>1
    <3>3. FrontIsHalf(w, v) /\ RestIsWhole(w, v) /\ FrontStarts(w, v)
      BY <3>2
    <3>4. u \o v = <<h>> \o (w \o v)
      <4> DEFINE one == <<h>>
      <4>1. one \in Seq(Units)
        OBVIOUS
      <4> HIDE DEF one
      <4>2. (one \o w) \o v = one \o (w \o v)
        BY <4>1, ConcatAssociative, SMTT(40)
      <4> QED BY <3>1, <4>2 DEF one
    <3>5. PICK r \in Seq(Units) : r = w \o v
      <4>1. w \o v \in Seq(Units)
        BY ConcatProperties
      <4> QED BY <4>1
    <3>6. /\ IsHalf(u) <=> IsHalf(w) /\ (h \in High <=> StartsLow(w))
          /\ StartsLow(u) <=> h \in Low
      BY <3>1, HalfBehindUnit
    <3>7. /\ IsHalf(u \o v) <=> IsHalf(r) /\ (h \in High <=> StartsLow(r))
          /\ StartsLow(u \o v) <=> h \in Low
      BY <3>4, <3>5, HalfBehindUnit
    <3>8. w = <<>> => r = v /\ ~StartsLow(w)
      <4>1. <<>> \o v = v
        BY ConcatEmptySeq
      <4> QED BY <3>5, <4>1 DEF StartsLow
    <3>9. /\ IsHalf(w) /\ IsWhole(v) => IsHalf(r)
          /\ w # <<>> /\ IsHalf(w) /\ IsHalf(r) => IsWhole(v)
          /\ w # <<>> => (StartsLow(r) <=> StartsLow(w))
      BY <3>3, <3>5 DEF FrontIsHalf, RestIsWhole, FrontStarts
    <3>10. FrontIsHalf(u, v)
      BY <3>6, <3>7, <3>8, <3>9 DEF FrontIsHalf, IsWhole
    <3>11. RestIsWhole(u, v)
      BY <3>6, <3>7, <3>8, <3>9 DEF RestIsWhole, IsWhole
    <3>12. FrontStarts(u, v)
      BY <3>6, <3>7 DEF FrontStarts
    <3> QED BY <3>10, <3>11, <3>12
  <2> QED BY <2>1, <2>2
<1>2. Seq(Units) \subseteq S
  <2> HIDE DEF S
  <2> QED BY <1>1, LengthInduction
<1> QED BY <1>2

(* Whole texts make a whole text. *)
LEMMA WholeJoined ==
  ASSUME NEW u \in Seq(Units), NEW v \in Seq(Units), IsWhole(u), IsWhole(v)
  PROVE  IsWhole(u \o v)
<1>1. FrontIsHalf(u, v) /\ FrontStarts(u, v)
  BY FrontSplits
<1>2. CASE u = <<>>
  <2>1. <<>> \o v = v
    BY ConcatEmptySeq
  <2> QED BY <1>2, <2>1
<1>3. CASE u # <<>>
  BY <1>1, <1>3 DEF FrontIsHalf, FrontStarts, IsWhole
<1> QED BY <1>2, <1>3

(* A pass over a text, with rules whose sides are whole.                   *)
IsKept(s, t) == IsHalf(t) /\ (StartsLow(t) <=> StartsLow(s))

(* A pass with whole rules keeps a text as whole as it was. *)
LEMMA PassTearsNoPair ==
  ASSUME NEW a, NEW x, NEW b, NEW y, IsRule(a, x), IsRule(b, y),
         IsWhole(a), IsWhole(x), IsWhole(b), IsWhole(y)
  PROVE  \A s \in Seq(Units) : IsHalf(s) => IsKept(s, Pass(s, a, x, b, y))
<1> DEFINE P(s) == Pass(s, a, x, b, y)
           S == {s \in Seq(Units) : IsHalf(s) => IsKept(s, P(s))}
<1>1. a \in Seq(Units) /\ b \in Seq(Units) /\ x \in Seq(Units) /\ y \in Seq(Units) /\ a # <<>> /\ b # <<>>
  BY DEF IsRule
<1>2. \A s \in Seq(Units) :
        /\ P(s) \in Seq(Units)
        /\ s = <<>> => P(s) = <<>>
        /\ s # <<>> /\ IsPrefix(a, s) => P(s) = x \o P(Behind(s, a))
        /\ s # <<>> /\ ~IsPrefix(a, s) /\ IsPrefix(b, s) => P(s) = y \o P(Behind(s, b))
        /\ s # <<>> /\ ~IsPrefix(a, s) /\ ~IsPrefix(b, s) => P(s) = <<Head(s)>> \o P(Tail(s))
  BY PassIsText, PassUnfolds
<1> HIDE DEF P
<1>3. ASSUME NEW s \in Seq(Units), \A r \in Seq(Units) : Len(r) < Len(s) => r \in S, IsHalf(s),
             NEW from \in Seq(Units), NEW to \in Seq(Units), from # <<>>, IsWhole(from), IsWhole(to),
             IsPrefix(from, s), P(s) = to \o P(Behind(s, from))
      PROVE  IsKept(s, P(s))
  <2>1. PICK r : r = Behind(s, from)
    OBVIOUS
  <2>2. r \in Seq(Units) /\ Len(r) < Len(s)
    BY <1>3, <2>1, BehindIsShorter
  <2>3. s = from \o r
    BY <1>3, <2>1, JoinedFromFront
  <2>4. RestIsWhole(from, r) /\ FrontStarts(from, r)
    BY <2>2, FrontSplits
  <2>5. IsWhole(r)
    BY <1>3, <2>3, <2>4 DEF RestIsWhole, IsWhole
  <2>6. ~StartsLow(s)
    BY <1>3, <2>3, <2>4 DEF FrontStarts, IsWhole
  <2>7. IsKept(r, P(r))
    BY <1>3, <2>2, <2>5 DEF IsWhole
  <2>8. PICK q : q = P(r)
    OBVIOUS
  <2>9. q \in Seq(Units) /\ IsWhole(q)
    BY <1>2, <2>2, <2>5, <2>7, <2>8 DEF IsKept, IsWhole
  <2>10. IsWhole(to \o q)
    BY <1>3, <2>9, WholeJoined
  <2>11. P(s) = to \o q
    BY <1>3, <2>1, <2>8
  <2> QED BY <2>6, <2>10, <2>11 DEF IsKept, IsWhole
<1>4. ASSUME NEW s \in Seq(Units), \A r \in Seq(Units) : Len(r) < Len(s) => r \in S
      PROVE  s \in S
  <2> SUFFICES ASSUME IsHalf(s) PROVE IsKept(s, P(s))
    OBVIOUS
  <2>1. CASE s = <<>>
    <3>1. P(s) = <<>>
      BY <1>2, <2>1
    <3> QED BY <2>1, <3>1 DEF IsKept
  <2>2. CASE s # <<>> /\ IsPrefix(a, s)
    <3>1. P(s) = x \o P(Behind(s, a))
      BY <1>2, <2>2
    <3> QED BY <1>1, <1>3, <1>4, <2>2, <3>1
  <2>3. CASE s # <<>> /\ ~IsPrefix(a, s) /\ IsPrefix(b, s)
    <3>1. P(s) = y \o P(Behind(s, b))
      BY <1>2, <2>3
    <3> QED BY <1>1, <1>3, <1>4, <2>3, <3>1
  <2>4. CASE s # <<>> /\ ~IsPrefix(a, s) /\ ~IsPrefix(b, s)
    <3>1. P(s) = <<Head(s)>> \o P(Tail(s))
      BY <1>2, <2>4
    <3>2. PICK h \in Units, r \in Seq(Units) : h = Head(s) /\ r = Tail(s) /\ s = <<h>> \o r /\ Len(r) < Len(s)
      BY <2>4, HeadAndTail
    <3>3. PICK q : q = P(r)
      OBVIOUS
    <3>4. q \in Seq(Units)
      BY <1>2, <3>3
    <3>5. /\ IsHalf(s) <=> IsHalf(r) /\ (h \in High <=> StartsLow(r))
          /\ StartsLow(s) <=> h \in Low
      BY <3>2, HalfBehindUnit, ZenonT(60)
    <3>6. /\ IsHalf(<<h>> \o q) <=> IsHalf(q) /\ (h \in High <=> StartsLow(q))
          /\ StartsLow(<<h>> \o q) <=> h \in Low
      BY <3>4, HalfBehindUnit
    <3>7. r \in S
      BY <1>4, <3>2
    <3>8. IsHalf(q) /\ (StartsLow(q) <=> StartsLow(r))
      BY <3>3, <3>5, <3>7 DEF IsKept
    <3>9. P(s) = <<h>> \o q
      BY <3>1, <3>2, <3>3
    <3> QED BY <3>5, <3>6, <3>8, <3>9 DEF IsKept
  <2> QED BY <2>1, <2>2, <2>3, <2>4
<1>5. Seq(Units) \subseteq S
  <2> HIDE DEF S
  <2> QED BY <1>4, LengthInduction
<1> QED BY <1>5 DEF P

(* In particular a whole text stays whole. *)
LEMMA PassKeepsWhole ==
  ASSUME NEW a, NEW x, NEW b, NEW y, IsRule(a, x), IsRule(b, y),
         IsWhole(a), IsWhole(x), IsWhole(b), IsWhole(y), NEW s \in Seq(Units), IsWhole(s)
  PROVE  IsWhole(Pass(s, a, x, b, y))
<1>1. IsKept(s, Pass(s, a, x, b, y))
  BY PassTearsNoPair DEF IsWhole
<1> QED BY <1>1 DEF IsKept, IsWhole

(* So does a loop of find and replace. *)
LEMMA ReplacedKeepsWhole ==
  ASSUME NEW old, NEW new, IsRule(old, new), IsWhole(old), IsWhole(new), NEW s \in Seq(Units), IsWhole(s)
  PROVE  IsWhole(Replaced(s, old, new))
<1>1. IsWhole(Pass(s, old, new, old, new))
  BY PassKeepsWhole
<1> QED BY <1>1 DEF Replaced

(***************************************************************************)
(* A crush tears no pair of surrogates.                                    *)
(***************************************************************************)
LEMMA TwoUnits ==
  ASSUME NEW T, NEW c \in T, NEW d \in T
  PROVE  <<c>> \o <<d>> = <<c, d>>
<1> DEFINE v == <<d>>  w == <<c>> \o v  z == <<c, d>>
<1>1. v \in Seq(T) /\ Len(v) = 1 /\ v[1] = d
  OBVIOUS
<1>2. z \in Seq(T) /\ Len(z) = 2 /\ z[1] = c /\ z[2] = d
  OBVIOUS
<1> HIDE DEF v, z
<1>3. w \in Seq(T) /\ Len(w) = Len(v) + 1 /\ w[1] = c /\ \A i \in 1 .. Len(v) : w[i + 1] = v[i]
  BY <1>1, UnitInFront, SMTT(40)
<1> HIDE DEF w
<1>4. w[2] = d
  <2>1. 1 \in 1 .. Len(v) /\ 1 + 1 = 2
    BY <1>1
  <2> QED BY <1>1, <1>3, <2>1
<1>5. \A i \in 1 .. Len(w) : w[i] = z[i]
  BY <1>1, <1>2, <1>3, <1>4
<1>6. w = z
  BY <1>1, <1>2, <1>3, <1>5, SeqEqual
<1> QED BY <1>6 DEF w, v, z

(* The structure characters and their marks are no surrogates. *)
LEMMA GroupsAreWhole ==
  ASSUME NEW k \in 1 .. 5
  PROVE  IsWhole(Groups[k][1]) /\ IsWhole(Groups[k][2])
<1>1. ASSUME NEW c \in SwapMarks, NEW d \in SwapMarks PROVE IsWhole(<<c>>) /\ IsWhole(<<d>>) /\ IsWhole(<<c, d>>)
  <2>1. c \in Units /\ d \in Units /\ c \notin High \cup Low /\ d \notin High \cup Low
    BY UnitsAssumption
  <2>2. IsWhole(<<c>>) /\ IsWhole(<<d>>)
    BY <2>1, UnitIsWhole
  <2>3. <<c>> \o <<d>> = <<c, d>> /\ <<c>> \in Seq(Units) /\ <<d>> \in Seq(Units)
    BY <2>1, TwoUnits, ShortTexts
  <2>4. IsWhole(<<c>> \o <<d>>)
    BY <2>2, <2>3, WholeJoined
  <2> QED BY <2>2, <2>3, <2>4
<1>2. /\ \A c \in SwapMarks : IsWhole(<<c>>)
      /\ \A c, d \in SwapMarks : IsWhole(<<c, d>>)
  BY <1>1
<1>3. CASE k = 1
  <2>1. Groups[1][1] = <<"dq">> /\ Groups[1][2] = <<"sq">> /\ {"dq", "sq"} \subseteq SwapMarks
    BY DEF Groups, SwapMarks
  <2> QED BY <1>2, <1>3, <2>1
<1>4. CASE k = 2
  <2>1. Groups[2][1] = <<"sq", ":">> /\ Groups[2][2] = <<"!">> /\ {"sq", ":", "!"} \subseteq SwapMarks
    BY DEF Groups, SwapMarks
  <2> QED BY <1>2, <1>4, <2>1
<1>5. CASE k = 3
  <2>1. Groups[3][1] = <<",", "sq">> /\ Groups[3][2] = <<"~">> /\ {",", "sq", "~"} \subseteq SwapMarks
    BY DEF Groups, SwapMarks
  <2> QED BY <1>2, <1>5, <2>1
<1>6. CASE k = 4
  <2>1. Groups[4][1] = <<"}">> /\ Groups[4][2] = <<")">> /\ {"}", ")"} \subseteq SwapMarks
    BY DEF Groups, SwapMarks
  <2> QED BY <1>2, <1>6, <2>1
<1>7. CASE k = 5
  <2>1. Groups[5][1] = <<"{">> /\ Groups[5][2] = <<"(">> /\ {"{", "("} \subseteq SwapMarks
    BY DEF Groups, SwapMarks
  <2> QED BY <1>2, <1>7, <2>1
<1> QED BY <1>3, <1>4, <1>5, <1>6, <1>7, FivePairs

(* One swap keeps a text whole. *)
LEMMA SwapKeepsWhole ==
  ASSUME NEW k \in 1 .. 5, NEW s \in Seq(Units), IsWhole(s)
  PROVE  IsWhole(Swap(s, k)) /\ Swap(s, k) \in Seq(Units)
<1> DEFINE a == Groups[k][1]  b == Groups[k][2]
<1>1. IsPair(a, b) /\ IsWhole(a) /\ IsWhole(b)
  BY GroupsArePairs, GroupsAreWhole
<1>2. Swap(s, k) = Pass(s, a, b, b, a)
  BY DEF Swap, Apply
<1> HIDE DEF a, b
<1>3. IsRule(a, b) /\ IsRule(b, a)
  BY <1>1, PairIsRules
<1>4. IsWhole(Pass(s, a, b, b, a))
  BY <1>1, <1>3, PassKeepsWhole
<1>5. Swap(s, k) \in Seq(Units)
  BY SwapIsText
<1> QED BY <1>2, <1>4, <1>5

(* crush hands on a whole text. *)
LEMMA SwappedIsWhole ==
  ASSUME NEW s \in Seq(Units), IsWhole(s)
  PROVE  IsWhole(Swapped(s))
<1>0. PICK s0 : s0 = WithoutDelimiter(s)
  OBVIOUS
<1>1. PICK s1 : s1 = Swap(s0, 1)
  OBVIOUS
<1>2. PICK s2 : s2 = Swap(s1, 2)
  OBVIOUS
<1>3. PICK s3 : s3 = Swap(s2, 3)
  OBVIOUS
<1>4. PICK s4 : s4 = Swap(s3, 4)
  OBVIOUS
<1>5. s0 \in Seq(Units) /\ IsWhole(s0)
  <2> DEFINE old == <<Delimiter>>  none == <<>>
  <2>1. Delimiter \in Units /\ Delimiter \notin High \cup Low
    BY UnitsAssumption
  <2>2. IsWhole(old) /\ IsWhole(none)
    BY <2>1, UnitIsWhole
  <2>3. IsRule(old, none)
    BY <2>1 DEF IsRule
  <2>4. s0 = Replaced(s, old, none)
    BY <1>0 DEF WithoutDelimiter
  <2> HIDE DEF old, none
  <2>5. IsWhole(Replaced(s, old, none))
    BY <2>2, <2>3, ReplacedKeepsWhole
  <2>6. Replaced(s, old, none) \in Seq(Units)
    BY <2>3, ReplacedUnfolds
  <2> QED BY <2>4, <2>5, <2>6
<1>6. s1 \in Seq(Units) /\ IsWhole(s1)
  BY <1>1, <1>5, SwapKeepsWhole, 1 \in 1 .. 5
<1>7. s2 \in Seq(Units) /\ IsWhole(s2)
  BY <1>2, <1>6, SwapKeepsWhole, 2 \in 1 .. 5
<1>8. s3 \in Seq(Units) /\ IsWhole(s3)
  BY <1>3, <1>7, SwapKeepsWhole, 3 \in 1 .. 5
<1>9. s4 \in Seq(Units) /\ IsWhole(s4)
  BY <1>4, <1>8, SwapKeepsWhole, 4 \in 1 .. 5
<1>10. IsWhole(Swap(s4, 5))
  BY <1>9, SwapKeepsWhole, 5 \in 1 .. 5
<1> QED BY <1>0, <1>1, <1>2, <1>3, <1>4, <1>10, SwapInSteps DEF Swapped

(* Every candidate is whole, and so is the text if the input was.          *)
WholeInv ==
  /\ \A c \in candidates : IsWhole(c.value)
  /\ IsWhole(input) => IsWhole(string)

(* A crush starts with whole candidates. *)
LEMMA InitIsWhole == Init => WholeInv
<1> SUFFICES ASSUME Init PROVE WholeInv
  OBVIOUS
<1>1. input \in Seq(Units) /\ string = Swapped(input) /\ candidates = build_initial_candidates(string)
  BY UnitsAssumption DEF Init
<1>2. string \in Seq(Units)
  BY InitHasInv, PlainIsText DEF CrushInv
<1>3. IsWhole(input) => IsWhole(string)
  BY <1>1, SwappedIsWhole
<1>4. ASSUME NEW c \in candidates PROVE IsWhole(c.value)
  <2>1. PICK len \in 2 .. MaxLen - 1 :
          \E g \in {g \in repeated_slices(string, len) : ~has_unmatched_surrogate(Sub(string, Min(g), len))} :
            c = [value |-> Sub(string, Min(g), len), count |-> Greedy(g, len)]
    BY <1>1 DEF build_initial_candidates
  <2>2. PICK g \in repeated_slices(string, len) :
          /\ ~has_unmatched_surrogate(Sub(string, Min(g), len))
          /\ c = [value |-> Sub(string, Min(g), len), count |-> Greedy(g, len)]
    BY <2>1
  <2>3. PICK v : v = Sub(string, Min(g), len)
    OBVIOUS
  <2>4. v \in Seq(Units)
    BY <1>2, <2>3, SliceIsThere
  <2>5. c.value = v /\ ~has_unmatched_surrogate(v)
    BY <2>2, <2>3
  <2> QED BY <2>4, <2>5, WholeIsMatched
<1> QED BY <1>3, <1>4 DEF WholeInv

(* A round keeps text and candidates whole. *)
LEMMA RoundTearsNoPair ==
  ASSUME CrushInv, WholeInv, Round
  PROVE  WholeInv'
<1> DEFINE char == Replacements[NextUnused]
<1>1. PICK best \in Kept :
        LET shrunk == replace_all_with_char(string, best.value, char)
            rest == {replace_all_with_char(c.value, best.value, char) : c \in Kept}
        IN  /\ string' = shrunk \o Entry(char, best)
            /\ candidates' = count_candidates(string', {v \in rest : Len(v) >= 2})
  BY DEF Round
<1>2. NextUnused # 0 /\ input' = input
  BY DEF Round
<1>3. NextUnused \in 1 .. Len(Replacements) /\ IsCandidate(best, string) /\ best \in candidates
  BY <1>2, RoundTakes
<1>4. char \in Units /\ char \notin High \cup Low
  <2>1. char \in Plain /\ char \in Range(Replacements)
    BY <1>3, ReplacementIsPlain
  <2> QED BY <2>1, PlainIsText, UnitsAssumption
<1>5. /\ string \in Seq(Units)
      /\ \A c \in candidates : IsCandidate(c, string) /\ IsWhole(c.value)
      /\ IsWhole(input) => IsWhole(string)
  BY PlainIsText DEF CrushInv, WholeInv
<1> HIDE DEF char
<1>6. PICK value : value = best.value
  OBVIOUS
<1>7. value \in Seq(Units) /\ value # <<>> /\ IsWhole(value)
  BY <1>3, <1>5, <1>6 DEF IsCandidate
<1> DEFINE one == <<char>>
<1>8. one \in Seq(Units) /\ IsWhole(one)
  BY <1>4, UnitIsWhole
<1> HIDE DEF one
<1>9. IsRule(value, one)
  BY <1>7, <1>8 DEF IsRule
<1>10. ASSUME NEW w \in Seq(Units), IsWhole(w)
       PROVE  Replaced(w, value, one) \in Seq(Units) /\ IsWhole(Replaced(w, value, one))
  <2>1. Replaced(w, value, one) \in Seq(Units)
    BY <1>9, ReplacedUnfolds
  <2>2. IsWhole(Replaced(w, value, one))
    BY <1>7, <1>8, <1>9, <1>10, ReplacedKeepsWhole
  <2> QED BY <2>1, <2>2
<1>11. IsWhole(input) => IsWhole(string')
  <2> SUFFICES ASSUME IsWhole(input) PROVE IsWhole(string')
    OBVIOUS
  <2>1. PICK shrunk : shrunk = Replaced(string, value, one)
    OBVIOUS
  <2>2. shrunk \in Seq(Units) /\ IsWhole(shrunk)
    BY <1>5, <1>10, <2>1
  <2>3. PICK entry : entry = one \o value
    OBVIOUS
  <2>4. entry \in Seq(Units) /\ IsWhole(entry)
    <3>1. IsWhole(one \o value)
      BY <1>7, <1>8, WholeJoined
    <3>2. one \o value \in Seq(Units)
      BY <1>7, <1>8, ConcatProperties
    <3> QED BY <2>3, <3>1, <3>2
  <2>5. string' = shrunk \o entry
    BY <1>1, <1>6, <2>1, <2>3 DEF replace_all_with_char, Entry, one
  <2>6. IsWhole(shrunk \o entry)
    BY <2>2, <2>4, WholeJoined
  <2> QED BY <2>5, <2>6
<1>12. ASSUME NEW d \in candidates' PROVE IsWhole(d.value)
  <2> DEFINE rest == {replace_all_with_char(c.value, best.value, char) : c \in Kept}
  <2>1. PICK v \in rest : d = [value |-> v, count |-> Greedy(Occurrences(string', v), Len(v))]
    BY <1>1 DEF count_candidates
  <2>2. PICK c \in Kept : v = replace_all_with_char(c.value, best.value, char)
    BY <2>1
  <2>3. PICK w : w = c.value
    OBVIOUS
  <2>4. v = Replaced(w, value, one) /\ c \in candidates /\ d.value = v
    BY <1>6, <2>1, <2>2, <2>3 DEF replace_all_with_char, Kept, one
  <2>5. w \in Seq(Units) /\ IsWhole(w)
    BY <1>5, <2>3, <2>4 DEF IsCandidate
  <2>6. IsWhole(Replaced(w, value, one))
    BY <1>10, <2>5
  <2> QED BY <2>4, <2>6
<1> QED BY <1>2, <1>11, <1>12 DEF WholeInv

(* Every step does. *)
LEMMA NextTearsNoPair == CrushInv /\ WholeInv /\ [Next]_vars => WholeInv'
<1> SUFFICES ASSUME CrushInv, WholeInv, [Next]_vars PROVE WholeInv'
  OBVIOUS
<1>1. CASE Round
  BY <1>1, RoundTearsNoPair
<1>2. CASE UNCHANGED <<input, string, candidates>>
  BY <1>2 DEF WholeInv
<1> QED BY <1>1, <1>2 DEF Next, Stop, vars

(* No surrogate is unmatched. *)
LEMMA InvGivesWhole == CrushInv /\ WholeInv => PairsStayWhole
<1> SUFFICES ASSUME CrushInv, WholeInv PROVE PairsStayWhole
  OBVIOUS
<1>1. input \in Seq(Units) /\ string \in Seq(Units)
  BY UnitsAssumption, PlainIsText DEF CrushInv
<1>2. IsWhole(input) => IsWhole(string)
  BY DEF WholeInv
<1> QED BY <1>1, <1>2, WholeIsMatched DEF PairsStayWhole

(* A text without a torn surrogate pair stays so in every round, so that the
   result can be written as UTF-8. *)
THEOREM CrushKeepsPairs == Spec => []PairsStayWhole
<1>1. Spec => []WholeInv
  BY CrushInvariant, InitIsWhole, NextTearsNoPair, PTL DEF Spec
<1> QED BY <1>1, CrushInvariant, InvGivesWhole, PTL

=============================================================================
