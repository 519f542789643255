---------------------------- MODULE MinifyProofs ----------------------------
(***************************************************************************)
(* Proofs about Minify, for every text, every set of words and every bound *)
(* on the brackets: each round of each loop moves on, and what has been    *)
(* written fits in what has been read, but for two ways of writing a space *)
(* that the text did not have.  What the operators compute that look ahead *)
(* in the text matters here only by where they lead.                       *)
(***************************************************************************)
EXTENDS Minify, FiniteSetTheorems, SequenceTheorems, WellFoundedInduction, TLAPS

(* A sequence, of whatever.                                                *)
IsText(s) == \E S : s \in Seq(S)

(* NUL: no symbol stands there, or no quote is open.                       *)
Nul == ""

Held(space) == IF space THEN 1 ELSE 0

(* What is written, with the space that may still be.                      *)
Written == Len(out) + Held(pend)

Bounds ==
  /\ IsText(text) /\ IsText(out)
  /\ at \in Nat \ {0} /\ stop \in Nat /\ stop <= Len(text)
  /\ from \in Nat /\ pend \in BOOLEAN

(* What a round of a loop does to them: it moves on by at least one symbol *)
(* and writes, but for spare, no more than it moves on.                    *)
Advances(spare) ==
  /\ Bounds' /\ Place' > Place
  /\ Written' - Written <= Place' - Place + spare

Stays == UNCHANGED <<text, stop, from, opts>>
-----------------------------------------------------------------------------
(* A set of numbers that is not empty has a least element. *)
LEMMA LeastNumber ==
  ASSUME NEW S \in SUBSET Nat, S # {}
  PROVE  \E m \in S : \A n \in S : m <= n
<1>1. IsWellFoundedOn(OpToRel(<, Nat), Nat)
  BY NatLessThanWellFounded
<1>2. PICK m \in S : \A n \in S : ~(<<n, m>> \in OpToRel(<, Nat))
  BY <1>1, WFMin
<1>3. ASSUME NEW n \in S PROVE m <= n
  <2>1. m \in Nat /\ n \in Nat
    OBVIOUS
  <2>2. ~(n < m)
    BY <1>2, <2>1 DEF OpToRel
  <2> QED BY <2>1, <2>2
<1> QED BY <1>3

(* A place that ends a search is preceded by a first one. *)
LEMMA FirstPlace ==
  ASSUME NEW k \in Nat, NEW last \in Nat, k <= last, NEW S, last \in S
  PROVE  \E j \in k .. last : j \in S /\ \A l \in k .. j - 1 : l \notin S
<1> DEFINE P == {j \in k .. last : j \in S}
<1>1. P \in SUBSET Nat /\ P # {}
  OBVIOUS
<1>2. PICK m \in P : \A n \in P : m <= n
  BY <1>1, LeastNumber
<1>3. ASSUME NEW l \in k .. m - 1 PROVE l \notin S
  <2>1. l \in k .. last /\ ~(m <= l)
    BY <1>1, <1>2
  <2> QED BY <1>2, <2>1
<1> QED BY <1>2, <1>3

(* A set of numbers up to n has a greatest element. *)
LEMMA GreatestNumber ==
  ASSUME NEW n \in Nat, NEW S \in SUBSET (0 .. n), S # {}
  PROVE  Max(S) \in S /\ \A m \in S : m <= Max(S)
<1> DEFINE R == {n - m : m \in S}
<1>1. R \in SUBSET Nat /\ R # {}
  OBVIOUS
<1>2. PICK r \in R : \A q \in R : r <= q
  BY <1>1, LeastNumber
<1>3. PICK m \in S : r = n - m
  BY <1>2
<1>4. ASSUME NEW q \in S PROVE m >= q
  <2>1. r <= n - q
    BY <1>2
  <2>2. m \in 0 .. n /\ q \in 0 .. n
    OBVIOUS
  <2> QED BY <1>3, <2>1, <2>2
<1>5. \E x \in S : \A y \in S : x >= y
  BY <1>4
<1>6. Max(S) \in S /\ \A y \in S : Max(S) >= y
  BY <1>5 DEF Max
<1>7. \A y \in S : y \in Int
  OBVIOUS
<1> QED BY <1>6, <1>7

(* A set of numbers that is not empty has its minimum. *)
LEMMA MinIsLeast ==
  ASSUME NEW S \in SUBSET Nat, S # {}
  PROVE  Min(S) \in S /\ \A n \in S : Min(S) <= n
<1>1. \E x \in S : \A y \in S : x <= y
  BY LeastNumber
<1> QED BY <1>1 DEF Min
-----------------------------------------------------------------------------
(* Texts: lengths of what the actions put together.                        *)
(* A sequence may be taken to be one over a larger set.                    *)
LEMMA WiderText ==
  ASSUME NEW S, NEW T, NEW s \in Seq(S)
  PROVE  s \in Seq(S \cup T)
<1>1. Len(s) \in Nat /\ s \in [1 .. Len(s) -> S]
  BY LenProperties
<1>2. s \in [1 .. Len(s) -> S \cup T]
  BY <1>1
<1> QED BY <1>1, <1>2

(* The length of a text is a number, 0 of the empty text only. *)
LEMMA TextLength ==
  ASSUME NEW s, IsText(s)
  PROVE  Len(s) \in Nat /\ (s # <<>> => Len(s) > 0)
<1>1. PICK S : s \in Seq(S)
  BY DEF IsText
<1> QED BY <1>1, EmptySeq, LenProperties

(* A symbol behind a text. *)
LEMMA AppendLength ==
  ASSUME NEW s, IsText(s), NEW c
  PROVE  IsText(Append(s, c)) /\ Len(Append(s, c)) = Len(s) + 1
<1>1. PICK S : s \in Seq(S)
  BY DEF IsText
<1>2. s \in Seq(S \cup {c})
  BY <1>1, WiderText
<1>3. Append(s, c) \in Seq(S \cup {c}) /\ Len(Append(s, c)) = Len(s) + 1
  <2> DEFINE T == S \cup {c}
  <2>1. s \in Seq(T) /\ c \in T
    BY <1>2
  <2> HIDE DEF T
  <2>2. Append(s, c) \in Seq(T) /\ Len(Append(s, c)) = Len(s) + 1
    BY <2>1
  <2> QED BY <2>2 DEF T
<1> QED BY <1>3 DEF IsText

(* Two texts behind one another. *)
LEMMA ConcatLength ==
  ASSUME NEW s, IsText(s), NEW t, IsText(t)
  PROVE  IsText(s \o t) /\ Len(s \o t) = Len(s) + Len(t)
<1>1. PICK S : s \in Seq(S)
  BY DEF IsText
<1>2. PICK T : t \in Seq(T)
  BY DEF IsText
<1>3. s \in Seq(S \cup T) /\ t \in Seq(T \cup S)
  BY <1>1, <1>2, WiderText
<1>4. T \cup S = S \cup T
  OBVIOUS
<1>5. s \o t \in Seq(S \cup T) /\ Len(s \o t) = Len(s) + Len(t)
  BY <1>3, <1>4, ConcatProperties
<1> QED BY <1>5 DEF IsText

(* Texts written out. *)
LEMMA ShortTexts ==
  /\ IsText(<<>>) /\ Len(<<>>) = 0
  /\ \A c : IsText(<<c>>) /\ Len(<<c>>) = 1
  /\ \A c, d : IsText(<<c, d>>) /\ Len(<<c, d>>) = 2
<1>1. IsText(<<>>) /\ Len(<<>>) = 0
  BY EmptySeq DEF IsText
<1>2. ASSUME NEW c PROVE IsText(<<c>>) /\ Len(<<c>>) = 1
  <2>1. <<c>> \in Seq({c}) /\ Len(<<c>>) = 1
    OBVIOUS
  <2> QED BY <2>1 DEF IsText
<1>3. ASSUME NEW c, NEW d PROVE IsText(<<c, d>>) /\ Len(<<c, d>>) = 2
  <2>1. <<c, d>> \in Seq({c, d}) /\ Len(<<c, d>>) = 2
    OBVIOUS
  <2> QED BY <2>1 DEF IsText
<1> QED BY <1>1, <1>2, <1>3

(* A part of a text. *)
LEMMA SubLength ==
  ASSUME NEW s, IsText(s), NEW i \in Nat \ {0}, NEW j \in Int, j <= Len(s)
  PROVE  /\ IsText(SubSeq(s, i, j))
         /\ Len(SubSeq(s, i, j)) = IF i <= j THEN j - i + 1 ELSE 0
<1>1. PICK S : s \in Seq(S)
  BY DEF IsText
<1>2. Len(s) \in Nat /\ s \in [1 .. Len(s) -> S]
  BY <1>1, LenProperties
<1>3. \A l \in i .. j : s[l] \in S
  BY <1>2
<1>4. i \in Int
  OBVIOUS
<1>5. SubSeq(s, i, j) \in Seq(S) /\ Len(SubSeq(s, i, j)) = IF i <= j THEN j - i + 1 ELSE 0
  BY <1>3, <1>4, SubSeqProperties
<1> QED BY <1>5 DEF IsText

(* Dropping the last symbol. *)
LEMMA FrontLength ==
  ASSUME NEW s, IsText(s), s # <<>>
  PROVE  IsText(SubSeq(s, 1, Len(s) - 1)) /\ Len(SubSeq(s, 1, Len(s) - 1)) = Len(s) - 1
<1>1. Len(s) \in Nat /\ Len(s) > 0
  BY TextLength
<1> DEFINE n == Len(s) - 1
<1>2. n \in Int /\ n <= Len(s) /\ n >= 0
  BY <1>1
<1> HIDE DEF n
<1>3. IsText(SubSeq(s, 1, n)) /\ Len(SubSeq(s, 1, n)) = IF 1 <= n THEN n - 1 + 1 ELSE 0
  BY <1>2, SubLength
<1> QED BY <1>2, <1>3 DEF n

(* Dropping a space at the end makes a text no longer. *)
LEMMA WithoutSpaceLength ==
  ASSUME NEW s, IsText(s)
  PROVE  IsText(WithoutSpace(s)) /\ Len(WithoutSpace(s)) <= Len(s)
<1>1. CASE s # <<>> /\ s[Len(s)] = " "
  <2>1. WithoutSpace(s) = SubSeq(s, 1, Len(s) - 1)
    BY <1>1 DEF WithoutSpace
  <2>2. Len(s) \in Nat
    BY TextLength
  <2>3. IsText(SubSeq(s, 1, Len(s) - 1)) /\ Len(SubSeq(s, 1, Len(s) - 1)) = Len(s) - 1
    BY <1>1, FrontLength
  <2> QED BY <2>1, <2>2, <2>3
<1>2. CASE ~(s # <<>> /\ s[Len(s)] = " ")
  <2>1. WithoutSpace(s) = s
    BY <1>2 DEF WithoutSpace
  <2> QED BY <2>1, TextLength
<1> QED BY <1>1, <1>2

(* So does dropping what stands at the end. *)
LEMMA LastButLength ==
  ASSUME NEW s, IsText(s), NEW S
  PROVE  /\ LastBut(s, S) \in 0 .. Len(s)
         /\ IsText(SubSeq(s, 1, LastBut(s, S)))
         /\ Len(SubSeq(s, 1, LastBut(s, S))) <= Len(s)
<1> DEFINE P == {0} \cup {i \in DOMAIN s : s[i] \notin S}
<1>0. PICK T : s \in Seq(T)
  BY DEF IsText
<1>1. Len(s) \in Nat /\ DOMAIN s = 1 .. Len(s)
  BY <1>0, LenProperties
<1>2. P \in SUBSET (0 .. Len(s)) /\ P # {}
  BY <1>1
<1>3. LastBut(s, S) = Max(P)
  BY DEF LastBut
<1>4. LastBut(s, S) \in 0 .. Len(s)
  <2> HIDE DEF P
  <2> QED BY <1>1, <1>2, <1>3, GreatestNumber
<1>5. LastBut(s, S) \in Int /\ LastBut(s, S) <= Len(s)
  BY <1>1, <1>4
<1> DEFINE n == LastBut(s, S)
<1> HIDE DEF n
<1>6. IsText(SubSeq(s, 1, n)) /\ Len(SubSeq(s, 1, n)) = IF 1 <= n THEN n - 1 + 1 ELSE 0
  BY <1>5, SubLength DEF n
<1>7. n \in 0 .. Len(s)
  BY <1>4 DEF n
<1>8. Len(SubSeq(s, 1, n)) <= Len(s)
  BY <1>1, <1>6, <1>7
<1> QED BY <1>4, <1>6, <1>8 DEF n
-----------------------------------------------------------------------------
(* Behind the text stands NUL. *)
LEMMA NulBehind ==
  ASSUME Bounds, NEW k \in Nat, k > stop
  PROVE  At(k) = Nul
<1>1. ~(k <= stop)
  BY DEF Bounds
<1> QED BY <1>1, Zenon DEF At, Nul

(* A symbol that is not NUL stands in the text. *)
LEMMA SeenInText ==
  ASSUME Bounds, NEW k \in Nat, At(k) # Nul
  PROVE  k <= stop
<1> SUFFICES ASSUME ~(k <= stop) PROVE FALSE
  OBVIOUS
<1>1. k > stop
  BY DEF Bounds
<1> QED BY <1>1, NulBehind

(* Words and spaces are no NUL. *)
LEMMA NoNul ==
  /\ Nul \notin Words /\ Nul \notin Space
  /\ \A c \in Words : c \notin Space /\ c # ">" /\ c # "="
  /\ ":" \notin Space /\ ":" # Nul /\ "=" # Nul
BY WordsAssumption DEF Space, Nul

(* A search for some symbols ends at one of them or behind the text. *)
LEMMA ToFirstEnds ==
  ASSUME Bounds, NEW k \in Nat \ {0}, NEW S
  PROVE  /\ ToFirst(k, S) \in k .. Max2(k, stop + 1)
         /\ At(k) \notin S \cup {Nul} => ToFirst(k, S) > k
<1> DEFINE last == Max2(k, stop + 1)
           P == {l \in Nat : At(l) \in S \cup {Nul}}
           ends(j) == (\A l \in k .. j - 1 : At(l) \notin S) /\ At(j) \in S \cup {Nul}
<1>1. last \in Nat \ {0} /\ k <= last /\ last > stop
  BY DEF Bounds, Max2
<1>2. At(last) = Nul
  BY <1>1, NulBehind
<1>3. last \in P
  BY <1>1, <1>2
<1>4. PICK j \in k .. last : j \in P /\ \A l \in k .. j - 1 : l \notin P
  <2> HIDE DEF last, P
  <2> QED BY <1>1, <1>3, FirstPlace
<1> HIDE DEF last
<1>5. \A l \in k .. j - 1 : At(l) \notin S
  <2> SUFFICES ASSUME NEW l \in k .. j - 1 PROVE At(l) \notin S
    OBVIOUS
  <2>1. l \in Nat /\ l \notin P
    <3> HIDE DEF P
    <3> QED BY <1>1, <1>4
  <2> QED BY <2>1
<1>6. ends(j)
  BY <1>4, <1>5
<1>7. ToFirst(k, S) = CHOOSE i \in k .. last : ends(i)
  BY Zenon DEF ToFirst, last, Nul
<1>8. ToFirst(k, S) \in k .. last /\ ends(ToFirst(k, S))
  <2> HIDE DEF ends
  <2> QED BY <1>6, <1>7
<1>9. At(k) \notin S \cup {Nul} => ToFirst(k, S) # k
  BY <1>8
<1>10. ToFirst(k, S) \in k .. last /\ (At(k) \notin S \cup {Nul} => ToFirst(k, S) > k)
  <2> HIDE DEF ends, P
  <2> QED BY <1>1, <1>8, <1>9
<1> QED BY <1>10 DEF last

(* What spaces are skipped ends at another symbol or behind the text. *)
LEMMA PastSpaceEnds ==
  ASSUME Bounds, NEW k \in Nat \ {0}
  PROVE  /\ PastSpace(k) \in k .. Max2(k, stop + 1)
         /\ At(k) \in Space => PastSpace(k) > k
<1> DEFINE last == Max2(k, stop + 1)
           P == {l \in Nat : At(l) \notin Space}
           ends(j) == (\A l \in k .. j - 1 : At(l) \in Space) /\ At(j) \notin Space
<1>1. last \in Nat \ {0} /\ k <= last /\ last > stop
  BY DEF Bounds, Max2
<1>2. At(last) = Nul
  BY <1>1, NulBehind
<1>3. last \in P
  BY <1>1, <1>2, NoNul
<1>4. PICK j \in k .. last : j \in P /\ \A l \in k .. j - 1 : l \notin P
  <2> HIDE DEF last, P
  <2> QED BY <1>1, <1>3, FirstPlace
<1> HIDE DEF last
<1>5. \A l \in k .. j - 1 : At(l) \in Space
  <2> SUFFICES ASSUME NEW l \in k .. j - 1 PROVE At(l) \in Space
    OBVIOUS
  <2>1. l \in Nat /\ l \notin P
    <3> HIDE DEF P
    <3> QED BY <1>1, <1>4
  <2> QED BY <2>1
<1>6. ends(j)
  BY <1>4, <1>5
<1>7. PastSpace(k) = CHOOSE i \in k .. last : ends(i)
  BY DEF PastSpace, last
<1>8. PastSpace(k) \in k .. last /\ ends(PastSpace(k))
  <2> HIDE DEF ends
  <2> QED BY <1>6, <1>7
<1>9. At(k) \in Space => PastSpace(k) # k
  BY <1>8
<1>10. PastSpace(k) \in k .. last /\ (At(k) \in Space => PastSpace(k) > k)
  <2> HIDE DEF ends, P
  <2> QED BY <1>1, <1>8, <1>9
<1> QED BY <1>10 DEF last

(* Where a word ends. *)
LEMMA WordEnds ==
  ASSUME Bounds, NEW k \in Nat \ {0}, k <= stop + 1
  PROVE  /\ WordEnd(k) \in k - 1 .. stop
         /\ At(k) \in Words => WordEnd(k) >= k
<1> DEFINE P == {l \in Nat : At(l) \notin Words}
           ends(j) == (\A l \in k .. j : text[l] \in Words) /\ At(j + 1) \notin Words
<1>1. stop \in Nat /\ stop + 1 \in Nat \ {0} /\ k \in Nat
  BY DEF Bounds
<1>2. At(stop + 1) = Nul
  BY <1>1, NulBehind
<1>3. stop + 1 \in P
  BY <1>1, <1>2, NoNul
<1>4. PICK i \in k .. stop + 1 : i \in P /\ \A l \in k .. i - 1 : l \notin P
  <2> HIDE DEF P
  <2> QED BY <1>1, <1>3, FirstPlace
<1>5. \A l \in k .. i - 1 : text[l] \in Words
  <2> SUFFICES ASSUME NEW l \in k .. i - 1 PROVE text[l] \in Words
    OBVIOUS
  <2>1. l \in Nat /\ l \notin P /\ l <= stop
    BY <1>1, <1>4
  <2> QED BY <2>1 DEF At
<1>6. ends(i - 1) /\ i - 1 \in k - 1 .. stop
  BY <1>1, <1>4, <1>5
<1>7. WordEnd(k) = CHOOSE j \in k - 1 .. stop : ends(j)
  BY DEF WordEnd
<1>8. WordEnd(k) \in k - 1 .. stop /\ ends(WordEnd(k))
  <2> HIDE DEF ends
  <2> QED BY <1>6, <1>7
<1>9. At(k) \in Words => WordEnd(k) # k - 1
  <2> SUFFICES ASSUME WordEnd(k) = k - 1 PROVE At(k) \notin Words
    OBVIOUS
  <2>1. k - 1 + 1 = k
    BY <1>1
  <2> QED BY <1>8, <2>1
<1> QED BY <1>1, <1>8, <1>9

(* A pattern that is found stands in the text. *)
LEMMA FoundInText ==
  ASSUME Bounds, NEW k \in Nat \ {0}, NEW pattern, Found(k, pattern) # 0
  PROVE  Found(k, pattern) \in k .. stop /\ Sees(Found(k, pattern), pattern)
<1> DEFINE places == {j \in k .. stop : Sees(j, pattern)}
<1>1. places # {} /\ Found(k, pattern) = Min(places)
  BY DEF Found
<1>2. places \in SUBSET Nat
  BY DEF Bounds
<1>3. Min(places) \in places
  <2> HIDE DEF places
  <2> QED BY <1>1, <1>2, MinIsLeast
<1> QED BY <1>1, <1>3

(* Nothing is found below 0. *)
LEMMA FoundIsPlace ==
  ASSUME Bounds, NEW k \in Nat \ {0}, NEW pattern
  PROVE  Found(k, pattern) \in {0} \cup (k .. stop)
BY FoundInText

(* A comment is left inside the text or just behind it. *)
LEMMA CommentEnds ==
  ASSUME Bounds, NEW k \in Nat \ {0}, k <= stop + 1, NEW end \in Int, end <= stop + 1,
         NEW closing, Len(closing) \in Nat, Len(closing) > 0
  PROVE  PastComment(k, closing, end) \in k .. stop + 1
<1>1. Len(closing) \in Nat /\ stop \in Nat
  BY DEF Bounds
<1>2. CASE Found(k, closing) = 0
  BY <1>1, <1>2 DEF PastComment, Max2
<1>3. CASE Found(k, closing) # 0
  <2>1. Found(k, closing) \in k .. stop /\ Sees(Found(k, closing), closing)
    BY <1>3, FoundInText
  <2>2. Found(k, closing) + Len(closing) - 1 <= stop
    BY <2>1 DEF Sees
  <2>3. PastComment(k, closing, end) = Found(k, closing) + Len(closing)
    BY <1>3 DEF PastComment
  <2> QED BY <1>1, <2>1, <2>2, <2>3
<1> QED BY <1>2, <1>3

(* The length of what is copied from the text. *)
LEMMA PartLength ==
  ASSUME Bounds, NEW i \in Nat \ {0}, NEW j \in Int
  PROVE  /\ IsText(Part(i, j))
         /\ Len(Part(i, j)) = IF i <= Min2(j, stop) THEN Min2(j, stop) - i + 1 ELSE 0
<1> DEFINE last == Min2(j, stop)
<1>1. last \in Int /\ last <= Len(text) /\ IsText(text) /\ Len(text) \in Nat
  BY DEF Bounds, Min2
<1>2. Part(i, j) = SubSeq(text, i, last)
  BY DEF Part
<1> HIDE DEF last
<1>3. IsText(SubSeq(text, i, last)) /\ Len(SubSeq(text, i, last)) = IF i <= last THEN last - i + 1 ELSE 0
  BY <1>1, SubLength
<1> QED BY <1>2, <1>3 DEF last

(* What a round must show: see Advances. *)
LEMMA RoundAdvances ==
  ASSUME Bounds, at <= stop, Stays, NEW spare \in Nat,
         at' \in Nat, at' > at, IsText(out'), pend' \in BOOLEAN,
         Len(out') + Held(pend') <= Len(out) + Held(pend) + (Min2(at', stop + 1) - at) + spare
  PROVE  Advances(spare)
<1>1. Bounds'
  BY DEF Bounds, Stays
<1>2. Place = at /\ Place' = Min2(at', stop + 1)
  BY DEF Place, Min2, Stays, Bounds
<1>3. Place' > Place
  BY <1>2 DEF Min2, Bounds
<1>4. Len(out') \in Nat /\ Len(out) \in Nat /\ Held(pend) \in Nat /\ Held(pend') \in Nat
  BY DEF Bounds, Held
<1>5. Place' \in Nat /\ Place \in Nat
  BY <1>2 DEF Min2, Bounds
<1>6. Written' - Written <= Place' - Place + spare
  BY <1>2, <1>4, <1>5, SMTT(40) DEF Written
<1> QED BY <1>1, <1>3, <1>6 DEF Advances
-----------------------------------------------------------------------------
(* The place after a round is a later one. *)
LEMMA NextPlace ==
  ASSUME NEW i \in Nat, NEW j \in Nat, NEW n \in Nat, i <= n, j > i
  PROVE  Min2(j, n + 1) - i >= 1 /\ Min2(j, n + 1) \in Nat
BY DEF Min2

(* A round that writes nothing. *)
LEMMA Skips ==
  ASSUME Bounds, at <= stop, Stays, at' \in Nat, at' > at, out' = out, pend' \in BOOLEAN
  PROVE  Advances(0)
<1>1. Len(out) \in Nat /\ IsText(out')
  BY TextLength DEF Bounds
<1>2. Held(pend') <= Held(pend) + 1
  BY DEF Held, Bounds
<1>3. Min2(at', stop + 1) - at >= 1 /\ Min2(at', stop + 1) \in Nat
  <2>1. at \in Nat /\ stop \in Nat
    BY DEF Bounds
  <2> QED BY <2>1, NextPlace
<1>4. Held(pend') \in Nat /\ Held(pend) \in Nat
  BY DEF Held
<1>5. Len(out') + Held(pend') <= Len(out) + Held(pend) + (Min2(at', stop + 1) - at) + 0
  BY <1>1, <1>2, <1>3, <1>4 DEF Bounds
<1> QED BY <1>1, <1>5, RoundAdvances

(* One symbol is written behind s, for one or more that are read. *)
LEMMA WritesOne ==
  ASSUME Bounds, at <= stop, Stays, at' \in Nat, at' > at,
         NEW s, IsText(s), NEW c, out' = Append(s, c), pend' \in BOOLEAN,
         Len(s) + Held(pend') <= Len(out) + Held(pend)
  PROVE  Advances(0)
<1>1. Len(out) \in Nat /\ Len(s) \in Nat
  BY TextLength DEF Bounds
<1>2. IsText(out') /\ Len(out') = Len(s) + 1
  BY AppendLength
<1>3. Min2(at', stop + 1) - at >= 1 /\ Min2(at', stop + 1) \in Nat
  <2>1. at \in Nat /\ stop \in Nat
    BY DEF Bounds
  <2> QED BY <2>1, NextPlace
<1>4. Held(pend') \in Nat /\ Held(pend) \in Nat
  BY DEF Held
<1>5. Len(out') + Held(pend') <= Len(out) + Held(pend) + (Min2(at', stop + 1) - at) + 0
  BY <1>1, <1>2, <1>3, <1>4, SMTT(40) DEF Bounds
<1> QED BY <1>2, <1>5, RoundAdvances

(* One symbol is written behind s, which has the space that was held back. *)
LEMMA WritesFlushed ==
  ASSUME Bounds, at <= stop, Stays, at' = at + 1,
         NEW s, IsText(s), Len(s) <= Len(out) + Held(pend), NEW c, out' = Append(s, c), pend' = FALSE
  PROVE  Advances(0)
<1>0. at \in Nat
  BY DEF Bounds
<1>1. at' \in Nat /\ at' > at
  BY <1>0
<1>2. Held(pend') = 0
  BY DEF Held
<1>3. pend' \in BOOLEAN
  OBVIOUS
<1>4. Len(s) \in Nat
  BY TextLength
<1>5. Len(s) + Held(pend') <= Len(out) + Held(pend)
  BY <1>2, <1>4
<1> QED BY <1>1, <1>3, <1>5, WritesOne

(* What is read is copied behind s up to j; the rest of it is skipped. *)
LEMMA CopiesAndSkips ==
  ASSUME Bounds, at <= stop, Stays, NEW j \in Nat, j >= at, at' \in Nat, at' >= j + 1,
         NEW s, IsText(s), out' = s \o Part(at, j), pend' \in BOOLEAN,
         Len(s) + Held(pend') <= Len(out) + Held(pend)
  PROVE  Advances(0)
<1>1. Len(out) \in Nat /\ Len(s) \in Nat
  BY TextLength DEF Bounds
<1> DEFINE p == Part(at, j)
           m == Min2(j, stop)
<1>2. at \in Nat \ {0} /\ stop \in Nat
  BY DEF Bounds
<1>3. m \in Nat /\ at <= m /\ Min2(at', stop + 1) >= m + 1 /\ Min2(at', stop + 1) \in Nat
  BY <1>2 DEF Min2
<1>4. IsText(p) /\ Len(p) = IF at <= m THEN m - at + 1 ELSE 0
  BY <1>2, PartLength
<1>5. out' = s \o p
  OBVIOUS
<1> HIDE DEF p, m
<1>6. IsText(s \o p) /\ Len(s \o p) = Len(s) + Len(p)
  BY <1>4, ConcatLength
<1>7. Held(pend') \in Nat /\ Held(pend) \in Nat
  BY DEF Held
<1>8. Len(out') = Len(s) + (m - at + 1)
  BY <1>3, <1>4, <1>5, <1>6
<1>9. Len(out') + Held(pend') <= Len(out) + Held(pend) + (Min2(at', stop + 1) - at) + 0
  BY <1>1, <1>2, <1>3, <1>7, <1>8, SMTT(40)
<1>10. at' \in Nat /\ at' > at /\ IsText(out')
  BY <1>2, <1>5, <1>6
<1> QED BY <1>9, <1>10, RoundAdvances

(* What is read is copied behind s. *)
LEMMA CopiesPart ==
  ASSUME Bounds, at <= stop, Stays, NEW j \in Nat, j >= at, at' = j + 1,
         NEW s, IsText(s), out' = s \o Part(at, j), pend' \in BOOLEAN,
         Len(s) + Held(pend') <= Len(out) + Held(pend)
  PROVE  Advances(0)
<1>1. at' \in Nat /\ at' >= j + 1
  OBVIOUS
<1> QED BY <1>1, CopiesAndSkips

(* One symbol is read and one written. *)
LEMMA CopiesOne ==
  ASSUME Bounds, at <= stop, Stays, at' = at + 1, NEW c, out' = Append(out, c), pend' = pend
  PROVE  Advances(0)
<1>1. at' \in Nat /\ at' > at /\ pend' \in BOOLEAN /\ IsText(out)
  BY DEF Bounds
<1>2. Len(out) + Held(pend') <= Len(out) + Held(pend)
  <2>1. Len(out) \in Nat /\ Held(pend) \in Nat
    BY TextLength DEF Held, Bounds
  <2> QED BY <2>1
<1> QED BY <1>1, <1>2, WritesOne

(* Two symbols are read and copied. *)
LEMMA CopiesTwo ==
  ASSUME Bounds, at <= stop, Stays, at' = at + 2, out' = out \o Part(at, at + 1), pend' = pend
  PROVE  Advances(0)
<1>1. pend' \in BOOLEAN /\ IsText(out) /\ at \in Nat
  BY DEF Bounds
<1>2. Len(out) + Held(pend') <= Len(out) + Held(pend)
  <2>1. Len(out) \in Nat /\ Held(pend) \in Nat
    BY TextLength DEF Held, Bounds
  <2> QED BY <2>1
<1> DEFINE j == at + 1
<1>3. j \in Nat /\ j >= at /\ at' = j + 1 /\ out' = out \o Part(at, j)
  BY <1>1
<1> HIDE DEF j
<1> QED BY <1>1, <1>2, <1>3, CopiesPart
-----------------------------------------------------------------------------
(* A round that writes two symbols for two. *)
LEMMA WritesTwo ==
  ASSUME Bounds, at + 1 <= stop, Stays, at' = at + 2, \E c, d : out' = out \o <<c, d>>, pend' = pend
  PROVE  Advances(0)
<1>1. PICK c, d : out' = out \o <<c, d>>
  OBVIOUS
<1>2. IsText(out) /\ Len(out) \in Nat
  BY TextLength DEF Bounds
<1>3. IsText(<<c, d>>) /\ Len(<<c, d>>) = 2
  BY ShortTexts
<1>4. IsText(out') /\ Len(out') = Len(out) + 2
  BY <1>1, <1>2, <1>3, ConcatLength
<1>5. at \in Nat /\ stop \in Nat
  BY DEF Bounds
<1>6. at' \in Nat /\ at' > at /\ at <= stop /\ Min2(at', stop + 1) = at + 2
  BY <1>5 DEF Min2
<1>7. pend' \in BOOLEAN
  BY DEF Bounds
<1>8. Held(pend') = Held(pend) /\ Held(pend) \in Nat
  BY DEF Held
<1>9. Len(out') + Held(pend') <= Len(out) + Held(pend) + (Min2(at', stop + 1) - at) + 0
  BY <1>2, <1>4, <1>5, <1>6, <1>8
<1> QED BY <1>4, <1>6, <1>7, <1>9, RoundAdvances

(* The output, with the space that was held back or without it. *)
LEMMA FlushedLength ==
  ASSUME Bounds, NEW s, s = out \/ (pend /\ \E c : s = Append(out, c))
  PROVE  IsText(s) /\ Len(s) \in Nat /\ Len(s) <= Len(out) + Held(pend)
<1>1. IsText(out) /\ Len(out) \in Nat
  BY TextLength DEF Bounds
<1>2. CASE s = out
  BY <1>1, <1>2 DEF Held
<1>3. CASE pend /\ \E c : s = Append(out, c)
  <2>1. IsText(s) /\ Len(s) = Len(out) + 1
    BY <1>1, <1>3, AppendLength
  <2> QED BY <1>1, <1>3, <2>1 DEF Held
<1> QED BY <1>2, <1>3

(* No space is held back. *)
LEMMA HeldFalse ==
  ASSUME NEW space, space = FALSE, NEW n \in Nat, NEW m, n <= m
  PROVE  space \in BOOLEAN /\ n + Held(space) <= m
<1>1. Held(space) = 0
  BY DEF Held
<1>2. n + 0 = n
  OBVIOUS
<1>3. n + Held(space) <= m
  BY <1>1, <1>2
<1> QED BY <1>3

(* A round that writes nothing but the space that was held back. *)
LEMMA FlushesOnly ==
  ASSUME Bounds, at <= stop, Stays, at' \in Nat, at' > at,
         IsText(out'), Len(out') <= Len(out) + Held(pend), pend' = FALSE
  PROVE  Advances(0)
<1>1. Len(out') \in Nat /\ Len(out) \in Nat /\ Held(pend) \in Nat
  BY TextLength DEF Held, Bounds
<1>2. pend' \in BOOLEAN /\ Len(out') + Held(pend') <= Len(out) + Held(pend)
  BY <1>1, HeldFalse
<1>3. at \in Nat /\ stop \in Nat
  BY DEF Bounds
<1>4. Min2(at', stop + 1) - at >= 1 /\ Min2(at', stop + 1) \in Nat
  BY <1>3, NextPlace
<1>5. Held(pend') = 0
  BY DEF Held
<1>6. Len(out') + Held(pend') <= Len(out) + Held(pend) + (Min2(at', stop + 1) - at) + 0
  BY <1>1, <1>2, <1>3, <1>4, <1>5
<1> QED BY <1>2, <1>6, RoundAdvances

(* The word that begins here. *)
LEMMA WordHere ==
  ASSUME Bounds, at <= stop, Here \in Words
  PROVE  WordEnd(at) \in Nat /\ WordEnd(at) >= at /\ WordEnd(at) <= stop
<1>1. at \in Nat \ {0} /\ stop \in Nat /\ at <= stop + 1
  BY DEF Bounds
<1>2. At(at) \in Words
  BY DEF Here
<1>3. WordEnd(at) \in at - 1 .. stop /\ WordEnd(at) >= at
  BY <1>1, <1>2, WordEnds
<1> QED BY <1>1, <1>3

(* The gap behind a place. *)
LEMMA GapEnds ==
  ASSUME Bounds, NEW end \in Nat
  PROVE  PastSpace(end + 1) \in Nat /\ PastSpace(end + 1) > end
<1> DEFINE k == end + 1
<1>1. k \in Nat \ {0} /\ k > end
  OBVIOUS
<1>2. stop \in Nat
  BY DEF Bounds
<1> HIDE DEF k
<1>3. PastSpace(k) \in k .. Max2(k, stop + 1)
  BY <1>1, PastSpaceEnds
<1>4. Max2(k, stop + 1) \in Nat
  BY <1>1, <1>2 DEF Max2
<1>5. PastSpace(k) \in Nat /\ PastSpace(k) > end
  BY <1>1, <1>3, <1>4
<1> QED BY <1>5 DEF k

(* What is seen stands before the end. *)
LEMMA TwoSeen ==
  ASSUME NEW c, NEW d, NEW k, Sees(k, <<c, d>>)
  PROVE  k + 2 - 1 <= stop
<1>1. Len(<<c, d>>) = 2
  BY ShortTexts
<1> QED BY <1>1 DEF Sees

(* A comment that ends at a line break is left behind.                     *)
LEMMA LineComment ==
  ASSUME Bounds, NEW n \in Nat \ {0}
  PROVE  ToFirst(at + n, {"\n"}) \in Nat /\ ToFirst(at + n, {"\n"}) > at
<1> DEFINE k == at + n
<1>1. k \in Nat \ {0} /\ k > at /\ stop \in Nat /\ at \in Nat
  BY DEF Bounds
<1> HIDE DEF k
<1>2. ToFirst(k, {"\n"}) \in k .. Max2(k, stop + 1)
  BY <1>1, ToFirstEnds
<1>3. Max2(k, stop + 1) \in Nat
  BY <1>1 DEF Max2
<1>4. ToFirst(k, {"\n"}) \in Nat /\ ToFirst(k, {"\n"}) > at
  BY <1>1, <1>2, <1>3
<1> QED BY <1>4 DEF k

(* A comment that ends at a mark is left behind, open or closed. *)
LEMMA BlockComment ==
  ASSUME Bounds, NEW n \in Nat \ {0}, at + n <= stop + 1,
         NEW end \in Int, NEW closing, end <= stop + 1, Len(closing) \in Nat, Len(closing) > 0
  PROVE  /\ PastComment(at + n, closing, end) \in Nat
         /\ PastComment(at + n, closing, end) > at
<1> DEFINE k == at + n
<1>1. k \in Nat \ {0} /\ k > at /\ k <= stop + 1 /\ stop \in Nat /\ at \in Nat
  BY DEF Bounds
<1> HIDE DEF k
<1>2. PastComment(k, closing, end) \in k .. stop + 1
  BY <1>1, CommentEnds
<1>3. PastComment(k, closing, end) \in Nat /\ PastComment(k, closing, end) > at
  BY <1>1, <1>2
<1> QED BY <1>3 DEF k

(* The comments of four languages, /* up to */. *)
LEMMA SlashComment ==
  ASSUME Bounds, NEW end, Sees(at, <<"/", "*">>), end = stop \/ end = stop + 1
  PROVE  /\ PastComment(at + 2, <<"*", "/">>, end) \in Nat
         /\ PastComment(at + 2, <<"*", "/">>, end) > at
<1>1. Len(<<"*", "/">>) \in Nat /\ Len(<<"*", "/">>) > 0
  BY ShortTexts
<1>2. at + 2 - 1 <= stop
  BY TwoSeen
<1>3. end \in Int /\ end <= stop + 1 /\ at + 2 <= stop + 1 /\ stop \in Nat /\ at \in Nat
  BY <1>2 DEF Bounds
<1> DEFINE n == 2
<1>4. n \in Nat \ {0} /\ at + n <= stop + 1
  BY <1>3
<1> HIDE DEF n
<1>5. /\ PastComment(at + n, <<"*", "/">>, end) \in Nat
      /\ PastComment(at + n, <<"*", "/">>, end) > at
  BY <1>1, <1>3, <1>4, BlockComment
<1> QED BY <1>5 DEF n

(* A round that leaves a symbol out. *)
LEMMA SkipsOne ==
  ASSUME Bounds, at <= stop, Stays, at' = at + 1, out' = out, pend' \in BOOLEAN
  PROVE  Advances(0)
<1>1. at' \in Nat /\ at' > at
  BY DEF Bounds
<1> QED BY <1>1, Skips
-----------------------------------------------------------------------------
(* minify_json.                                                            *)
(* A round of a function for scripts leaves the locals of its caller.      *)
KeepsCaller == "caller" \in DOMAIN st => "caller" \in DOMAIN st' /\ st'.caller = st.caller

(* Every round of minify_json moves on and keeps the caller's locals. *)
LEMMA JsonAdvances ==
  ASSUME Bounds, JsonNext
  PROVE  Advances(0) /\ KeepsCaller
<1>1. CASE JsonQuoted
  <2>1. at <= stop /\ Stays /\ at' = at + 1 /\ out' = Append(out, Here) /\ pend' = pend
    BY <1>1, Zenon DEF JsonQuoted, JsonReads, Round, Stays
  <2>2. \E e, q : st' = [st EXCEPT !.escaped = e, !.quoted = q]
    BY <1>1, Zenon DEF JsonQuoted
  <2>3. Advances(0)
    BY <2>1, CopiesOne
  <2>4. KeepsCaller
    BY <2>2 DEF KeepsCaller
  <2> QED BY <2>3, <2>4
<1>2. CASE JsonOpen
  <2>1. at <= stop /\ Stays /\ at' = at + 1 /\ out' = Append(out, Here) /\ pend' = pend
    BY <1>2, Zenon DEF JsonOpen, JsonReads, Round, Stays
  <2>2. st' = [st EXCEPT !.quoted = TRUE]
    BY <1>2, Zenon DEF JsonOpen
  <2>3. Advances(0)
    BY <2>1, CopiesOne
  <2>4. KeepsCaller
    BY <2>2 DEF KeepsCaller
  <2> QED BY <2>3, <2>4
<1>3. CASE JsonComment
  <2>1. at <= stop /\ Stays /\ out' = out /\ pend' = pend /\ st' = st
    BY <1>3, Zenon DEF JsonComment, JsonReads, Round, Stays
  <2>2. \/ Sees(at, <<"/", "/">>) /\ at' = ToFirst(at + 2, {"\n"})
        \/ Sees(at, <<"/", "*">>) /\ at' = PastComment(at + 2, <<"*", "/">>, stop + 1)
    BY <1>3, Zenon DEF JsonComment, Round
  <2>3. at' \in Nat /\ at' > at
    BY <2>2, LineComment, SlashComment
  <2>4. Advances(0)
    BY <2>1, <2>3, Skips DEF Bounds
  <2> QED BY <2>1, <2>4 DEF KeepsCaller
<1>4. CASE JsonOther
  <2>1. at <= stop /\ Stays /\ at' = at + 1 /\ pend' = pend /\ st' = st
    BY <1>4, Zenon DEF JsonOther, JsonReads, Round, Stays
  <2>2. out' = out \/ out' = Append(out, Here)
    BY <1>4, Zenon DEF JsonOther, Round
  <2>3. CASE out' = Append(out, Here)
    BY <2>1, <2>3, CopiesOne DEF KeepsCaller
  <2>4. CASE out' = out
    BY <2>1, <2>4, SkipsOne DEF KeepsCaller, Bounds
  <2> QED BY <2>2, <2>3, <2>4
<1> QED BY <1>1, <1>2, <1>3, <1>4 DEF JsonNext
-----------------------------------------------------------------------------
(* minify_js.                                                              *)
(* What is written before a token: at most the space that was held back. *)
LEMMA JsGapLength ==
  ASSUME Bounds
  PROVE  IsText(out \o JsGap) /\ Len(out \o JsGap) <= Len(out) + Held(pend)
<1>1. \/ JsGap = <<>>
      \/ pend /\ \E c : JsGap = <<c>>
  BY Zenon DEF JsGap
<1>2. IsText(out) /\ Len(out) \in Nat
  BY TextLength DEF Bounds
<1>3. CASE JsGap = <<>>
  <2>1. IsText(out \o JsGap) /\ Len(out \o JsGap) = Len(out) + 0
    BY <1>2, <1>3, ConcatLength, ShortTexts
  <2> QED BY <1>2, <2>1 DEF Held
<1>4. CASE pend /\ \E c : JsGap = <<c>>
  <2>1. PICK c : JsGap = <<c>>
    BY <1>4
  <2>2. IsText(out \o JsGap) /\ Len(out \o JsGap) = Len(out) + 1
    BY <1>2, <2>1, ConcatLength, ShortTexts
  <2> QED BY <1>2, <1>4, <2>2 DEF Held
<1> QED BY <1>1, <1>3, <1>4

(* Every round of minify_js moves on and keeps the caller's locals. *)
LEMMA JsAdvances ==
  ASSUME Bounds, JsNext
  PROVE  Advances(0) /\ KeepsCaller
<1>1. CASE JsEscape
  <2>1. /\ at <= stop /\ Stays /\ at' = at + 2 /\ out' = out \o Part(at, at + 1) /\ pend' = pend
        /\ st' = st
    BY <1>1, Zenon DEF JsEscape, JsReads, Round, Stays
  <2> QED BY <2>1, CopiesTwo DEF KeepsCaller
<1>2. CASE JsHole
  <2>1. /\ at <= stop /\ Stays /\ at' = at + 2 /\ out' = out \o Part(at, at + 1) /\ pend' = pend
        /\ st' = [st EXCEPT !.braces = @ + 1]
    BY <1>2, Zenon DEF JsHole, JsReads, Round, Stays
  <2>2. Advances(0)
    BY <2>1, CopiesTwo
  <2>3. KeepsCaller
    BY <2>1 DEF KeepsCaller
  <2> QED BY <2>2, <2>3
<1>3. CASE JsInside
  <2>1. at <= stop /\ Stays /\ at' = at + 1 /\ out' = Append(out, Here) /\ pend' = pend
    BY <1>3, Zenon DEF JsInside, JsReads, Round, Stays
  <2>2. \E b, q : st' = [st EXCEPT !.braces = b, !.quote = q]
    BY <1>3, Zenon DEF JsInside
  <2>3. Advances(0)
    BY <2>1, CopiesOne
  <2>4. KeepsCaller
    BY <2>2 DEF KeepsCaller
  <2> QED BY <2>3, <2>4
<1>4. CASE JsLineComment
  <2>1. /\ at <= stop /\ Stays /\ at' = ToFirst(at + 2, {"\n"}) /\ out' = out /\ pend' = TRUE
        /\ st' = st
    BY <1>4, Zenon DEF JsLineComment, JsCode, JsReads, Round, Stays
  <2>2. at' \in Nat /\ at' > at
    BY <2>1, LineComment
  <2> QED BY <2>1, <2>2, Skips DEF KeepsCaller
<1>5. CASE JsBlockComment
  <2>1. /\ at <= stop /\ Stays /\ at' = PastComment(at + 2, <<"*", "/">>, stop + 1)
        /\ out' = out /\ pend' = TRUE /\ Sees(at, <<"/", "*">>)
    BY <1>5, Zenon DEF JsBlockComment, JsBlock, JsCode, JsReads, Round, Stays
  <2>2. \E n : st' = [st EXCEPT !.newline = n]
    BY <1>5, Zenon DEF JsBlockComment
  <2>3. at' \in Nat /\ at' > at
    BY <2>1, SlashComment
  <2>4. Advances(0)
    BY <2>1, <2>3, Skips
  <2>5. KeepsCaller
    BY <2>2 DEF KeepsCaller
  <2> QED BY <2>4, <2>5
<1>6. CASE JsBlank
  <2>1. at <= stop /\ Stays /\ at' = at + 1 /\ out' = out /\ pend' = TRUE
    BY <1>6, Zenon DEF JsBlank, JsCode, JsReads, Round, Stays
  <2>2. \E n : st' = [st EXCEPT !.newline = n]
    BY <1>6, Zenon DEF JsBlank
  <2>3. Advances(0)
    BY <2>1, SkipsOne
  <2>4. KeepsCaller
    BY <2>2 DEF KeepsCaller
  <2> QED BY <2>3, <2>4
<1>7. CASE JsSemicolon
  <2>1. at <= stop /\ Stays /\ at' = at + 1 /\ pend' = FALSE
    BY <1>7, Zenon DEF JsSemicolon, JsCode, JsReads, Round, Stays
  <2>2. out' = out \/ \E c : out' = Append(out, c)
    BY <1>7, Zenon DEF JsSemicolon, Round
  <2>3. \E n, c : st' = [st EXCEPT !.newline = n, !.control = c]
    BY <1>7, Zenon DEF JsSemicolon
  <2>4. KeepsCaller
    BY <2>3 DEF KeepsCaller
  <2>5. Len(out) + Held(pend') <= Len(out) + Held(pend) /\ at' \in Nat /\ at' > at /\ IsText(out)
    <3>1. Len(out) \in Nat /\ Held(pend) \in Nat /\ Held(pend') = 0
      BY <2>1, TextLength DEF Held, Bounds
    <3> QED BY <2>1, <3>1 DEF Bounds
  <2>6. Advances(0)
    <3>1. CASE out' = out
      BY <2>1, <3>1, SkipsOne
    <3>2. CASE \E c : out' = Append(out, c)
      BY <2>1, <2>5, <3>2, WritesOne
    <3> QED BY <2>2, <3>1, <3>2
  <2> QED BY <2>4, <2>6
<1>8. CASE JsToken
  <2>1. at <= stop /\ Stays /\ at' = at + 1 /\ pend' = FALSE /\ out' = Append(out \o JsGap, Here)
    BY <1>8, Zenon DEF JsToken, JsCode, JsReads, Round, Stays
  <2>2. \E n, p, c, q : st' = [st EXCEPT !.newline = n, !.parens = p, !.control = c, !.quote = q]
    BY <1>8, Zenon DEF JsToken
  <2>3. KeepsCaller
    BY <2>2 DEF KeepsCaller
  <2>4. Advances(0)
    BY <2>1, JsGapLength, WritesFlushed
  <2> QED BY <2>3, <2>4
<1> QED BY <1>1, <1>2, <1>3, <1>4, <1>5, <1>6, <1>7, <1>8, Zenon DEF JsNext
-----------------------------------------------------------------------------
(* minify_sql.                                                             *)
(* What is written before a token of SQL. *)
LEMMA SqlSpacedLength ==
  ASSUME Bounds
  PROVE  /\ IsText(SqlSpaced) /\ Len(SqlSpaced) \in Nat
         /\ Len(SqlSpaced) <= Len(out) + Held(pend)
<1>1. SqlSpaced = out \/ (pend /\ \E c : SqlSpaced = Append(out, c))
  BY Zenon DEF SqlSpaced
<1> QED BY <1>1, FlushedLength

(* A keyword that is left out is left behind. *)
LEMMA SqlSkipAdvances ==
  ASSUME Bounds, SqlSkipWord
  PROVE  Advances(0)
<1> DEFINE end == WordEnd(at)
           k == sql_optimize_keyword(end)
<1>1. at <= stop /\ Stays /\ Here \in Words /\ k # 0 /\ at' = k /\ out' = SqlSpaced /\ pend' = FALSE
  BY Zenon DEF SqlSkipWord, SqlStartsWord, SqlCode, SqlReads, Round, Stays
<1>2. k = PastSpace(end + 1)
  BY <1>1, Zenon DEF sql_optimize_keyword
<1>3. end \in Nat /\ end >= at /\ end <= stop
  BY <1>1, WordHere
<1>4. PastSpace(end + 1) \in Nat /\ PastSpace(end + 1) > end
  <2> HIDE DEF end
  <2> QED BY <1>3, GapEnds
<1>5. at' \in Nat /\ at' > at
  <2> HIDE DEF end, k
  <2> QED BY <1>1, <1>2, <1>3, <1>4 DEF Bounds
<1> QED BY <1>1, <1>5, SqlSpacedLength, FlushesOnly

(* A word is copied, or written by its shorter form; CHARACTER VARYING     *)
(* becomes one word and asks for a space behind it.                        *)
LEMMA SqlWordAdvances ==
  ASSUME Bounds, SqlWord
  PROVE  Advances(0)
<1> DEFINE end == WordEnd(at)
           k == PastSpace(end + 1)
<1>1. at <= stop /\ Stays /\ Here \in Words
  BY Zenon DEF SqlWord, SqlStartsWord, SqlCode, SqlReads, Round, Stays
<1>2. \/ at' = end + 1 /\ out' = SqlSpaced \o Part(at, end) /\ pend' = FALSE
      \/ IsWord(k, {"VARYING"}) /\ at' = k + 1 /\ pend' = TRUE /\ \E c : out' = Append(SqlSpaced, c)
      \/ at' = end + 1 /\ pend' = FALSE /\ \E c : out' = Append(SqlSpaced, c)
  BY Zenon DEF SqlWord, Round
<1>3. end \in Nat /\ end >= at /\ end <= stop
  BY <1>1, WordHere
<1>4. k \in Nat /\ k > end
  <2> HIDE DEF end
  <2> QED BY <1>3, GapEnds
<1>5. /\ IsText(SqlSpaced) /\ Len(SqlSpaced) \in Nat
      /\ Len(SqlSpaced) <= Len(out) + Held(pend)
  BY SqlSpacedLength
<1>6. at \in Nat /\ stop \in Nat /\ Len(out) \in Nat /\ Held(pend) \in Nat
  BY TextLength DEF Bounds, Held
<1> DEFINE s == SqlSpaced
<1>7. CASE at' = end + 1 /\ out' = s \o Part(at, end) /\ pend' = FALSE
  <2>1. pend' \in BOOLEAN /\ Len(s) + Held(pend') <= Len(out) + Held(pend)
    BY <1>5, <1>7, HeldFalse
  <2> HIDE DEF end, s
  <2> QED BY <1>1, <1>3, <1>5, <1>7, <2>1, CopiesPart DEF s
<1>8. CASE at' = end + 1 /\ pend' = FALSE /\ \E c : out' = Append(s, c)
  <2>1. pend' \in BOOLEAN /\ Len(s) + Held(pend') <= Len(out) + Held(pend)
    BY <1>5, <1>8, HeldFalse
  <2>2. at' \in Nat /\ at' > at
    <3> HIDE DEF end
    <3> QED BY <1>3, <1>6, <1>8
  <2>3. PICK c : out' = Append(s, c)
    BY <1>8
  <2> HIDE DEF s
  <2> QED BY <1>1, <1>5, <2>1, <2>2, <2>3, WritesOne DEF s
<1>9. CASE IsWord(k, {"VARYING"}) /\ at' = k + 1 /\ pend' = TRUE /\ \E c : out' = Append(s, c)
  <2>1. At(k) # Nul
    BY <1>9, Zenon DEF IsWord, Nul
  <2>2. k <= stop
    <3> HIDE DEF k
    <3> QED BY <1>4, <2>1, SeenInText
  <2>3. PICK c : out' = Append(s, c)
    BY <1>9
  <2>4. IsText(out') /\ Len(out') = Len(s) + 1
    <3> HIDE DEF s
    <3> QED BY <1>5, <2>3, AppendLength DEF s
  <2>5. pend' \in BOOLEAN /\ Held(pend') = 1
    BY <1>9 DEF Held
  <2>6. at' \in Nat /\ at' > at /\ at' >= at + 2 /\ at' <= stop + 1
    <3> HIDE DEF end, k
    <3> QED BY <1>3, <1>4, <1>6, <1>9, <2>2
  <2>7. Min2(at', stop + 1) = at'
    BY <1>6, <2>6 DEF Min2
  <2>8. Len(out') + Held(pend') <= Len(out) + Held(pend) + (Min2(at', stop + 1) - at) + 0
    <3> HIDE DEF s
    <3> QED BY <1>5, <1>6, <2>4, <2>5, <2>6, <2>7 DEF s
  <2> QED BY <1>1, <2>4, <2>5, <2>6, <2>8, RoundAdvances
<1> QED BY <1>2, <1>7, <1>8, <1>9

(* Every round of minify_sql moves on. *)
LEMMA SqlAdvances ==
  ASSUME Bounds, SqlNext
  PROVE  Advances(0)
<1>1. CASE SqlQuoted
  <2>1. at <= stop /\ Stays /\ pend' = pend
    BY <1>1, Zenon DEF SqlQuoted, SqlReads, Round, Stays
  <2>2. \/ /\ At(at + 1) # Nul /\ at' = at + 2 /\ \E c, d : out' = out \o <<c, d>>
        \/ at' = at + 1 /\ out' = Append(out, Here)
    BY <1>1, Zenon DEF SqlQuoted, Round, Nul
  <2>3. CASE At(at + 1) # Nul /\ at' = at + 2 /\ \E c, d : out' = out \o <<c, d>>
    <3>1. at + 1 \in Nat
      BY DEF Bounds
    <3> DEFINE k == at + 1
    <3>2. k \in Nat /\ At(k) # Nul
      BY <3>1, <2>3
    <3> HIDE DEF k
    <3>3. k <= stop
      BY <3>2, SeenInText
    <3>4. at + 1 <= stop
      BY <3>3 DEF k
    <3> QED BY <2>1, <2>3, <3>4, WritesTwo
  <2>4. CASE at' = at + 1 /\ out' = Append(out, Here)
    BY <2>1, <2>4, CopiesOne
  <2> QED BY <2>2, <2>3, <2>4
<1>2. CASE SqlComment
  <2>1. at <= stop /\ Stays /\ out' = out /\ pend' = TRUE
    BY <1>2, Zenon DEF SqlComment, SqlCode, SqlReads, Round, Stays
  <2>2. \/ at' = ToFirst(at + 2, {"\n"})
        \/ Sees(at, <<"/", "*">>) /\ at' = PastComment(at + 2, <<"*", "/">>, stop)
    BY <1>2, Zenon DEF SqlComment, SqlBlock, Round
  <2>3. at' \in Nat /\ at' > at
    BY <2>2, LineComment, SlashComment
  <2> QED BY <2>1, <2>3, Skips
<1>3. CASE SqlBlank
  <2>1. at <= stop /\ Stays /\ at' = at + 1 /\ out' = out /\ pend' = TRUE
    BY <1>3, Zenon DEF SqlBlank, SqlCode, SqlReads, Round, Stays
  <2> QED BY <2>1, SkipsOne
<1>4. CASE SqlSkipWord
  BY <1>4, SqlSkipAdvances
<1>5. CASE SqlWord
  BY <1>5, SqlWordAdvances
<1>6. CASE SqlOther
  <2>1. at <= stop /\ Stays /\ at' = at + 1 /\ out' = Append(SqlSpaced, Here) /\ pend' = FALSE
    BY <1>6, Zenon DEF SqlOther, SqlCode, SqlReads, Round, Stays
  <2> QED BY <2>1, SqlSpacedLength, WritesFlushed
<1> QED BY <1>1, <1>2, <1>3, <1>4, <1>5, <1>6, Zenon DEF SqlNext
-----------------------------------------------------------------------------
(* minify_cypher. *)
LEMMA CypherAdvances ==
  ASSUME Bounds, CypherNext
  PROVE  Advances(0)
<1>0. at \in Nat
  BY DEF Bounds
<1>1. CASE CypherComment
  <2>1. at <= stop /\ Stays /\ at' = at + 2 /\ out' = out /\ pend' = pend
    BY <1>1, Zenon DEF CypherComment, CypherIn, Round, Stays
  <2>2. at' \in Nat /\ at' > at
    BY <1>0, <2>1
  <2>3. pend' \in BOOLEAN
    BY <2>1 DEF Bounds
  <2> QED BY <2>1, <2>2, <2>3, Skips
<1>2. CASE CypherBlank
  <2>1. at <= stop /\ Stays /\ at' = at + 1 /\ out' = out /\ pend' = TRUE
    BY <1>2, Zenon DEF CypherBlank, CypherIn, Round, Stays
  <2> QED BY <2>1, SkipsOne
<1>3. CASE CypherChar
  <2>1. at <= stop /\ Stays /\ at' = at + 1 /\ pend' = FALSE
    BY <1>3, Zenon DEF CypherChar, CypherIn, Round, Stays
  <2>2. \E s : out' = Append(s, Here) /\ (s = out \/ (pend /\ \E c : s = Append(out, c)))
    BY <1>3, Zenon DEF CypherChar, Round
  <2>3. PICK s : out' = Append(s, Here) /\ (s = out \/ (pend /\ \E c : s = Append(out, c)))
    BY <2>2
  <2>4. IsText(s) /\ Len(s) <= Len(out) + Held(pend)
    BY <2>3, FlushedLength
  <2> QED BY <2>1, <2>3, <2>4, WritesFlushed
<1>4. CASE CypherQuoted
  <2>1. at <= stop /\ Stays /\ pend' = pend
    BY <1>4, Zenon DEF CypherQuoted, Round, Stays
  <2>2. \/ at' = at + 2 /\ out' = out \o Part(at, at + 1)
        \/ at' = at + 1 /\ out' = Append(out, Here)
    BY <1>4, Zenon DEF CypherQuoted, Round
  <2> QED BY <2>1, <2>2, CopiesTwo, CopiesOne
<1>5. CASE CypherInLine
  <2>1. at <= stop /\ Stays /\ at' = at + 1 /\ out' = out /\ (pend' = pend \/ pend' = TRUE)
    BY <1>5, Zenon DEF CypherInLine, CypherIn, Round, Stays
  <2>2. pend' \in BOOLEAN
    BY <2>1 DEF Bounds
  <2> QED BY <2>1, <2>2, SkipsOne
<1>6. CASE CypherInBlock
  <2>1. /\ at <= stop /\ Stays /\ (at' = at + 1 \/ at' = at + 2)
        /\ out' = out /\ (pend' = pend \/ pend' = TRUE)
    BY <1>6, Zenon DEF CypherInBlock, CypherIn, Round, Stays
  <2>2. pend' \in BOOLEAN
    BY <2>1 DEF Bounds
  <2>3. at' \in Nat /\ at' > at
    BY <1>0, <2>1
  <2> QED BY <2>1, <2>2, <2>3, Skips
<1> QED BY <1>1, <1>2, <1>3, <1>4, <1>5, <1>6, Zenon DEF CypherNext
-----------------------------------------------------------------------------
(* minify_lua.                                                             *)
(* A long bracket that closes, closes behind its beginning. *)
LEMMA LongBracketEnds ==
  ASSUME Bounds, NEW k \in Nat \ {0}, LongBracket(k) # 0
  PROVE  LongBracket(k) \in Nat /\ LongBracket(k) > k
<1> DEFINE level == long_bracket_level(k)
           closing == <<"]">> \o [i \in 1 .. level |-> "="] \o <<"]">>
           last == Max2(k + 1, stop + 1)
           P == {l \in Nat : At(l) # "="}
           ends(n) == (\A l \in k + 1 .. n - 1 : At(l) = "=") /\ At(n) # "="
           j == CHOOSE n \in k + 1 .. last : ends(n)
<1>1. /\ level # -1 /\ Found(k, closing) # 0
      /\ LongBracket(k) = Found(k, closing) + level + 1
  BY Zenon DEF LongBracket
<1>2. last \in Nat \ {0} /\ k + 1 <= last /\ last > stop /\ k + 1 \in Nat
  BY DEF Bounds, Max2
<1>3. last \in P
  <2>1. At(last) = Nul
    BY <1>2, NulBehind
  <2> QED BY <1>2, <2>1, NoNul
<1>4. PICK i \in k + 1 .. last : i \in P /\ \A l \in k + 1 .. i - 1 : l \notin P
  <2> DEFINE first == k + 1
  <2> HIDE DEF last, P, first
  <2>1. \E i \in first .. last : i \in P /\ \A l \in first .. i - 1 : l \notin P
    BY <1>2, <1>3, FirstPlace DEF first
  <2> QED BY <2>1 DEF first
<1> HIDE DEF last
<1>5. ends(i)
  <2>1. ASSUME NEW l \in k + 1 .. i - 1 PROVE At(l) = "="
    <3>1. l \in Nat /\ l \notin P
      <4> HIDE DEF P
      <4> QED BY <1>2, <1>4
    <3> QED BY <3>1
  <2> QED BY <1>4, <2>1
<1>6. j \in k + 1 .. last
  <2> HIDE DEF ends
  <2> QED BY <1>5
<1>7. level = IF At(j) = "[" THEN j - (k + 1) ELSE -1
  BY DEF long_bracket_level, last
<1>8. level \in Nat
  <2> HIDE DEF j, level
  <2> QED BY <1>1, <1>2, <1>6, <1>7
<1>9. Found(k, closing) \in k .. stop
  <2> HIDE DEF closing
  <2> QED BY <1>1, FoundInText
<1> HIDE DEF level, closing
<1> QED BY <1>1, <1>8, <1>9 DEF Bounds

(* The line break here ends a directive.                                   *)
LuaLineBreakKept == st.state = "directive_line" /\ Here = "\n"

(* Every round of minify_lua moves on and writes no more than it reads, but for *)
(* the one that ends a directive.                                              *)
LEMMA LuaAdvances ==
  ASSUME Bounds, LuaNext, ~(LuaInLine /\ LuaLineBreakKept)
  PROVE  Advances(0)
<1>0. at \in Nat /\ at \in Nat \ {0}
  BY DEF Bounds
<1>1. CASE LuaLongComment
  <2> DEFINE k == at + 2
  <2>1. /\ at <= stop /\ Stays /\ at' = LongBracket(k) + 1 /\ LongBracket(k) # 0
        /\ out' = out /\ pend' = TRUE
    BY <1>1, Zenon DEF LuaLongComment, LuaIn, Round, Stays
  <2>2. k \in Nat \ {0} /\ k > at
    BY <1>0
  <2> HIDE DEF k
  <2>3. LongBracket(k) \in Nat /\ LongBracket(k) > k
    BY <2>1, <2>2, LongBracketEnds
  <2>4. at' \in Nat /\ at' > at
    BY <1>0, <2>1, <2>2, <2>3
  <2> QED BY <2>1, <2>4, Skips
<1>2. CASE LuaLineComment
  <2>1. at <= stop /\ Stays /\ at' = at + 2 /\ pend' = pend /\ Sees(at, <<"-", "-">>)
    BY <1>2, Zenon DEF LuaLineComment, LuaLine, LuaIn, Round, Stays
  <2>2. out' = out \/ \E c, d : out' = out \o <<c, d>>
    BY <1>2, Zenon DEF LuaLineComment, Round
  <2>3. CASE out' = out
    <3>1. at' \in Nat /\ at' > at
      BY <1>0, <2>1
    <3>2. pend' \in BOOLEAN
      BY <2>1 DEF Bounds
    <3> QED BY <2>1, <2>3, <3>1, <3>2, Skips
  <2>4. CASE \E c, d : out' = out \o <<c, d>>
    <3>1. at + 2 - 1 <= stop
      BY <2>1, TwoSeen
    <3>2. at + 1 <= stop
      BY <1>0, <3>1 DEF Bounds
    <3> QED BY <2>1, <2>4, <3>2, WritesTwo
  <2> QED BY <2>2, <2>3, <2>4
<1>3. CASE LuaLongString
  <2> DEFINE j == LongBracket(at)
  <2>1. /\ at <= stop /\ Stays /\ at' = j + 1 /\ j # 0
        /\ out' = out \o Part(at, j) /\ pend' = pend
    BY <1>3, Zenon DEF LuaLongString, LuaIn, Round, Stays
  <2>2. j \in Nat /\ j >= at
    BY <1>0, <2>1, LongBracketEnds
  <2>3. Len(out) + Held(pend') <= Len(out) + Held(pend)
    <3>1. Len(out) \in Nat
      BY TextLength DEF Bounds
    <3> QED BY <2>1, <3>1 DEF Held
  <2>4. pend' \in BOOLEAN /\ IsText(out)
    BY <2>1 DEF Bounds
  <2> HIDE DEF j
  <2> QED BY <2>1, <2>2, <2>3, <2>4, CopiesPart
<1>4. CASE LuaBracket
  <2>1. at <= stop /\ Stays /\ at' = at + 1 /\ pend' = FALSE
    BY <1>4, Zenon DEF LuaBracket, LuaIn, Round, Stays
  <2>2. \/ out' = out \o <<>> \o <<"[">>
        \/ pend /\ \E c : out' = out \o <<c>> \o <<"[">>
    BY <1>4, Zenon DEF LuaBracket, Round
  <2>3. IsText(out) /\ Len(out) \in Nat
    BY TextLength DEF Bounds
  <2>4. \E s : /\ out' = s \o <<"[">> /\ IsText(s) /\ Len(s) <= Len(out) + Held(pend)
    <3>1. CASE out' = out \o <<>> \o <<"[">>
      <4>1. IsText(out \o <<>>) /\ Len(out \o <<>>) = Len(out) + 0
        BY <2>3, ConcatLength, ShortTexts
      <4>2. Len(out \o <<>>) <= Len(out) + Held(pend)
        BY <2>3, <4>1 DEF Held
      <4> QED BY <3>1, <4>1, <4>2
    <3>2. CASE pend /\ \E c : out' = out \o <<c>> \o <<"[">>
      <4>1. PICK c : out' = out \o <<c>> \o <<"[">>
        BY <3>2
      <4>2. IsText(out \o <<c>>) /\ Len(out \o <<c>>) = Len(out) + 1
        BY <2>3, ConcatLength, ShortTexts
      <4>3. Len(out \o <<c>>) <= Len(out) + Held(pend)
        BY <2>3, <3>2, <4>2 DEF Held
      <4> QED BY <4>1, <4>2, <4>3
    <3> QED BY <2>2, <3>1, <3>2
  <2>5. PICK s : /\ out' = s \o <<"[">> /\ IsText(s) /\ Len(s) <= Len(out) + Held(pend)
    BY <2>4
  <2>6. out' = Append(s, "[")
    <3>1. PICK S : s \in Seq(S)
      BY <2>5 DEF IsText
    <3>2. s \in Seq(S \cup {"["})
      BY <3>1, WiderText
    <3> DEFINE T == S \cup {"["}
    <3>3. s \in Seq(T) /\ "[" \in T
      BY <3>2
    <3> HIDE DEF T
    <3>4. s \o <<"[">> = Append(s, "[")
      BY <3>3
    <3> QED BY <2>5, <3>4
  <2> QED BY <2>1, <2>5, <2>6, WritesFlushed
<1>5. CASE LuaBlank
  <2>1. at <= stop /\ Stays /\ at' = at + 1 /\ out' = out /\ pend' = TRUE
    BY <1>5, Zenon DEF LuaBlank, LuaIn, Round, Stays
  <2> QED BY <2>1, SkipsOne
<1>6. CASE LuaSemicolon
  <2>1. at <= stop /\ Stays /\ at' = at + 1
    BY <1>6, Zenon DEF LuaSemicolon, LuaIn, Round, Stays
  <2>2. \/ out' = out /\ pend' = TRUE
        \/ \E c : out' = Append(out, c) /\ pend' = FALSE
    BY <1>6, Zenon DEF LuaSemicolon, Round
  <2>3. IsText(out) /\ Len(out) <= Len(out) + Held(pend)
    <3>1. Len(out) \in Nat
      BY TextLength DEF Bounds
    <3> QED BY <3>1 DEF Held, Bounds
  <2> QED BY <2>1, <2>2, <2>3, SkipsOne, WritesFlushed
<1>7. CASE LuaOther
  <2>1. at <= stop /\ Stays /\ at' = at + 1 /\ pend' = FALSE
    BY <1>7, Zenon DEF LuaOther, LuaIn, Round, Stays
  <2>2. PICK s : out' = Append(s, Here) /\ (s = out \/ (pend /\ \E c : s = Append(out, c)))
    BY <1>7, Zenon DEF LuaOther, Round
  <2>3. IsText(s) /\ Len(s) <= Len(out) + Held(pend)
    BY <2>2, FlushedLength
  <2> QED BY <2>1, <2>2, <2>3, WritesFlushed
<1>8. CASE LuaQuoted
  <2>1. at <= stop /\ Stays /\ pend' = pend
    BY <1>8, Zenon DEF LuaQuoted, Round, Stays
  <2>2. \/ at' = at + 2 /\ out' = out \o Part(at, at + 1)
        \/ at' = at + 1 /\ out' = Append(out, Here)
    BY <1>8, Zenon DEF LuaQuoted, Round
  <2> QED BY <2>1, <2>2, CopiesTwo, CopiesOne
<1>9. CASE LuaInLine
  <2>1. at <= stop /\ Stays /\ at' = at + 1
    BY <1>9, Zenon DEF LuaInLine, Round, Stays
  <2>2. \/ out' = out /\ (pend' = pend \/ pend' = TRUE)
        \/ out' = Append(out, Here) /\ pend' = pend
    BY <1>9, Zenon DEF LuaInLine, LuaLineBreakKept, Round
  <2>3. CASE out' = out /\ (pend' = pend \/ pend' = TRUE)
    <3>1. pend' \in BOOLEAN
      BY <2>3 DEF Bounds
    <3> QED BY <2>1, <2>3, <3>1, SkipsOne
  <2>4. CASE out' = Append(out, Here) /\ pend' = pend
    BY <2>1, <2>4, CopiesOne
  <2> QED BY <2>2, <2>3, <2>4
<1> QED BY <1>1, <1>2, <1>3, <1>4, <1>5, <1>6, <1>7, <1>8, <1>9, Zenon DEF LuaNext

(* A line break at the end of a directive is written and asks for a space  *)
(* all the same.                                                           *)
LEMMA LuaLineBreakAdvances ==
  ASSUME Bounds, LuaInLine, LuaLineBreakKept
  PROVE  Advances(1)
<1>1. at <= stop /\ Stays /\ at' = at + 1 /\ out' = Append(out, Here) /\ pend' = TRUE
  BY Zenon DEF LuaInLine, LuaLineBreakKept, Round, Stays
<1>2. at \in Nat /\ stop \in Nat /\ IsText(out) /\ Len(out) \in Nat
  BY TextLength DEF Bounds
<1>3. IsText(out') /\ Len(out') = Len(out) + 1
  BY <1>1, <1>2, AppendLength
<1>4. pend' \in BOOLEAN /\ Held(pend') = 1 /\ Held(pend) \in Nat
  BY <1>1 DEF Held
<1>5. at' \in Nat /\ at' > at /\ Min2(at', stop + 1) = at + 1
  BY <1>1, <1>2 DEF Min2
<1>6. Len(out') + Held(pend') <= Len(out) + Held(pend) + (Min2(at', stop + 1) - at) + 1
  BY <1>2, <1>3, <1>4, <1>5
<1> QED BY <1>1, <1>3, <1>4, <1>5, <1>6, RoundAdvances

(* Directives are kept only where the flag asks for it. *)
LuaDirectives == st.state = "directive_line" => "keep_directives" \in opts

(* Only the flag makes a comment a directive. *)
LEMMA LuaKeepsDirectives ==
  ASSUME LuaNext, LuaDirectives
  PROVE  LuaDirectives'
<1>1. \/ st' = st
      \/ "keep_directives" \in opts
      \/ \E q : st' = [state |-> q] /\ q \in {"'", "\"", "normal", "line_comment"}
  BY Zenon DEF LuaNext, LuaLongComment, LuaLineComment, LuaDirective, LuaLongString, LuaBracket,
    LuaBlank, LuaSemicolon, LuaOther, LuaQuoted, LuaInLine, LuaStart
<1>2. opts' = opts
  BY Zenon DEF LuaNext, LuaLongComment, LuaLineComment, LuaLongString, LuaBracket,
    LuaBlank, LuaSemicolon, LuaOther, LuaQuoted, LuaInLine, Round
<1>3. CASE st' = st
  BY <1>2, <1>3, Zenon DEF LuaDirectives
<1>4. CASE "keep_directives" \in opts
  BY <1>2, <1>4, Zenon DEF LuaDirectives
<1>5. CASE \E q : st' = [state |-> q] /\ q \in {"'", "\"", "normal", "line_comment"}
  <2>1. PICK q : st' = [state |-> q] /\ q \in {"'", "\"", "normal", "line_comment"}
    BY <1>5, Zenon
  <2>2. st'.state = q
    BY <2>1
  <2>3. q # "directive_line"
    BY <2>1, Zenon
  <2> QED BY <2>2, <2>3, Zenon DEF LuaDirectives
<1> QED BY <1>1, <1>3, <1>4, <1>5, Zenon
-----------------------------------------------------------------------------
(* minify_yaml.                                                            *)
(* What is left of a line is no longer than the line. *)
LEMMA TrimmedLength ==
  ASSUME NEW line, IsText(line)
  PROVE  IsText(Trimmed(Uncommented(line))) /\ Len(Trimmed(Uncommented(line))) <= Len(line)
<1> DEFINE open == YamlQuotes(line)
           marks == {i \in DOMAIN line : /\ line[i] = "#" /\ open[i] = ""
                                         /\ i = 1 \/ line[i - 1] \in Blank}
           u == Uncommented(line)
<1>0. PICK S : line \in Seq(S)
  BY DEF IsText
<1>1. Len(line) \in Nat /\ DOMAIN line = 1 .. Len(line)
  BY <1>0, LenProperties
<1>2. marks \subseteq DOMAIN line
  BY Zenon
<1>3. u = IF marks = {} THEN line ELSE SubSeq(line, 1, Min(marks) - 1)
  BY Zenon DEF Uncommented
<1> HIDE DEF marks, u
<1>4. IsText(u) /\ Len(u) <= Len(line) /\ Len(u) \in Nat
  <2>1. CASE marks = {}
    BY <1>1, <1>3, <2>1
  <2>2. CASE marks # {}
    <3>1. marks \in SUBSET Nat
      BY <1>1, <1>2
    <3>2. Min(marks) \in marks
      BY <3>1, <2>2, MinIsLeast
    <3> DEFINE n == Min(marks) - 1
    <3>3. n \in Nat /\ n <= Len(line)
      BY <1>1, <1>2, <3>2
    <3>4. u = SubSeq(line, 1, n)
      BY <1>3, <2>2
    <3> HIDE DEF n
    <3>5. IsText(SubSeq(line, 1, n)) /\ Len(SubSeq(line, 1, n)) = IF 1 <= n THEN n - 1 + 1 ELSE 0
      BY <3>3, SubLength
    <3> QED BY <3>3, <3>4, <3>5
  <2> QED BY <2>1, <2>2
<1>5. Trimmed(u) = SubSeq(u, 1, LastBut(u, Blank))
  BY DEF Trimmed
<1>6. IsText(Trimmed(u)) /\ Len(Trimmed(u)) <= Len(u)
  BY <1>4, <1>5, LastButLength
<1>7. Len(Trimmed(u)) \in Nat
  BY <1>6, TextLength
<1> QED BY <1>1, <1>4, <1>6, <1>7 DEF u

(* Every round of minify_yaml moves on by a line and writes no more than that. *)
LEMMA YamlAdvances ==
  ASSUME Bounds, YamlNext
  PROVE  Advances(0)
<1> DEFINE e == YamlLineEnd
           line == SubSeq(text, at, e)
<1>1. at \in Nat \ {0} /\ stop \in Nat /\ stop <= Len(text) /\ Len(text) \in Nat /\ IsText(text)
  BY TextLength DEF Bounds
<1>2. at <= stop /\ Stays /\ at' = e + 2 /\ pend' = pend
  BY Zenon DEF YamlNext, YamlBlockLine, YamlPlainLine, YamlReads, Round, Stays
<1>3. e \in Int /\ e >= at - 1 /\ e <= stop
  <2>1. e = ToFirst(at, {"\n"}) - 1
    BY DEF YamlLineEnd
  <2>2. ToFirst(at, {"\n"}) \in at .. Max2(at, stop + 1)
    BY <1>1, ToFirstEnds
  <2>3. Max2(at, stop + 1) = stop + 1
    BY <1>1, <1>2 DEF Max2
  <2> HIDE DEF e
  <2> QED BY <1>1, <2>1, <2>2, <2>3
<1>4. line = YamlLine
  BY DEF YamlLine
<1>5. IsText(line) /\ Len(line) = e - at + 1
  <2>1. IsText(line) /\ Len(line) = IF at <= e THEN e - at + 1 ELSE 0
    <3> HIDE DEF e
    <3> QED BY <1>1, <1>3, SubLength
  <2> HIDE DEF e, line
  <2> QED BY <1>1, <1>3, <2>1
<1>6. \/ out' = out \o line \o YamlBreak
      \/ out' = out
      \/ out' = out \o Trimmed(Uncommented(line)) \o YamlBreak
  BY <1>4, Zenon DEF YamlNext, YamlBlockLine, YamlPlainLine, Round
<1>7. IsText(YamlBreak) /\ Len(YamlBreak) = IF e < stop THEN 1 ELSE 0
  <2>1. CASE e < stop
    BY <2>1, ShortTexts DEF YamlBreak
  <2>2. CASE ~(e < stop)
    BY <2>2, ShortTexts DEF YamlBreak
  <2> QED BY <2>1, <2>2
<1> DEFINE b == YamlBreak
<1>8. IsText(Trimmed(Uncommented(line))) /\ Len(Trimmed(Uncommented(line))) <= Len(line)
  BY <1>5, TrimmedLength
<1>9. IsText(out) /\ Len(out) \in Nat /\ pend' \in BOOLEAN
  BY <1>2, TextLength DEF Bounds
<1> HIDE DEF e, line, b
<1>10. ASSUME NEW t, IsText(t), Len(t) <= Len(line)
       PROVE  IsText(out \o t \o b) /\ Len(out \o t \o b) <= Len(out) + Len(line) + Len(b)
  <2>1. IsText(out \o t) /\ Len(out \o t) = Len(out) + Len(t)
    BY <1>9, <1>10, ConcatLength
  <2>2. IsText(out \o t \o b) /\ Len(out \o t \o b) = Len(out \o t) + Len(b)
    BY <1>7, <2>1, ConcatLength DEF b
  <2>3. Len(t) \in Nat /\ Len(line) \in Nat /\ Len(b) \in Nat
    BY <1>5, <1>7, <1>10, TextLength DEF b
  <2> QED BY <1>9, <1>10, <2>1, <2>2, <2>3
<1>11. IsText(out') /\ Len(out') <= Len(out) + Len(line) + Len(b)
  <2>1. Len(line) \in Nat /\ Len(b) \in Nat
    BY <1>5, <1>7, TextLength DEF b
  <2>2. Len(line) <= Len(line)
    BY <2>1
  <2>3. CASE out' = out \o line \o b
    BY <1>5, <1>10, <2>2, <2>3
  <2>4. CASE out' = out
    BY <1>9, <2>1, <2>4
  <2>5. CASE out' = out \o Trimmed(Uncommented(line)) \o b
    BY <1>8, <1>10, <2>5
  <2> QED BY <1>6, <2>3, <2>4, <2>5 DEF b
<1>12. at' \in Nat /\ at' > at /\ Min2(at', stop + 1) = e + 1 + Len(b)
  BY <1>1, <1>2, <1>3, <1>7 DEF Min2, b
<1>13. Len(out') \in Nat /\ Held(pend') = Held(pend) /\ Held(pend) \in Nat
  BY <1>2, <1>11, TextLength DEF Held
<1>14. Len(out') + Held(pend') <= Len(out) + Held(pend) + (Min2(at', stop + 1) - at) + 0
  <2>1. Len(b) \in Nat
    BY <1>7, TextLength DEF b
  <2> QED BY <1>1, <1>3, <1>5, <1>9, <1>11, <1>12, <1>13, <2>1, SMTT(40)
<1> QED BY <1>2, <1>9, <1>11, <1>12, <1>14, RoundAdvances
-----------------------------------------------------------------------------
(* minify_markup.                                                          *)
(* The output with the space that was held back; it is not held back any   *)
(* more when it has been written.                                          *)
LEMMA FlushLength ==
  ASSUME Bounds, NEW c
  PROVE  /\ IsText(flush_pending_space(c)) /\ Len(flush_pending_space(c)) \in Nat
         /\ Len(flush_pending_space(c)) <= Len(out) + Held(pend)
         /\ out = <<>> => flush_pending_space(c) = out
<1> DEFINE s == flush_pending_space(c)
<1>1. s = out \/ (pend /\ Prev # Nul /\ \E d : s = Append(out, d))
  BY Zenon DEF flush_pending_space, Nul
<1>2. Prev # Nul => Len(out) > from
  BY Zenon DEF Prev, Nul
<1>3. out = <<>> => s = out
  <2>1. Len(<<>>) = 0 /\ from \in Nat
    BY ShortTexts DEF Bounds
  <2> HIDE DEF s
  <2> QED BY <1>1, <1>2, <2>1
<1>4. IsText(s) /\ Len(s) \in Nat /\ Len(s) <= Len(out) + Held(pend)
  <2> HIDE DEF s
  <2> QED BY <1>1, FlushedLength
<1> QED BY <1>3, <1>4

(* What is written before a tag. *)
LEMMA BeforeTagLength ==
  ASSUME Bounds
  PROVE  /\ IsText(BeforeTag) /\ Len(BeforeTag) \in Nat
         /\ Len(BeforeTag) <= Len(out) + Held(pend)
<1> DEFINE s == WithoutSpace(out)
<1>1. BeforeTag = s \/ (pend /\ \E c : BeforeTag = Append(s, c))
  BY Zenon DEF BeforeTag
<1>2. IsText(out) /\ Len(out) \in Nat /\ Held(pend) \in Nat
  BY TextLength DEF Bounds, Held
<1>3. IsText(s) /\ Len(s) <= Len(out)
  BY <1>2, WithoutSpaceLength
<1> HIDE DEF s
<1>4. Len(s) \in Nat
  BY <1>3, TextLength
<1>5. CASE BeforeTag = s
  BY <1>2, <1>3, <1>4, <1>5
<1>6. CASE pend /\ \E c : BeforeTag = Append(s, c)
  <2>1. IsText(BeforeTag) /\ Len(BeforeTag) = Len(s) + 1
    BY <1>3, <1>6, AppendLength
  <2>2. Held(pend) = 1
    BY <1>6 DEF Held
  <2> QED BY <1>2, <1>3, <1>4, <2>1, <2>2
<1> QED BY <1>1, <1>5, <1>6

(* What a space held back no longer allows. *)
LEMMA StillHeld ==
  ASSUME Bounds, pend' \in BOOLEAN, pend' => pend, NEW s, IsText(s), Len(s) <= Len(out)
  PROVE  Len(s) + Held(pend') <= Len(out) + Held(pend)
<1>1. Len(s) \in Nat /\ Len(out) \in Nat
  BY TextLength DEF Bounds
<1>2. Held(pend') <= Held(pend) /\ Held(pend') \in Nat /\ Held(pend) \in Nat
  BY DEF Held, Bounds
<1> QED BY <1>1, <1>2

(* An HTML comment, closed or not, is left behind. *)
LEMMA HtmlCommentAdvances ==
  ASSUME Bounds, HtmlComment
  PROVE  Advances(0)
<1> DEFINE end == stop - 1
           n == 4
<1>1. /\ at <= stop /\ Stays /\ at' = PastComment(at + n, Closes, end) /\ out' = out /\ pend' = TRUE
      /\ Sees(at, Opens)
  BY Zenon DEF HtmlComment, HtmlReads, Continue, Stays
<1>2. at \in Nat /\ stop \in Nat
  BY DEF Bounds
<1>3. Len(Opens) = 4 /\ Len(Closes) \in Nat /\ Len(Closes) > 0
  BY DEF Opens, Closes
<1>4. at + 4 - 1 <= stop
  BY <1>1, <1>3, Zenon DEF Sees
<1>5. at + n <= stop + 1 /\ end \in Int /\ end <= stop + 1 /\ n \in Nat \ {0}
  BY <1>2, <1>4
<1> HIDE DEF n, end
<1>6. /\ PastComment(at + n, Closes, end) \in Nat
      /\ PastComment(at + n, Closes, end) > at
  BY <1>3, <1>5, BlockComment
<1> QED BY <1>1, <1>6, Skips

(* The rounds inside a style sheet. *)
LEMMA CssAdvances ==
  ASSUME Bounds, CssComment \/ CssBlank \/ CssOther
  PROVE  Advances(0)
<1>0. at \in Nat
  BY DEF Bounds
<1>1. CASE CssComment
  <2>1. /\ at <= stop /\ Stays /\ at' = PastComment(at + 2, <<"*", "/">>, stop)
        /\ out' = out /\ pend' = TRUE /\ Sees(at, <<"/", "*">>)
    BY <1>1, Zenon DEF CssComment, InStyle, HtmlReads, Continue, Stays
  <2>2. at' \in Nat /\ at' > at
    BY <2>1, SlashComment
  <2> QED BY <2>1, <2>2, Skips
<1>2. CASE CssBlank
  <2>1. at <= stop /\ Stays /\ at' = at + 1 /\ out' = out /\ pend' = TRUE
    BY <1>2, Zenon DEF CssBlank, InStyle, HtmlReads, Continue, Stays
  <2> QED BY <2>1, SkipsOne
<1>3. CASE CssOther
  <2>1. at <= stop /\ Stays /\ at' = at + 1
    BY <1>3, Zenon DEF CssOther, InStyle, HtmlReads, Continue, Stays
  <2>2. \E t, s1, s2 :
          /\ s1 = WithoutSpace(out) \/ s1 = out
          /\ s2 = s1 \/ (s1 # <<>> /\ s2 = SubSeq(s1, 1, Len(s1) - 1))
          /\ pend' = (pend /\ ~t /\ s2 = <<>>)
          /\ \/ out' = Append(s2, Here)
             \/ pend /\ s2 # <<>> /\ \E c : out' = Append(Append(s2, c), Here)
    BY <1>3, Zenon DEF CssOther, Continue
  <2>3. PICK t, s1, s2 :
          /\ s1 = WithoutSpace(out) \/ s1 = out
          /\ s2 = s1 \/ (s1 # <<>> /\ s2 = SubSeq(s1, 1, Len(s1) - 1))
          /\ pend' = (pend /\ ~t /\ s2 = <<>>)
          /\ \/ out' = Append(s2, Here)
             \/ pend /\ s2 # <<>> /\ \E c : out' = Append(Append(s2, c), Here)
    BY <2>2, Zenon
  <2>4. IsText(out) /\ Len(out) \in Nat
    BY TextLength DEF Bounds
  <2>5. IsText(s1) /\ Len(s1) <= Len(out)
    <3>1. IsText(WithoutSpace(out)) /\ Len(WithoutSpace(out)) <= Len(out)
      BY <2>4, WithoutSpaceLength
    <3>2. Len(out) <= Len(out)
      BY <2>4
    <3> QED BY <2>3, <2>4, <3>1, <3>2, Zenon
  <2>6. IsText(s2) /\ Len(s2) <= Len(out) /\ Len(s2) \in Nat
    <3>1. Len(s1) \in Nat
      BY <2>5, TextLength
    <3>2. CASE s2 = s1
      BY <2>5, <3>1, <3>2
    <3>3. CASE s1 # <<>> /\ s2 = SubSeq(s1, 1, Len(s1) - 1)
      <4>1. IsText(SubSeq(s1, 1, Len(s1) - 1)) /\ Len(SubSeq(s1, 1, Len(s1) - 1)) = Len(s1) - 1
        BY <2>5, <3>3, FrontLength
      <4>2. IsText(s2) /\ Len(s2) = Len(s1) - 1
        BY <3>3, <4>1, Zenon
      <4>3. Len(s2) \in Nat
        BY <4>2, TextLength
      <4> QED BY <2>4, <2>5, <3>1, <4>2, <4>3
    <3> QED BY <2>3, <3>2, <3>3, Zenon
  <2>7. pend' \in BOOLEAN /\ (pend' => pend) /\ (s2 # <<>> => pend' = FALSE)
    BY <2>3, Zenon
  <2>8. CASE out' = Append(s2, Here)
    <3>1. Len(s2) + Held(pend') <= Len(out) + Held(pend)
      BY <2>6, <2>7, StillHeld
    <3>2. at' \in Nat /\ at' > at
      BY <1>0, <2>1
    <3> QED BY <2>1, <2>6, <2>7, <2>8, <3>1, <3>2, WritesOne
  <2>9. CASE pend /\ s2 # <<>> /\ \E c : out' = Append(Append(s2, c), Here)
    <3>1. PICK c : out' = Append(Append(s2, c), Here)
      BY <2>9, Zenon
    <3>2. IsText(Append(s2, c)) /\ Len(Append(s2, c)) = Len(s2) + 1
      BY <2>6, AppendLength
    <3>3. Len(Append(s2, c)) <= Len(out) + Held(pend)
      BY <2>4, <2>6, <2>9, <3>2 DEF Held
    <3> DEFINE s == Append(s2, c)
    <3>4. out' = Append(s, Here) /\ pend' = FALSE /\ IsText(s) /\ Len(s) <= Len(out) + Held(pend)
      BY <2>7, <2>9, <3>1, <3>2, <3>3, Zenon
    <3> HIDE DEF s
    <3> QED BY <2>1, <3>4, WritesFlushed
  <2> QED BY <2>3, <2>8, <2>9, Zenon
<1> QED BY <1>1, <1>2, <1>3

(* A name ends behind the place before its first symbol. *)
LEMMA NameEnds ==
  ASSUME Bounds, NEW k \in Nat \ {0}, NEW S
  PROVE  /\ NameEnd(k, S) \in Int /\ NameEnd(k, S) >= k - 1
         /\ k <= stop + 1 => NameEnd(k, S) <= stop
         /\ At(k) \notin {">"} \cup Space \cup S \cup {Nul} => NameEnd(k, S) >= k
<1> DEFINE T == {">"} \cup Space \cup S
<1>1. NameEnd(k, S) = ToFirst(k, T) - 1
  BY DEF NameEnd
<1> HIDE DEF T
<1>2. ToFirst(k, T) \in k .. Max2(k, stop + 1) /\ (At(k) \notin T \cup {Nul} => ToFirst(k, T) > k)
  BY ToFirstEnds
<1>3. stop \in Nat /\ Max2(k, stop + 1) \in Nat /\ (k <= stop + 1 => Max2(k, stop + 1) = stop + 1)
  BY DEF Bounds, Max2
<1>4. /\ NameEnd(k, S) \in Int /\ NameEnd(k, S) >= k - 1
      /\ k <= stop + 1 => NameEnd(k, S) <= stop
      /\ At(k) \notin T \cup {Nul} => NameEnd(k, S) >= k
  BY <1>1, <1>2, <1>3
<1> QED BY <1>4 DEF T

(* A template tag is copied, to its end or to that of the text. *)
LEMMA HtmlTemplateAdvances ==
  ASSUME Bounds, HtmlTemplate
  PROVE  Advances(0)
<1>1. \E end, s, closing :
        /\ at <= stop /\ Stays /\ pend' = FALSE
        /\ s = WithoutSpace(out) \/ \E c : s = flush_pending_space(c)
        /\ closing = Found(at + 2, <<"}", "}">>)
        /\ end = IF closing = 0 THEN Max2(at + 1, stop - 1) ELSE closing + 1
        /\ at' = end + 1 \/ at' = PastSpace(end + 1)
        /\ out' = s \o Part(at, end)
  BY Zenon DEF HtmlTemplate, Plain, HtmlReads, Continue, Stays
<1>2. PICK end, s, closing :
        /\ at <= stop /\ Stays /\ pend' = FALSE
        /\ s = WithoutSpace(out) \/ \E c : s = flush_pending_space(c)
        /\ closing = Found(at + 2, <<"}", "}">>)
        /\ end = IF closing = 0 THEN Max2(at + 1, stop - 1) ELSE closing + 1
        /\ at' = end + 1 \/ at' = PastSpace(end + 1)
        /\ out' = s \o Part(at, end)
  BY <1>1, Zenon
<1>3. at \in Nat \ {0} /\ stop \in Nat /\ IsText(out) /\ Len(out) \in Nat /\ Held(pend) \in Nat
  BY TextLength DEF Bounds, Held
<1>4. closing \in {0} \cup (at + 2 .. stop)
  <2> DEFINE k == at + 2
             pattern == <<"}", "}">>
  <2>1. k \in Nat \ {0}
    BY <1>3
  <2>2. closing = Found(k, pattern)
    BY <1>2, Zenon
  <2> HIDE DEF k, pattern
  <2>3. Found(k, pattern) \in {0} \cup (k .. stop)
    BY <2>1, FoundIsPlace
  <2> QED BY <2>2, <2>3 DEF k
<1>5. end \in Nat /\ end >= at
  <2>1. end = IF closing = 0 THEN Max2(at + 1, stop - 1) ELSE closing + 1
    BY <1>2, Zenon
  <2> QED BY <1>3, <1>4, <2>1 DEF Max2
<1>6. PastSpace(end + 1) \in Nat /\ PastSpace(end + 1) > end
  BY <1>5, GapEnds
<1>7. at' \in Nat /\ at' >= end + 1
  <2>1. at' = end + 1 \/ at' = PastSpace(end + 1)
    BY <1>2, Zenon
  <2> QED BY <1>5, <1>6, <2>1
<1>8. IsText(s) /\ Len(s) <= Len(out) + Held(pend)
  <2>1. CASE s = WithoutSpace(out)
    <3>1. IsText(s) /\ Len(s) <= Len(out)
      BY <1>3, <2>1, WithoutSpaceLength
    <3>2. Len(s) \in Nat
      BY <3>1, TextLength
    <3> QED BY <1>3, <3>1, <3>2
  <2>2. CASE \E c : s = flush_pending_space(c)
    BY <2>2, FlushLength
  <2> QED BY <1>2, <2>1, <2>2
<1>9. pend' \in BOOLEAN /\ Len(s) + Held(pend') <= Len(out) + Held(pend)
  <2>1. Len(s) \in Nat
    BY <1>8, TextLength
  <2> QED BY <1>2, <1>8, <2>1, HeldFalse
<1> QED BY <1>2, <1>5, <1>7, <1>8, <1>9, CopiesAndSkips

(* An end tag is dropped or copied. *)
LEMMA EndTagLength ==
  ASSUME Bounds, at <= stop, Sees(at + 1, <<"/">>)
  PROVE  /\ PastEndTag(at) \in Nat /\ PastEndTag(at) > at /\ PastEndTag(at) <= stop + 1
         /\ IsText(EndTag(at)) /\ Len(EndTag(at)) <= PastEndTag(at) - at
<1> DEFINE e == ToFirst(at, {">"})
           p == Part(at, e)
<1>1. at \in Nat \ {0} /\ stop \in Nat
  BY DEF Bounds
<1>2. e \in at .. Max2(at, stop + 1)
  BY <1>1, ToFirstEnds
<1>3. Max2(at, stop + 1) = stop + 1
  BY <1>1 DEF Max2
<1>4. PastEndTag(at) = Min2(e, stop) + 1
  BY DEF PastEndTag
<1>5. EndTag(at) = <<>> \/ EndTag(at) = p
  BY Zenon DEF EndTag
<1> HIDE DEF e
<1>6. IsText(p) /\ Len(p) = IF at <= Min2(e, stop) THEN Min2(e, stop) - at + 1 ELSE 0
  BY <1>1, <1>2, <1>3, PartLength
<1>7. Min2(e, stop) \in Nat /\ at <= Min2(e, stop) /\ Min2(e, stop) <= stop
  BY <1>1, <1>2, <1>3 DEF Min2
<1> HIDE DEF p
<1>8. IsText(EndTag(at)) /\ Len(EndTag(at)) <= Min2(e, stop) - at + 1
  BY <1>5, <1>6, <1>7, <1>1, ShortTexts
<1> QED BY <1>1, <1>4, <1>7, <1>8

(* A round that writes something no longer than what it goes on by, behind *)
(* what was written before.                                                *)
LEMMA WritesBehind ==
  ASSUME Bounds, at <= stop, Stays, at' \in Nat, at' > at, at' <= stop + 1,
         NEW s, IsText(s), NEW t, IsText(t), out' = s \o t, Len(t) <= at' - at,
         pend' \in BOOLEAN, Len(s) + Held(pend') <= Len(out) + Held(pend)
  PROVE  Advances(0)
<1>1. IsText(out') /\ Len(out') = Len(s) + Len(t)
  BY ConcatLength
<1>2. Len(s) \in Nat /\ Len(t) \in Nat /\ Len(out) \in Nat
  BY TextLength DEF Bounds
<1>3. Held(pend) \in Nat /\ Held(pend') \in Nat /\ at \in Nat /\ stop \in Nat
  BY DEF Held, Bounds
<1>4. Min2(at', stop + 1) = at'
  BY <1>3 DEF Min2
<1>5. Len(out') + Held(pend') <= Len(out) + Held(pend) + (Min2(at', stop + 1) - at) + 0
  BY <1>1, <1>2, <1>3, <1>4, SMTT(40)
<1> QED BY <1>1, <1>5, RoundAdvances

(* The rounds of the outer loop that meet a tag. *)
LEMMA HtmlTagAdvances ==
  ASSUME Bounds, HtmlEndTag \/ HtmlMark \/ HtmlOpenTag
  PROVE  Advances(0)
<1>0. at \in Nat \ {0} /\ stop \in Nat
  BY DEF Bounds
<1>1. IsText(BeforeTag) /\ Len(BeforeTag) \in Nat /\ Len(BeforeTag) <= Len(out) + Held(pend)
  BY BeforeTagLength
<1> DEFINE s == BeforeTag
<1>2. CASE HtmlEndTag
  <2>1. /\ at <= stop /\ Stays /\ at' = PastEndTag(at) /\ out' = s \o EndTag(at)
        /\ pend' = FALSE /\ At(at + 1) = "/"
    BY <1>2, Zenon DEF HtmlEndTag, HtmlTag, Plain, HtmlReads, Continue, Stays
  <2>2. At(at + 1) # Nul
    BY <2>1, Zenon DEF Nul
  <2>3. at + 1 <= stop
    <3> DEFINE k == at + 1
    <3>1. k \in Nat /\ At(k) # Nul
      BY <1>0, <2>2
    <3> HIDE DEF k
    <3>2. k <= stop
      BY <3>1, SeenInText
    <3> QED BY <3>2 DEF k
  <2>4. text[at + 1] = "/"
    BY <2>1, <2>3 DEF At
  <2>5. Sees(at + 1, <<"/">>)
    BY <1>0, <2>3, <2>4 DEF Sees
  <2>6. /\ PastEndTag(at) \in Nat /\ PastEndTag(at) > at /\ PastEndTag(at) <= stop + 1
        /\ IsText(EndTag(at)) /\ Len(EndTag(at)) <= PastEndTag(at) - at
    BY <2>1, <2>5, EndTagLength
  <2>7. pend' \in BOOLEAN /\ Len(s) + Held(pend') <= Len(out) + Held(pend)
    BY <1>1, <2>1, HeldFalse
  <2> DEFINE t == EndTag(at)
  <2>8. at' \in Nat /\ at' > at /\ at' <= stop + 1 /\ out' = s \o t /\ IsText(t) /\ Len(t) <= at' - at
    BY <2>1, <2>6
  <2> HIDE DEF t, s
  <2> QED BY <1>1, <2>1, <2>7, <2>8, WritesBehind DEF s
<1>3. CASE HtmlMark
  <2>1. at <= stop /\ Stays /\ at' = at + 1 /\ out' = Append(BeforeTag, "<") /\ pend' = FALSE
    BY <1>3, Zenon DEF HtmlMark, HtmlTag, Plain, HtmlReads, Continue, Stays
  <2> QED BY <1>1, <2>1, WritesFlushed
<1>4. CASE HtmlOpenTag
  <2> DEFINE k == at + 1
             end == NameEnd(k, {})
  <2>1. at <= stop /\ Stays /\ at' = end + 1 /\ out' = s \o Part(at, end) /\ pend' = FALSE
    BY <1>4, Zenon DEF HtmlOpenTag, HtmlTag, Plain, HtmlReads, Continue, Stays
  <2>2. k \in Nat \ {0} /\ k = at + 1
    BY <1>0
  <2>3. end \in Int /\ end >= k - 1
    <3> HIDE DEF k
    <3> QED BY <2>2, NameEnds
  <2>4. end \in Nat /\ end >= at
    <3> HIDE DEF end, k
    <3> QED BY <1>0, <2>2, <2>3
  <2>5. pend' \in BOOLEAN /\ Len(s) + Held(pend') <= Len(out) + Held(pend)
    BY <1>1, <2>1, HeldFalse
  <2> HIDE DEF end, k, s
  <2> QED BY <1>1, <2>1, <2>4, <2>5, CopiesPart DEF s
<1> QED BY <1>2, <1>3, <1>4

(* The other rounds of the outer loop. *)
LEMMA HtmlPlainAdvances ==
  ASSUME Bounds, HtmlGreater \/ HtmlBlank \/ HtmlText
  PROVE  Advances(0)
<1>0. at \in Nat \ {0} /\ stop \in Nat /\ IsText(out) /\ Len(out) \in Nat
  BY TextLength DEF Bounds
<1>1. CASE HtmlGreater
  <2> DEFINE s == WithoutSpace(out)
  <2>1. at <= stop /\ Stays /\ at' = at + 1 /\ out' = Append(s, ">") /\ pend' = pend
    BY <1>1, Zenon DEF HtmlGreater, Plain, HtmlReads, Continue, Stays
  <2>2. IsText(s) /\ Len(s) <= Len(out)
    BY <1>0, WithoutSpaceLength
  <2>3. pend' \in BOOLEAN /\ (pend' => pend)
    BY <2>1 DEF Bounds
  <2> HIDE DEF s
  <2>4. Len(s) + Held(pend') <= Len(out) + Held(pend)
    BY <2>2, <2>3, StillHeld
  <2>5. at' \in Nat /\ at' > at
    BY <1>0, <2>1
  <2> QED BY <2>1, <2>2, <2>3, <2>4, <2>5, WritesOne
<1>2. CASE HtmlBlank
  <2>1. at <= stop /\ Stays /\ at' = at + 1 /\ out' = out /\ pend' = TRUE
    BY <1>2, Zenon DEF HtmlBlank, Plain, HtmlReads, Continue, Stays
  <2> QED BY <2>1, SkipsOne
<1>3. CASE HtmlText
  <2> DEFINE s == flush_pending_space(Here)
  <2>1. /\ at <= stop /\ Stays /\ at' = at + 1 /\ out' = Append(s, Here)
        /\ pend' = (pend /\ out = <<>>)
    BY <1>3, Zenon DEF HtmlText, Plain, HtmlReads, Continue, Stays
  <2>2. /\ IsText(s) /\ Len(s) \in Nat /\ Len(s) <= Len(out) + Held(pend)
        /\ out = <<>> => s = out
    BY FlushLength
  <2> HIDE DEF s
  <2>3. at' \in Nat /\ at' > at
    BY <1>0, <2>1
  <2>4. CASE pend' = FALSE
    BY <2>1, <2>2, <2>4, WritesFlushed
  <2>5. CASE pend' = TRUE
    <3>1. pend' \in BOOLEAN /\ (pend' => pend) /\ s = out
      BY <2>1, <2>2, <2>5, Zenon
    <3>2. Len(s) <= Len(out)
      BY <1>0, <3>1
    <3>3. Len(s) + Held(pend') <= Len(out) + Held(pend)
      BY <2>2, <3>1, <3>2, StillHeld
    <3> QED BY <2>1, <2>2, <2>3, <3>1, <3>3, WritesOne
  <2>6. pend' \in BOOLEAN
    BY <2>1, Zenon
  <2> QED BY <2>4, <2>5, <2>6, Zenon
<1> QED BY <1>1, <1>2, <1>3
-----------------------------------------------------------------------------
(* emit_open_tag. *)
(* Spaces in a tag, and what belongs nowhere. *)
LEMMA TagPlainAdvances ==
  ASSUME Bounds, TagBlank \/ TagOther
  PROVE  Advances(0)
<1>0. at \in Nat \ {0} /\ stop \in Nat /\ IsText(out) /\ Len(out) \in Nat
  BY TextLength DEF Bounds
<1>1. CASE TagBlank
  <2>1. /\ at <= stop /\ Stays /\ at' = PastSpace(at) /\ pend' = pend /\ At(at) \in Space
        /\ out' = out \/ \E c : out' = Append(out, c)
    BY <1>1, Zenon DEF TagBlank, TagReads, Continue, Stays, Here
  <2>2. at' \in Nat /\ at' > at
    <3>1. PastSpace(at) \in at .. Max2(at, stop + 1) /\ PastSpace(at) > at
      BY <1>0, <2>1, PastSpaceEnds
    <3>2. Max2(at, stop + 1) \in Nat
      BY <1>0 DEF Max2
    <3> QED BY <1>0, <2>1, <3>1, <3>2
  <2>3. pend' \in BOOLEAN /\ (pend' => pend) /\ Len(out) <= Len(out)
    BY <1>0, <2>1 DEF Bounds
  <2>4. Len(out) + Held(pend') <= Len(out) + Held(pend)
    BY <1>0, <2>3, StillHeld
  <2>5. CASE out' = out
    BY <2>1, <2>2, <2>3, <2>5, Skips
  <2>6. CASE \E c : out' = Append(out, c)
    BY <1>0, <2>1, <2>2, <2>3, <2>4, <2>6, WritesOne
  <2> QED BY <2>1, <2>5, <2>6
<1>2. CASE TagOther
  <2>1. at <= stop /\ Stays /\ at' = at + 1 /\ out' = Append(out, Here) /\ pend' = pend
    BY <1>2, Zenon DEF TagOther, TagReads, Continue, Stays
  <2> QED BY <2>1, CopiesOne
<1> QED BY <1>1, <1>2

(* A slash in a tag may be written with a space that the text did not have. *)
LEMMA TagSlashAdvances ==
  ASSUME Bounds, TagSlash
  PROVE  Advances(1)
<1>1. /\ at <= stop /\ Stays /\ at' = at + 1 /\ pend' = pend
      /\ \E s : out' = s \o <<"/">> /\ (s = out \/ \E c : s = Append(out, c))
  BY Zenon DEF TagSlash, TagReads, Continue, Stays
<1>2. PICK s : out' = s \o <<"/">> /\ (s = out \/ \E c : s = Append(out, c))
  BY <1>1
<1>3. at \in Nat /\ stop \in Nat /\ IsText(out) /\ Len(out) \in Nat
  BY TextLength DEF Bounds
<1>4. IsText(s) /\ Len(s) <= Len(out) + 1
  <2>1. CASE s = out
    BY <1>3, <2>1
  <2>2. CASE \E c : s = Append(out, c)
    <3>1. IsText(s) /\ Len(s) = Len(out) + 1
      BY <1>3, <2>2, AppendLength
    <3> QED BY <1>3, <3>1
  <2> QED BY <1>2, <2>1, <2>2, Zenon
<1>5. IsText(out') /\ Len(out') = Len(s) + 1
  BY <1>2, <1>4, ShortTexts, ConcatLength
<1>6. Len(s) \in Nat /\ Held(pend') = Held(pend) /\ Held(pend) \in Nat /\ pend' \in BOOLEAN
  BY <1>1, <1>4, TextLength DEF Held, Bounds
<1>7. at' \in Nat /\ at' > at /\ Min2(at', stop + 1) = at + 1
  BY <1>1, <1>3 DEF Min2
<1>8. Len(out') + Held(pend') <= Len(out) + Held(pend) + (Min2(at', stop + 1) - at) + 1
  BY <1>3, <1>4, <1>5, <1>6, <1>7
<1> QED BY <1>1, <1>5, <1>6, <1>7, <1>8, RoundAdvances

(* What emit_attribute writes: nothing, the name alone, or the name and the *)
(* value with or without its quotes.                                        *)
LEMMA AttributeLength ==
  ASSUME NEW name, IsText(name), NEW value, IsText(value), NEW raw, IsText(raw),
         NEW quoted, quoted => Len(value) <= Len(raw)
  PROVE  /\ IsText(emit_attribute(name, value, quoted, raw))
         /\ Len(emit_attribute(name, value, quoted, raw)) <= Len(name) + 1 + Len(raw)
<1> DEFINE written == emit_attribute(name, value, quoted, raw)
           t == Append(name, "=")
<1>1. \/ written = <<>>
      \/ written = name
      \/ quoted /\ written = t \o value
      \/ written = t \o raw
  <2> DEFINE redundant == <<st.tag, name, value>> \in RedundantAttributes
             empty == value = <<>> /\ quoted
             flag == value = name /\ name \in BooleanAttributes
             bare == "remove_quotes" \in opts /\ quoted /\ can_remove_attribute_quotes(value)
             short == t \o value
             long == t \o raw
  <2>1. written = CASE redundant -> <<>> [] empty -> name [] flag -> name [] bare -> short
                    [] OTHER -> long
    BY Zenon DEF emit_attribute
  <2>2. bare => quoted
    BY Zenon
  <2> HIDE DEF redundant, empty, flag, bare, written, short, long
  <2>3. written = <<>> \/ written = name \/ (bare /\ written = short) \/ written = long
    BY <2>1
  <2> QED BY <2>2, <2>3, Zenon DEF short, long
<1>2. Len(name) \in Nat /\ Len(value) \in Nat /\ Len(raw) \in Nat
  BY TextLength
<1>3. IsText(t) /\ Len(t) = Len(name) + 1
  BY AppendLength
<1> HIDE DEF t, written
<1>4. IsText(written) /\ Len(written) <= Len(name) + 1 + Len(raw)
  <2>1. CASE written = <<>>
    BY <1>2, <2>1, ShortTexts
  <2>2. CASE written = name
    BY <1>2, <2>2
  <2>3. CASE quoted /\ written = t \o value
    <3>1. IsText(t \o value) /\ Len(t \o value) = Len(t) + Len(value)
      BY <1>3, ConcatLength
    <3> QED BY <1>2, <1>3, <2>3, <3>1
  <2>4. CASE written = t \o raw
    <3>1. IsText(t \o raw) /\ Len(t \o raw) = Len(t) + Len(raw)
      BY <1>3, ConcatLength
    <3> QED BY <1>2, <1>3, <2>4, <3>1
  <2> QED BY <1>1, <2>1, <2>2, <2>3, <2>4
<1> QED BY <1>4 DEF written

(* The value that begins at first behind the = of an attribute. *)
LEMMA ValueEnds ==
  ASSUME Bounds, NEW first \in Nat \ {0}, first <= stop + 1, NEW quoted,
         quoted => At(first) # Nul
  PROVE  LET last == IF quoted THEN Min2(ToFirst(first + 1, {At(first)}), stop) ELSE NameEnd(first, {})
         IN  last \in Int /\ last >= first - 1 /\ last <= stop /\ (quoted => last >= first)
<1> DEFINE last == IF quoted THEN Min2(ToFirst(first + 1, {At(first)}), stop) ELSE NameEnd(first, {})
           k == first + 1
           S == {At(first)}
<1>1. stop \in Nat /\ k \in Nat \ {0} /\ k = first + 1
  BY DEF Bounds
<1>2. CASE quoted
  <2>1. first <= stop
    BY <1>2, SeenInText
  <2> HIDE DEF k, S
  <2>2. ToFirst(k, S) \in k .. Max2(k, stop + 1)
    BY <1>1, ToFirstEnds
  <2>3. Max2(k, stop + 1) = stop + 1
    BY <1>1, <2>1 DEF Max2
  <2>4. last = Min2(ToFirst(k, S), stop)
    BY <1>2 DEF k, S
  <2> HIDE DEF last
  <2>5. last \in Int /\ last >= first /\ last <= stop
    BY <1>1, <2>1, <2>2, <2>3, <2>4 DEF Min2
  <2> QED BY <2>5 DEF last
<1>3. CASE ~quoted
  <2>1. last = NameEnd(first, {})
    BY <1>3
  <2>2. /\ NameEnd(first, {}) \in Int /\ NameEnd(first, {}) >= first - 1
        /\ first <= stop + 1 => NameEnd(first, {}) <= stop
    BY NameEnds
  <2> QED BY <1>3, <2>1, <2>2
<1> QED BY <1>2, <1>3

(* An attribute is written with what it needs of its value: what is read   *)
(* of it is no shorter.                                                    *)
LEMMA TagAttributeAdvances ==
  ASSUME Bounds, TagAttribute
  PROVE  Advances(0)
<1> DEFINE end == NameEnd(at, {"="})
           name == Part(at, end)
           p == PastSpace(end + 1)
           equals == At(p) = "="
           first == PastSpace(IF equals THEN p + 1 ELSE end + 1)
           quoted == At(first) \in {"'", "\""}
           last == IF quoted THEN Min2(ToFirst(first + 1, {At(first)}), stop) ELSE NameEnd(first, {})
           value == IF quoted THEN Part(first + 1, last - 1) ELSE Part(first, last)
           raw == Part(first, last)
           rest == first - 1
           written == IF equals THEN emit_attribute(name, value, quoted, raw) ELSE Part(at, rest)
<1>1. at <= stop /\ Stays /\ Here \in Words \cup {":"}
  BY Zenon DEF TagAttribute, TagReads, Continue, Stays
<1>2. at' = (IF equals THEN last + 1 ELSE first) /\ out' = out \o written /\ pend' = pend
  BY Zenon DEF TagAttribute, Continue
<1>3. at \in Nat \ {0} /\ stop \in Nat /\ IsText(out) /\ Len(out) \in Nat
  BY TextLength DEF Bounds
<1>4. At(at) \notin {">"} \cup Space \cup {"="} \cup {Nul}
  BY <1>1, NoNul, Zenon DEF Here, Space
<1>5. end \in Nat /\ end >= at /\ end <= stop
  <2> DEFINE S == {"="}
  <2> HIDE DEF S
  <2>1. /\ NameEnd(at, S) \in Int /\ (at <= stop + 1 => NameEnd(at, S) <= stop)
        /\ At(at) \notin {">"} \cup Space \cup S \cup {Nul} => NameEnd(at, S) >= at
    BY <1>3, NameEnds
  <2>2. NameEnd(at, S) >= at
    BY <1>4, <2>1 DEF S
  <2>3. end = NameEnd(at, S)
    BY DEF S
  <2> HIDE DEF end
  <2> QED BY <1>1, <1>3, <2>1, <2>2, <2>3
<1>6. p \in Nat /\ p > end
  <2> HIDE DEF end
  <2> QED BY <1>5, GapEnds
<1>7. pend' \in BOOLEAN /\ Len(out) + Held(pend') <= Len(out) + Held(pend)
  <2>1. pend' = pend
    BY <1>2
  <2>2. pend' \in BOOLEAN /\ (pend' => pend) /\ Len(out) <= Len(out)
    BY <1>3, <2>1 DEF Bounds
  <2> QED BY <1>3, <2>2, StillHeld
<1>8. CASE equals
  <2> DEFINE k == p + 1
  <2>1. p <= stop
    <3>1. At(p) # Nul
      BY <1>8, NoNul, Zenon
    <3> HIDE DEF p
    <3> QED BY <1>6, <3>1, SeenInText
  <2>2. first = PastSpace(k)
    BY <1>8, Zenon
  <2>3. k \in Nat \ {0} /\ k <= stop + 1 /\ k >= end + 2
    <3> HIDE DEF p, end
    <3> QED BY <1>3, <1>5, <1>6, <2>1
  <2>4. first \in Nat \ {0} /\ first <= stop + 1 /\ first >= end + 2
    <3> HIDE DEF k, end, first
    <3>1. PastSpace(k) \in k .. Max2(k, stop + 1)
      BY <2>3, PastSpaceEnds
    <3>2. Max2(k, stop + 1) = stop + 1
      BY <1>3, <2>3 DEF Max2
    <3> QED BY <1>3, <1>5, <2>2, <2>3, <3>1, <3>2
  <2>5. quoted => At(first) # Nul
    BY Zenon DEF Nul
  <2>6. last \in Int /\ last >= first - 1 /\ last <= stop /\ (quoted => last >= first)
    <3> HIDE DEF first, quoted
    <3> QED BY <2>4, <2>5, ValueEnds
  <2>7. IsText(name) /\ Len(name) = end - at + 1
    <3> HIDE DEF end
    <3>1. IsText(name) /\ Len(name) = IF at <= Min2(end, stop) THEN Min2(end, stop) - at + 1 ELSE 0
      BY <1>3, <1>5, PartLength
    <3>2. Min2(end, stop) = end
      BY <1>3, <1>5 DEF Min2
    <3> QED BY <1>3, <1>5, <3>1, <3>2
  <2>8. IsText(raw) /\ Len(raw) = last - first + 1
    <3> HIDE DEF first, last, quoted
    <3>1. IsText(raw) /\ Len(raw) = IF first <= Min2(last, stop) THEN Min2(last, stop) - first + 1 ELSE 0
      BY <2>4, <2>6, PartLength
    <3>2. Min2(last, stop) = last
      BY <1>3, <2>6 DEF Min2
    <3> QED BY <2>4, <2>6, <3>1, <3>2
  <2>9. IsText(value) /\ (quoted => Len(value) <= Len(raw))
    <3>1. CASE ~quoted
      <4>1. value = raw
        BY <3>1, Zenon
      <4> QED BY <2>8, <3>1, <4>1, Zenon
    <3>2. CASE quoted
      <4> DEFINE i == first + 1
                 j == last - 1
      <4>1. value = Part(i, j)
        BY <3>2, Zenon
      <4> HIDE DEF first, last, raw, value, quoted
      <4>2. i \in Nat \ {0} /\ j \in Int /\ i = first + 1 /\ j = last - 1
        BY <2>4, <2>6
      <4> HIDE DEF i, j
      <4>3. IsText(Part(i, j)) /\ Len(Part(i, j)) = IF i <= Min2(j, stop) THEN Min2(j, stop) - i + 1 ELSE 0
        BY <4>2, PartLength
      <4>4. Min2(j, stop) = last - 1
        BY <1>3, <2>6, <4>2 DEF Min2
      <4>5. Len(value) <= Len(raw)
        BY <2>4, <2>6, <2>8, <3>2, <4>1, <4>2, <4>3, <4>4
      <4> QED BY <4>1, <4>3, <4>5
    <3> QED BY <3>1, <3>2
  <2>10. written = emit_attribute(name, value, quoted, raw) /\ at' = last + 1
    BY <1>2, <1>8, Zenon
  <2>11. IsText(written) /\ Len(written) <= Len(name) + 1 + Len(raw)
    <3> HIDE DEF name, value, quoted, raw, written
    <3> QED BY <2>5, <2>7, <2>8, <2>9, <2>10, AttributeLength
  <2>12. out' = out \o written
    BY <1>2
  <2> HIDE DEF end, name, first, last, raw, written, quoted
  <2>13. at' \in Nat /\ at' > at /\ at' <= stop + 1 /\ Len(written) <= at' - at
    <3>1. Len(written) \in Nat
      BY <2>11, TextLength
    <3> QED BY <1>3, <1>5, <2>4, <2>6, <2>7, <2>8, <2>10, <2>11, <3>1
  <2> QED BY <1>1, <1>3, <1>7, <2>11, <2>12, <2>13, WritesBehind
<1>9. CASE ~equals
  <2>1. first = PastSpace(end + 1)
    BY <1>9, Zenon
  <2>2. first \in Nat /\ first > end
    <3> HIDE DEF end, first
    <3> QED BY <1>5, <2>1, GapEnds
  <2>3. out' = out \o Part(at, rest) /\ at' = first
    BY <1>2, <1>9, Zenon
  <2>4. rest \in Nat /\ rest >= at /\ at' = rest + 1
    <3> HIDE DEF end, first
    <3> QED BY <1>3, <1>5, <2>2, <2>3
  <2> HIDE DEF rest
  <2> QED BY <1>1, <1>3, <1>7, <2>3, <2>4, CopiesPart
<1> QED BY <1>8, <1>9
-----------------------------------------------------------------------------
(* From one loop to another.  A step may then stay where it is in the text *)
(* if the loop that goes on is one further out; spare as in Advances.      *)
Goes(spare) ==
  /\ Bounds' /\ UNCHANGED <<text, opts>>
  /\ Place' > Place \/ (Place' = Place /\ Rank' < Rank)
  /\ Written' - Written <= Place' - Place + spare

(* The locals of minify_markup that tell how a script is treated.          *)
InMarkup(locals) == "mode" \in DOMAIN locals /\ locals.mode \in {"js", "json", "raw"}

(* A search for an end tag ends in the text or just behind it. *)
LEMMA CloseTagFound ==
  ASSUME Bounds, NEW k \in Nat, k <= stop + 1, NEW name
  PROVE  find_close_tag(k, name) \in k .. stop + 1
<1> DEFINE places == {j \in k .. stop : Sees(j, <<"<", "/">>) /\ Part(j + 2, NameEnd(j + 2, {})) = name}
<1>1. find_close_tag(k, name) = IF places = {} THEN Max2(k, stop + 1) ELSE Min(places)
  BY DEF find_close_tag
<1>2. places \in SUBSET (k .. stop) /\ stop \in Nat
  BY Zenon DEF Bounds
<1> HIDE DEF places
<1>3. CASE places = {}
  BY <1>1, <1>2, <1>3 DEF Max2
<1>4. CASE places # {}
  <2>1. places \in SUBSET Nat
    BY <1>2
  <2>2. Min(places) \in places
    BY <1>4, <2>1, MinIsLeast
  <2>3. Min(places) \in k .. stop
    BY <1>2, <2>2
  <2>4. find_close_tag(k, name) = Min(places)
    BY <1>1, <1>4
  <2> QED BY <1>2, <2>3, <2>4
<1> QED BY <1>3, <1>4

(* A tag is closed, and the inside of its element is left to the next      *)
(* loop, copied or given to the function for scripts.                      *)
LEMMA TagCloseGoes ==
  ASSUME Bounds, TagClose, InMarkup(st)
  PROVE  Goes(0)
<1> DEFINE r == Stripped(out)
           s == r \o Part(at, at)
           next == Min2(at, stop) + 1
           end == find_close_tag(next, st.name)
           last == end - 1
<1>1. at \in Nat \ {0} /\ stop \in Nat /\ IsText(out) /\ Len(out) \in Nat /\ Held(pend) \in Nat
      /\ stop <= Len(text) /\ IsText(text) /\ from \in Nat
  BY TextLength DEF Bounds, Held
<1>2. IsText(r) /\ Len(r) <= Len(out) /\ Len(r) \in Nat
  <2> DEFINE S == {" "}
             n == LastBut(out, S)
  <2>1. r = SubSeq(out, 1, n)
    BY Zenon DEF Stripped
  <2> HIDE DEF S, r
  <2>2. IsText(SubSeq(out, 1, LastBut(out, S))) /\ Len(SubSeq(out, 1, LastBut(out, S))) <= Len(out)
    BY <1>1, LastButLength
  <2>3. IsText(r) /\ Len(r) <= Len(out)
    BY <2>1, <2>2
  <2> QED BY <2>3, TextLength
<1>3. Place \in Nat /\ next >= Place /\ next <= stop + 1 /\ next \in Nat \ {0}
  BY <1>1 DEF Place, Min2
<1>4. IsText(s) /\ Len(s) <= Len(out) + (next - Place) /\ Len(s) \in Nat
  <2> DEFINE p == Part(at, at)
  <2>1. IsText(p) /\ Len(p) = IF at <= Min2(at, stop) THEN Min2(at, stop) - at + 1 ELSE 0
    BY <1>1, PartLength
  <2>2. Len(p) <= next - Place /\ Len(p) \in Nat
    BY <1>1, <2>1 DEF Place, Min2
  <2> HIDE DEF p, r
  <2>3. IsText(r \o p) /\ Len(r \o p) = Len(r) + Len(p)
    BY <1>2, <2>1, ConcatLength
  <2> HIDE DEF next
  <2>4. IsText(s) /\ Len(s) <= Len(out) + (next - Place) /\ Len(s) \in Nat
    BY <1>1, <1>2, <1>3, <2>2, <2>3 DEF p
  <2> QED BY <2>4
<1>5. end \in Nat /\ end >= next /\ end <= stop + 1
  <2> HIDE DEF next
  <2>1. find_close_tag(next, st.name) \in next .. stop + 1
    BY <1>3, CloseTagFound
  <2> QED BY <1>1, <1>3, <2>1
<1>6. lang = "tag" /\ UNCHANGED <<text, opts>> /\ pend' = FALSE
  BY Zenon DEF TagClose, Continue
<1>7. Rank = 4 /\ pend' \in BOOLEAN /\ Held(pend') = 0
  BY <1>6 DEF Rank, Held
<1>8. \/ lang' = "html" /\ at' = next /\ out' = s /\ UNCHANGED <<stop, from>>
      \/ lang' = "end" /\ at' = end /\ out' = s \o Part(next, last) /\ UNCHANGED <<stop, from>>
      \/ lang' \in {"js", "json"} /\ at' = next /\ out' = s /\ stop' = last /\ from' = Len(s)
  <2> DEFINE mode == IF st.name = <<"script">> /\ "preserve_script" \notin opts THEN st.mode ELSE "raw"
  <2>1. mode \in {"js", "json", "raw"}
    BY Zenon DEF InMarkup
  <2>2. \/ lang' = "html" /\ at' = next /\ out' = s /\ UNCHANGED <<stop, from>>
        \/ lang' = "end" /\ at' = end /\ out' = s \o Part(next, last) /\ UNCHANGED <<stop, from>>
        \/ /\ ~(st.name \in RawElements /\ mode = "raw") /\ st.name \in RawElements
           /\ lang' = mode /\ at' = next /\ out' = s /\ stop' = last /\ from' = Len(s)
    BY Zenon DEF TagClose, Continue
  <2> QED BY <2>1, <2>2, Zenon
<1> HIDE DEF r, s, next, end
<1>9. CASE lang' = "html" /\ at' = next /\ out' = s /\ UNCHANGED <<stop, from>>
  <2>1. Bounds'
    BY <1>1, <1>3, <1>4, <1>6, <1>7, <1>9 DEF Bounds
  <2>2. Place' = next
    BY <1>1, <1>3, <1>9 DEF Place, Min2
  <2>3. Rank' = 1
    BY <1>9 DEF Rank
  <2>4. Written' - Written <= Place' - Place + 0
    BY <1>1, <1>3, <1>4, <1>7, <1>9, <2>2 DEF Written
  <2> QED BY <1>3, <1>6, <1>7, <2>1, <2>2, <2>3, <2>4 DEF Goes
<1>10. CASE lang' = "end" /\ at' = end /\ out' = s \o Part(next, last) /\ UNCHANGED <<stop, from>>
  <2> DEFINE p == Part(next, last)
  <2>1. last \in Int /\ last = end - 1
    BY <1>5
  <2> HIDE DEF last
  <2>2. IsText(p) /\ Len(p) = IF next <= Min2(last, stop) THEN Min2(last, stop) - next + 1 ELSE 0
    BY <1>3, <2>1, PartLength
  <2>3. Len(p) = end - next
    BY <1>1, <1>3, <1>5, <2>1, <2>2 DEF Min2
  <2> HIDE DEF p
  <2>4. IsText(s \o p) /\ Len(s \o p) = Len(s) + Len(p)
    BY <1>4, <2>2, ConcatLength
  <2>5. IsText(out') /\ Len(out') = Len(s) + (end - next)
    BY <1>10, <2>3, <2>4 DEF p
  <2>6. Bounds'
    BY <1>1, <1>3, <1>5, <1>6, <1>7, <1>10, <2>5 DEF Bounds
  <2>7. Place' = end
    BY <1>1, <1>5, <1>10 DEF Place, Min2
  <2>8. Rank' = 2
    BY <1>10 DEF Rank
  <2>9. Written' - Written <= Place' - Place + 0
    BY <1>1, <1>3, <1>4, <1>5, <1>7, <2>5, <2>7 DEF Written
  <2> QED BY <1>3, <1>5, <1>6, <1>7, <2>6, <2>7, <2>8, <2>9 DEF Goes
<1>11. CASE lang' \in {"js", "json"} /\ at' = next /\ out' = s /\ stop' = last /\ from' = Len(s)
  <2>1. last \in Nat /\ last <= stop /\ next <= last + 1
    BY <1>1, <1>3, <1>5
  <2> HIDE DEF last
  <2>2. Bounds'
    BY <1>1, <1>3, <1>4, <1>6, <1>7, <1>11, <2>1 DEF Bounds
  <2>3. Place' = next
    BY <1>1, <1>3, <1>11, <2>1 DEF Place, Min2
  <2>4. Rank' = 3
    BY <1>11 DEF Rank
  <2>5. Written' - Written <= Place' - Place + 0
    BY <1>1, <1>3, <1>4, <1>7, <1>11, <2>3 DEF Written
  <2> QED BY <1>3, <1>6, <1>7, <2>2, <2>3, <2>4, <2>5 DEF Goes
<1> QED BY <1>8, <1>9, <1>10, <1>11 DEF s, end, next, r, last

(* The function for scripts returns to minify_markup. *)
LEMMA ScriptReturnsGoes ==
  ASSUME Bounds, ScriptReturns
  PROVE  Goes(0)
<1>1. /\ lang \in {"js", "json"} /\ at > stop
      /\ lang' = "end" /\ at' = stop + 1 /\ stop' = Len(text)
      /\ from' = 0 /\ pend' = FALSE /\ UNCHANGED <<text, out, opts>>
  BY Zenon DEF ScriptReturns
<1>2. at \in Nat \ {0} /\ stop \in Nat /\ IsText(out) /\ Len(out) \in Nat /\ Held(pend) \in Nat
      /\ stop <= Len(text) /\ IsText(text) /\ Len(text) \in Nat
  BY TextLength DEF Bounds, Held
<1>3. Bounds'
  <2>1. pend' \in BOOLEAN
    BY <1>1
  <2>2. /\ IsText(text') /\ IsText(out') /\ at' \in Nat \ {0}
        /\ stop' \in Nat /\ stop' <= Len(text') /\ from' \in Nat
    BY <1>1, <1>2
  <2> QED BY <2>1, <2>2 DEF Bounds
<1>4. Place = stop + 1 /\ Place' = stop + 1
  BY <1>1, <1>2 DEF Place, Min2
<1>5. Rank = 3 /\ Rank' = 2
  BY <1>1 DEF Rank
<1>6. Held(pend') = 0
  BY <1>1 DEF Held
<1>7. Written' - Written <= Place' - Place + 0
  BY <1>1, <1>2, <1>4, <1>6 DEF Written
<1> QED BY <1>1, <1>2, <1>3, <1>4, <1>5, <1>7 DEF Goes

(* Nothing is written behind a raw element, or its end tag. *)
LEMMA RawEndsGoes ==
  ASSUME Bounds, RawEnds
  PROVE  Goes(0)
<1>1. /\ lang = "end" /\ lang' = "html" /\ at' = PastEndTag(at) /\ out' = out \o EndTag(at)
      /\ pend' = FALSE /\ UNCHANGED <<text, stop, from, opts>>
  BY Zenon DEF RawEnds, Continue
<1>2. at \in Nat \ {0} /\ stop \in Nat /\ IsText(out) /\ Len(out) \in Nat /\ Held(pend) \in Nat
      /\ stop <= Len(text) /\ IsText(text) /\ Len(text) \in Nat /\ from \in Nat
  BY TextLength DEF Bounds, Held
<1>3. /\ at' \in Nat /\ at' >= at /\ (at' > at => at <= stop /\ at' <= stop + 1)
      /\ IsText(EndTag(at)) /\ Len(EndTag(at)) <= at' - at
  <2>1. CASE Sees(at + 1, <<"/">>)
    <3>1. at <= stop
      <4>1. at + 1 + Len(<<"/">>) - 1 <= stop /\ Len(<<"/">>) = 1
        BY <2>1, ShortTexts DEF Sees
      <4> QED BY <1>2, <4>1
    <3>2. /\ PastEndTag(at) \in Nat /\ PastEndTag(at) > at /\ PastEndTag(at) <= stop + 1
          /\ IsText(EndTag(at)) /\ Len(EndTag(at)) <= PastEndTag(at) - at
      BY <2>1, <3>1, EndTagLength
    <3> QED BY <1>1, <1>2, <3>1, <3>2
  <2>2. CASE ~Sees(at + 1, <<"/">>)
    <3>1. PastEndTag(at) = at /\ EndTag(at) = <<>>
      BY <2>2, Zenon DEF PastEndTag, EndTag
    <3> QED BY <1>1, <1>2, <3>1, ShortTexts
  <2> QED BY <2>1, <2>2
<1> DEFINE t == EndTag(at)
<1>4. out' = out \o t
  BY <1>1
<1>5. IsText(t) /\ Len(t) <= at' - at /\ Len(t) \in Nat
  BY <1>3, TextLength
<1> HIDE DEF t
<1>6. IsText(out') /\ Len(out') = Len(out) + Len(t)
  BY <1>2, <1>4, <1>5, ConcatLength
<1>7. pend' \in BOOLEAN /\ Held(pend') = 0
  BY <1>1 DEF Held
<1>8. Bounds'
  BY <1>1, <1>2, <1>3, <1>6, <1>7 DEF Bounds
<1>9. Place' \in Nat /\ Place \in Nat /\ Place' - Place = at' - at
  BY <1>1, <1>2, <1>3 DEF Place, Min2
<1>10. Rank = 2 /\ Rank' = 1
  BY <1>1 DEF Rank
<1>11. Written' - Written <= Place' - Place + 0
  BY <1>2, <1>5, <1>6, <1>7, <1>9 DEF Written
<1>12. Place' > Place \/ (Place' = Place /\ Rank' < Rank)
  BY <1>2, <1>3, <1>9, <1>10
<1> QED BY <1>1, <1>8, <1>11, <1>12 DEF Goes

(* A function that returns writes nothing more. *)
LEMMA ReturnGoes ==
  ASSUME Bounds, Return
  PROVE  Goes(0) /\ lang' = "done" /\ call' = call
<1>1. /\ lang \notin {"done", "tag", "end"} /\ lang' = "done" /\ out' = Ended(lang)
      /\ UNCHANGED <<text, at, stop, from, pend, opts, call>>
  BY Zenon DEF Return
<1>2. at \in Nat \ {0} /\ stop \in Nat /\ IsText(out) /\ Len(out) \in Nat /\ Held(pend) \in Nat
  BY TextLength DEF Bounds, Held
<1>3. \/ out' = WithoutSpace(out)
      \/ out' = out
      \/ Prev # Nul /\ out' = SubSeq(out, 1, Len(out) - 1)
  <2>1. HtmlEnd = WithoutSpace(out) /\ SqlEnd = WithoutSpace(out)
    BY DEF HtmlEnd, SqlEnd
  <2>2. CypherEnd = out \/ (Prev # Nul /\ CypherEnd = SubSeq(out, 1, Len(out) - 1))
    BY Zenon DEF CypherEnd, Nul
  <2>3. out' = HtmlEnd \/ out' = SqlEnd \/ out' = CypherEnd \/ out' = out
    BY <1>1, Zenon DEF Ended
  <2> QED BY <2>1, <2>2, <2>3, Zenon
<1>4. IsText(out') /\ Len(out') <= Len(out)
  <2>1. CASE out' = WithoutSpace(out)
    BY <1>2, <2>1, WithoutSpaceLength
  <2>2. CASE out' = out
    BY <1>2, <2>2
  <2>3. CASE Prev # Nul /\ out' = SubSeq(out, 1, Len(out) - 1)
    <3>1. Len(out) > from
      BY <2>3, Zenon DEF Prev, Nul
    <3>2. out # <<>>
      BY <1>2, <3>1, ShortTexts DEF Bounds
    <3>3. IsText(SubSeq(out, 1, Len(out) - 1)) /\ Len(SubSeq(out, 1, Len(out) - 1)) = Len(out) - 1
      BY <1>2, <3>2, FrontLength
    <3> QED BY <1>2, <2>3, <3>3
  <2> QED BY <1>3, <2>1, <2>2, <2>3
<1>5. Bounds'
  BY <1>1, <1>4 DEF Bounds
<1>6. Place' = Place /\ Place \in Nat
  BY <1>1, <1>2 DEF Place, Min2
<1>7. Rank' < Rank
  BY <1>1 DEF Rank
<1>8. Len(out') \in Nat /\ Held(pend') = Held(pend)
  BY <1>1, <1>4, TextLength DEF Held
<1>9. Written' - Written <= Place' - Place + 0
  BY <1>2, <1>4, <1>6, <1>8 DEF Written
<1> QED BY <1>1, <1>5, <1>6, <1>7, <1>9 DEF Goes
-----------------------------------------------------------------------------
(* The state that the steps keep.                                          *)
(* Which functions run in which call; directives are kept only where the   *)
(* flag asks for it.                                                       *)
Locals ==
  /\ lang \in {"html", "tag", "end"} => call.lang = "html" /\ InMarkup(st)
  /\ lang \in {"js", "json"} =>
       /\ "caller" \in DOMAIN st
       /\ st.caller # Nobody => call.lang = "html" /\ InMarkup(st.caller)
  /\ lang = "lua" => call.lang = "lua" /\ LuaDirectives

(* Before each / of a page, and behind each line break of a Lua text whose *)
(* directives are kept, there may be a space that the text did not have.   *)
Costly ==
  IF call.lang = "html" THEN {"/"}
  ELSE IF call.lang = "lua" /\ "keep_directives" \in opts THEN {"\n"}
  ELSE {}

Costs(k) == {i \in 1 .. k : text[i] \in Costly}

(* What is written, with the space held back, is no longer than what has   *)
(* been read, but for one space for each of those.                         *)
Allowed == Written <= Place - 1 + Cardinality(Costs(Place - 1))

IInv == Bounds /\ Locals /\ Allowed

(* A round moves on. *)
LEMMA AdvancesGoes ==
  ASSUME NEW spare, Advances(spare), UNCHANGED <<text, opts>>
  PROVE  Goes(spare)
BY DEF Advances, Goes

(* A step other than one that costs a space. *)
Free == Goes(0)

(* A step over a symbol that costs a space. *)
Paid == Goes(1) /\ at <= stop /\ at' = at + 1 /\ UNCHANGED stop /\ text[at] \in Costly

(* minify_markup. *)
LEMMA MarkupStep ==
  ASSUME Bounds, Locals, MarkupNext, call' = call
  PROVE  (Free \/ Paid) /\ Locals'
<1>1. CASE HtmlComment \/ CssComment \/ CssBlank \/ CssOther \/ HtmlTemplate \/ HtmlMark
           \/ HtmlGreater \/ HtmlBlank \/ HtmlText
  <2>1. lang = "html" /\ lang' = "html" /\ st' = st /\ UNCHANGED <<text, opts>>
    BY <1>1, Zenon DEF HtmlComment, CssComment, CssBlank, CssOther, HtmlTemplate, HtmlMark, HtmlTag,
      HtmlGreater, HtmlBlank, HtmlText, InStyle, Plain, HtmlReads, Continue
  <2>2. Advances(0)
    BY <1>1, HtmlCommentAdvances, CssAdvances, HtmlTemplateAdvances, HtmlTagAdvances,
      HtmlPlainAdvances, Zenon
  <2>3. Free
    BY <2>1, <2>2, AdvancesGoes DEF Free
  <2>4. Locals'
    BY <2>1 DEF Locals, InMarkup
  <2> QED BY <2>3, <2>4
<1>2. CASE HtmlEndTag
  <2>1. /\ lang = "html" /\ lang' = "html" /\ UNCHANGED <<text, opts>>
        /\ \E i : st' = [st EXCEPT !.inline = i, !.style = FALSE]
    BY <1>2, Zenon DEF HtmlEndTag, HtmlTag, Plain, HtmlReads, Continue
  <2>2. Free
    BY <1>2, <2>1, HtmlTagAdvances, AdvancesGoes DEF Free
  <2>3. InMarkup(st')
    BY <2>1 DEF Locals, InMarkup
  <2> QED BY <2>1, <2>2, <2>3 DEF Locals
<1>3. CASE HtmlOpenTag
  <2>1. /\ lang = "html" /\ lang' = "tag" /\ UNCHANGED <<text, opts>>
        /\ \E t, n, i, s : st' = [st EXCEPT !.tag = t, !.name = n, !.mode = "js", !.inline = i, !.style = s]
    BY <1>3, Zenon DEF HtmlOpenTag, HtmlTag, Plain, HtmlReads, Continue
  <2>2. Free
    BY <1>3, <2>1, HtmlTagAdvances, AdvancesGoes DEF Free
  <2>3. InMarkup(st')
    BY <2>1 DEF Locals, InMarkup
  <2> QED BY <2>1, <2>2, <2>3 DEF Locals
<1>4. CASE TagBlank \/ TagOther
  <2>1. lang = "tag" /\ lang' = "tag" /\ st' = st /\ UNCHANGED <<text, opts>>
    BY <1>4, Zenon DEF TagBlank, TagOther, TagReads, Continue
  <2>2. Free
    BY <1>4, <2>1, TagPlainAdvances, AdvancesGoes DEF Free
  <2>3. Locals'
    BY <2>1 DEF Locals, InMarkup
  <2> QED BY <2>2, <2>3
<1>5. CASE TagSlash
  <2>1. /\ lang = "tag" /\ lang' = "tag" /\ st' = st /\ UNCHANGED <<text, opts, stop>>
        /\ at <= stop /\ at' = at + 1 /\ At(at) = "/"
    BY <1>5, Zenon DEF TagSlash, TagReads, Continue, Here
  <2>2. Goes(1)
    BY <1>5, <2>1, TagSlashAdvances, AdvancesGoes
  <2>3. text[at] \in Costly
    BY <2>1, Zenon DEF At, Costly, Locals
  <2>4. Locals'
    BY <2>1 DEF Locals, InMarkup
  <2> QED BY <2>1, <2>2, <2>3, <2>4 DEF Paid
<1>6. CASE TagAttribute
  <2>1. lang = "tag" /\ lang' = "tag" /\ UNCHANGED <<text, opts>>
    BY <1>6, Zenon DEF TagAttribute, TagReads, Continue
  <2>2. Free
    BY <1>6, <2>1, TagAttributeAdvances, AdvancesGoes DEF Free
  <2>3. \E m : st' = [st EXCEPT !.mode = m] /\ m \in {"js", "json", "raw", st.mode}
    <3>1. \E c, v : st' = [st EXCEPT !.mode = IF c THEN ScriptMode(v, st.mode) ELSE st.mode]
      BY <1>6, Zenon DEF TagAttribute, Continue
    <3>2. PICK c, v : st' = [st EXCEPT !.mode = IF c THEN ScriptMode(v, st.mode) ELSE st.mode]
      BY <3>1, Zenon
    <3>3. ScriptMode(v, st.mode) \in {"js", "json", "raw", st.mode}
      BY Zenon DEF ScriptMode
    <3> DEFINE m == IF c THEN ScriptMode(v, st.mode) ELSE st.mode
    <3>4. m \in {"js", "json", "raw", st.mode}
      BY <3>3, Zenon
    <3>5. st' = [st EXCEPT !.mode = m]
      BY <3>2
    <3> QED BY <3>4, <3>5, Zenon
  <2>4. InMarkup(st')
    BY <2>1, <2>3 DEF Locals, InMarkup
  <2> QED BY <2>1, <2>2, <2>4 DEF Locals
<1>7. CASE TagClose
  <2>1. lang = "tag"
    BY <1>7, Zenon DEF TagClose
  <2>2. InMarkup(st) /\ call.lang = "html"
    BY <2>1 DEF Locals
  <2>3. Free
    BY <1>7, <2>2, TagCloseGoes DEF Free
  <2>4. \/ lang' \in {"html", "end"} /\ st' = st
        \/ /\ lang' \in {"js", "json"}
           /\ st' = [JsStart EXCEPT !.caller = st] \/ st' = [JsonStart EXCEPT !.caller = st]
    <3> DEFINE mode == IF st.name = <<"script">> /\ "preserve_script" \notin opts THEN st.mode ELSE "raw"
    <3>1. mode \in {"js", "json", "raw"}
      BY <2>2, Zenon DEF InMarkup
    <3>2. \/ lang' \in {"html", "end"} /\ st' = st
          \/ /\ ~(st.name \in RawElements /\ mode = "raw") /\ st.name \in RawElements
             /\ lang' = mode
             /\ st' = [JsStart EXCEPT !.caller = st] \/ st' = [JsonStart EXCEPT !.caller = st]
      BY <1>7, Zenon DEF TagClose, Continue
    <3> QED BY <3>1, <3>2, Zenon
  <2>5. "caller" \in DOMAIN JsStart /\ "caller" \in DOMAIN JsonStart
    BY Zenon DEF JsStart, JsonStart
  <2>6. CASE lang' \in {"html", "end"} /\ st' = st
    <3>1. InMarkup(st') /\ call'.lang = "html"
      BY <2>2, <2>6
    <3>2. lang' \notin {"js", "json", "lua"}
      BY <2>6
    <3> QED BY <2>3, <3>1, <3>2 DEF Locals
  <2>7. CASE /\ lang' \in {"js", "json"}
             /\ st' = [JsStart EXCEPT !.caller = st] \/ st' = [JsonStart EXCEPT !.caller = st]
    <3>1. "caller" \in DOMAIN st' /\ st'.caller = st
      BY <2>5, <2>7
    <3>2. InMarkup(st'.caller) /\ call'.lang = "html"
      BY <2>2, <3>1
    <3>3. lang' \notin {"html", "tag", "end", "lua"}
      BY <2>7
    <3> QED BY <2>3, <3>1, <3>2, <3>3 DEF Locals
  <2> QED BY <2>3, <2>4, <2>6, <2>7
<1>8. CASE ScriptReturns
  <2>1. lang \in {"js", "json"} /\ st.caller # Nobody /\ lang' = "end" /\ st' = st.caller
    BY <1>8, Zenon DEF ScriptReturns
  <2>2. call.lang = "html" /\ InMarkup(st')
    BY <2>1 DEF Locals
  <2>3. Free
    BY <1>8, ScriptReturnsGoes DEF Free
  <2> QED BY <2>1, <2>2, <2>3 DEF Locals
<1>9. CASE RawEnds
  <2>1. lang = "end" /\ lang' = "html" /\ st' = st
    BY <1>9, Zenon DEF RawEnds, Continue
  <2>2. Free
    BY <1>9, RawEndsGoes DEF Free
  <2>3. Locals'
    BY <2>1 DEF Locals, InMarkup
  <2> QED BY <2>2, <2>3
<1> QED BY <1>1, <1>2, <1>3, <1>4, <1>5, <1>6, <1>7, <1>8, <1>9, Zenon DEF MarkupNext

(* Every step but the last stutter. *)
LEMMA EveryStep ==
  ASSUME Bounds, Locals, Next, ~Terminated
  PROVE  (Free \/ Paid) /\ Locals' /\ call' = call
<1>1. CASE (JsonNext \/ JsNext) /\ UNCHANGED <<lang, call>>
  <2>1. Advances(0) /\ KeepsCaller
    BY <1>1, JsonAdvances, JsAdvances
  <2>2. lang \in {"js", "json"} /\ UNCHANGED <<text, opts>>
    BY <1>1, Zenon DEF JsonNext, JsonQuoted, JsonOpen, JsonComment, JsonOther, JsonReads,
      JsNext, JsEscape, JsHole, JsInside, JsLineComment, JsBlockComment, JsBlank, JsSemicolon, JsToken,
      JsCode, JsReads, Round
  <2>3. Free
    BY <2>1, <2>2, AdvancesGoes DEF Free
  <2>4. Locals'
    BY <1>1, <2>1, <2>2 DEF Locals, InMarkup, KeepsCaller
  <2> QED BY <1>1, <2>3, <2>4
<1>2. CASE MarkupNext /\ UNCHANGED call
  BY <1>2, MarkupStep
<1>3. CASE (SqlNext \/ CypherNext \/ YamlNext) /\ UNCHANGED <<lang, call>>
  <2>1. Advances(0)
    BY <1>3, SqlAdvances, CypherAdvances, YamlAdvances
  <2>2. lang' \in {"sql", "cypher", "yaml"}
    BY <1>3, Zenon DEF SqlNext, SqlQuoted, SqlComment, SqlBlank, SqlSkipWord, SqlWord, SqlOther,
      SqlStartsWord, SqlCode, SqlReads, CypherNext, CypherComment, CypherBlank, CypherChar, CypherQuoted,
      CypherInLine, CypherInBlock, CypherIn, YamlNext, YamlBlockLine, YamlPlainLine, YamlReads
  <2>3. UNCHANGED <<text, opts>>
    BY <1>3, Zenon DEF SqlNext, SqlQuoted, SqlComment, SqlBlank, SqlSkipWord, SqlWord, SqlOther,
      CypherNext, CypherComment, CypherBlank, CypherChar, CypherQuoted,
      CypherInLine, CypherInBlock, YamlNext, YamlBlockLine, YamlPlainLine, Round
  <2>4. Free
    BY <2>1, <2>3, AdvancesGoes DEF Free
  <2>5. Locals'
    BY <2>2 DEF Locals
  <2> QED BY <1>3, <2>4, <2>5
<1>4. CASE LuaNext /\ UNCHANGED <<lang, call>>
  <2>1. lang = "lua" /\ UNCHANGED <<text, opts, stop>>
    BY <1>4, Zenon DEF LuaNext, LuaLongComment, LuaLineComment, LuaLongString, LuaBracket,
      LuaBlank, LuaSemicolon, LuaOther, LuaQuoted, LuaInLine, LuaIn, Round
  <2>2. call.lang = "lua" /\ LuaDirectives
    BY <2>1 DEF Locals
  <2>3. Locals'
    BY <1>4, <2>1, <2>2, LuaKeepsDirectives DEF Locals
  <2>4. CASE ~(LuaInLine /\ LuaLineBreakKept)
    BY <1>4, <2>1, <2>3, <2>4, LuaAdvances, AdvancesGoes DEF Free
  <2>5. CASE LuaInLine /\ LuaLineBreakKept
    <3>1. Goes(1)
      BY <2>1, <2>5, LuaLineBreakAdvances, AdvancesGoes
    <3>2. at <= stop /\ at' = at + 1
      BY <2>5, Zenon DEF LuaInLine, Round
    <3>3. text[at] \in Costly
      BY <2>2, <2>5, <3>2, Zenon DEF Here, At, Costly, LuaLineBreakKept, LuaDirectives
    <3> QED BY <1>4, <2>1, <2>3, <3>1, <3>2, <3>3 DEF Paid
  <2> QED BY <2>4, <2>5
<1>5. CASE Return
  <2>1. Goes(0) /\ lang' = "done" /\ call' = call
    BY <1>5, ReturnGoes
  <2> QED BY <2>1 DEF Locals, Free
<1> QED BY <1>1, <1>2, <1>3, <1>4, <1>5, Zenon DEF Next

(* The allowance grows with the place, by one where a symbol costs one. *)
LEMMA CostsGrow ==
  ASSUME NEW j \in Nat, NEW k \in Nat, j <= k
  PROVE  /\ IsFiniteSet(Costs(j)) /\ IsFiniteSet(Costs(k))
         /\ Cardinality(Costs(j)) \in Nat /\ Cardinality(Costs(k)) \in Nat
         /\ Cardinality(Costs(j)) <= Cardinality(Costs(k))
         /\ j < k /\ text[k] \in Costly => Cardinality(Costs(j)) + 1 <= Cardinality(Costs(k))
<1>1. IsFiniteSet(1 .. j) /\ IsFiniteSet(1 .. k)
  BY FS_Interval
<1>2. Costs(j) \subseteq 1 .. j /\ Costs(k) \subseteq 1 .. k /\ Costs(j) \subseteq Costs(k)
  BY DEF Costs
<1>3. IsFiniteSet(Costs(j)) /\ IsFiniteSet(Costs(k))
  BY <1>1, <1>2, FS_Subset
<1>4. Cardinality(Costs(j)) \in Nat /\ Cardinality(Costs(k)) \in Nat
  BY <1>3, FS_CardinalityType
<1>5. Cardinality(Costs(j)) <= Cardinality(Costs(k))
  BY <1>2, <1>3, FS_Subset
<1>6. ASSUME j < k, text[k] \in Costly PROVE Cardinality(Costs(j)) + 1 <= Cardinality(Costs(k))
  <2>1. k \in Costs(k) /\ k \notin Costs(j)
    BY <1>6 DEF Costs
  <2>2. Costs(j) # Costs(k)
    BY <2>1
  <2>3. Cardinality(Costs(j)) # Cardinality(Costs(k))
    BY <1>2, <1>3, <2>2, FS_Subset
  <2> QED BY <1>4, <1>5, <2>3
<1> QED BY <1>3, <1>4, <1>5, <1>6

(* The place is inside the text or just behind it. *)
LEMMA PlaceInText ==
  ASSUME Bounds
  PROVE  Place \in Nat /\ Place >= 1 /\ Place <= Len(text) + 1 /\ Written \in Nat
<1>1. Len(out) \in Nat /\ Len(text) \in Nat
  BY TextLength DEF Bounds
<1> QED BY <1>1 DEF Bounds, Place, Min2, Written, Held

(* What a step writes, the place it comes to allows. *)
LEMMA StepAllowed ==
  ASSUME Bounds, Allowed, Free \/ Paid, call' = call
  PROVE  Bounds' /\ Allowed'
<1>1. /\ Bounds' /\ UNCHANGED <<text, opts>>
      /\ Place' > Place \/ Place' = Place
  BY DEF Free, Paid, Goes
<1>2. Place \in Nat /\ Place >= 1 /\ Written \in Nat
  BY PlaceInText
<1>3. PICK p, w : p = Place' /\ w = Written'
  OBVIOUS
<1>4. p \in Nat /\ p >= 1 /\ w \in Nat
  <2>1. PICK a, e, n, h : a = at' /\ e = stop' /\ n = Len(out') /\ h = Held(pend')
    OBVIOUS
  <2>2. IsText(out') /\ at' \in Nat \ {0} /\ stop' \in Nat
    BY <1>1 DEF Bounds
  <2>3. Len(out') \in Nat
    BY <2>2, TextLength
  <2>4. Held(pend') \in Nat
    BY DEF Held
  <2>5. a \in Nat /\ a >= 1 /\ e \in Nat /\ n \in Nat /\ h \in Nat
    BY <2>1, <2>2, <2>3, <2>4
  <2>6. p = Min2(a, e + 1) /\ w = n + h
    BY <1>3, <2>1 DEF Place, Written
  <2> QED BY <2>5, <2>6 DEF Min2
<1>5. PICK j \in Nat : j = Place - 1
  BY <1>2
<1>6. PICK k \in Nat : k = p - 1
  BY <1>4
<1>7. j <= k
  <2>1. p > Place \/ p = Place
    BY <1>1, <1>3
  <2> QED BY <1>2, <1>4, <1>5, <1>6, <2>1
<1>9. /\ Cardinality(Costs(j)) \in Nat /\ Cardinality(Costs(k)) \in Nat
      /\ Cardinality(Costs(j)) <= Cardinality(Costs(k))
      /\ j < k /\ text[k] \in Costly => Cardinality(Costs(j)) + 1 <= Cardinality(Costs(k))
  BY <1>7, CostsGrow
<1>10. Written <= j + Cardinality(Costs(j))
  BY <1>5 DEF Allowed
<1>11. w <= k + Cardinality(Costs(k))
  <2>1. CASE Free
    <3>1. w - Written <= p - Place + 0
      BY <1>3, <2>1 DEF Free, Goes
    <3> QED BY <1>2, <1>4, <1>5, <1>6, <1>9, <1>10, <3>1
  <2>2. CASE Paid
    <3>1. w - Written <= p - Place + 1
      BY <1>3, <2>2 DEF Paid, Goes
    <3>2. at <= stop /\ at' = at + 1 /\ stop' = stop /\ text[at] \in Costly
      BY <2>2 DEF Paid
    <3>3. Place = at /\ p = at + 1
      BY <1>3, <3>2 DEF Place, Min2, Bounds
    <3>4. k = at /\ j < k
      BY <1>5, <1>6, <3>3 DEF Bounds
    <3>5. Cardinality(Costs(j)) + 1 <= Cardinality(Costs(k))
      BY <1>9, <3>2, <3>4
    <3> QED BY <1>2, <1>4, <1>5, <1>6, <1>9, <1>10, <3>1, <3>5
  <2> QED BY <2>1, <2>2
<1>12. Allowed'
  <2>1. /\ k = Place' - 1 /\ Written' <= k + Cardinality(Costs(k))
        /\ text' = text /\ Costly' = Costly
    BY <1>1, <1>3, <1>6, <1>11 DEF Costly
  <2> QED BY <2>1 DEF Allowed, Costs
<1> QED BY <1>1, <1>12
-----------------------------------------------------------------------------
(* The invariant holds where a call begins. *)
LEMMA InitInvariant ==
  ASSUME Init
  PROVE  IInv
<1>1. PICK language \in DOMAIN Inputs : call \in Inputs[language]
  BY Zenon DEF Init
<1>2. call.lang \in Languages /\ call.text \in Seq(STRING)
  BY <1>1, InputsAssumption
<1>3. /\ text = call.text /\ opts = call.opts /\ lang = call.lang /\ at = 1 /\ stop = Len(text)
      /\ out = <<>> /\ from = 0 /\ pend = FALSE /\ st = First(lang)
  BY Zenon DEF Init, Begin
<1>4. IsText(text) /\ IsText(out) /\ Len(out) = 0 /\ Len(text) \in Nat
  <2>1. IsText(text)
    BY <1>2, <1>3 DEF IsText
  <2> QED BY <1>3, <2>1, ShortTexts, TextLength
<1>5. pend \in BOOLEAN /\ Held(pend) = 0
  BY <1>3 DEF Held
<1>6. Bounds
  BY <1>3, <1>4, <1>5 DEF Bounds
<1>7. lang \in {"json", "js", "html", "sql", "cypher", "lua", "yaml"}
  BY <1>2, <1>3 DEF Languages
<1>8. Locals
  <2>1. CASE lang = "json"
    <3>1. st = JsonStart
      BY <1>3, <2>1, Zenon DEF First
    <3>2. "caller" \in DOMAIN st /\ st.caller = Nobody
      BY <3>1 DEF JsonStart
    <3> QED BY <2>1, <3>2 DEF Locals
  <2>2. CASE lang = "js"
    <3>1. st = JsStart
      BY <1>3, <2>2, Zenon DEF First
    <3>2. "caller" \in DOMAIN st
      BY <3>1, Zenon DEF JsStart
    <3>3. st.caller = Nobody
      BY <3>1, Zenon DEF JsStart
    <3> QED BY <2>2, <3>2, <3>3 DEF Locals
  <2>3. CASE lang = "html"
    <3>1. st = HtmlStart
      BY <1>3, <2>3, Zenon DEF First
    <3>2. InMarkup(st)
      BY <3>1 DEF HtmlStart, InMarkup
    <3> QED BY <1>3, <2>3, <3>2 DEF Locals
  <2>4. CASE lang = "lua"
    <3>1. st = LuaStart
      BY <1>3, <2>4, Zenon DEF First
    <3>2. st.state = "normal"
      BY <3>1 DEF LuaStart
    <3>3. LuaDirectives
      BY <3>2, Zenon DEF LuaDirectives
    <3> QED BY <1>3, <2>4, <3>3 DEF Locals
  <2>5. CASE lang \in {"sql", "cypher", "yaml"}
    BY <2>5 DEF Locals
  <2> QED BY <1>7, <2>1, <2>2, <2>3, <2>4, <2>5
<1>9. Place = 1 /\ Written = 0
  BY <1>3, <1>4, <1>5 DEF Place, Min2, Written
<1>10. Costs(0) = {}
  BY DEF Costs
<1>11. Allowed
  <2>1. Cardinality({}) = 0
    BY FS_EmptySet
  <2>2. Place - 1 = 0
    BY <1>9
  <2> QED BY <1>9, <1>10, <2>1, <2>2 DEF Allowed
<1> QED BY <1>6, <1>8, <1>11 DEF IInv

(* Every step keeps it. *)
LEMMA StepInvariant ==
  ASSUME IInv, [Next]_vars
  PROVE  IInv'
<1>1. CASE UNCHANGED vars \/ Terminated
  <2>1. UNCHANGED vars
    BY <1>1, Zenon DEF Terminated
  <2>2. UNCHANGED <<lang, text, at, stop, out, from, pend, st, opts, call>>
    BY <2>1 DEF vars, scanVars
  <2>3. Bounds' /\ Locals'
    BY <2>2 DEF IInv, Bounds, Locals, LuaDirectives, InMarkup
  <2>4. Allowed'
    BY <2>2 DEF IInv, Allowed, Written, Held, Place, Costs, Costly
  <2> QED BY <2>3, <2>4 DEF IInv
<1>2. CASE Next /\ ~Terminated
  <2>1. (Free \/ Paid) /\ Locals' /\ call' = call
    BY <1>2, EveryStep DEF IInv
  <2> QED BY <2>1, StepAllowed DEF IInv
<1> QED BY <1>1, <1>2

(* IInv is an invariant of the calls. *)
LEMMA Invariant == Spec => []IInv
<1>1. Init => IInv
  BY InitInvariant
<1>2. IInv /\ [Next]_vars => IInv'
  BY StepInvariant
<1> QED BY <1>1, <1>2, PTL DEF Spec
-----------------------------------------------------------------------------
(* Every loop of every minifier makes progress: a round goes on to a later *)
(* place of the text, or stays and gives way to a loop further out.  No    *)
(* comment, literal or tag, closed or not, is scanned for ever.            *)
THEOREM EveryRoundMovesOn == Spec => MovesOn
<1>1. IInv /\ [Next]_vars => [Place' > Place \/ (Place' = Place /\ Rank' < Rank)]_vars
  <2> SUFFICES ASSUME IInv, Next, ~UNCHANGED vars
               PROVE  Place' > Place \/ (Place' = Place /\ Rank' < Rank)
    OBVIOUS
  <2>1. ~Terminated
    BY Zenon DEF Terminated
  <2>2. Free \/ Paid
    BY <2>1, EveryStep DEF IInv
  <2> QED BY <2>2 DEF Free, Paid, Goes
<1> QED BY <1>1, Invariant, PTL DEF Spec, MovesOn

OneSpaceMore == Len(out) <= Len(text) + Cardinality(Costs(Len(text)))

(* What is written is never longer than the text and one space for each of *)
(* its symbols that cost one: write_char drops what goes beyond the text.  *)
THEOREM NothingElseGrows == Spec => []OneSpaceMore
<1>1. IInv => OneSpaceMore
  <2> SUFFICES ASSUME IInv PROVE OneSpaceMore
    OBVIOUS
  <2>1. Bounds /\ Allowed
    BY DEF IInv
  <2>2. Place \in Nat /\ Place >= 1 /\ Place <= Len(text) + 1 /\ Written \in Nat
    BY <2>1, PlaceInText
  <2>3. Len(text) \in Nat /\ Len(out) \in Nat /\ Held(pend) \in Nat
    BY <2>1, TextLength DEF Bounds, Held
  <2>4a. PICK j \in Nat : j = Place - 1
    BY <2>2
  <2>4b. PICK k \in Nat : k = Len(text)
    BY <2>3
  <2>4. j = Place - 1 /\ k = Len(text)
    BY <2>4a, <2>4b
  <2>5. j <= k
    BY <2>2, <2>3, <2>4
  <2>6. /\ Cardinality(Costs(j)) \in Nat /\ Cardinality(Costs(k)) \in Nat
        /\ Cardinality(Costs(j)) <= Cardinality(Costs(k))
    BY <2>5, CostsGrow
  <2>7. Written <= j + Cardinality(Costs(j))
    BY <2>1, <2>4 DEF Allowed
  <2>8. Len(out) <= k + Cardinality(Costs(k))
    BY <2>3, <2>4, <2>5, <2>6, <2>7 DEF Written
  <2> QED BY <2>4, <2>8 DEF OneSpaceMore
<1> QED BY <1>1, Invariant, PTL

NothingCostly == call.lang # "html" /\ ~(call.lang = "lua" /\ "keep_directives" \in opts)

(* The other minifiers never write more than the buffer of the result      *)
(* holds, so that write_char drops nothing: all but minify_markup and, if  *)
(* directives are kept, minify_lua.                                        *)
THEOREM PlainTextsFit == Spec => [](NothingCostly => FitsItsBuffer)
<1>1. OneSpaceMore => (NothingCostly => FitsItsBuffer)
  <2> SUFFICES ASSUME OneSpaceMore, NothingCostly PROVE FitsItsBuffer
    OBVIOUS
  <2>1. Costly = {}
    BY Zenon DEF NothingCostly, Costly
  <2>2. Costs(Len(text)) = {}
    BY <2>1 DEF Costs
  <2>3. Cardinality({}) = 0
    BY FS_EmptySet
  <2> QED BY <2>2, <2>3 DEF OneSpaceMore, FitsItsBuffer
<1> QED BY <1>1, NothingElseGrows, PTL
=============================================================================
