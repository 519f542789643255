-------------------------- MODULE TrieIndexProofs --------------------------
(***************************************************************************)
(* What the compressed trie guarantees for every key list its              *)
(* static_asserts let through: the recursion stays within its arrays and   *)
(* narrow types, and a lookup answers the index of its key and no other.   *)
(***************************************************************************)
EXTENDS TrieIndex, FiniteSetTheorems, WellFoundedInduction, TLAPS

LEMMA LeastElement ==
  ASSUME NEW S \in SUBSET Nat, S # {}
  PROVE  \E m \in S : \A n \in S : m <= n
<1>1. PICK m \in S : \A n \in S : ~(<<n, m>> \in OpToRel(<, Nat))
  BY NatLessThanWellFounded, WFMin
<1>2. ASSUME NEW n \in S
      PROVE  m <= n
  <2>1. m \in Nat /\ n \in Nat
    OBVIOUS
  <2>2. ~(n < m)
    BY <1>1, <2>1 DEF OpToRel
  <2> QED
    BY <2>1, <2>2
<1> QED
  BY <1>2

LEMMA GreatestElement ==
  ASSUME NEW S \in SUBSET Nat, S # {}, NEW top \in Nat, \A n \in S : n <= top
  PROVE  \E m \in S : \A n \in S : n <= m
<1> DEFINE R == {top - n : n \in S}
<1>1. \A n \in S : top - n \in Nat
  OBVIOUS
<1>2. R \in SUBSET Nat /\ R # {}
  BY <1>1
<1>3. PICK r \in R : \A q \in R : r <= q
  <2> HIDE DEF R
  <2> QED
    BY <1>2, LeastElement
<1>4. PICK m \in S : r = top - m
  BY <1>3
<1>5. ASSUME NEW n \in S
      PROVE  n <= m
  <2>1. r <= top - n
    BY <1>3
  <2>2. n \in Nat /\ m \in Nat
    OBVIOUS
  <2> QED
    BY <1>4, <2>1, <2>2
<1> QED
  BY <1>5
-----------------------------------------------------------------------------
(* The shape of the state.                                                 *)
FlatNode == [label_offset : Nat, label_length : Nat, first_child : Nat, child_count : Nat,
             value_index : Int]
Frame == [node : Nat, depth : Nat, left : SUBSET Numbers, g : Nat]

ShapeInv ==
  /\ keys \in KeyLists /\ StaticAsserts(keys)
  /\ nodes \in [0 .. MaxNodes - 1 -> FlatNode]
  /\ labels \in [0 .. MaxLabels - 1 -> Nat]
  /\ children \in [0 .. MaxChildren - 1 -> Nat]
  /\ next \in [node : Nat, label : Nat, child : Nat]
  /\ calls \in Seq(Frame)
  /\ find \in [active : BOOLEAN, asked : BOOLEAN, key : Seq(Nat), pos : Nat, node : Nat, answer : Nat]

LEMMA KeyFacts ==
  ASSUME keys \in KeyLists, StaticAsserts(keys)
  PROVE  /\ Len(keys) \in Nat \ {0} /\ Numbers = 1 .. Len(keys)
         /\ 2 * Len(keys) <= Byte - 2
         /\ \A i \in Numbers : keys[i] \in Seq(Nat) /\ Len(keys[i]) \in Nat /\ Len(keys[i]) <= Byte - 1
         /\ \A i, j \in Numbers : keys[i] = keys[j] => i = j
         /\ IsFiniteSet(Numbers)
<1>1. keys \in Seq(Seq(Nat)) /\ Byte \in Nat \ {0}
  BY TrieAssumption
<1>2. Numbers = 1 .. Len(keys) /\ Len(keys) \in Nat
  BY <1>1 DEF Numbers
<1>3. keys # <<>> /\ Len(keys) <= Byte \div 2 - 1
  BY DEF StaticAsserts
<1>4. Len(keys) # 0
  BY <1>1, <1>3
<1>5. 2 * (Byte \div 2) <= Byte /\ Byte \div 2 \in Nat
  BY <1>1
<1>6. 2 * Len(keys) <= Byte - 2
  <2> DEFINE half == Byte \div 2
  <2>1. half \in Nat /\ 2 * half <= Byte /\ Len(keys) <= half - 1
    BY <1>3, <1>5
  <2> HIDE DEF half
  <2> QED
    BY <1>1, <1>2, <2>1
<1>7. \A i \in Numbers : keys[i] \in Seq(Nat) /\ Len(keys[i]) \in Nat
  BY <1>1, <1>2
<1>8. \A i \in Numbers : Len(keys[i]) <= Byte - 1
  BY DEF StaticAsserts, Numbers
<1>9. \A i, j \in Numbers : keys[i] = keys[j] => i = j
  BY DEF StaticAsserts, Numbers, Distinct
<1>10. IsFiniteSet(Numbers)
  BY <1>2, FS_Interval
<1> QED
  BY <1>2, <1>4, <1>6, <1>7, <1>8, <1>9, <1>10

(* The narrow types hold what the static_asserts let through.              *)
LEMMA NarrowExact ==
  ASSUME NEW n \in Nat, n < Byte
  PROVE  Narrow(n) = n
BY TrieAssumption DEF Narrow

LEMMA SignedExact ==
  ASSUME NEW n \in Int, -1 <= n, n + 2 <= Byte \div 2
  PROVE  Signed(n) = n
<1> DEFINE half == Byte \div 2
<1>1. half \in Nat /\ 2 * half <= Byte /\ half >= 1 /\ n < half
  BY TrieAssumption
<1>2. Byte \in Nat \ {0}
  BY TrieAssumption
<1> SUFFICES (n + half) % Byte = n + half
  BY <1>1 DEF Signed
<1> HIDE DEF half
<1>3. n + half \in Nat /\ n + half < Byte
  BY <1>1, <1>2
<1>4. ASSUME NEW x \in Nat, x < Byte PROVE x % Byte = x
  BY <1>2, <1>4
<1> QED
  BY <1>3, <1>4

(* The first key of a group.                                               *)
LEMMA FirstIs ==
  ASSUME keys \in KeyLists, StaticAsserts(keys), NEW group \in SUBSET Numbers, group # {}
  PROVE  /\ First(group) \in group /\ First(group) \in Nat
         /\ \A j \in group : First(group) <= j
<1>1. group \in SUBSET Nat
  BY KeyFacts
<1>2. \E i \in group : \A j \in group : i <= j
  BY <1>1, LeastElement
<1> QED
  BY <1>1, <1>2 DEF First
-----------------------------------------------------------------------------
(* Two keys that agree on their first n characters, and the groups.        *)
Alike(i, j, n) == \A k \in 1 .. n : keys[i][k] = keys[j][k]

GroupOK(group, depth) ==
  /\ group \in SUBSET Numbers /\ group # {} /\ depth \in Nat
  /\ \A i \in group : depth <= Len(keys[i])
  /\ \A i, j \in group : Alike(i, j, depth)

(* longest_common_prefix: as long as can be.                               *)
LEMMA CommonPrefix ==
  ASSUME keys \in KeyLists, StaticAsserts(keys), NEW group, NEW depth, GroupOK(group, depth)
  PROVE  LET lcp == longest_common_prefix(group, depth)
         IN  /\ lcp \in Nat /\ Shared(group, depth, lcp)
             /\ \A m \in Nat : Shared(group, depth, m) => m <= lcp
<1>1. /\ First(group) \in group /\ First(group) \in Numbers
      /\ Len(keys[First(group)]) \in Nat /\ depth \in Nat /\ depth <= Len(keys[First(group)])
  BY FirstIs, KeyFacts DEF GroupOK
<1> DEFINE room == Len(keys[First(group)]) - depth
           S == {m \in 0 .. room : Shared(group, depth, m)}
<1>2. room \in Nat
  BY <1>1
<1>3. \A m \in Nat : Shared(group, depth, m) => m \in S
  <2> SUFFICES ASSUME NEW m \in Nat, Shared(group, depth, m)
               PROVE  m <= room
    BY <1>2
  <2>1. depth + m <= Len(keys[First(group)])
    BY <1>1 DEF Shared
  <2> QED
    BY <1>1, <2>1
<1>4. Shared(group, depth, 0)
  <2>1. \A i \in group : depth + 0 <= Len(keys[i])
    BY <1>1 DEF GroupOK
  <2>2. depth + 1 .. depth + 0 = {}
    BY <1>1
  <2> QED
    BY <2>1, <2>2 DEF Shared
<1>5. S \in SUBSET Nat /\ S # {} /\ \A m \in S : m <= room
  BY <1>2, <1>3, <1>4
<1>6. \E n \in S : \A m \in S : m <= n
  <2> HIDE DEF S, room
  <2> QED
    BY <1>2, <1>5, GreatestElement
<1>7. \E n \in 0 .. room : /\ Shared(group, depth, n)
                           /\ \A m \in 0 .. room : Shared(group, depth, m) => m <= n
  BY <1>6
<1> DEFINE lcp == longest_common_prefix(group, depth)
<1>8. /\ lcp \in 0 .. room /\ Shared(group, depth, lcp)
      /\ \A m \in 0 .. room : Shared(group, depth, m) => m <= lcp
  BY <1>7 DEF longest_common_prefix
<1> QED
  BY <1>2, <1>3, <1>8
(* What a call of build_trie_impl makes of its group.                      *)
Deep(group, depth) == depth + longest_common_prefix(group, depth)
Rest(group, depth) == Remaining(group, Deep(group, depth))
Value(group, depth) == ConsumedValue(group, Deep(group, depth))

LEMMA Label ==
  ASSUME keys \in KeyLists, StaticAsserts(keys), NEW group, NEW depth, GroupOK(group, depth)
  PROVE  /\ longest_common_prefix(group, depth) \in Nat
         /\ Deep(group, depth) \in Nat /\ depth <= Deep(group, depth)
         /\ Deep(group, depth) <= Byte - 1
         /\ \A i \in group : Deep(group, depth) <= Len(keys[i])
         /\ \A i, j \in group : Alike(i, j, Deep(group, depth))
         /\ \A i \in group : \A k \in depth + 1 .. Deep(group, depth) :
              keys[First(group)][k] = keys[i][k]
<1> DEFINE lcp == longest_common_prefix(group, depth)
<1>1. lcp \in Nat /\ Shared(group, depth, lcp) /\ depth \in Nat
  BY CommonPrefix DEF GroupOK
<1>2. /\ First(group) \in group
      /\ \A i \in group : depth + lcp <= Len(keys[i]) /\ Len(keys[i]) \in Nat /\ Len(keys[i]) <= Byte - 1
      /\ \A i \in group : \A k \in depth + 1 .. depth + lcp : keys[i][k] = keys[First(group)][k]
  BY <1>1, FirstIs, KeyFacts DEF GroupOK, Shared
<1>3. Deep(group, depth) = depth + lcp
  BY DEF Deep
<1> HIDE DEF lcp
<1>4. depth + lcp \in Nat /\ depth <= depth + lcp /\ depth + lcp <= Byte - 1
  BY <1>1, <1>2, TrieAssumption
<1>5. ASSUME NEW i \in group, NEW j \in group, NEW k \in 1 .. depth + lcp
      PROVE  keys[i][k] = keys[j][k]
  <2>1. CASE k <= depth
    <3>1. k \in 1 .. depth
      BY <1>1, <2>1
    <3> QED
      BY <3>1 DEF GroupOK, Alike
  <2>2. CASE ~(k <= depth)
    <3>1. k \in depth + 1 .. depth + lcp
      BY <1>1, <2>2
    <3> QED
      BY <1>2, <3>1
  <2> QED
    BY <2>1, <2>2
<1>6. lcp = longest_common_prefix(group, depth)
  BY DEF lcp
<1> QED
  BY <1>1, <1>2, <1>3, <1>4, <1>5, <1>6 DEF Alike

LEMMA Consumed ==
  ASSUME keys \in KeyLists, StaticAsserts(keys), NEW group, NEW depth, GroupOK(group, depth)
  PROVE  /\ Rest(group, depth) \subseteq group
         /\ \A i \in group : i \in Rest(group, depth) <=> Len(keys[i]) # Deep(group, depth)
         /\ \A i \in group : i \in Rest(group, depth) <=> Len(keys[i]) > Deep(group, depth)
         /\ \A i, j \in group \ Rest(group, depth) : i = j
         /\ \A i \in group \ Rest(group, depth) : Value(group, depth) = i - 1
         /\ Rest(group, depth) = group => Value(group, depth) = -1
<1> DEFINE deep == Deep(group, depth)
<1>1. deep \in Nat /\ \A i \in group : deep <= Len(keys[i]) /\ Len(keys[i]) \in Nat
  BY Label, KeyFacts DEF GroupOK
<1>2. Rest(group, depth) = {i \in group : Len(keys[i]) > deep}
  BY DEF Rest, Remaining
<1>3. \A i, j \in group : Alike(i, j, deep)
  BY Label
<1>4. Value(group, depth) = ConsumedValue(group, deep)
  BY DEF Value
<1> HIDE DEF deep
<1>5. \A i \in group : i \in Rest(group, depth) <=> Len(keys[i]) # deep
  BY <1>1, <1>2
<1>6. ASSUME NEW i \in group, NEW j \in group, Len(keys[i]) = deep, Len(keys[j]) = deep
      PROVE  i = j
  <2>1. keys[i] \in Seq(Nat) /\ keys[j] \in Seq(Nat)
    BY KeyFacts DEF GroupOK
  <2>2. \A k \in 1 .. deep : keys[i][k] = keys[j][k]
    BY <1>3 DEF Alike
  <2>3. keys[i] = keys[j]
    BY <1>1, <1>6, <2>1, <2>2
  <2> QED
    BY <2>3, KeyFacts DEF GroupOK
<1> DEFINE consumed == {i \in group : Len(keys[i]) = deep}
<1>7. consumed = group \ Rest(group, depth)
  BY <1>5
<1>8. ASSUME NEW i \in consumed
      PROVE  Value(group, depth) = i - 1
  <2>1. consumed = {i} /\ i \in Nat
    BY <1>6, <1>8, KeyFacts DEF GroupOK
  <2>2. CASE First(group) \in consumed
    <3>1. First(group) = i
      BY <2>1, <2>2
    <3> QED
      BY <1>4, <2>2, <3>1 DEF ConsumedValue
  <2>3. CASE First(group) \notin consumed
    <3>1. Last(consumed) = i
      BY <2>1 DEF Last
    <3>2. ConsumedValue(group, deep) = Last(consumed) - 1
      BY <2>1, <2>3 DEF ConsumedValue
    <3> QED
      BY <1>4, <3>1, <3>2
  <2> QED
    BY <2>2, <2>3
<1>9. ASSUME Rest(group, depth) = group
      PROVE  Value(group, depth) = -1
  <2>1. consumed = {}
    BY <1>7, <1>9
  <2> QED
    BY <1>4, <2>1 DEF ConsumedValue
<1>10. \A i, j \in group \ Rest(group, depth) : i = j
  BY <1>5, <1>6
<1>11. \A i \in group \ Rest(group, depth) : Value(group, depth) = i - 1
  BY <1>7, <1>8
<1>12. deep = Deep(group, depth)
  BY DEF deep
<1> QED
  BY <1>2, <1>5, <1>9, <1>10, <1>11, <1>12

(* A common prefix that uses up no key ends before different characters;   *)
(* that of a group with a common next character is not empty.              *)
LEMMA PrefixEnds ==
  ASSUME keys \in KeyLists, StaticAsserts(keys), NEW group, NEW depth, GroupOK(group, depth),
         Rest(group, depth) = group
  PROVE  \E i, j \in group :
           keys[i][Deep(group, depth) + 1] # keys[j][Deep(group, depth) + 1]
<1> SUFFICES ASSUME \A i, j \in group :
                      keys[i][Deep(group, depth) + 1] = keys[j][Deep(group, depth) + 1]
             PROVE  FALSE
  OBVIOUS
<1> DEFINE lcp == longest_common_prefix(group, depth)
<1>1. lcp \in Nat /\ \A m \in Nat : Shared(group, depth, m) => m <= lcp
  BY CommonPrefix
<1>2. depth \in Nat /\ First(group) \in group
  BY FirstIs DEF GroupOK
<1>3. Deep(group, depth) = depth + lcp
  BY DEF Deep
<1>4. \A i \in group : Len(keys[i]) > depth + lcp /\ Len(keys[i]) \in Nat
  <2>1. \A i \in group : Len(keys[i]) > Deep(group, depth)
    BY Consumed
  <2>2. \A i \in group : Len(keys[i]) \in Nat
    BY KeyFacts DEF GroupOK
  <2> QED
    BY <1>3, <2>1, <2>2
<1>5. \A i \in group : \A k \in depth + 1 .. depth + lcp : keys[First(group)][k] = keys[i][k]
  BY <1>3, Label
<1> HIDE DEF lcp
<1>6. ASSUME NEW i \in group
      PROVE  /\ depth + (lcp + 1) <= Len(keys[i])
             /\ \A k \in depth + 1 .. depth + (lcp + 1) : keys[i][k] = keys[First(group)][k]
  <2>1. depth + (lcp + 1) <= Len(keys[i])
    BY <1>1, <1>2, <1>4
  <2>2. ASSUME NEW k \in depth + 1 .. depth + (lcp + 1)
        PROVE  keys[i][k] = keys[First(group)][k]
    <3>1. k \in depth + 1 .. depth + lcp \/ k = depth + lcp + 1
      BY <1>1, <1>2
    <3> QED
      BY <1>2, <1>3, <1>5, <3>1
  <2> QED
    BY <2>1, <2>2
<1>7. Shared(group, depth, lcp + 1)
  BY <1>6 DEF Shared
<1>8. lcp + 1 \in Nat
  BY <1>1
<1>9. lcp + 1 <= lcp
  BY <1>1, <1>7, <1>8
<1> QED
  BY <1>1, <1>9

LEMMA PrefixBegins ==
  ASSUME keys \in KeyLists, StaticAsserts(keys), NEW group, NEW depth, GroupOK(group, depth),
         \A i \in group : Len(keys[i]) > depth,
         \A i, j \in group : keys[i][depth + 1] = keys[j][depth + 1]
  PROVE  longest_common_prefix(group, depth) > 0
<1>1. depth \in Nat /\ First(group) \in group
  BY FirstIs DEF GroupOK
<1>2. \A i \in group : depth + 1 <= Len(keys[i])
  BY <1>1, KeyFacts DEF GroupOK
<1>3. depth + 1 .. depth + 1 = {depth + 1}
  BY <1>1
<1>4. Shared(group, depth, 1)
  BY <1>1, <1>2, <1>3 DEF Shared
<1>5. longest_common_prefix(group, depth) \in Nat /\ 1 <= longest_common_prefix(group, depth)
  BY <1>4, CommonPrefix
<1> QED
  BY <1>5
-----------------------------------------------------------------------------
(* The calls under way: the keys each of them has still to hand on.        *)
FramesOK(stack) ==
  /\ stack \in Seq(Frame)
  /\ \A p \in DOMAIN stack :
       /\ \A i \in stack[p].left : Len(keys[i]) > stack[p].depth
       /\ \A i, j \in stack[p].left : Alike(i, j, stack[p].depth)
  /\ \A p, q \in DOMAIN stack : p # q => stack[p].left \cap stack[q].left = {}

Entering(group, depth, callers) ==
  /\ FramesOK(callers) /\ GroupOK(group, depth)
  /\ \A p \in DOMAIN callers : callers[p].left \cap group = {}

NewFrame(group, depth) ==
  [node |-> next.node, depth |-> Deep(group, depth), left |-> Rest(group, depth), g |-> 0]

LEMMA Appended ==
  ASSUME NEW S, NEW stack \in Seq(S), NEW x \in S
  PROVE  /\ Append(stack, x) \in Seq(S)
         /\ Len(stack) \in Nat /\ Len(Append(stack, x)) = Len(stack) + 1
         /\ DOMAIN stack = 1 .. Len(stack) /\ DOMAIN Append(stack, x) = 1 .. Len(stack) + 1
         /\ \A p \in DOMAIN stack : p # Len(stack) + 1 /\ Append(stack, x)[p] = stack[p]
         /\ Append(stack, x)[Len(stack) + 1] = x
         /\ \A p \in DOMAIN Append(stack, x) : p \in DOMAIN stack \/ p = Len(stack) + 1
OBVIOUS

LEMMA Fronted ==
  ASSUME NEW S, NEW stack \in Seq(S), stack # <<>>
  PROVE  LET front == SubSeq(stack, 1, Len(stack) - 1)
         IN  /\ Len(stack) \in Nat /\ Len(stack) >= 1 /\ DOMAIN stack = 1 .. Len(stack)
             /\ front \in Seq(S) /\ Len(front) = Len(stack) - 1 /\ DOMAIN front = 1 .. Len(stack) - 1
             /\ \A p \in 1 .. Len(stack) - 1 : front[p] = stack[p]
<1> DEFINE n == Len(stack)
<1>1. n \in Nat /\ n # 0 /\ DOMAIN stack = 1 .. n
  OBVIOUS
<1>2. n - 1 \in Nat /\ n >= 1
  BY <1>1
<1>3. \A p \in 1 .. n - 1 : p \in 1 .. n
  BY <1>1
<1> DEFINE front == SubSeq(stack, 1, n - 1)
<1>4. front \in Seq(S) /\ Len(front) = n - 1 /\ DOMAIN front = 1 .. n - 1
  BY <1>1, <1>2, <1>3, SMTT(40)
<1>5. \A p \in 1 .. n - 1 : front[p] = stack[p]
  BY <1>1, <1>2, <1>3
<1> QED
  BY <1>1, <1>2, <1>4, <1>5

LEMMA Replaced ==
  ASSUME NEW S, NEW stack \in Seq(S), NEW p \in DOMAIN stack, NEW x \in S
  PROVE  LET other == [stack EXCEPT ![p] = x]
         IN  /\ other \in Seq(S) /\ Len(other) = Len(stack) /\ DOMAIN other = DOMAIN stack
             /\ other[p] = x /\ \A q \in DOMAIN stack : q # p => other[q] = stack[q]
OBVIOUS

LEMMA EnterFrames ==
  ASSUME keys \in KeyLists, StaticAsserts(keys), next.node \in Nat,
         NEW group, NEW depth, NEW callers, Entering(group, depth, callers)
  PROVE  /\ NewFrame(group, depth) \in Frame
         /\ FramesOK(Append(callers, NewFrame(group, depth)))
<1> DEFINE new == NewFrame(group, depth)
           stack == Append(callers, new)
<1>1. /\ new.depth = Deep(group, depth) /\ new.left = Rest(group, depth)
      /\ Rest(group, depth) \subseteq group /\ group \subseteq Numbers
      /\ Deep(group, depth) \in Nat
  BY Label, Consumed DEF NewFrame, Entering, GroupOK
<1>2. new \in Frame
  BY <1>1 DEF NewFrame, Frame
<1>3. callers \in Seq(Frame)
  BY DEF Entering, FramesOK
<1>4. \A i \in Rest(group, depth) : Len(keys[i]) > Deep(group, depth)
  BY <1>1, Consumed DEF Entering
<1>5. \A i, j \in Rest(group, depth) : Alike(i, j, Deep(group, depth))
  BY <1>1, Label DEF Entering
<1> HIDE DEF new
<1>6. /\ stack \in Seq(Frame)
      /\ \A p \in DOMAIN callers : p # Len(callers) + 1 /\ stack[p] = callers[p]
      /\ stack[Len(callers) + 1] = new
      /\ \A p \in DOMAIN stack : p \in DOMAIN callers \/ p = Len(callers) + 1
  BY <1>2, <1>3, Appended
<1> HIDE DEF stack
<1>7. ASSUME NEW p \in DOMAIN stack
      PROVE  /\ \A i \in stack[p].left : Len(keys[i]) > stack[p].depth
             /\ \A i, j \in stack[p].left : Alike(i, j, stack[p].depth)
  BY <1>1, <1>4, <1>5, <1>6 DEF Entering, FramesOK
<1>8. \A p, q \in DOMAIN stack : p # q => stack[p].left \cap stack[q].left = {}
  BY <1>1, <1>6 DEF Entering, FramesOK
<1>9. FramesOK(stack)
  BY <1>6, <1>7, <1>8 DEF FramesOK
<1> QED
  BY <1>2, <1>9 DEF stack, new

(* The group that the innermost call hands on.                             *)
Callers == [calls EXCEPT ![Len(calls)].left = @ \ NextGroup(Innermost)]

LEMMA HandedOn ==
  ASSUME calls \in Seq(Frame), calls # <<>>
  PROVE  /\ Len(calls) \in DOMAIN calls /\ Len(calls) \in Nat /\ Innermost \in Frame
         /\ Callers \in Seq(Frame) /\ DOMAIN Callers = DOMAIN calls /\ Len(Callers) = Len(calls)
         /\ NextGroup(Innermost) \subseteq Innermost.left
         /\ Callers[Len(calls)] = [Innermost EXCEPT !.left = @ \ NextGroup(Innermost)]
         /\ \A p \in DOMAIN calls : p # Len(calls) => Callers[p] = calls[p]
<1>1. /\ Len(calls) \in DOMAIN calls /\ Len(calls) \in Nat /\ DOMAIN calls = 1 .. Len(calls)
      /\ Innermost = calls[Len(calls)] /\ Innermost \in Frame
  BY DEF Innermost
<1>2. NextGroup(Innermost) \subseteq Innermost.left
  BY DEF NextGroup
<1> DEFINE less == [Innermost EXCEPT !.left = @ \ NextGroup(Innermost)]
<1>3. less \in Frame
  BY <1>1, <1>2 DEF Frame
<1>4. Callers = [calls EXCEPT ![Len(calls)] = less]
  BY <1>1 DEF Callers
<1> HIDE DEF less
<1>5. /\ Callers \in Seq(Frame) /\ DOMAIN Callers = DOMAIN calls /\ Len(Callers) = Len(calls)
      /\ Callers[Len(calls)] = less
      /\ \A p \in DOMAIN calls : p # Len(calls) => Callers[p] = calls[p]
  BY <1>1, <1>3, <1>4
<1> QED
  BY <1>1, <1>2, <1>5 DEF less

LEMMA BuildChildEnters ==
  ASSUME keys \in KeyLists, StaticAsserts(keys), FramesOK(calls), calls # <<>>, Innermost.left # {}
  PROVE  /\ Entering(NextGroup(Innermost), Innermost.depth, Callers)
         /\ \A i \in NextGroup(Innermost) : Len(keys[i]) > Innermost.depth
         /\ \A i, j \in NextGroup(Innermost) :
              keys[i][Innermost.depth + 1] = keys[j][Innermost.depth + 1]
         /\ \A i \in NextGroup(Innermost) : \A j \in Innermost.left :
              keys[i][Innermost.depth + 1] = keys[j][Innermost.depth + 1]
                => j \in NextGroup(Innermost)
<1> DEFINE group == NextGroup(Innermost)
           depth == Innermost.depth
<1>1. /\ Len(calls) \in DOMAIN calls /\ Innermost \in Frame
      /\ Callers \in Seq(Frame) /\ DOMAIN Callers = DOMAIN calls
      /\ Callers[Len(calls)] = [Innermost EXCEPT !.left = @ \ group]
      /\ \A p \in DOMAIN calls : p # Len(calls) => Callers[p] = calls[p]
      /\ Innermost = calls[Len(calls)]
  BY HandedOn DEF FramesOK, Innermost
<1>2. /\ Innermost.left \in SUBSET Numbers /\ depth \in Nat
      /\ \A i \in Innermost.left : Len(keys[i]) > depth
      /\ \A i, j \in Innermost.left : Alike(i, j, depth)
  BY <1>1 DEF Frame, FramesOK
<1>3. First(Innermost.left) \in Innermost.left
  BY <1>2, FirstIs
<1>4. group = {i \in Innermost.left : keys[i][depth + 1] = keys[First(Innermost.left)][depth + 1]}
  BY DEF NextGroup
<1>5. /\ Callers[Len(calls)].left = Innermost.left \ group
      /\ Callers[Len(calls)].depth = depth
  BY <1>1 DEF Frame
<1> HIDE DEF group, depth
<1>6. \A i \in Innermost.left : depth <= Len(keys[i])
  BY <1>2, KeyFacts
<1>7. GroupOK(group, depth)
  BY <1>2, <1>3, <1>4, <1>6 DEF GroupOK
<1>8. \A p \in DOMAIN calls : Callers[p].left \subseteq calls[p].left /\ Callers[p].depth = calls[p].depth
  BY <1>1, <1>5 DEF depth
<1>9. FramesOK(Callers)
  BY <1>1, <1>8 DEF FramesOK
<1>10. \A p \in DOMAIN Callers : Callers[p].left \cap group = {}
  BY <1>1, <1>4, <1>5, <1>8 DEF FramesOK
<1>11. Entering(group, depth, Callers)
  BY <1>7, <1>9, <1>10 DEF Entering
<1>12. \A i \in group : Len(keys[i]) > depth
  BY <1>2, <1>4
<1>13. \A i, j \in group : keys[i][depth + 1] = keys[j][depth + 1]
  BY <1>4
<1>14. \A i \in group : \A j \in Innermost.left : keys[i][depth + 1] = keys[j][depth + 1] => j \in group
  BY <1>4
<1> QED
  BY <1>11, <1>12, <1>13, <1>14 DEF group, depth

(* The calls that are left when the innermost one returns.                 *)
Back == [SubSeq(calls, 1, Len(calls) - 1) EXCEPT ![Len(calls) - 1].g = @ + 1]

LEMMA GoneBack ==
  ASSUME calls \in Seq(Frame), calls # <<>>, Len(calls) # 1
  PROVE  /\ Back \in Seq(Frame) /\ DOMAIN Back = 1 .. Len(calls) - 1 /\ DOMAIN calls = 1 .. Len(calls)
         /\ Len(calls) \in Nat /\ Len(calls) > 1 /\ Len(Back) = Len(calls) - 1
         /\ Back[Len(calls) - 1] = [calls[Len(calls) - 1] EXCEPT !.g = @ + 1]
         /\ \A p \in DOMAIN Back : p # Len(calls) - 1 => Back[p] = calls[p]
         /\ \A p \in DOMAIN Back : p \in DOMAIN calls /\ Back[p].left = calls[p].left
                                   /\ Back[p].depth = calls[p].depth /\ Back[p].node = calls[p].node
<1> DEFINE callers == SubSeq(calls, 1, Len(calls) - 1)
           more == [calls[Len(calls) - 1] EXCEPT !.g = @ + 1]
<1>1. /\ Len(calls) \in Nat /\ Len(calls) >= 1 /\ DOMAIN calls = 1 .. Len(calls)
      /\ callers \in Seq(Frame) /\ Len(callers) = Len(calls) - 1 /\ DOMAIN callers = 1 .. Len(calls) - 1
      /\ \A p \in 1 .. Len(calls) - 1 : callers[p] = calls[p]
  BY Fronted
<1> HIDE DEF callers
<1>2. Len(calls) > 1 /\ Len(calls) - 1 \in 1 .. Len(calls) - 1 /\ Len(calls) - 1 \in 1 .. Len(calls)
  BY <1>1
<1>3. calls[Len(calls) - 1] \in Frame
  BY <1>1, <1>2
<1>4. /\ more \in Frame /\ more.left = calls[Len(calls) - 1].left
      /\ more.depth = calls[Len(calls) - 1].depth /\ more.node = calls[Len(calls) - 1].node
  <2>1. ASSUME NEW f \in Frame
        PROVE  LET m == [f EXCEPT !.g = @ + 1]
               IN  m \in Frame /\ m.left = f.left /\ m.depth = f.depth /\ m.node = f.node
    <3>1. f.g + 1 \in Nat
      BY DEF Frame
    <3> QED
      BY <3>1 DEF Frame
  <2> QED
    BY <1>3, <2>1
<1>5. Back = [callers EXCEPT ![Len(calls) - 1] = more]
  BY <1>1, <1>2 DEF Back, callers
<1> HIDE DEF more
<1>6. /\ Back \in Seq(Frame) /\ Len(Back) = Len(callers) /\ DOMAIN Back = DOMAIN callers
      /\ Back[Len(calls) - 1] = more
      /\ \A p \in DOMAIN callers : p # Len(calls) - 1 => Back[p] = callers[p]
  <2>1. Len(calls) - 1 \in DOMAIN callers
    BY <1>1, <1>2
  <2> DEFINE at == Len(calls) - 1
             other == [callers EXCEPT ![at] = more]
  <2> HIDE DEF at
  <2>2. /\ other \in Seq(Frame) /\ Len(other) = Len(callers) /\ DOMAIN other = DOMAIN callers
        /\ other[at] = more /\ \A p \in DOMAIN callers : p # at => other[p] = callers[p]
    <3>1. at \in DOMAIN callers /\ more \in Frame /\ callers \in Seq(Frame)
      BY <1>1, <1>4, <2>1 DEF at
    <3> HIDE DEF other
    <3> QED
      BY <3>1, Replaced DEF other
  <2> QED
    BY <1>5, <2>2 DEF at
<1>7. \A p \in DOMAIN Back : p \in DOMAIN calls
  BY <1>1, <1>6
<1>8. \A p \in DOMAIN Back : p # Len(calls) - 1 => Back[p] = calls[p]
  BY <1>1, <1>6
<1> QED
  BY <1>1, <1>2, <1>4, <1>6, <1>7, <1>8 DEF more

LEMMA ReturnFrames ==
  ASSUME FramesOK(calls), calls # <<>>, Len(calls) # 1
  PROVE  FramesOK(Back)
BY GoneBack DEF FramesOK
-----------------------------------------------------------------------------
(* The places of children.  Every key but the first pays for two at most:  *)
(* of a group that waits only the first key has paid.                      *)
Tokens == {1, 2} \X (Numbers \ {1})
Paid(token) == token[2]

PlacesTaken(stack, used) ==
  \A p \in DOMAIN stack : \A token \in used : Paid(token) \in stack[p].left =>
    \A j \in stack[p].left :
      keys[j][stack[p].depth + 1] = keys[Paid(token)][stack[p].depth + 1] => Paid(token) <= j

PlacesInv ==
  \E used \in SUBSET Tokens : next.child = Cardinality(used) /\ PlacesTaken(calls, used)

LEMMA CountUpTo ==
  ASSUME NEW n \in Nat
  PROVE  IsFiniteSet(1 .. n) /\ Cardinality(1 .. n) = n
<1>1. 1 \in Int /\ n \in Int
  OBVIOUS
<1>2. IsFiniteSet(1 .. n) /\ Cardinality(1 .. n) = IF 1 > n THEN 0 ELSE n - 1 + 1
  BY <1>1, FS_Interval
<1> QED
  BY <1>2

LEMMA TokensCount ==
  ASSUME keys \in KeyLists, StaticAsserts(keys)
  PROVE  /\ IsFiniteSet(Tokens) /\ Cardinality(Tokens) = 2 * Len(keys) - 2
         /\ \A used \in SUBSET Tokens : /\ IsFiniteSet(used) /\ Cardinality(used) \in Nat
                                        /\ Cardinality(used) <= 2 * Len(keys) - 2
<1>1. 1 \in Numbers /\ Numbers = 1 .. Len(keys) /\ Len(keys) \in Nat /\ IsFiniteSet(Numbers)
  BY KeyFacts
<1>2. Cardinality(Numbers) = Len(keys)
  BY <1>1, CountUpTo
<1>3. IsFiniteSet(Numbers \ {1}) /\ Cardinality(Numbers \ {1}) = Len(keys) - 1
  BY <1>1, <1>2, FS_RemoveElement, ZenonT(60)
<1>4. IsFiniteSet({1, 2}) /\ Cardinality({1, 2}) = 2
  <2>1. 1 .. 2 = {1, 2}
    OBVIOUS
  <2>2. IsFiniteSet(1 .. 2) /\ Cardinality(1 .. 2) = 2
    <3>1. 2 \in Nat
      OBVIOUS
    <3> QED
      BY <3>1, CountUpTo
  <2> QED
    BY <2>1, <2>2
<1>5. IsFiniteSet(Tokens) /\ Cardinality(Tokens) = 2 * (Len(keys) - 1)
  <2> DEFINE two == {1, 2}
             others == Numbers \ {1}
  <2>1. IsFiniteSet(two) /\ Cardinality(two) = 2 /\ IsFiniteSet(others)
        /\ Cardinality(others) = Len(keys) - 1 /\ Tokens = two \X others
    BY <1>3, <1>4 DEF Tokens
  <2> HIDE DEF two, others
  <2>2. IsFiniteSet(two \X others) /\ Cardinality(two \X others) = Cardinality(two) * Cardinality(others)
    BY <2>1, FS_Product
  <2> QED
    BY <2>1, <2>2
<1>6. Cardinality(Tokens) = 2 * Len(keys) - 2
  BY <1>1, <1>5
<1>7. ASSUME NEW used \in SUBSET Tokens
      PROVE  /\ IsFiniteSet(used) /\ Cardinality(used) \in Nat
             /\ Cardinality(used) <= Cardinality(Tokens)
  BY <1>5, FS_Subset, FS_CardinalityType
<1> QED
  BY <1>5, <1>6, <1>7

(* The first characters of the keys that are left, and their first keys.   *)
LEMMA CharsFinite ==
  ASSUME keys \in KeyLists, StaticAsserts(keys), NEW rest \in SUBSET Numbers, NEW deep
  PROVE  /\ IsFiniteSet(FirstChars(rest, deep)) /\ Cardinality(FirstChars(rest, deep)) \in Nat
         /\ Cardinality(FirstChars(rest, deep)) <= Len(keys)
         /\ rest # {} => Cardinality(FirstChars(rest, deep)) > 0
         /\ rest = {} => Cardinality(FirstChars(rest, deep)) = 0
<1> DEFINE chars == FirstChars(rest, deep)
           f == [i \in rest |-> keys[i][deep + 1]]
<1>1. chars = {keys[i][deep + 1] : i \in rest}
  BY DEF FirstChars
<1> HIDE DEF chars
<1>2. f \in Surjection(rest, chars)
  BY <1>1 DEF Surjection
<1>3. IsFiniteSet(Numbers) /\ Cardinality(Numbers) = Len(keys)
  BY KeyFacts, CountUpTo
<1>4. IsFiniteSet(rest) /\ Cardinality(rest) <= Len(keys)
  BY <1>3, FS_Subset
<1>5. IsFiniteSet(chars) /\ Cardinality(chars) <= Cardinality(rest)
  BY <1>2, <1>4, FS_Surjection
<1>6. Cardinality(chars) \in Nat /\ Cardinality(rest) \in Nat /\ Len(keys) \in Nat
  BY <1>4, <1>5, FS_CardinalityType, KeyFacts
<1>7. rest # {} => chars # {}
  BY <1>1
<1>8. rest = {} => chars = {}
  BY <1>1
<1>9. Cardinality(chars) = 0 <=> chars = {}
  BY <1>5, FS_EmptySet
<1> QED
  BY <1>4, <1>5, <1>6, <1>7, <1>8, <1>9 DEF chars

(* The child that the first key of its group belongs to is paid for by the *)
(* key that is used up, or else by the first key of another child.         *)
LEMMA SpareToken ==
  ASSUME keys \in KeyLists, StaticAsserts(keys), NEW group, NEW depth, GroupOK(group, depth),
         First(group) \in Rest(group, depth)
  PROVE  \E spare \in {1, 2} \X group :
           /\ Paid(spare) # First(group)
           /\ Paid(spare) \in Rest(group, depth) =>
                /\ spare[1] = 1
                /\ \A j \in Rest(group, depth) :
                     keys[j][Deep(group, depth) + 1] = keys[Paid(spare)][Deep(group, depth) + 1]
                       => Paid(spare) <= j
<1> DEFINE rest == Rest(group, depth)
           deep == Deep(group, depth)
           h == First(group)
<1>1. rest \subseteq group /\ group \in SUBSET Numbers /\ h \in rest
  BY Consumed DEF GroupOK
<1>2. CASE rest = group
  <2>1. PICK x \in group : keys[x][deep + 1] # keys[h][deep + 1]
    BY <1>1, <1>2, PrefixEnds
  <2> DEFINE class == {i \in rest : keys[i][deep + 1] = keys[x][deep + 1]}
             y == First(class)
  <2>2. class \in SUBSET Numbers /\ class # {}
    BY <1>1, <1>2
  <2>3. y \in class /\ \A j \in class : y <= j
    <3> HIDE DEF class
    <3> QED
      BY <2>2, FirstIs
  <2>4. y \in group /\ y # h /\ \A j \in rest : keys[j][deep + 1] = keys[y][deep + 1] => y <= j
    BY <1>1, <2>1, <2>3
  <2> HIDE DEF y, rest, deep, h
  <2>5. <<1, y>> \in {1, 2} \X group /\ Paid(<<1, y>>) = y /\ <<1, y>>[1] = 1
    BY <2>4 DEF Paid
  <2> QED
    BY <2>4, <2>5 DEF rest, deep, h
<1>3. CASE rest # group
  <2>1. PICK v \in group : v \notin rest
    BY <1>1, <1>3
  <2>2. v # h
    BY <1>1, <2>1
  <2> HIDE DEF rest, deep, h
  <2>3. <<2, v>> \in {1, 2} \X group /\ Paid(<<2, v>>) = v
    BY DEF Paid
  <2> QED
    BY <2>1, <2>2, <2>3 DEF rest, deep, h
<1> QED
  BY <1>2, <1>3
(* A node takes places for its children, and the new ones are paid for by  *)
(* keys of its group that have not paid.                                   *)
LEMMA EnterTakesPlaces ==
  ASSUME keys \in KeyLists, StaticAsserts(keys), next.node \in Nat,
         NEW group, NEW depth, NEW callers, Entering(group, depth, callers),
         NEW used \in SUBSET Tokens, PlacesTaken(callers, used),
         \A token \in used : Paid(token) \in group => Paid(token) = First(group)
  PROVE  \E more \in SUBSET Tokens :
           /\ Cardinality(more) = Cardinality(used)
                                    + Cardinality(FirstChars(Rest(group, depth), Deep(group, depth)))
           /\ PlacesTaken(Append(callers, NewFrame(group, depth)), more)
<1> DEFINE rest == Rest(group, depth)
           deep == Deep(group, depth)
           h == First(group)
           chars == FirstChars(rest, deep)
           f == [c \in chars |-> First({i \in rest : keys[i][deep + 1] = c})]
<1>1. /\ rest \subseteq group /\ group \in SUBSET Numbers /\ GroupOK(group, depth)
      /\ h \in group /\ h \in Nat /\ \A j \in group : h <= j
      /\ \A i \in Numbers : i \in Nat /\ 1 <= i
  <2>1. GroupOK(group, depth)
    BY DEF Entering
  <2>2. group \in SUBSET Numbers /\ group # {}
    BY <2>1 DEF GroupOK
  <2>3. rest \subseteq group
    BY <2>1, Consumed
  <2>4. h \in group /\ h \in Nat /\ \A j \in group : h <= j
    BY <2>2, FirstIs
  <2>5. \A i \in Numbers : i \in Nat /\ 1 <= i
    BY KeyFacts
  <2> QED
    BY <2>1, <2>2, <2>3, <2>4, <2>5
<1>2. ASSUME NEW c \in chars
      PROVE  /\ f[c] \in rest /\ keys[f[c]][deep + 1] = c
             /\ \A j \in rest : keys[j][deep + 1] = c => f[c] <= j
  <2> DEFINE class == {i \in rest : keys[i][deep + 1] = c}
  <2>1. class \in SUBSET Numbers /\ class # {} /\ f[c] = First(class)
    BY <1>1 DEF FirstChars
  <2>2. First(class) \in class /\ \A j \in class : First(class) <= j
    <3> HIDE DEF class
    <3> QED
      BY <2>1, FirstIs
  <2> QED
    BY <2>1, <2>2
<1>3. \E s : h \in rest =>
               /\ s \in {1, 2} \X group /\ Paid(s) # h
               /\ Paid(s) \in rest =>
                    /\ s[1] = 1
                    /\ \A j \in rest : keys[j][deep + 1] = keys[Paid(s)][deep + 1] => Paid(s) <= j
  BY <1>1, SpareToken
<1> HIDE DEF f, rest, deep, h
<1>4. PICK spare : h \in rest =>
               /\ spare \in {1, 2} \X group /\ Paid(spare) # h
               /\ Paid(spare) \in rest =>
                    /\ spare[1] = 1
                    /\ \A j \in rest : keys[j][deep + 1] = keys[Paid(spare)][deep + 1] => Paid(spare) <= j
  BY <1>3
<1> DEFINE tok == [c \in chars |-> IF f[c] = h THEN spare ELSE <<2, f[c]>>]
           W == {tok[c] : c \in chars}
<1>5. ASSUME NEW c \in chars
      PROVE  /\ tok[c] \in {1, 2} \X group /\ Paid(tok[c]) # h
             /\ Paid(tok[c]) \in rest =>
                  \A j \in rest : keys[j][deep + 1] = keys[Paid(tok[c])][deep + 1] => Paid(tok[c]) <= j
  <2>1. CASE f[c] = h
    <3>1. tok[c] = spare /\ h \in rest
      BY <1>2, <2>1
    <3> QED
      BY <1>4, <3>1
  <2>2. CASE f[c] # h
    <3>1. tok[c] = <<2, f[c]>> /\ Paid(tok[c]) = f[c] /\ tok[c] \in {1, 2} \X group
      BY <1>1, <1>2, <2>2 DEF Paid
    <3> QED
      BY <1>2, <2>2, <3>1
  <2> QED
    BY <2>1, <2>2
<1>6. ASSUME NEW c \in chars, NEW d \in chars, tok[c] = tok[d]
      PROVE  c = d
  <2>1. ASSUME NEW x \in chars, NEW y \in chars, f[x] = h, f[y] # h, tok[x] = tok[y]
        PROVE  FALSE
    <3>1. spare = <<2, f[y]>> /\ h \in rest /\ f[y] \in rest
      BY <1>2, <2>1
    <3>2. Paid(spare) = f[y] /\ spare[1] = 2
      BY <3>1 DEF Paid
    <3> QED
      BY <1>4, <3>1, <3>2
  <2>2. CASE f[c] = h /\ f[d] = h
    BY <1>2, <2>2
  <2>3. CASE f[c] # h /\ f[d] # h
    <3>1. <<2, f[c]>> = <<2, f[d]>>
      BY <1>6, <2>3
    <3>2. f[c] = f[d]
      BY <3>1
    <3> QED
      BY <1>2, <3>2
  <2> QED
    BY <1>6, <2>1, <2>2, <2>3
<1>7. tok \in Bijection(chars, W)
  <2>1. tok \in [chars -> W] /\ \A w \in W : \E c \in chars : tok[c] = w
    OBVIOUS
  <2>2. \A c, d \in chars : tok[c] = tok[d] => c = d
    BY <1>6
  <2> HIDE DEF tok, W
  <2> QED
    BY <2>1, <2>2 DEF Bijection, Injection, Surjection, IsInjective
<1>8. IsFiniteSet(chars) /\ Cardinality(chars) \in Nat
  BY <1>1, CharsFinite
<1>9. \A token \in W : /\ token \in {1, 2} \X group /\ Paid(token) # h
                       /\ Paid(token) \in rest =>
                            \A j \in rest : keys[j][deep + 1] = keys[Paid(token)][deep + 1] => Paid(token) <= j
  BY <1>5
<1> HIDE DEF tok, W, chars
<1>10. IsFiniteSet(W) /\ Cardinality(W) = Cardinality(chars)
  BY <1>7, <1>8, FS_Bijection DEF ExistsBijection
<1>11. \A token \in W : Paid(token) \in group /\ Paid(token) \in Numbers \ {1}
  <2> TAKE token \in W
  <2>1. Paid(token) \in group
    BY <1>9 DEF Paid
  <2>2. Paid(token) \in Nat /\ h <= Paid(token) /\ 1 <= h /\ Paid(token) # h
    BY <1>1, <1>9, <2>1
  <2>3. Paid(token) # 1
    BY <1>1, <2>2
  <2> QED
    BY <1>1, <2>1, <2>3
<1>12. W \in SUBSET Tokens
  BY <1>9, <1>11 DEF Tokens, Paid
<1>13. used \cap W = {}
  BY <1>9, <1>11 DEF h
<1>14. Cardinality(used \cup W) = Cardinality(used) + Cardinality(chars)
  <2>1. IsFiniteSet(used) /\ Cardinality(used) \in Nat
    BY TokensCount
  <2>2. Cardinality(used \cup W) = Cardinality(used) + Cardinality(W) - Cardinality(used \cap W)
    BY <1>10, <2>1, FS_Union
  <2>3. Cardinality(used \cap W) = 0
    BY <1>13, FS_EmptySet
  <2> QED
    BY <1>8, <1>10, <2>1, <2>2, <2>3
<1> DEFINE new == NewFrame(group, depth)
           stack == Append(callers, new)
<1>15. /\ new \in Frame /\ callers \in Seq(Frame)
       /\ new.left = rest /\ new.depth = deep
  BY EnterFrames DEF NewFrame, Entering, FramesOK, rest, deep
<1> HIDE DEF new
<1>16. /\ \A p \in DOMAIN callers : stack[p] = callers[p]
       /\ stack[Len(callers) + 1] = new
       /\ \A p \in DOMAIN stack : p \in DOMAIN callers \/ p = Len(callers) + 1
  BY <1>15, Appended
<1> HIDE DEF stack
<1>17. ASSUME NEW p \in DOMAIN stack, NEW token \in used \cup W, Paid(token) \in stack[p].left,
              NEW j \in stack[p].left,
              keys[j][stack[p].depth + 1] = keys[Paid(token)][stack[p].depth + 1]
       PROVE  Paid(token) <= j
  <2>1. CASE p \in DOMAIN callers
    <3>1. stack[p] = callers[p] /\ callers[p].left \cap group = {}
      BY <1>16, <2>1 DEF Entering
    <3>2. token \in used
      BY <1>11, <1>17, <3>1
    <3> QED
      BY <1>17, <2>1, <3>1, <3>2 DEF PlacesTaken
  <2>2. CASE p = Len(callers) + 1
    <3>1. Paid(token) \in rest /\ j \in rest /\ keys[j][deep + 1] = keys[Paid(token)][deep + 1]
      BY <1>15, <1>16, <1>17, <2>2
    <3>2. CASE token \in W
      BY <1>9, <3>1, <3>2
    <3>3. CASE token \in used
      <4>1. Paid(token) = h
        BY <1>1, <3>1, <3>3 DEF h
      <4> QED
        BY <1>1, <3>1, <4>1
    <3> QED
      BY <3>2, <3>3
  <2> QED
    BY <1>16, <2>1, <2>2
<1>18. PlacesTaken(stack, used \cup W)
  BY <1>17 DEF PlacesTaken
<1>19. used \cup W \in SUBSET Tokens
  BY <1>12
<1> QED
  BY <1>14, <1>18, <1>19 DEF stack, new, chars, rest, deep
-----------------------------------------------------------------------------
(* The places of labels: each holds one character of one key.              *)
Spots == {s \in Numbers \X (1 .. Byte) : s[2] <= Len(keys[s[1]])}

SpotsRead(stack, read) ==
  \A p \in DOMAIN stack : \A spot \in read : spot[1] \in stack[p].left => spot[2] <= stack[p].depth

LabelsInv ==
  \E read \in SUBSET Spots : next.label = Cardinality(read) /\ SpotsRead(calls, read)

LEMMA SpotsCount ==
  ASSUME keys \in KeyLists, StaticAsserts(keys)
  PROVE  /\ IsFiniteSet(Spots) /\ Cardinality(Spots) = MaxLabels /\ MaxLabels \in Nat
         /\ MaxLabels < Byte * Byte /\ Byte * Byte \in Nat
         /\ \A read \in SUBSET Spots : /\ IsFiniteSet(read) /\ Cardinality(read) \in Nat
                                       /\ Cardinality(read) <= MaxLabels
<1> DEFINE all == UNION {{i} \X (1 .. Len(keys[i])) : i \in Numbers}
           square == Numbers \X (1 .. Byte)
<1>1. \A i \in Numbers : Len(keys[i]) \in Nat /\ Len(keys[i]) <= Byte - 1
  BY KeyFacts
<1>2. Byte \in Nat /\ Byte >= 1 /\ Len(keys) \in Nat /\ Len(keys) <= Byte - 1 /\ Numbers = 1 .. Len(keys)
  BY KeyFacts, TrieAssumption
<1>3. ASSUME NEW i \in Numbers
      PROVE  1 .. Len(keys[i]) = {k \in 1 .. Byte : k <= Len(keys[i])}
  BY <1>1, <1>2
<1>4. Spots = all
  <2>1. Spots \subseteq all
    <3> SUFFICES ASSUME NEW s \in Spots PROVE s \in all
      OBVIOUS
    <3>1. PICK i \in Numbers, k \in 1 .. Byte : s = <<i, k>> /\ k <= Len(keys[i])
      BY DEF Spots
    <3>2. k \in 1 .. Len(keys[i])
      BY <1>3, <3>1
    <3> QED
      BY <3>1, <3>2
  <2>2. all \subseteq Spots
    <3> SUFFICES ASSUME NEW s \in all PROVE s \in Spots
      OBVIOUS
    <3>1. PICK i \in Numbers : s \in {i} \X (1 .. Len(keys[i]))
      OBVIOUS
    <3>2. PICK k \in 1 .. Len(keys[i]) : s = <<i, k>>
      BY <3>1
    <3>3. k \in 1 .. Byte /\ k <= Len(keys[i])
      BY <1>3, <3>2
    <3> QED
      BY <3>2, <3>3 DEF Spots
  <2> QED
    BY <2>1, <2>2
<1>5. Cardinality(Spots) = MaxLabels
  BY <1>4 DEF MaxLabels
<1>6. /\ IsFiniteSet(Numbers) /\ Cardinality(Numbers) = Len(keys)
      /\ IsFiniteSet(1 .. Byte) /\ Cardinality(1 .. Byte) = Byte
  <2>1. IsFiniteSet(Numbers) /\ Cardinality(Numbers) = Len(keys)
    BY <1>2, CountUpTo
  <2>2. IsFiniteSet(1 .. Byte) /\ Cardinality(1 .. Byte) = Byte
    BY TrieAssumption, CountUpTo
  <2> QED
    BY <2>1, <2>2
<1>7. IsFiniteSet(square) /\ Cardinality(square) = Len(keys) * Byte
  <2> DEFINE count == Cardinality(Numbers)
             wide == Cardinality(1 .. Byte)
  <2>1. IsFiniteSet(square) /\ Cardinality(square) = count * wide
    BY <1>6, FS_Product
  <2>2. count = Len(keys) /\ wide = Byte
    BY <1>6
  <2> HIDE DEF square, count, wide
  <2> QED
    BY <2>1, <2>2
<1>8. Spots \in SUBSET square
  BY DEF Spots
<1> HIDE DEF square
<1>9. IsFiniteSet(Spots) /\ Cardinality(Spots) <= Len(keys) * Byte
  BY <1>7, <1>8, FS_Subset
<1>10. Len(keys) * Byte < Byte * Byte /\ Byte * Byte \in Nat /\ Len(keys) * Byte \in Nat
  <2>1. ASSUME NEW a \in Nat, NEW b \in Nat, a < b
        PROVE  a * b < b * b /\ b * b \in Nat /\ a * b \in Nat
    BY <2>1
  <2> QED
    BY <1>2, <2>1
<1>11. MaxLabels \in Nat
  BY <1>5, <1>9, FS_CardinalityType
<1>12. MaxLabels < Byte * Byte
  <2> DEFINE a == Len(keys) * Byte
             b == Byte * Byte
  <2>1. a \in Nat /\ b \in Nat /\ a < b /\ MaxLabels <= a
    BY <1>5, <1>9, <1>10
  <2> HIDE DEF a, b
  <2>2. MaxLabels < b
    BY <1>11, <2>1
  <2> QED
    BY <2>2 DEF b
<1>13. ASSUME NEW read \in SUBSET Spots
       PROVE  IsFiniteSet(read) /\ Cardinality(read) \in Nat /\ Cardinality(read) <= MaxLabels
  BY <1>5, <1>9, FS_Subset, FS_CardinalityType
<1> QED
  BY <1>5, <1>9, <1>10, <1>11, <1>12, <1>13

LEMMA EnterReadsSpots ==
  ASSUME keys \in KeyLists, StaticAsserts(keys), next.node \in Nat,
         NEW group, NEW depth, NEW callers, Entering(group, depth, callers),
         NEW read \in SUBSET Spots, SpotsRead(callers, read),
         \A spot \in read : spot[1] \in group => spot[2] <= depth
  PROVE  \E more \in SUBSET Spots :
           /\ Cardinality(more) = Cardinality(read) + longest_common_prefix(group, depth)
           /\ SpotsRead(Append(callers, NewFrame(group, depth)), more)
<1> DEFINE rest == Rest(group, depth)
           deep == Deep(group, depth)
           lcp == longest_common_prefix(group, depth)
           h == First(group)
           ks == depth + 1 .. deep
           W == {h} \X ks
<1>1. GroupOK(group, depth)
  BY DEF Entering
<1>2. group \in SUBSET Numbers /\ group # {} /\ depth \in Nat
  BY <1>1 DEF GroupOK
<1>3. /\ lcp \in Nat /\ deep \in Nat /\ deep = depth + lcp /\ deep <= Byte - 1
      /\ \A i \in group : deep <= Len(keys[i])
  BY <1>1, Label DEF Deep
<1>4. h \in group
  BY <1>2, FirstIs
<1>5. rest \subseteq group
  BY <1>1, Consumed
<1> HIDE DEF rest, deep, h, lcp
<1>6. IsFiniteSet(ks) /\ Cardinality(ks) = lcp
  <2>1. depth + 1 \in Int /\ deep \in Int
    BY <1>2, <1>3
  <2>2. IsFiniteSet(ks) /\ Cardinality(ks) = IF depth + 1 > deep THEN 0 ELSE deep - (depth + 1) + 1
    BY <2>1, FS_Interval
  <2> QED
    BY <1>2, <1>3, <2>2
<1>7. ks \subseteq 1 .. Byte /\ \A k \in ks : k <= Len(keys[h])
  <2>1. \A k \in ks : k \in 1 .. Byte /\ k <= deep /\ k \in Nat
    BY <1>2, <1>3, TrieAssumption
  <2>2. deep <= Len(keys[h]) /\ Len(keys[h]) \in Nat
    BY <1>2, <1>3, <1>4, KeyFacts
  <2> QED
    BY <1>3, <2>1, <2>2
<1> HIDE DEF ks
<1>8. IsFiniteSet({h}) /\ Cardinality({h}) = 1
  BY FS_Singleton
<1>9. IsFiniteSet(W) /\ Cardinality(W) = lcp
  <2> DEFINE one == {h}
  <2>1. IsFiniteSet(one) /\ Cardinality(one) = 1
    BY <1>8
  <2> HIDE DEF one
  <2>2. IsFiniteSet(one \X ks) /\ Cardinality(one \X ks) = Cardinality(one) * Cardinality(ks)
    BY <1>6, <2>1, FS_Product
  <2> QED
    BY <1>3, <1>6, <2>1, <2>2 DEF one
<1>10. W \in SUBSET Spots
  <2> SUFFICES ASSUME NEW s \in W PROVE s \in Spots
    OBVIOUS
  <2>1. PICK k \in ks : s = <<h, k>>
    OBVIOUS
  <2> QED
    BY <1>2, <1>4, <1>7, <2>1 DEF Spots
<1>11. \A s \in W : s[1] = h /\ s[2] \in ks /\ s[2] > depth /\ s[2] <= deep
  <2> SUFFICES ASSUME NEW s \in W PROVE s[1] = h /\ s[2] \in ks /\ s[2] > depth /\ s[2] <= deep
    OBVIOUS
  <2>1. PICK k \in ks : s = <<h, k>>
    OBVIOUS
  <2>2. k > depth /\ k <= deep
    BY <1>2, <1>3 DEF ks
  <2> QED
    BY <2>1, <2>2
<1>12. read \cap W = {}
  <2> SUFFICES ASSUME NEW s \in read, s \in W PROVE FALSE
    OBVIOUS
  <2>1. s[1] = h /\ s[2] \in ks /\ s[2] > depth
    BY <1>11
  <2>2. s[2] <= depth
    BY <1>4, <2>1
  <2> QED
    BY <1>2, <1>3, <2>1, <2>2 DEF ks
<1> HIDE DEF W
<1>13. Cardinality(read \cup W) = Cardinality(read) + lcp
  <2>1. IsFiniteSet(read) /\ Cardinality(read) \in Nat
    BY SpotsCount
  <2>2. Cardinality(read \cup W) = Cardinality(read) + Cardinality(W) - Cardinality(read \cap W)
    BY <1>9, <2>1, FS_Union
  <2>3. Cardinality(read \cap W) = 0
    BY <1>12, FS_EmptySet
  <2> QED
    BY <1>3, <1>9, <2>1, <2>2, <2>3
<1> DEFINE new == NewFrame(group, depth)
           stack == Append(callers, new)
<1>14. /\ new \in Frame /\ callers \in Seq(Frame)
       /\ new.left = rest /\ new.depth = deep
  BY EnterFrames DEF NewFrame, Entering, FramesOK, rest, deep
<1> HIDE DEF new
<1>15. /\ \A p \in DOMAIN callers : stack[p] = callers[p]
       /\ stack[Len(callers) + 1] = new
       /\ \A p \in DOMAIN stack : p \in DOMAIN callers \/ p = Len(callers) + 1
  BY <1>14, Appended
<1> HIDE DEF stack
<1>16. ASSUME NEW p \in DOMAIN stack, NEW s \in read \cup W, s[1] \in stack[p].left
       PROVE  s[2] <= stack[p].depth
  <2>1. CASE p \in DOMAIN callers
    <3>1. stack[p] = callers[p] /\ callers[p].left \cap group = {}
      BY <1>15, <2>1 DEF Entering
    <3>2. s \in read
      BY <1>4, <1>11, <1>16, <3>1
    <3> QED
      BY <1>16, <2>1, <3>1, <3>2 DEF SpotsRead
  <2>2. CASE p = Len(callers) + 1
    <3>1. s[1] \in rest /\ stack[p].depth = deep
      BY <1>14, <1>15, <1>16, <2>2
    <3>2. CASE s \in W
      BY <1>11, <3>1, <3>2
    <3>3. CASE s \in read
      <4>1. s[2] <= depth /\ s[2] \in Nat
        BY <1>5, <3>1, <3>3 DEF Spots
      <4> QED
        BY <1>2, <1>3, <3>1, <4>1
    <3> QED
      BY <3>2, <3>3
  <2> QED
    BY <1>15, <2>1, <2>2
<1>17. SpotsRead(stack, read \cup W)
  BY <1>16 DEF SpotsRead
<1>18. read \cup W \in SUBSET Spots
  BY <1>10
<1> QED
  BY <1>13, <1>17, <1>18 DEF stack, new, lcp
-----------------------------------------------------------------------------
(* What Enter writes, once its numbers are known to fit their types.       *)
Children(group, depth) == Cardinality(FirstChars(Rest(group, depth), Deep(group, depth)))

NewNode(group, depth) ==
  [label_offset |-> next.label,
   label_length |-> longest_common_prefix(group, depth),
   first_child |-> IF Rest(group, depth) = {} THEN 0 ELSE next.child,
   child_count |-> Children(group, depth),
   value_index |-> Value(group, depth)]

LEMMA ValueIs ==
  ASSUME keys \in KeyLists, StaticAsserts(keys), NEW group, NEW depth, GroupOK(group, depth)
  PROVE  /\ Value(group, depth) \in -1 .. NPOS - 1
         /\ Value(group, depth) + 2 <= Byte \div 2
         /\ Value(group, depth) # -1 =>
              \E i \in group \ Rest(group, depth) : Value(group, depth) = i - 1
<1>1. /\ Len(keys) \in Nat \ {0} /\ Numbers = 1 .. Len(keys) /\ group \in SUBSET Numbers
      /\ Len(keys) <= Byte \div 2 - 1 /\ Byte \div 2 \in Nat
  BY KeyFacts, TrieAssumption DEF GroupOK, StaticAsserts
<1> DEFINE half == Byte \div 2
<1> HIDE DEF half
<1>2. CASE Rest(group, depth) = group
  <2>1. Value(group, depth) = -1
    BY <1>2, Consumed
  <2>2. -1 \in -1 .. Len(keys) - 1 /\ Len(keys) <= half - 1 /\ half \in Nat
    BY <1>1 DEF half
  <2>3. -1 + 2 <= half
    BY <1>1, <2>2
  <2> QED
    BY <2>1, <2>2, <2>3 DEF NPOS, half
<1>3. CASE Rest(group, depth) # group
  <2>1. PICK i \in group : i \notin Rest(group, depth)
    BY <1>3, Consumed
  <2>2. Value(group, depth) = i - 1 /\ i \in 1 .. Len(keys)
    BY <1>1, <2>1, Consumed
  <2>3. Len(keys) <= half - 1 /\ half \in Nat
    BY <1>1 DEF half
  <2>4. i - 1 \in -1 .. Len(keys) - 1 /\ i - 1 + 2 <= half
    BY <1>1, <2>2, <2>3
  <2> QED
    BY <2>1, <2>2, <2>4 DEF NPOS, half
<1> QED
  BY <1>2, <1>3

LEMMA EnterSays ==
  ASSUME ShapeInv, NEW group, NEW depth, NEW callers, GroupOK(group, depth),
         Enter(group, depth, callers),
         next.label < Byte * Byte, next.child < Byte
  PROVE  /\ keys' = keys /\ children' = children /\ find' = find
         /\ nodes' = [nodes EXCEPT ![next.node] = NewNode(group, depth)]
         /\ NewNode(group, depth) \in FlatNode
         /\ labels' = [a \in DOMAIN labels |->
                         IF a \in next.label .. next.label + longest_common_prefix(group, depth) - 1
                         THEN keys[First(group)][depth + a - next.label + 1] ELSE labels[a]]
         /\ next' = [node |-> next.node + 1, label |-> next.label + longest_common_prefix(group, depth),
                     child |-> next.child + Children(group, depth)]
         /\ calls' = Append(callers, NewFrame(group, depth))
<1> DEFINE lcp == longest_common_prefix(group, depth)
           rest == Rest(group, depth)
           deep == Deep(group, depth)
<1>1. keys \in KeyLists /\ StaticAsserts(keys) /\ next \in [node : Nat, label : Nat, child : Nat]
  BY DEF ShapeInv
<1>2. /\ rest = Remaining(group, deep) /\ deep = depth + lcp
      /\ Children(group, depth) = Cardinality(FirstChars(rest, deep))
      /\ Value(group, depth) = ConsumedValue(group, deep)
  BY DEF Rest, Deep, Children, Value
<1>3. lcp \in Nat /\ lcp < Byte
  <2>1. lcp \in Nat /\ deep \in Nat /\ deep <= Byte - 1
    BY <1>1, Label
  <2>2. depth \in Nat
    BY DEF GroupOK
  <2> HIDE DEF lcp, deep
  <2> QED
    BY <1>2, <2>1, <2>2, TrieAssumption
<1>4. Children(group, depth) \in Nat /\ Children(group, depth) < Byte
  <2>1. rest \in SUBSET Numbers
    BY <1>1, Consumed DEF GroupOK
  <2>2. Children(group, depth) \in Nat /\ Children(group, depth) <= Len(keys)
    BY <1>1, <1>2, <2>1, CharsFinite
  <2>3. Len(keys) \in Nat /\ 2 * Len(keys) <= Byte - 2
    BY <1>1, KeyFacts
  <2> QED
    BY <2>2, <2>3, TrieAssumption
<1>5. Narrow(lcp) = lcp /\ Narrow(Children(group, depth)) = Children(group, depth) /\ Narrow(next.child) = next.child
  BY <1>1, <1>3, <1>4, NarrowExact
<1>6. Signed(Value(group, depth)) = Value(group, depth) /\ Value(group, depth) \in Int
  <2>1. Value(group, depth) \in -1 .. NPOS - 1 /\ Value(group, depth) + 2 <= Byte \div 2
    BY <1>1, ValueIs
  <2>2. Value(group, depth) \in Int /\ -1 <= Value(group, depth)
    BY <1>1, <2>1, KeyFacts DEF NPOS
  <2> QED
    BY <2>1, <2>2, SignedExact
<1>7. Offset(next.label) = next.label
  <2>1. Byte * Byte \in Nat /\ next.label \in Nat
    BY <1>1, SpotsCount
  <2> DEFINE square == Byte * Byte
  <2>2. ASSUME NEW b \in Nat, NEW a \in Nat, a < b PROVE a % b = a
    BY <2>2
  <2>3. square \in Nat /\ next.label < square
    BY <2>1
  <2> HIDE DEF square
  <2>4. next.label % square = next.label
    BY <2>1, <2>2, <2>3
  <2> QED
    BY <2>4 DEF Offset, square
<1> HIDE DEF lcp, rest, deep
<1>8. NewNode(group, depth) \in FlatNode
  BY <1>1, <1>3, <1>4, <1>6 DEF NewNode, FlatNode, lcp
<1>9. /\ nodes' = [nodes EXCEPT ![next.node] =
                     [label_offset |-> Offset(next.label),
                      label_length |-> Narrow(lcp),
                      first_child |-> IF rest = {} THEN 0 ELSE Narrow(next.child),
                      child_count |-> Narrow(Children(group, depth)),
                      value_index |-> Signed(Value(group, depth))]]
      /\ labels' = [a \in DOMAIN labels |->
                      IF a \in next.label .. next.label + lcp - 1
                      THEN keys[First(group)][depth + a - next.label + 1] ELSE labels[a]]
      /\ next' = [node |-> next.node + 1, label |-> next.label + lcp,
                  child |-> next.child + Children(group, depth)]
      /\ calls' = Append(callers, [node |-> next.node, depth |-> deep, left |-> rest, g |-> 0])
      /\ UNCHANGED <<keys, children, find>>
  BY <1>2 DEF Enter, lcp, rest, deep
<1>10. nodes' = [nodes EXCEPT ![next.node] = NewNode(group, depth)]
  BY <1>5, <1>6, <1>7, <1>9 DEF NewNode, lcp, rest
<1>11. calls' = Append(callers, NewFrame(group, depth))
  BY <1>9 DEF NewFrame, rest, deep
<1> QED
  BY <1>8, <1>9, <1>10, <1>11 DEF lcp
-----------------------------------------------------------------------------
(* What each node stands for: the keys of its group and the depth at which *)
(* it begins; of the keys behind its label those that wait for a child,    *)
(* and the children that are done; and the place it has above.             *)
Here == 0 .. next.node - 1
Branch == [group : SUBSET Numbers, depth : Nat, done : Nat, wait : SUBSET Numbers, above : Nat, place : Nat]

End(T, n) == T[n].depth + nodes[n].label_length
ChildOf(n, c) == children[nodes[n].first_child + c]
Class(T, n, i) ==
  {j \in T[n].group : Len(keys[j]) > End(T, n) /\ keys[j][End(T, n) + 1] = keys[i][End(T, n) + 1]}

NodeOK(T, n) ==
  /\ GroupOK(T[n].group, End(T, n))
  /\ n # 0 => nodes[n].label_length > 0
  /\ nodes[n].label_offset + nodes[n].label_length <= next.label
  /\ \A i \in T[n].group : \A k \in 1 .. nodes[n].label_length :
       labels[nodes[n].label_offset + k - 1] = keys[i][T[n].depth + k]
  /\ nodes[n].value_index \in -1 .. NPOS - 1
  /\ \A i \in T[n].group : Len(keys[i]) = End(T, n) => nodes[n].value_index = i - 1
  /\ nodes[n].value_index # -1 =>
       \E i \in T[n].group : Len(keys[i]) = End(T, n) /\ nodes[n].value_index = i - 1

WaitOK(T, n) ==
  /\ \A i \in T[n].wait : i \in Class(T, n, i) /\ Class(T, n, i) \subseteq T[n].wait
  /\ T[n].done + Cardinality(FirstChars(T[n].wait, End(T, n))) = nodes[n].child_count
  /\ \A i \in T[n].group : Len(keys[i]) > End(T, n) =>
       i \in T[n].wait \/ \E c \in 0 .. T[n].done - 1 : i \in T[ChildOf(n, c)].group

Under(T, k, n, c) ==
  /\ k \in 1 .. next.node - 1
  /\ T[k].above = n /\ T[k].place = c /\ T[k].depth = End(T, n)
  /\ \A i \in T[k].group : T[k].group = Class(T, n, i)

ChildOK(T, n, c) ==
  /\ Under(T, ChildOf(n, c), n, c)
  /\ T[ChildOf(n, c)].group \cap T[n].wait = {}
  /\ \A d \in 0 .. T[n].done - 1 :
       T[ChildOf(n, c)].group \cap T[ChildOf(n, d)].group # {} => c = d

PlacesApart ==
  /\ \A n \in Here : nodes[n].first_child + nodes[n].child_count <= next.child
  /\ \A n, m \in Here :
       \A c \in 0 .. nodes[n].child_count - 1 : \A d \in 0 .. nodes[m].child_count - 1 :
         nodes[n].first_child + c = nodes[m].first_child + d => n = m

FrameOK(T, p) ==
  LET n == calls[p].node
      m == calls[p + 1].node
  IN  /\ n \in Here /\ calls[p].depth = End(T, n) /\ calls[p].g = T[n].done
      /\ p = Len(calls) => T[n].wait = calls[p].left
      /\ p # Len(calls) =>
           /\ T[n].wait = calls[p].left \cup T[m].group
           /\ calls[p].left \cap T[m].group = {}
           /\ Under(T, m, n, T[n].done)

CallsOK(T) ==
  /\ \A p \in DOMAIN calls : FrameOK(T, p)
  /\ \A p, q \in DOMAIN calls : calls[p].node = calls[q].node => p = q
  /\ \A n \in Here : (\A p \in DOMAIN calls : calls[p].node # n) => T[n].wait = {}

Written(T, n) ==
  /\ T[n].above \in Here /\ T[n].place \in 0 .. T[T[n].above].done - 1
  /\ ChildOf(T[n].above, T[n].place) = n

LinksOK(T) ==
  \A n \in 1 .. next.node - 1 :
    Written(T, n) \/ \E p \in DOMAIN calls : p # 1 /\ calls[p].node = n

RootOK(T) ==
  /\ next.node > 0 => T[0].group = Numbers /\ T[0].depth = 0
  /\ calls # <<>> => calls[1].node = 0
  /\ next.node = 0 => calls = <<>> /\ next.label = 0 /\ next.child = 0

TreeInv(T) ==
  /\ T \in [Here -> Branch]
  /\ \A n \in Here : NodeOK(T, n) /\ WaitOK(T, n)
  /\ \A n \in Here : \A c \in 0 .. T[n].done - 1 : ChildOK(T, n, c)
  /\ PlacesApart /\ CallsOK(T) /\ LinksOK(T) /\ RootOK(T)

LEMMA TreeTypes ==
  ASSUME ShapeInv, next.node <= MaxNodes, NEW T, TreeInv(T)
  PROVE  /\ next.node \in Nat /\ next.child \in Nat /\ next.label \in Nat
         /\ \A n \in Here : /\ n \in Nat /\ n < next.node /\ n \in 0 .. MaxNodes - 1
                            /\ nodes[n] \in FlatNode /\ T[n] \in Branch
                            /\ nodes[n].label_length \in Nat /\ nodes[n].label_offset \in Nat
                            /\ nodes[n].first_child \in Nat /\ nodes[n].child_count \in Nat
                            /\ T[n].group \in SUBSET Numbers /\ T[n].wait \in SUBSET Numbers
                            /\ T[n].depth \in Nat /\ T[n].done \in Nat /\ End(T, n) \in Nat
                            /\ T[n].above \in Nat /\ T[n].place \in Nat
<1>1. /\ nodes \in [0 .. MaxNodes - 1 -> FlatNode] /\ T \in [Here -> Branch]
      /\ next \in [node : Nat, label : Nat, child : Nat] /\ Len(keys) \in Nat
  BY KeyFacts DEF ShapeInv, TreeInv
<1>2. next.node \in Nat /\ next.child \in Nat /\ next.label \in Nat
  BY <1>1
<1>3. MaxNodes \in Nat
  BY <1>1 DEF MaxNodes
<1>4. ASSUME NEW n \in Here
      PROVE  n \in Nat /\ n < next.node /\ n \in 0 .. MaxNodes - 1
  BY <1>2, <1>3 DEF Here
<1>5. ASSUME NEW n \in Here
      PROVE  nodes[n] \in FlatNode /\ T[n] \in Branch
  BY <1>1, <1>4
<1>6. ASSUME NEW n \in Here
      PROVE  /\ nodes[n].label_length \in Nat /\ nodes[n].label_offset \in Nat
             /\ nodes[n].first_child \in Nat /\ nodes[n].child_count \in Nat
  BY <1>5 DEF FlatNode
<1>7. ASSUME NEW n \in Here
      PROVE  /\ T[n].group \in SUBSET Numbers /\ T[n].wait \in SUBSET Numbers
             /\ T[n].depth \in Nat /\ T[n].done \in Nat
             /\ T[n].above \in Nat /\ T[n].place \in Nat
  BY <1>5 DEF Branch
<1>8. ASSUME NEW n \in Here
      PROVE  End(T, n) \in Nat
  BY <1>6, <1>7 DEF End
<1> QED
  BY <1>2, <1>4, <1>5, <1>6, <1>7, <1>8

(* A node that a key waits for has a child yet to come.                    *)
LEMMA ChildToCome ==
  ASSUME ShapeInv, next.node <= MaxNodes, NEW T, TreeInv(T), NEW n \in Here
  PROVE  /\ T[n].done <= nodes[n].child_count
         /\ T[n].wait # {} => T[n].done < nodes[n].child_count
         /\ T[n].wait = {} => T[n].done = nodes[n].child_count
<1>1. /\ T[n].wait \in SUBSET Numbers /\ T[n].done \in Nat /\ nodes[n].child_count \in Nat
      /\ keys \in KeyLists /\ StaticAsserts(keys)
  BY TreeTypes DEF ShapeInv
<1> DEFINE count == Cardinality(FirstChars(T[n].wait, End(T, n)))
<1>2. count \in Nat /\ (T[n].wait # {} => count > 0) /\ (T[n].wait = {} => count = 0)
  BY <1>1, CharsFinite
<1>3. T[n].done + count = nodes[n].child_count
  BY DEF TreeInv, WaitOK
<1> HIDE DEF count
<1> QED
  BY <1>1, <1>2, <1>3

(* The place of a node among the children of the one above: written, or    *)
(* waited for by a call.                                                   *)
Open(T, k, p) ==
  /\ p \in DOMAIN calls /\ p - 1 \in DOMAIN calls
  /\ calls[p].node = k /\ calls[p - 1].node = T[k].above
  /\ T[k].place = T[T[k].above].done

LEMMA PlaceAbove ==
  ASSUME ShapeInv, next.node <= MaxNodes, NEW T, TreeInv(T), NEW k \in 1 .. next.node - 1
  PROVE  /\ T[k].above \in Here /\ T[k].place \in 0 .. nodes[T[k].above].child_count - 1
         /\ Written(T, k) \/ \E p \in DOMAIN calls : Open(T, k, p)
<1>1. /\ next.node \in Nat
      /\ \A n \in Here : /\ nodes[n].child_count \in Nat /\ T[n].done \in Nat
                         /\ T[n].done <= nodes[n].child_count
                         /\ T[n].wait # {} => T[n].done < nodes[n].child_count
  BY TreeTypes, ChildToCome
<1>2. k \in Here
  BY <1>1 DEF Here
<1>3. CASE Written(T, k)
  <2>1. T[k].above \in Here /\ T[k].place \in 0 .. T[T[k].above].done - 1
    BY <1>3 DEF Written
  <2>2. T[T[k].above].done \in Nat /\ nodes[T[k].above].child_count \in Nat
        /\ T[T[k].above].done <= nodes[T[k].above].child_count
    BY <1>1, <2>1
  <2>3. T[k].place \in 0 .. nodes[T[k].above].child_count - 1
    BY <2>1, <2>2
  <2> QED
    BY <1>3, <2>1, <2>3
<1>4. CASE ~Written(T, k)
  <2>1. PICK p \in DOMAIN calls : p # 1 /\ calls[p].node = k
    BY <1>4 DEF TreeInv, LinksOK
  <2>2. p - 1 \in DOMAIN calls /\ p - 1 # Len(calls) /\ p - 1 + 1 = p
    <3>1. DOMAIN calls = 1 .. Len(calls) /\ Len(calls) \in Nat
      BY DEF ShapeInv
    <3> QED
      BY <2>1, <3>1
  <2>3. FrameOK(T, p - 1)
    BY <2>2 DEF TreeInv, CallsOK
  <2> DEFINE n == calls[p - 1].node
  <2>4. n \in Here /\ T[n].wait = calls[p - 1].left \cup T[k].group /\ Under(T, k, n, T[n].done)
    BY <2>1, <2>2, <2>3 DEF FrameOK
  <2>5. T[k].above = n /\ T[k].place = T[n].done
    BY <2>4 DEF Under
  <2>6. T[k].group # {}
    BY <1>2 DEF TreeInv, NodeOK, GroupOK
  <2>7. T[n].wait # {}
    BY <2>4, <2>6
  <2> HIDE DEF n
  <2>8. T[n].done < nodes[n].child_count /\ T[n].done \in Nat /\ nodes[n].child_count \in Nat
    BY <1>1, <2>4, <2>7
  <2>9. T[k].place \in 0 .. nodes[T[k].above].child_count - 1
    BY <2>5, <2>8
  <2>10. Open(T, k, p)
    BY <2>1, <2>2, <2>5 DEF Open, n
  <2> QED
    BY <2>1, <2>4, <2>5, <2>9, <2>10
<1> QED
  BY <1>3, <1>4

(* One place, one node.                                                    *)
LEMMA OnePlace ==
  ASSUME ShapeInv, next.node <= MaxNodes, NEW T, TreeInv(T),
         NEW k \in 1 .. next.node - 1, NEW l \in 1 .. next.node - 1,
         T[k].above = T[l].above, T[k].place = T[l].place
  PROVE  k = l
<1>1. /\ T[k].above \in Here /\ T[k].place \in Nat
      /\ Written(T, k) \/ \E p \in DOMAIN calls : Open(T, k, p)
      /\ Written(T, l) \/ \E p \in DOMAIN calls : Open(T, l, p)
  BY PlaceAbove
<1>2. T[T[k].above].done \in Nat
  BY <1>1, TreeTypes
<1>3. Written(T, k) => T[k].place # T[T[k].above].done
  BY <1>1, <1>2 DEF Written
<1>4. Written(T, l) => T[k].place # T[T[k].above].done
  BY <1>1, <1>2 DEF Written
<1>5. CASE Written(T, k) /\ Written(T, l)
  BY <1>5 DEF Written
<1>6. ASSUME NEW p \in DOMAIN calls, Open(T, k, p), NEW q \in DOMAIN calls, Open(T, l, q)
      PROVE  k = l
  <2>1. p - 1 = q - 1
    BY <1>6 DEF Open, TreeInv, CallsOK
  <2>2. DOMAIN calls = 1 .. Len(calls) /\ Len(calls) \in Nat
    BY DEF ShapeInv
  <2>3. p = q
    BY <2>1, <2>2
  <2> QED
    BY <1>6, <2>3 DEF Open
<1> QED
  BY <1>1, <1>3, <1>4, <1>5, <1>6 DEF Open

(* A node is never entered without a place in the array.                   *)
LEMMA NodesFit ==
  ASSUME ShapeInv, next.node <= MaxNodes, PlacesInv, NEW T, TreeInv(T),
         calls # <<>>, Innermost.left # {}
  PROVE  next.node < MaxNodes
<1> DEFINE top == Innermost.node
           slot(k) == IF k < next.node THEN nodes[T[k].above].first_child + T[k].place
                                       ELSE nodes[top].first_child + T[top].done
           f == [k \in 1 .. next.node |-> slot(k)]
<1>1. next.node \in Nat /\ next.child \in Nat /\ Len(calls) \in DOMAIN calls /\ Len(calls) \in Nat
  BY TreeTypes, HandedOn DEF ShapeInv
<1>2. /\ top \in Here /\ T[top].wait # {} /\ T[top].done = Innermost.g
  BY <1>1 DEF TreeInv, CallsOK, FrameOK, Innermost
<1>3. T[top].done \in 0 .. nodes[top].child_count - 1
  <2>1. T[top].done \in Nat /\ nodes[top].child_count \in Nat /\ T[top].done < nodes[top].child_count
    BY <1>2, TreeTypes, ChildToCome
  <2> HIDE DEF top
  <2> QED
    BY <2>1
<1>4. /\ \A n \in Here : \A c \in 0 .. nodes[n].child_count - 1 :
           nodes[n].first_child + c \in 0 .. next.child - 1
  <2>1. \A n \in Here : nodes[n].first_child + nodes[n].child_count <= next.child
    BY DEF TreeInv, PlacesApart
  <2>2. \A n \in Here : nodes[n].first_child \in Nat /\ nodes[n].child_count \in Nat
    BY TreeTypes
  <2>3. \A a, b \in Nat : a + b <= next.child => \A c \in 0 .. b - 1 : a + c \in 0 .. next.child - 1
    BY <1>1
  <2> QED
    BY <2>1, <2>2, <2>3
<1>5. \A n, m \in Here :
        \A c \in 0 .. nodes[n].child_count - 1 : \A d \in 0 .. nodes[m].child_count - 1 :
          nodes[n].first_child + c = nodes[m].first_child + d => n = m /\ c = d
  <2>1. \A n \in Here : nodes[n].first_child \in Nat /\ nodes[n].child_count \in Nat
    BY TreeTypes
  <2> QED
    BY <2>1 DEF TreeInv, PlacesApart
<1>6. \A k \in 1 .. next.node - 1 :
        /\ T[k].above \in Here /\ T[k].place \in 0 .. nodes[T[k].above].child_count - 1
  BY PlaceAbove
<1> HIDE DEF top
<1>7. \A k \in 1 .. next.node - 1 : ~(T[k].above = top /\ T[k].place = T[top].done)
  <2> SUFFICES ASSUME NEW k \in 1 .. next.node - 1, T[k].above = top, T[k].place = T[top].done
               PROVE  FALSE
    OBVIOUS
  <2>1. T[top].done \in Nat
    BY <1>2, TreeTypes
  <2>2. ~Written(T, k)
    BY <2>1 DEF Written
  <2>3. PICK p \in DOMAIN calls : Open(T, k, p)
    BY <2>2, PlaceAbove
  <2>4. p - 1 = Len(calls)
    BY <1>1, <2>3 DEF Open, TreeInv, CallsOK, top, Innermost
  <2>5. DOMAIN calls = 1 .. Len(calls)
    BY DEF ShapeInv
  <2> QED
    BY <1>1, <2>4, <2>5
<1>8. ASSUME NEW k \in 1 .. next.node
      PROVE  slot(k) \in 0 .. next.child - 1
  <2>1. k < next.node => k \in 1 .. next.node - 1
    BY <1>1
  <2> QED
    BY <1>2, <1>3, <1>4, <1>6, <2>1
<1>9. ASSUME NEW k \in 1 .. next.node, NEW l \in 1 .. next.node, slot(k) = slot(l)
      PROVE  k = l
  <2>1. /\ k < next.node => k \in 1 .. next.node - 1
        /\ ~(k < next.node) => k = next.node
        /\ l < next.node => l \in 1 .. next.node - 1
        /\ ~(l < next.node) => l = next.node
    BY <1>1
  <2>2. CASE k < next.node /\ l < next.node
    <3>1. nodes[T[k].above].first_child + T[k].place = nodes[T[l].above].first_child + T[l].place
      BY <1>9, <2>2
    <3>2. T[k].above = T[l].above /\ T[k].place = T[l].place
      BY <1>5, <1>6, <2>1, <2>2, <3>1
    <3> QED
      BY <2>1, <2>2, <3>2, OnePlace
  <2>3. CASE k < next.node /\ ~(l < next.node)
    <3>1. nodes[T[k].above].first_child + T[k].place = nodes[top].first_child + T[top].done
      BY <1>9, <2>3
    <3> QED
      BY <1>2, <1>3, <1>5, <1>6, <1>7, <2>1, <2>3, <3>1
  <2>4. CASE ~(k < next.node) /\ l < next.node
    <3>1. nodes[T[l].above].first_child + T[l].place = nodes[top].first_child + T[top].done
      BY <1>9, <2>4
    <3> QED
      BY <1>2, <1>3, <1>5, <1>6, <1>7, <2>1, <2>4, <3>1
  <2> QED
    BY <2>1, <2>2, <2>3, <2>4
<1> HIDE DEF slot
<1>10. f \in Injection(1 .. next.node, 0 .. next.child - 1)
  BY <1>8, <1>9 DEF Injection, IsInjective
<1>11. IsFiniteSet(0 .. next.child - 1) /\ Cardinality(0 .. next.child - 1) = next.child
  <2>1. 0 \in Int /\ next.child - 1 \in Int
    BY <1>1
  <2>2. IsFiniteSet(0 .. next.child - 1)
        /\ Cardinality(0 .. next.child - 1) = IF 0 > next.child - 1 THEN 0 ELSE next.child - 1 - 0 + 1
    BY <2>1, FS_Interval
  <2> QED
    BY <1>1, <2>2
<1>12. Cardinality(1 .. next.node) = next.node
  BY <1>1, CountUpTo
<1>13. next.node <= next.child
  BY <1>10, <1>11, <1>12, FS_Injection
<1>14. PICK used \in SUBSET Tokens : next.child = Cardinality(used)
  BY DEF PlacesInv
<1>15. next.child <= 2 * Len(keys) - 2 /\ Len(keys) \in Nat
  BY <1>14, TokensCount, KeyFacts DEF ShapeInv
<1> QED
  BY <1>1, <1>13, <1>15 DEF MaxNodes
-----------------------------------------------------------------------------
(* A call of build_trie_impl and what it makes of the tree.                *)
Called(group, depth, callers) ==
  \/ /\ next.node = 0 /\ calls = <<>>
     /\ group = Numbers /\ depth = 0 /\ callers = <<>>
  \/ /\ calls # <<>> /\ Innermost.left # {}
     /\ group = NextGroup(Innermost) /\ depth = Innermost.depth /\ callers = Callers

Grown(T, group, depth) ==
  [n \in 0 .. next.node |->
     IF n # next.node THEN T[n]
     ELSE [group |-> group, depth |-> depth, done |-> 0, wait |-> Rest(group, depth),
           above |-> IF calls = <<>> THEN 0 ELSE Innermost.node,
           place |-> IF calls = <<>> THEN 0 ELSE Innermost.g]]

Entered(group, depth, callers) ==
  /\ keys' = keys /\ children' = children
  /\ nodes' = [nodes EXCEPT ![next.node] = NewNode(group, depth)]
  /\ labels' = [a \in DOMAIN labels |->
                  IF a \in next.label .. next.label + longest_common_prefix(group, depth) - 1
                  THEN keys[First(group)][depth + a - next.label + 1] ELSE labels[a]]
  /\ next' = [node |-> next.node + 1, label |-> next.label + longest_common_prefix(group, depth),
              child |-> next.child + Children(group, depth)]
  /\ calls' = Append(callers, NewFrame(group, depth))
  /\ next.label + longest_common_prefix(group, depth) <= MaxLabels

Growing(T, U, group, depth, callers) ==
  /\ ShapeInv /\ next.node < MaxNodes /\ TreeInv(T) /\ GroupOK(group, depth)
  /\ FramesOK(calls) /\ Called(group, depth, callers) /\ Entered(group, depth, callers)
  /\ U = Grown(T, group, depth)

LEMMA GrowsBy ==
  ASSUME NEW T, NEW U, NEW group, NEW depth, NEW callers, Growing(T, U, group, depth, callers)
  PROVE  /\ Here' = Here \cup {next.node} /\ next.node \notin Here /\ next.node \in Nat
         /\ next.child \in Nat /\ next.label \in Nat /\ next.node <= MaxNodes
         /\ Children(group, depth) \in Nat /\ longest_common_prefix(group, depth) \in Nat
         /\ depth + longest_common_prefix(group, depth) = Deep(group, depth)
         /\ keys' = keys /\ children' = children
         /\ Numbers' = Numbers /\ DOMAIN U = Here' /\ Rest(group, depth) \in SUBSET Numbers
<1>1. /\ next \in [node : Nat, label : Nat, child : Nat] /\ Len(keys) \in Nat
      /\ keys \in KeyLists /\ StaticAsserts(keys) /\ GroupOK(group, depth) /\ next.node < MaxNodes
      /\ nodes \in [0 .. MaxNodes - 1 -> FlatNode] /\ MaxNodes \in Nat
  BY KeyFacts DEF Growing, ShapeInv, MaxNodes
<1>2. next.node \in Nat /\ next.label \in Nat /\ next.child \in Nat /\ next.node <= MaxNodes
  BY <1>1
<1> DEFINE lcp == longest_common_prefix(group, depth)
           count == Children(group, depth)
<1>3. /\ lcp \in Nat /\ Deep(group, depth) = depth + lcp /\ group \in SUBSET Numbers
      /\ Rest(group, depth) \in SUBSET Numbers
  BY <1>1, Label, Consumed DEF Deep, GroupOK
<1>4. count \in Nat
  BY <1>1, <1>3, CharsFinite DEF Children
<1> HIDE DEF lcp, count
<1>5. next' = [node |-> next.node + 1, label |-> next.label + lcp, child |-> next.child + count]
  BY DEF Growing, Entered, lcp, count
<1>6. Here' = Here \cup {next.node} /\ next.node \notin Here
  BY <1>2, <1>5 DEF Here
<1>8. DOMAIN U = 0 .. next.node
  BY DEF Growing, Grown
<1>9. Here' = 0 .. next.node
  BY <1>2, <1>5 DEF Here
<1>10. Numbers' = Numbers /\ keys' = keys /\ children' = children
  BY DEF Growing, Entered, Numbers
<1> QED
  BY <1>2, <1>3, <1>4, <1>5, <1>6, <1>8, <1>9, <1>10 DEF lcp, count

LEMMA Counted ==
  ASSUME NEW T, NEW U, NEW group, NEW depth, NEW callers, Growing(T, U, group, depth, callers)
  PROVE  /\ next'.node = next.node + 1 /\ next'.child = next.child + Children(group, depth)
         /\ next'.label = next.label + longest_common_prefix(group, depth)
BY DEF Growing, Entered

LEMMA NewWritten ==
  ASSUME NEW T, NEW U, NEW group, NEW depth, NEW callers, Growing(T, U, group, depth, callers)
  PROVE  /\ U[next.node].group = group /\ U[next.node].depth = depth /\ U[next.node].done = 0
         /\ U[next.node].wait = Rest(group, depth)
         /\ calls # <<>> => U[next.node].above = Innermost.node /\ U[next.node].place = Innermost.g
         /\ nodes'[next.node].label_offset = next.label
         /\ nodes'[next.node].label_length = longest_common_prefix(group, depth)
         /\ nodes'[next.node].first_child = IF Rest(group, depth) = {} THEN 0 ELSE next.child
         /\ nodes'[next.node].child_count = Children(group, depth)
         /\ nodes'[next.node].value_index = Value(group, depth)
<1>1. nodes'[next.node] = NewNode(group, depth)
  <2>1. /\ nodes \in [0 .. MaxNodes - 1 -> FlatNode] /\ next.node < MaxNodes
        /\ nodes' = [nodes EXCEPT ![next.node] = NewNode(group, depth)]
    BY DEF Growing, Entered, ShapeInv
  <2>2. next.node \in Nat /\ MaxNodes \in Nat
    BY KeyFacts DEF Growing, ShapeInv, MaxNodes
  <2>3. next.node \in 0 .. MaxNodes - 1
    BY <2>1, <2>2
  <2> QED
    BY <2>1, <2>3
<1>2. next.node \in Nat /\ U = Grown(T, group, depth)
  BY GrowsBy DEF Growing
<1>3. U[next.node] = [group |-> group, depth |-> depth, done |-> 0, wait |-> Rest(group, depth),
                      above |-> IF calls = <<>> THEN 0 ELSE Innermost.node,
                      place |-> IF calls = <<>> THEN 0 ELSE Innermost.g]
  BY <1>2 DEF Grown
<1>4. /\ nodes'[next.node].label_offset = next.label
      /\ nodes'[next.node].label_length = longest_common_prefix(group, depth)
      /\ nodes'[next.node].first_child = IF Rest(group, depth) = {} THEN 0 ELSE next.child
      /\ nodes'[next.node].child_count = Children(group, depth)
      /\ nodes'[next.node].value_index = Value(group, depth)
  BY <1>1 DEF NewNode
<1> QED
  BY <1>3, <1>4

LEMMA OldStays ==
  ASSUME NEW T, NEW U, NEW group, NEW depth, NEW callers, Growing(T, U, group, depth, callers)
  PROVE  /\ \A n \in Here : nodes'[n] = nodes[n] /\ U[n] = T[n] /\ n \in Here'
         /\ \A a \in 0 .. next.label - 1 : labels'[a] = labels[a]
<1>1. /\ nodes \in [0 .. MaxNodes - 1 -> FlatNode] /\ nodes' = [nodes EXCEPT ![next.node] = NewNode(group, depth)]
      /\ keys' = keys /\ children' = children /\ next.node \in Nat
      /\ next.node \notin Here /\ U = Grown(T, group, depth) /\ Here' = Here \cup {next.node}
  BY GrowsBy DEF Growing, Entered, ShapeInv
<1>2. ASSUME NEW n \in Here
      PROVE  nodes'[n] = nodes[n] /\ U[n] = T[n] /\ n \in Here'
  <2>1. n # next.node /\ n \in 0 .. next.node /\ n \in 0 .. MaxNodes - 1
    <3>1. n \in 0 .. next.node - 1 /\ next.node < MaxNodes /\ MaxNodes \in Nat
      BY KeyFacts DEF Here, Growing, ShapeInv, MaxNodes
    <3> QED
      BY <1>1, <3>1
  <2>2. nodes'[n] = nodes[n]
    BY <1>1, <2>1
  <2>3. U[n] = T[n]
    BY <1>1, <2>1 DEF Grown
  <2> QED
    BY <1>1, <2>2, <2>3
<1>3. ASSUME NEW a \in 0 .. next.label - 1
      PROVE  labels'[a] = labels[a]
  <2>1. next.label \in Nat /\ longest_common_prefix(group, depth) \in Nat
        /\ next.label + longest_common_prefix(group, depth) <= MaxLabels /\ MaxLabels \in Nat
        /\ labels \in [0 .. MaxLabels - 1 -> Nat]
    BY GrowsBy, SpotsCount DEF Growing, Entered, ShapeInv
  <2> DEFINE lcp == longest_common_prefix(group, depth)
  <2>2. labels' = [b \in DOMAIN labels |->
                     IF b \in next.label .. next.label + lcp - 1
                     THEN keys[First(group)][depth + b - next.label + 1] ELSE labels[b]]
    BY DEF Growing, Entered
  <2> HIDE DEF lcp
  <2>3. a \in 0 .. MaxLabels - 1 /\ a \notin next.label .. next.label + lcp - 1
    BY <2>1 DEF lcp
  <2> QED
    BY <2>1, <2>2, <2>3
<1> QED
  BY <1>2, <1>3

(* The nodes stand for their groups.                                       *)
LEMMA GrownNodes ==
  ASSUME NEW T, NEW U, NEW group, NEW depth, NEW callers, Growing(T, U, group, depth, callers),
         NEW n \in Here'
  PROVE  NodeOK(U, n)'
<1>1. CASE n \in Here
  <2>1. NodeOK(T, n)
    BY <1>1 DEF Growing, TreeInv
  <2>2. nodes'[n] = nodes[n] /\ U[n] = T[n]
    BY <1>1, OldStays
  <2>3. /\ next.label \in Nat /\ next'.label = next.label + longest_common_prefix(group, depth)
        /\ longest_common_prefix(group, depth) \in Nat
    <3>1. next.label \in Nat /\ longest_common_prefix(group, depth) \in Nat
      BY GrowsBy
    <3> QED
      BY <3>1, Counted
  <2>4. nodes[n].label_offset \in Nat /\ nodes[n].label_length \in Nat
    BY <1>1, GrowsBy, TreeTypes DEF Growing
  <2>5. nodes[n].label_offset + nodes[n].label_length <= next.label
    BY <2>1 DEF NodeOK
  <2>6. \A k \in 1 .. nodes[n].label_length :
          labels'[nodes[n].label_offset + k - 1] = labels[nodes[n].label_offset + k - 1]
    <3>1. \A k \in 1 .. nodes[n].label_length : nodes[n].label_offset + k - 1 \in 0 .. next.label - 1
      BY <2>3, <2>4, <2>5
    <3> QED
      BY <3>1, OldStays
  <2>7. nodes[n].label_offset + nodes[n].label_length <= next'.label
    BY <2>3, <2>4, <2>5
  <2>8. keys' = keys
    BY DEF Growing, Entered
  <2>9. End(U, n)' = End(T, n)
    BY <2>2 DEF End
  <2>10. GroupOK(U[n].group, End(U, n))'
    BY <2>1, <2>2, <2>8, <2>9 DEF NodeOK, GroupOK, Alike, Numbers
  <2> QED
    BY <2>1, <2>2, <2>6, <2>7, <2>8, <2>9, <2>10 DEF NodeOK, NPOS
<1>2. CASE n = next.node
  <2> DEFINE lcp == longest_common_prefix(group, depth)
             deep == Deep(group, depth)
  <2>1. keys \in KeyLists /\ StaticAsserts(keys) /\ GroupOK(group, depth) /\ keys' = keys
    BY DEF Growing, Entered, ShapeInv
  <2>2. /\ lcp \in Nat /\ depth \in Nat /\ deep = depth + lcp
        /\ next.label \in Nat /\ next'.label = next.label + lcp /\ next.node \in Nat
        /\ nodes'[n].label_offset = next.label /\ nodes'[n].label_length = lcp
        /\ nodes'[n].value_index = Value(group, depth)
        /\ U[n].group = group /\ U[n].depth = depth
    <3>1. lcp \in Nat /\ depth \in Nat /\ deep = depth + lcp /\ next.label \in Nat /\ next.node \in Nat
      BY <2>1, GrowsBy DEF GroupOK, Deep
    <3>2. next'.label = next.label + lcp
      BY Counted
    <3>3. /\ nodes'[n].label_offset = next.label /\ nodes'[n].label_length = lcp
          /\ nodes'[n].value_index = Value(group, depth)
          /\ U[n].group = group /\ U[n].depth = depth
      BY <1>2, NewWritten
    <3> QED
      BY <3>1, <3>2, <3>3
  <2>3. End(U, n)' = deep
    BY <2>2 DEF End
  <2>4. /\ GroupOK(group, deep)
        /\ \A i \in group : \A k \in depth + 1 .. deep : keys[First(group)][k] = keys[i][k]
    BY <2>1, Label DEF GroupOK
  <2>5. GroupOK(U[n].group, End(U, n))'
    <3>1. PICK e : e = deep
      OBVIOUS
    <3>2. U[n].group = group /\ End(U, n)' = e
      BY <2>2, <2>3, <3>1
    <3>3. GroupOK(group, e)
      BY <2>4, <3>1
    <3>4. GroupOK(group, e)'
      BY <2>1, <3>3 DEF GroupOK, Alike, Numbers
    <3> HIDE DEF deep, lcp
    <3> QED
      BY <3>2, <3>4
  <2>6. n # 0 => lcp > 0
    <3> SUFFICES ASSUME n # 0 PROVE lcp > 0
      OBVIOUS
    <3>1. calls # <<>> /\ Innermost.left # {} /\ group = NextGroup(Innermost) /\ depth = Innermost.depth
      BY <1>2 DEF Growing, Called
    <3>2. /\ \A i \in group : Len(keys[i]) > depth
          /\ \A i, j \in group : keys[i][depth + 1] = keys[j][depth + 1]
      BY <2>1, <3>1, BuildChildEnters DEF Growing
    <3> QED
      BY <2>1, <3>2, PrefixBegins
  <2>7. \A i \in group : \A k \in 1 .. lcp : labels'[next.label + k - 1] = keys[i][depth + k]
    <3> SUFFICES ASSUME NEW i \in group, NEW k \in 1 .. lcp
                 PROVE  labels'[next.label + k - 1] = keys[i][depth + k]
      OBVIOUS
    <3>1. MaxLabels \in Nat /\ next.label + lcp <= MaxLabels /\ labels \in [0 .. MaxLabels - 1 -> Nat]
      BY <2>1, SpotsCount DEF Growing, Entered, ShapeInv
    <3>2. labels' = [b \in DOMAIN labels |->
                       IF b \in next.label .. next.label + lcp - 1
                       THEN keys[First(group)][depth + b - next.label + 1] ELSE labels[b]]
      BY DEF Growing, Entered
    <3> HIDE DEF lcp
    <3> DEFINE a == next.label + k - 1
    <3>3. a \in 0 .. MaxLabels - 1 /\ a \in next.label .. next.label + lcp - 1
          /\ depth + a - next.label + 1 = depth + k /\ depth + k \in depth + 1 .. depth + lcp
      <4> HIDE DEF a
      <4>1. MaxLabels \in Nat /\ next.label + lcp <= MaxLabels /\ next.label \in Nat /\ lcp \in Nat /\ depth \in Nat
        BY <2>2, <3>1
      <4>2. k \in Nat /\ 1 <= k /\ k <= lcp
        BY <4>1
      <4> QED
        BY <4>1, <4>2 DEF a
    <3> HIDE DEF a
    <3>4. labels'[a] = keys[First(group)][depth + a - next.label + 1]
      BY <3>1, <3>2, <3>3
    <3>5. keys[First(group)][depth + k] = keys[i][depth + k]
      BY <2>2, <2>4, <3>3
    <3> QED
      BY <3>3, <3>4, <3>5 DEF a
  <2>8. /\ Value(group, depth) \in -1 .. NPOS - 1
        /\ Value(group, depth) # -1 =>
              \E i \in group \ Rest(group, depth) : Value(group, depth) = i - 1
    BY <2>1, ValueIs
  <2>9. /\ \A i \in group : i \in Rest(group, depth) <=> Len(keys[i]) # deep
        /\ \A i \in group : Len(keys[i]) = deep => Value(group, depth) = i - 1
    BY <2>1, Consumed
  <2>10. Value(group, depth) # -1 => \E i \in group : Len(keys[i]) = deep /\ Value(group, depth) = i - 1
    BY <2>8, <2>9
  <2>11. next.label + lcp <= next'.label
    BY <2>2
  <2> HIDE DEF lcp, deep
  <2> QED
    BY <2>1, <2>2, <2>3, <2>5, <2>6, <2>7, <2>8, <2>9, <2>10, <2>11 DEF NodeOK, NPOS
<1> QED
  BY <1>1, <1>2, GrowsBy

LEMMA GrownWaits ==
  ASSUME NEW T, NEW U, NEW group, NEW depth, NEW callers, Growing(T, U, group, depth, callers),
         NEW n \in Here'
  PROVE  WaitOK(U, n)'
<1>0. keys' = keys /\ children' = children /\ Numbers' = Numbers
      /\ keys \in KeyLists /\ StaticAsserts(keys)
  BY GrowsBy DEF Growing, ShapeInv
<1>1. CASE n \in Here
  <2>1. /\ WaitOK(T, n) /\ \A c \in 0 .. T[n].done - 1 : ChildOK(T, n, c)
    BY <1>1 DEF Growing, TreeInv
  <2>2. nodes'[n] = nodes[n] /\ U[n] = T[n]
    BY <1>1, OldStays
  <2>3. End(U, n)' = End(T, n)
    BY <2>2 DEF End
  <2>4. ASSUME NEW i PROVE Class(U, n, i)' = Class(T, n, i)
    BY <1>0, <2>2, <2>3 DEF Class
  <2>5. ASSUME NEW c \in 0 .. T[n].done - 1
        PROVE  ChildOf(n, c)' = ChildOf(n, c) /\ U[ChildOf(n, c)] = T[ChildOf(n, c)]
    <3>1. ChildOf(n, c)' = ChildOf(n, c)
      BY <1>0, <2>2 DEF ChildOf
    <3>2. ChildOf(n, c) \in 1 .. next.node - 1
      BY <2>1 DEF ChildOK, Under
    <3>3. next.node \in Nat
      BY GrowsBy
    <3>4. ChildOf(n, c) \in Here
      BY <3>2, <3>3 DEF Here
    <3> QED
      BY <3>1, <3>4, OldStays
  <2>6. FirstChars(U[n].wait, End(U, n))' = FirstChars(T[n].wait, End(T, n))
    BY <1>0, <2>2, <2>3 DEF FirstChars
  <2>7. \A i \in U[n].wait : i \in Class(U, n, i)' /\ Class(U, n, i)' \subseteq U[n].wait
    BY <2>1, <2>2, <2>4 DEF WaitOK
  <2>8. U[n].done + Cardinality(FirstChars(U[n].wait, End(U, n)))' = nodes'[n].child_count
    BY <2>1, <2>2, <2>6 DEF WaitOK
  <2>9. \A i \in U[n].group : Len(keys[i]) > End(U, n)' =>
          i \in U[n].wait \/ \E c \in 0 .. U[n].done - 1 : i \in U[ChildOf(n, c)'].group
    BY <2>1, <2>2, <2>3, <2>5 DEF WaitOK
  <2> QED
    BY <1>0, <2>7, <2>8, <2>9 DEF WaitOK
<1>2. CASE n = next.node
  <2> DEFINE deep == Deep(group, depth)
  <2>1. /\ U[n].group = group /\ U[n].depth = depth /\ U[n].done = 0 /\ U[n].wait = Rest(group, depth)
        /\ nodes'[n].label_length = longest_common_prefix(group, depth)
        /\ nodes'[n].child_count = Children(group, depth)
    BY <1>2, NewWritten
  <2>2. depth + longest_common_prefix(group, depth) = deep
    BY GrowsBy
  <2>3. End(U, n)' = deep
    BY <2>1, <2>2 DEF End
  <2>4. /\ Rest(group, depth) \subseteq group
        /\ \A i \in group : i \in Rest(group, depth) <=> Len(keys[i]) > deep
    BY <1>0, Consumed DEF Growing
  <2>5. ASSUME NEW i \in Rest(group, depth)
        PROVE  i \in Class(U, n, i)' /\ Class(U, n, i)' \subseteq Rest(group, depth)
    BY <1>0, <2>1, <2>3, <2>4 DEF Class
  <2>6. FirstChars(U[n].wait, End(U, n))' = FirstChars(Rest(group, depth), deep)
    BY <1>0, <2>1, <2>3 DEF FirstChars
  <2>7. 0 + Cardinality(FirstChars(U[n].wait, End(U, n)))' = nodes'[n].child_count
    <3>1. Children(group, depth) \in Nat
      BY GrowsBy
    <3>2. Cardinality(FirstChars(U[n].wait, End(U, n)))' = Children(group, depth)
      BY <2>6 DEF Children
    <3> QED
      BY <2>1, <3>1, <3>2
  <2> HIDE DEF deep
  <2> QED
    BY <1>0, <2>1, <2>3, <2>4, <2>5, <2>7 DEF WaitOK
<1> QED
  BY <1>1, <1>2, GrowsBy

LEMMA GrownUnder ==
  ASSUME NEW T, NEW U, NEW group, NEW depth, NEW callers, Growing(T, U, group, depth, callers),
         NEW k, NEW n \in Here, NEW c, Under(T, k, n, c)
  PROVE  Under(U, k, n, c)'
<1>1. k \in 1 .. next.node - 1 /\ next.node \in Nat /\ next'.node = next.node + 1
  <2>1. k \in 1 .. next.node - 1
    BY DEF Under
  <2>2. next.node \in Nat
    BY GrowsBy
  <2>3. next'.node = next.node + 1
    BY Counted
  <2> QED
    BY <2>1, <2>2, <2>3
<1>2. k \in Here /\ k \in 1 .. next'.node - 1
  BY <1>1 DEF Here
<1>3. U[k] = T[k] /\ nodes'[n] = nodes[n] /\ U[n] = T[n]
  BY <1>2, OldStays
<1>4. End(U, n)' = End(T, n)
  BY <1>3 DEF End
<1>5. keys' = keys
  BY GrowsBy
<1>6. ASSUME NEW i PROVE Class(U, n, i)' = Class(T, n, i)
  BY <1>3, <1>4, <1>5 DEF Class
<1> QED
  BY <1>2, <1>3, <1>4, <1>6 DEF Under

LEMMA GrownChildren ==
  ASSUME NEW T, NEW U, NEW group, NEW depth, NEW callers, Growing(T, U, group, depth, callers),
         NEW n \in Here', NEW c \in 0 .. U[n].done - 1
  PROVE  ChildOK(U, n, c)'
<1>0. children' = children
  BY GrowsBy
<1>1. CASE n \in Here
  <2>1. nodes'[n] = nodes[n] /\ U[n] = T[n]
    BY <1>1, OldStays
  <2>2. \A d \in 0 .. T[n].done - 1 : ChildOK(T, n, d)
    BY <1>1 DEF Growing, TreeInv
  <2>3. ASSUME NEW d \in 0 .. T[n].done - 1
        PROVE  ChildOf(n, d)' = ChildOf(n, d) /\ U[ChildOf(n, d)] = T[ChildOf(n, d)]
    <3>1. ChildOf(n, d)' = ChildOf(n, d)
      BY <1>0, <2>1 DEF ChildOf
    <3>2. ChildOf(n, d) \in 1 .. next.node - 1
      BY <2>2 DEF ChildOK, Under
    <3>3. next.node \in Nat
      BY GrowsBy
    <3>4. ChildOf(n, d) \in Here
      BY <3>2, <3>3 DEF Here
    <3> QED
      BY <3>1, <3>4, OldStays
  <2>4. c \in 0 .. T[n].done - 1
    BY <2>1
  <2>5. Under(U, ChildOf(n, c), n, c)'
    <3>1. Under(T, ChildOf(n, c), n, c)
      BY <2>2, <2>4 DEF ChildOK
    <3> DEFINE k == ChildOf(n, c)
    <3>2. PICK j : j = k
      OBVIOUS
    <3>3. Under(U, j, n, c)'
      <4>1. Under(T, j, n, c)
        BY <3>1, <3>2
      <4> QED
        BY <1>1, <4>1, GrownUnder
    <3>4. ChildOf(n, c)' = j
      BY <2>3, <2>4, <3>2
    <3> QED
      BY <3>3, <3>4 DEF Under
  <2> QED
    BY <2>1, <2>2, <2>3, <2>4, <2>5 DEF ChildOK
<1>2. CASE n = next.node
  <2>1. U[n].done = 0
    BY <1>2, NewWritten
  <2> QED
    BY <2>1
<1> QED
  BY <1>1, <1>2, GrowsBy

LEMMA GrownPlaces ==
  ASSUME NEW T, NEW U, NEW group, NEW depth, NEW callers, Growing(T, U, group, depth, callers)
  PROVE  PlacesApart'
<1>1. /\ Here' = Here \cup {next.node} /\ next.node \in Nat /\ next.child \in Nat
      /\ Children(group, depth) \in Nat /\ next.node \notin Here /\ Rest(group, depth) \in SUBSET Numbers
  BY GrowsBy
<1>2. next'.child = next.child + Children(group, depth)
  BY Counted
<1>3. /\ nodes'[next.node].first_child = IF Rest(group, depth) = {} THEN 0 ELSE next.child
      /\ nodes'[next.node].child_count = Children(group, depth)
  BY NewWritten
<1>4. \A n \in Here : nodes'[n] = nodes[n]
  BY OldStays
<1>5. \A n \in Here : /\ nodes[n].first_child \in Nat /\ nodes[n].child_count \in Nat
                      /\ nodes[n].first_child + nodes[n].child_count <= next.child
  <2>1. \A n \in Here : nodes[n].first_child \in Nat /\ nodes[n].child_count \in Nat
    BY GrowsBy, TreeTypes DEF Growing
  <2> QED
    BY <2>1 DEF Growing, TreeInv, PlacesApart
<1>6. Rest(group, depth) = {} => Children(group, depth) = 0
  BY <1>1, CharsFinite DEF Growing, ShapeInv, Children
<1> DEFINE count == Children(group, depth)
<1> HIDE DEF count
<1>7. /\ nodes'[next.node].child_count = count /\ count \in Nat /\ next'.child = next.child + count
      /\ nodes'[next.node].first_child \in Nat
      /\ nodes'[next.node].first_child + count <= next.child + count
      /\ \A c \in 0 .. count - 1 : nodes'[next.node].first_child + c >= next.child
  BY <1>1, <1>2, <1>3, <1>6 DEF count
<1>8. ASSUME NEW n \in Here'
      PROVE  nodes'[n].first_child + nodes'[n].child_count <= next'.child
  <2>1. CASE n \in Here
    BY <1>1, <1>4, <1>5, <1>7, <2>1
  <2>2. CASE n = next.node
    BY <1>7, <2>2
  <2> QED
    BY <1>1, <2>1, <2>2
<1>9. ASSUME NEW n \in Here', NEW m \in Here',
             NEW c \in 0 .. nodes'[n].child_count - 1, NEW d \in 0 .. nodes'[m].child_count - 1,
             nodes'[n].first_child + c = nodes'[m].first_child + d
      PROVE  n = m
  <2>1. CASE n \in Here /\ m \in Here
    BY <1>4, <1>9, <2>1 DEF Growing, TreeInv, PlacesApart
  <2>2. CASE n \in Here /\ m = next.node
    <3>1. nodes'[n].first_child + c < next.child
      BY <1>1, <1>4, <1>5, <2>2
    <3>2. nodes'[m].first_child + d >= next.child /\ nodes'[m].first_child \in Nat
      BY <1>7, <2>2
    <3>3. nodes'[n].first_child \in Nat
      BY <1>4, <1>5, <2>2
    <3> QED
      BY <1>1, <1>9, <3>1, <3>2, <3>3
  <2>3. CASE n = next.node /\ m \in Here
    <3>1. nodes'[m].first_child + d < next.child
      BY <1>1, <1>4, <1>5, <2>3
    <3>2. nodes'[n].first_child + c >= next.child /\ nodes'[n].first_child \in Nat
      BY <1>7, <2>3, SMTT(40)
    <3>3. nodes'[m].first_child \in Nat
      BY <1>4, <1>5, <2>3, SMTT(40)
    <3> QED
      BY <1>1, <1>9, <3>1, <3>2, <3>3
  <2> QED
    BY <1>1, <2>1, <2>2, <2>3
<1> QED
  BY <1>8, <1>9 DEF PlacesApart

(* The calls: those before, and the new one on top.                        *)
LEMMA CallsGrow ==
  ASSUME NEW T, NEW U, NEW group, NEW depth, NEW callers, Growing(T, U, group, depth, callers)
  PROVE  /\ Len(calls) \in Nat /\ DOMAIN calls = 1 .. Len(calls)
         /\ Len(calls') = Len(calls) + 1 /\ DOMAIN calls' = 1 .. Len(calls) + 1
         /\ calls'[Len(calls) + 1] = NewFrame(group, depth)
         /\ \A p \in DOMAIN calls : /\ calls'[p].node = calls[p].node /\ calls'[p].depth = calls[p].depth
                                    /\ calls'[p].g = calls[p].g
                                    /\ p # Len(calls) => calls'[p].left = calls[p].left
         /\ calls # <<>> => calls'[Len(calls)].left = calls[Len(calls)].left \ group
<1>1. /\ calls \in Seq(Frame) /\ calls' = Append(callers, NewFrame(group, depth))
      /\ keys \in KeyLists /\ StaticAsserts(keys) /\ next.node \in Nat
  BY GrowsBy DEF Growing, Entered, ShapeInv
<1>2. Len(calls) \in Nat /\ DOMAIN calls = 1 .. Len(calls)
  BY <1>1
<1>3. /\ callers \in Seq(Frame) /\ Len(callers) = Len(calls) /\ DOMAIN callers = DOMAIN calls
      /\ \A p \in DOMAIN calls : /\ callers[p].node = calls[p].node /\ callers[p].depth = calls[p].depth
                                 /\ callers[p].g = calls[p].g
                                 /\ p # Len(calls) => callers[p].left = calls[p].left
      /\ calls # <<>> => callers[Len(calls)].left = calls[Len(calls)].left \ group
  <2>1. CASE calls = <<>>
    <3>1. callers = calls
      BY <2>1 DEF Growing, Called
    <3> QED
      BY <1>1, <2>1, <3>1
  <2>2. CASE calls # <<>>
    <3>1. group = NextGroup(Innermost) /\ callers = Callers
      BY <2>2 DEF Growing, Called
    <3>2. /\ Callers \in Seq(Frame) /\ DOMAIN Callers = DOMAIN calls /\ Len(Callers) = Len(calls)
          /\ Innermost \in Frame /\ Innermost = calls[Len(calls)]
          /\ Callers[Len(calls)] = [Innermost EXCEPT !.left = @ \ NextGroup(Innermost)]
          /\ \A p \in DOMAIN calls : p # Len(calls) => Callers[p] = calls[p]
      BY <1>1, <2>2, HandedOn DEF Innermost
    <3>3. /\ Callers[Len(calls)].node = calls[Len(calls)].node
          /\ Callers[Len(calls)].depth = calls[Len(calls)].depth
          /\ Callers[Len(calls)].g = calls[Len(calls)].g
          /\ Callers[Len(calls)].left = calls[Len(calls)].left \ group
      BY <3>1, <3>2 DEF Frame
    <3> QED
      BY <3>1, <3>2, <3>3
  <2> QED
    BY <2>1, <2>2
<1>4. NewFrame(group, depth) \in Frame
  <2>1. Rest(group, depth) \in SUBSET Numbers /\ depth + longest_common_prefix(group, depth) = Deep(group, depth)
        /\ longest_common_prefix(group, depth) \in Nat
    BY GrowsBy
  <2>2. depth \in Nat
    BY DEF Growing, GroupOK
  <2>3. Deep(group, depth) \in Nat
    BY <2>1, <2>2
  <2> QED
    BY <1>1, <2>1, <2>3 DEF NewFrame, Frame
<1> DEFINE new == NewFrame(group, depth)
<1> HIDE DEF new
<1>5. /\ Len(Append(callers, new)) = Len(callers) + 1
      /\ DOMAIN Append(callers, new) = 1 .. Len(callers) + 1
      /\ \A p \in DOMAIN callers : Append(callers, new)[p] = callers[p]
      /\ Append(callers, new)[Len(callers) + 1] = new
  BY <1>3, <1>4, Appended DEF new
<1>6. \A p \in DOMAIN calls : calls'[p] = callers[p]
  BY <1>1, <1>3, <1>5, SMTT(40) DEF new
<1>7. calls # <<>> => Len(calls) \in DOMAIN calls
  BY <1>1, SMTT(40)
<1> QED
  BY <1>1, <1>2, <1>3, <1>5, <1>6, <1>7, ZenonT(60) DEF new

(* The call that is made and the one that makes it.                        *)
LEMMA GrownTop ==
  ASSUME NEW T, NEW U, NEW group, NEW depth, NEW callers, Growing(T, U, group, depth, callers),
         calls # <<>>, NEW n, n = calls[Len(calls)].node, NEW k, k = next.node
  PROVE  /\ n \in Here /\ T[n].wait = calls[Len(calls)].left /\ group \subseteq calls[Len(calls)].left
         /\ Under(U, k, n, T[n].done)'
<1>1. calls \in Seq(Frame) /\ Len(calls) \in DOMAIN calls /\ keys \in KeyLists /\ StaticAsserts(keys)
      /\ FramesOK(calls)
  BY HandedOn DEF Growing, ShapeInv
<1>2. FrameOK(T, Len(calls))
  BY <1>1 DEF Growing, TreeInv, CallsOK
<1> DEFINE call == calls[Len(calls)]
<1>3. /\ n \in Here /\ call.g = T[n].done /\ call.depth = End(T, n) /\ T[n].wait = call.left
      /\ call.left \in SUBSET Numbers
  <2>1. call \in Frame
    BY <1>1
  <2>2. call.left \in SUBSET Numbers
    BY <2>1 DEF Frame
  <2> QED
    BY <1>2, <2>2 DEF FrameOK
<1>4. /\ group = NextGroup(call) /\ depth = call.depth /\ call.left # {}
  BY DEF Growing, Called, Innermost
<1>5. next.node \in Nat /\ keys' = keys /\ n # k
  <2>1. next.node \in Nat /\ keys' = keys /\ next.node \notin Here
    BY GrowsBy
  <2> QED
    BY <1>3, <2>1
<1>6. next'.node = next.node + 1
  BY Counted
<1>7. U[k].group = group /\ U[k].depth = depth
  BY NewWritten
<1>8. U[k].above = n /\ U[k].place = call.g
  BY NewWritten DEF Innermost
<1>9. nodes'[n] = nodes[n] /\ U[n] = T[n]
  BY <1>3, OldStays
<1>10. End(U, n)' = End(T, n)
  BY <1>9 DEF End
<1>11. ASSUME NEW i PROVE Class(U, n, i)' = Class(T, n, i)
  BY <1>5, <1>9, <1>10 DEF Class
<1>12. \A i \in call.left : i \in Class(T, n, i) /\ Class(T, n, i) \subseteq call.left
  BY <1>3 DEF Growing, TreeInv, WaitOK
<1>13. First(call.left) \in call.left
  BY <1>1, <1>3, <1>4, FirstIs
<1> HIDE DEF call
<1>14. /\ group = {i \in call.left : keys[i][End(T, n) + 1] = keys[First(call.left)][End(T, n) + 1]}
       /\ group \subseteq call.left
  BY <1>3, <1>4 DEF NextGroup
<1>15. ASSUME NEW i \in group
       PROVE  group = Class(T, n, i)
  <2>1. Class(T, n, i) \subseteq call.left /\ \A j \in call.left : j \in Class(T, n, j)
    BY <1>12, <1>14
  <2>2. ASSUME NEW j \in group PROVE j \in Class(T, n, i)
    <3>1. j \in Class(T, n, j)
      BY <1>14, <2>1
    <3>2. keys[j][End(T, n) + 1] = keys[i][End(T, n) + 1]
      BY <1>14
    <3> QED
      BY <3>1, <3>2 DEF Class
  <2>3. ASSUME NEW j \in Class(T, n, i) PROVE j \in group
    <3>1. j \in call.left
      BY <2>1
    <3>2. keys[j][End(T, n) + 1] = keys[i][End(T, n) + 1]
      BY DEF Class
    <3> QED
      BY <1>14, <3>1, <3>2
  <2> QED
    BY <2>2, <2>3
<1>16. k \in 1 .. next'.node - 1
  <2>1. k # 0
    BY <1>3, <1>5 DEF Here
  <2> QED
    BY <1>5, <1>6, <2>1
<1>17. Under(U, k, n, T[n].done)'
  BY <1>3, <1>4, <1>7, <1>8, <1>10, <1>11, <1>15, <1>16 DEF Under
<1> QED
  BY <1>3, <1>14, <1>17 DEF call

LEMMA GrownFrames ==
  ASSUME NEW T, NEW U, NEW group, NEW depth, NEW callers, Growing(T, U, group, depth, callers),
         NEW p \in DOMAIN calls'
  PROVE  FrameOK(U, p)'
<1>1. /\ Len(calls) \in Nat /\ DOMAIN calls = 1 .. Len(calls)
      /\ Len(calls') = Len(calls) + 1 /\ DOMAIN calls' = 1 .. Len(calls) + 1
      /\ calls'[Len(calls) + 1] = NewFrame(group, depth)
      /\ \A q \in DOMAIN calls : /\ calls'[q].node = calls[q].node /\ calls'[q].depth = calls[q].depth
                                 /\ calls'[q].g = calls[q].g
                                 /\ q # Len(calls) => calls'[q].left = calls[q].left
      /\ calls # <<>> => calls'[Len(calls)].left = calls[Len(calls)].left \ group
  BY CallsGrow
<1>2. Here' = Here \cup {next.node} /\ next.node \in Nat
  BY GrowsBy
<1>3. CASE p = Len(calls) + 1
  <2>1. /\ calls'[p].node = next.node /\ calls'[p].depth = Deep(group, depth)
        /\ calls'[p].left = Rest(group, depth) /\ calls'[p].g = 0
    BY <1>1, <1>3 DEF NewFrame
  <2>2. /\ U[next.node].depth = depth /\ U[next.node].done = 0 /\ U[next.node].wait = Rest(group, depth)
        /\ nodes'[next.node].label_length = longest_common_prefix(group, depth)
    BY NewWritten
  <2>3. depth + longest_common_prefix(group, depth) = Deep(group, depth)
    BY GrowsBy
  <2>4. End(U, calls[p].node)' = Deep(group, depth)
    BY <2>1, <2>2, <2>3 DEF End
  <2> QED
    BY <1>1, <1>2, <1>3, <2>1, <2>2, <2>4 DEF FrameOK
<1>4. CASE p \in DOMAIN calls /\ p # Len(calls)
  <2>1. p + 1 \in DOMAIN calls /\ FrameOK(T, p) /\ p # Len(calls')
    <3>1. p + 1 \in 1 .. Len(calls) /\ p # Len(calls) + 1
      BY <1>1, <1>4
    <3> QED
      BY <1>1, <1>4, <3>1 DEF Growing, TreeInv, CallsOK
  <2>2. PICK n, m : n = calls[p].node /\ m = calls[p + 1].node
    OBVIOUS
  <2>3. /\ n \in Here /\ calls[p].depth = End(T, n) /\ calls[p].g = T[n].done
        /\ T[n].wait = calls[p].left \cup T[m].group
        /\ calls[p].left \cap T[m].group = {}
        /\ Under(T, m, n, T[n].done)
    BY <1>4, <2>1, <2>2 DEF FrameOK
  <2>4. m \in Here
    <3>1. FrameOK(T, p + 1)
      BY <2>1 DEF Growing, TreeInv, CallsOK
    <3> QED
      BY <2>2, <3>1 DEF FrameOK
  <2>5. nodes'[n] = nodes[n] /\ U[n] = T[n] /\ U[m] = T[m] /\ n \in Here'
    BY <2>3, <2>4, OldStays
  <2>6. End(U, n)' = End(T, n)
    BY <2>5 DEF End
  <2>7. Under(U, m, n, T[n].done)'
    BY <2>3, GrownUnder
  <2>8. calls'[p].node = n /\ calls'[p + 1].node = m /\ calls'[p].depth = End(T, n)
        /\ calls'[p].g = T[n].done /\ calls'[p].left = calls[p].left
    BY <1>1, <1>4, <2>1, <2>2, <2>3
  <2> QED
    BY <2>1, <2>3, <2>5, <2>6, <2>7, <2>8 DEF FrameOK, End
<1>5. CASE p = Len(calls) /\ p \in DOMAIN calls
  <2>1. calls # <<>> /\ FrameOK(T, p) /\ p # Len(calls') /\ p + 1 = Len(calls) + 1
    <3>1. calls # <<>>
      BY <1>1, <1>5
    <3>2. FrameOK(T, p)
      BY <1>5 DEF Growing, TreeInv, CallsOK
    <3>3. p # Len(calls')
      <4>1. \A a \in Nat : a # a + 1
        OBVIOUS
      <4>2. Len(calls) \in Nat /\ Len(calls') = Len(calls) + 1
        BY <1>1
      <4>3. Len(calls) # Len(calls) + 1
        BY <4>1, <4>2
      <4> QED
        BY <1>5, <4>2, <4>3
    <3> QED
      BY <1>5, <3>1, <3>2, <3>3
  <2>2. PICK n, k : n = calls[p].node /\ k = next.node
    OBVIOUS
  <2>3. /\ n \in Here /\ T[n].wait = calls[p].left /\ group \subseteq calls[p].left
        /\ Under(U, k, n, T[n].done)'
    BY <1>5, <2>1, <2>2, GrownTop
  <2>4. calls[p].depth = End(T, n) /\ calls[p].g = T[n].done
    BY <2>1, <2>2 DEF FrameOK
  <2>5. nodes'[n] = nodes[n] /\ U[n] = T[n] /\ n \in Here'
    BY <2>3, OldStays
  <2>6. End(U, n)' = End(T, n)
    BY <2>5 DEF End
  <2>7. U[k].group = group
    BY <2>2, NewWritten
  <2>8. /\ calls'[p].node = n /\ calls'[p].depth = End(T, n) /\ calls'[p].g = T[n].done
        /\ calls'[p].left = calls[p].left \ group /\ calls'[p + 1].node = k
    <3>1. calls'[p + 1].node = k
      BY <1>1, <2>1, <2>2, SMTT(40) DEF NewFrame
    <3>2. /\ calls'[p].node = n /\ calls'[p].depth = End(T, n) /\ calls'[p].g = T[n].done
      BY <1>1, <1>5, <2>2, <2>4, SMTT(40)
    <3>3. calls'[p].left = calls[p].left \ group
      BY <1>1, <1>5, <2>1, Zenon
    <3> QED
      BY <3>1, <3>2, <3>3
  <2>9. T[n].wait = calls'[p].left \cup U[k].group /\ calls'[p].left \cap U[k].group = {}
    BY <2>3, <2>7, <2>8
  <2> QED
    BY <2>1, <2>3, <2>5, <2>6, <2>8, <2>9 DEF FrameOK, End
<1> QED
  BY <1>1, <1>3, <1>4, <1>5

LEMMA CallsAre ==
  ASSUME NEW T, NEW U, NEW group, NEW depth, NEW callers, Growing(T, U, group, depth, callers)
  PROVE  /\ Len(calls) \in Nat /\ DOMAIN calls = 1 .. Len(calls) /\ DOMAIN calls' = 1 .. Len(calls) + 1
         /\ calls'[Len(calls) + 1].node = next.node
         /\ \A q \in DOMAIN calls : calls'[q].node = calls[q].node
<1>1. calls'[Len(calls) + 1] = NewFrame(group, depth)
  BY CallsGrow
<1>2. calls'[Len(calls) + 1].node = next.node
  BY <1>1 DEF NewFrame
<1>3. Len(calls) \in Nat /\ DOMAIN calls = 1 .. Len(calls) /\ DOMAIN calls' = 1 .. Len(calls) + 1
  BY CallsGrow
<1>4. \A q \in DOMAIN calls : calls'[q].node = calls[q].node
  BY CallsGrow
<1> QED
  BY <1>2, <1>3, <1>4

LEMMA GrownCalls ==
  ASSUME NEW T, NEW U, NEW group, NEW depth, NEW callers, Growing(T, U, group, depth, callers)
  PROVE  CallsOK(U)'
<1>1. /\ Len(calls) \in Nat /\ DOMAIN calls = 1 .. Len(calls) /\ DOMAIN calls' = 1 .. Len(calls) + 1
      /\ calls'[Len(calls) + 1].node = next.node
      /\ \A q \in DOMAIN calls : calls'[q].node = calls[q].node
  BY CallsAre
<1>2. Here' = Here \cup {next.node} /\ next.node \in Nat /\ next.node \notin Here
  BY GrowsBy
<1>3. \A q \in DOMAIN calls' : q \in DOMAIN calls \/ q = Len(calls) + 1
  BY <1>1
<1>4. \A q \in DOMAIN calls : calls[q].node \in Here
  BY DEF Growing, TreeInv, CallsOK, FrameOK
<1>5. ASSUME NEW p \in DOMAIN calls', NEW q \in DOMAIN calls', calls'[p].node = calls'[q].node
      PROVE  p = q
  <2>1. CASE p \in DOMAIN calls /\ q \in DOMAIN calls
    BY <1>1, <1>5, <2>1 DEF Growing, TreeInv, CallsOK
  <2>2. CASE p \in DOMAIN calls /\ q = Len(calls) + 1
    BY <1>1, <1>2, <1>4, <1>5, <2>2
  <2>3. CASE p = Len(calls) + 1 /\ q \in DOMAIN calls
    BY <1>1, <1>2, <1>4, <1>5, <2>3
  <2> QED
    BY <1>3, <2>1, <2>2, <2>3
<1>6. ASSUME NEW n \in Here', \A p \in DOMAIN calls' : calls'[p].node # n
      PROVE  U[n].wait = {}
  <2>1. n # next.node
    <3>1. Len(calls) + 1 \in DOMAIN calls'
      BY <1>1
    <3> QED
      BY <1>1, <1>6, <3>1
  <2>2. n \in Here /\ U[n] = T[n]
    BY <1>2, <2>1, OldStays
  <2>3. \A p \in DOMAIN calls : calls[p].node # n
    <3>1. \A p \in DOMAIN calls : p \in DOMAIN calls'
      BY <1>1
    <3> QED
      BY <1>1, <1>6, <3>1
  <2> QED
    BY <2>2, <2>3 DEF Growing, TreeInv, CallsOK
<1>7. \A p \in DOMAIN calls' : FrameOK(U, p)'
  BY GrownFrames
<1> QED
  BY <1>5, <1>6, <1>7 DEF CallsOK

LEMMA GrownLinks ==
  ASSUME NEW T, NEW U, NEW group, NEW depth, NEW callers, Growing(T, U, group, depth, callers)
  PROVE  LinksOK(U)'
<1>1. /\ Len(calls) \in Nat /\ DOMAIN calls = 1 .. Len(calls) /\ DOMAIN calls' = 1 .. Len(calls) + 1
      /\ calls'[Len(calls) + 1].node = next.node
      /\ \A q \in DOMAIN calls : calls'[q].node = calls[q].node
  BY CallsAre
<1>2. next.node \in Nat /\ children' = children
  BY GrowsBy
<1>3. next'.node = next.node + 1
  BY Counted
<1>4. ASSUME NEW n \in 1 .. next'.node - 1
      PROVE  Written(U, n)' \/ \E p \in DOMAIN calls' : p # 1 /\ calls'[p].node = n
  <2>1. CASE n = next.node
    <3>1. calls # <<>>
      <4>1. next.node # 0
        BY <1>2, <1>3, <2>1
      <4> QED
        BY <4>1 DEF Growing, Called
    <3>2. Len(calls) + 1 \in DOMAIN calls' /\ Len(calls) + 1 # 1
      <4>1. Len(calls) # 0
        BY <3>1 DEF Growing, ShapeInv
      <4> QED
        BY <1>1, <4>1
    <3> QED
      BY <1>1, <2>1, <3>2
  <2>2. CASE n # next.node
    <3>1. n \in 1 .. next.node - 1 /\ n \in Here
      BY <1>2, <1>3, <2>2 DEF Here
    <3>2. CASE Written(T, n)
      <4>1. PICK m : m = T[n].above
        OBVIOUS
      <4>2. m \in Here /\ T[n].place \in 0 .. T[m].done - 1 /\ ChildOf(m, T[n].place) = n
        BY <3>2, <4>1 DEF Written
      <4>3. U[n] = T[n] /\ U[m] = T[m] /\ nodes'[m] = nodes[m] /\ m \in Here'
        BY <3>1, <4>2, OldStays
      <4>4. ChildOf(m, T[n].place)' = ChildOf(m, T[n].place)
        BY <1>2, <4>3 DEF ChildOf
      <4>5. Written(U, n)'
        BY <4>1, <4>2, <4>3, <4>4 DEF Written
      <4> QED
        BY <4>5
    <3>3. CASE ~Written(T, n)
      <4>1. PICK p \in DOMAIN calls : p # 1 /\ calls[p].node = n
        BY <3>1, <3>3 DEF Growing, TreeInv, LinksOK
      <4>2. p \in DOMAIN calls'
        BY <1>1
      <4> QED
        BY <1>1, <4>1, <4>2
    <3> QED
      BY <3>2, <3>3
  <2> QED
    BY <2>1, <2>2
<1> QED
  BY <1>4 DEF LinksOK

LEMMA GrownRoot ==
  ASSUME NEW T, NEW U, NEW group, NEW depth, NEW callers, Growing(T, U, group, depth, callers)
  PROVE  RootOK(U)'
<1>1. /\ Len(calls) \in Nat /\ DOMAIN calls = 1 .. Len(calls)
      /\ calls'[Len(calls) + 1].node = next.node
      /\ \A q \in DOMAIN calls : calls'[q].node = calls[q].node
  BY CallsAre
<1>2. next.node \in Nat /\ Numbers' = Numbers
  BY GrowsBy
<1>3. next'.node = next.node + 1
  BY Counted
<1>4. next'.node # 0
  BY <1>2, <1>3
<1>5. CASE calls = <<>>
  <2>1. next.node = 0 /\ group = Numbers /\ depth = 0 /\ Len(calls) = 0
    BY <1>5 DEF Growing, Called
  <2>2. U[0].group = group /\ U[0].depth = depth
    BY <2>1, NewWritten
  <2>3. calls'[1].node = 0
    BY <1>1, <2>1
  <2> QED
    BY <1>2, <1>4, <2>1, <2>2, <2>3 DEF RootOK
<1>6. CASE calls # <<>>
  <2>1. 1 \in DOMAIN calls
    BY <1>1, <1>6 DEF Growing, ShapeInv
  <2>2. calls[1].node = 0 /\ next.node # 0
    BY <1>6 DEF Growing, TreeInv, RootOK
  <2>3. T[0].group = Numbers /\ T[0].depth = 0
    BY <1>2, <2>2 DEF Growing, TreeInv, RootOK
  <2>4. 0 \in Here
    BY <1>2, <2>2 DEF Here
  <2>5. U[0] = T[0]
    BY <2>4, OldStays
  <2>6. calls'[1].node = 0
    BY <1>1, <2>1, <2>2
  <2> QED
    BY <1>2, <1>4, <2>3, <2>5, <2>6 DEF RootOK
<1> QED
  BY <1>5, <1>6

LEMMA EnterTree ==
  ASSUME NEW T, NEW U, NEW group, NEW depth, NEW callers, Growing(T, U, group, depth, callers)
  PROVE  TreeInv(U)'
<1>1. U \in [Here' -> Branch']
  <2>1. /\ DOMAIN U = Here' /\ Here' = Here \cup {next.node} /\ Numbers' = Numbers
        /\ Rest(group, depth) \in SUBSET Numbers /\ next.node \in Nat
    BY GrowsBy
  <2>2. U = [n \in Here' |-> U[n]]
    <3>1. U = Grown(T, group, depth) /\ DOMAIN U = Here'
      BY <2>1 DEF Growing
    <3> QED
      BY <3>1 DEF Grown
  <2>3. \A n \in Here : U[n] \in Branch
    BY OldStays DEF Growing, TreeInv
  <2>4. U[next.node] \in Branch
    <3>1. group \in SUBSET Numbers /\ depth \in Nat
      BY DEF Growing, GroupOK
    <3> DEFINE above == IF calls = <<>> THEN 0 ELSE Innermost.node
               place == IF calls = <<>> THEN 0 ELSE Innermost.g
    <3>2. above \in Nat /\ place \in Nat
      <4>1. calls # <<>> => Innermost \in Frame
        BY HandedOn DEF Growing, ShapeInv
      <4>2. calls # <<>> => Innermost.node \in Nat /\ Innermost.g \in Nat
        BY <4>1 DEF Frame
      <4> QED
        BY <4>2
    <3> HIDE DEF above, place
    <3>3. U[next.node] = [group |-> group, depth |-> depth, done |-> 0, wait |-> Rest(group, depth),
                          above |-> above, place |-> place]
      BY <2>1 DEF Growing, Grown, above, place
    <3> QED
      BY <2>1, <3>1, <3>2, <3>3 DEF Branch
  <2>5. Branch' = Branch
    BY <2>1 DEF Branch
  <2>6. \A n \in Here' : U[n] \in Branch'
    BY <2>1, <2>3, <2>4, <2>5
  <2> QED
    BY <2>2, <2>6
<1>2. \A n \in Here' : NodeOK(U, n)'
  BY GrownNodes
<1>3. \A n \in Here' : WaitOK(U, n)'
  BY GrownWaits
<1>4. \A n \in Here' : \A c \in 0 .. U[n].done - 1 : ChildOK(U, n, c)'
  BY GrownChildren
<1>5. PlacesApart' /\ CallsOK(U)' /\ LinksOK(U)' /\ RootOK(U)'
  BY GrownPlaces, GrownCalls, GrownLinks, GrownRoot
<1> QED
  BY <1>1, <1>2, <1>3, <1>4, <1>5 DEF TreeInv
-----------------------------------------------------------------------------
(* What a call of build_trie_impl finds.                                   *)
LEMMA CallEnters ==
  ASSUME ShapeInv, FramesOK(calls), NEW group, NEW depth, NEW callers, Called(group, depth, callers)
  PROVE  Entering(group, depth, callers) /\ GroupOK(group, depth)
<1>1. keys \in KeyLists /\ StaticAsserts(keys)
  BY DEF ShapeInv
<1>2. CASE calls # <<>>
  <2>1. Entering(NextGroup(Innermost), Innermost.depth, Callers) /\ Innermost.left # {}
    BY <1>1, <1>2, BuildChildEnters DEF Called
  <2>2. group = NextGroup(Innermost) /\ depth = Innermost.depth /\ callers = Callers
    BY <1>2 DEF Called
  <2> QED
    BY <2>1, <2>2 DEF Entering
<1>3. CASE calls = <<>>
  <2>1. group = Numbers /\ depth = 0 /\ callers = <<>>
    BY <1>3 DEF Called
  <2>2. /\ Numbers # {} /\ \A i \in Numbers : 0 <= Len(keys[i])
    <3>1. Numbers = 1 .. Len(keys) /\ Len(keys) \in Nat \ {0} /\ \A i \in Numbers : Len(keys[i]) \in Nat
      BY <1>1, KeyFacts
    <3> QED
      BY <3>1
  <2>3. GroupOK(Numbers, 0)
    BY <2>2 DEF GroupOK, Alike
  <2>4. <<>> \in Seq(Frame) /\ DOMAIN <<>> = {}
    OBVIOUS
  <2> DEFINE none == <<>>
  <2> HIDE DEF none
  <2>5. none \in Seq(Frame) /\ DOMAIN none = {}
    BY <2>4 DEF none
  <2>6. FramesOK(none)
    BY <2>5 DEF FramesOK
  <2>7. Entering(Numbers, 0, none)
    BY <2>3, <2>5, <2>6 DEF Entering
  <2> QED
    BY <2>1, <2>3, <2>7 DEF none
<1> QED
  BY <1>2, <1>3

LEMMA CallersHave ==
  ASSUME ShapeInv, FramesOK(calls), NEW group, NEW depth, NEW callers, Called(group, depth, callers)
  PROVE  /\ DOMAIN callers = DOMAIN calls
         /\ \A p \in DOMAIN callers : /\ callers[p].left \subseteq calls[p].left
                                      /\ callers[p].depth = calls[p].depth
         /\ calls # <<>> => /\ Len(calls) \in DOMAIN calls /\ group \subseteq calls[Len(calls)].left
                            /\ depth = calls[Len(calls)].depth
<1>1. CASE calls = <<>>
  BY <1>1 DEF Called
<1>2. CASE calls # <<>>
  <2>1. group = NextGroup(Innermost) /\ depth = Innermost.depth /\ callers = Callers
    BY <1>2 DEF Called
  <2>2. /\ Len(calls) \in DOMAIN calls /\ Innermost \in Frame /\ Innermost = calls[Len(calls)]
        /\ DOMAIN Callers = DOMAIN calls
        /\ NextGroup(Innermost) \subseteq Innermost.left
        /\ Callers[Len(calls)] = [Innermost EXCEPT !.left = @ \ NextGroup(Innermost)]
        /\ \A p \in DOMAIN calls : p # Len(calls) => Callers[p] = calls[p]
    BY <1>2, HandedOn DEF ShapeInv, Innermost
  <2>3. /\ Callers[Len(calls)].left \subseteq Innermost.left
        /\ Callers[Len(calls)].depth = Innermost.depth
    BY <2>2 DEF Frame
  <2>4. ASSUME NEW p \in DOMAIN callers
        PROVE  callers[p].left \subseteq calls[p].left /\ callers[p].depth = calls[p].depth
    <3>1. CASE p = Len(calls)
      BY <2>1, <2>2, <2>3, <3>1
    <3>2. CASE p # Len(calls)
      <4>1. Callers[p] = calls[p]
        BY <2>1, <2>2, <3>2
      <4> QED
        BY <2>1, <4>1
    <3> QED
      BY <3>1, <3>2
  <2>5. DOMAIN callers = DOMAIN calls /\ group \subseteq calls[Len(calls)].left /\ depth = calls[Len(calls)].depth
    BY <2>1, <2>2
  <2> QED
    BY <2>2, <2>4, <2>5
<1> QED
  BY <1>1, <1>2

LEMMA CallReads ==
  ASSUME ShapeInv, FramesOK(calls), LabelsInv, NEW T, TreeInv(T),
         NEW group, NEW depth, NEW callers, Called(group, depth, callers)
  PROVE  /\ next.label < Byte * Byte /\ next.label \in Nat
         /\ next.label + longest_common_prefix(group, depth) <= MaxLabels
         /\ \E more \in SUBSET Spots :
              /\ Cardinality(more) = next.label + longest_common_prefix(group, depth)
              /\ SpotsRead(Append(callers, NewFrame(group, depth)), more)
<1>1. keys \in KeyLists /\ StaticAsserts(keys) /\ next.node \in Nat
  BY DEF ShapeInv
<1>2. PICK read \in SUBSET Spots : next.label = Cardinality(read) /\ SpotsRead(calls, read)
  BY DEF LabelsInv
<1>3. /\ IsFiniteSet(read) /\ Cardinality(read) \in Nat /\ Cardinality(read) <= MaxLabels
      /\ MaxLabels \in Nat /\ MaxLabels < Byte * Byte /\ Byte * Byte \in Nat
  BY <1>1, SpotsCount
<1>4. /\ DOMAIN callers = DOMAIN calls
      /\ \A p \in DOMAIN callers : callers[p].left \subseteq calls[p].left /\ callers[p].depth = calls[p].depth
      /\ calls # <<>> => /\ Len(calls) \in DOMAIN calls /\ group \subseteq calls[Len(calls)].left
                         /\ depth = calls[Len(calls)].depth
  BY CallersHave
<1>5. SpotsRead(callers, read)
  BY <1>2, <1>4 DEF SpotsRead
<1>6. \A spot \in read : spot[1] \in group => spot[2] <= depth
  <2>1. CASE calls = <<>>
    <3>1. next.label = 0
      BY <2>1 DEF Called, TreeInv, RootOK
    <3>2. read = {}
      BY <1>2, <1>3, <3>1, FS_EmptySet
    <3> QED
      BY <3>2
  <2>2. CASE calls # <<>>
    BY <1>2, <1>4, <2>2 DEF SpotsRead
  <2> QED
    BY <2>1, <2>2
<1>7. Entering(group, depth, callers)
  BY CallEnters
<1>8. PICK more \in SUBSET Spots :
        /\ Cardinality(more) = Cardinality(read) + longest_common_prefix(group, depth)
        /\ SpotsRead(Append(callers, NewFrame(group, depth)), more)
  BY <1>1, <1>5, <1>6, <1>7, EnterReadsSpots
<1>9. Cardinality(more) <= MaxLabels
  BY <1>1, SpotsCount
<1> DEFINE square == Byte * Byte
<1>10. next.label < square /\ next.label \in Nat
  <2>1. square \in Nat /\ MaxLabels < square
    BY <1>3
  <2> HIDE DEF square
  <2> QED
    BY <1>2, <1>3, <2>1
<1> QED
  BY <1>2, <1>8, <1>9, <1>10

LEMMA CallTakes ==
  ASSUME ShapeInv, FramesOK(calls), PlacesInv, NEW T, TreeInv(T),
         NEW group, NEW depth, NEW callers, Called(group, depth, callers)
  PROVE  /\ next.child < Byte
         /\ \E more \in SUBSET Tokens :
              /\ Cardinality(more) = next.child + Children(group, depth)
              /\ PlacesTaken(Append(callers, NewFrame(group, depth)), more)
<1>1. keys \in KeyLists /\ StaticAsserts(keys) /\ next.node \in Nat
  BY DEF ShapeInv
<1>2. PICK used \in SUBSET Tokens : next.child = Cardinality(used) /\ PlacesTaken(calls, used)
  BY DEF PlacesInv
<1>3. /\ IsFiniteSet(used) /\ Cardinality(used) \in Nat /\ Cardinality(used) <= 2 * Len(keys) - 2
  BY <1>1, TokensCount
<1>4. /\ DOMAIN callers = DOMAIN calls
      /\ \A p \in DOMAIN callers : callers[p].left \subseteq calls[p].left /\ callers[p].depth = calls[p].depth
      /\ calls # <<>> => /\ Len(calls) \in DOMAIN calls /\ group \subseteq calls[Len(calls)].left
                         /\ depth = calls[Len(calls)].depth
  BY CallersHave
<1>5. PlacesTaken(callers, used)
  BY <1>2, <1>4 DEF PlacesTaken
<1>6. Entering(group, depth, callers) /\ GroupOK(group, depth)
  BY CallEnters
<1>7. \A token \in used : Paid(token) \in group => Paid(token) = First(group)
  <2>1. CASE calls = <<>>
    <3>1. next.child = 0
      BY <2>1 DEF Called, TreeInv, RootOK
    <3>2. used = {}
      BY <1>2, <1>3, <3>1, FS_EmptySet, ZenonT(60)
    <3> QED
      BY <3>2
  <2>2. CASE calls # <<>>
    <3> SUFFICES ASSUME NEW token \in used, Paid(token) \in group
                 PROVE  Paid(token) = First(group)
      OBVIOUS
    <3>1. group \in SUBSET Numbers /\ group # {}
      BY <1>6 DEF GroupOK
    <3>2. First(group) \in group /\ First(group) \in Nat /\ \A j \in group : First(group) <= j
      BY <1>1, <3>1, FirstIs
    <3>3. \A j \in calls[Len(calls)].left :
            keys[j][depth + 1] = keys[Paid(token)][depth + 1] => Paid(token) <= j
      BY <1>2, <1>4, <2>2, SMTT(40) DEF PlacesTaken
    <3>4. keys[First(group)][depth + 1] = keys[Paid(token)][depth + 1]
      <4>1. group = NextGroup(Innermost) /\ depth = Innermost.depth
        BY <2>2 DEF Called
      <4> QED
        BY <3>2, <4>1 DEF NextGroup
    <3>5. Paid(token) <= First(group)
      BY <1>4, <2>2, <3>2, <3>3, <3>4
    <3>6. Paid(token) \in Nat
      BY <1>1, <3>1, KeyFacts
    <3> QED
      BY <3>2, <3>5, <3>6
  <2> QED
    BY <2>1, <2>2
<1>8. PICK more \in SUBSET Tokens :
        /\ Cardinality(more) = Cardinality(used)
                                 + Cardinality(FirstChars(Rest(group, depth), Deep(group, depth)))
        /\ PlacesTaken(Append(callers, NewFrame(group, depth)), more)
  BY <1>1, <1>5, <1>6, <1>7, EnterTakesPlaces
<1>9. next.child < Byte
  <2>1. Len(keys) \in Nat /\ 2 * Len(keys) <= Byte - 2 /\ Byte \in Nat
    BY <1>1, KeyFacts, TrieAssumption
  <2> QED
    BY <1>2, <1>3, <2>1
<1> QED
  BY <1>2, <1>8, <1>9 DEF Children

LEMMA EnterKeeps ==
  ASSUME ShapeInv, FramesOK(calls), PlacesInv, LabelsInv, next.node <= MaxNodes,
         NEW T, TreeInv(T),
         NEW group, NEW depth, NEW callers, Called(group, depth, callers),
         Enter(group, depth, callers)
  PROVE  /\ ShapeInv' /\ FramesOK(calls)' /\ PlacesInv' /\ LabelsInv' /\ (next.node <= MaxNodes)'
         /\ find' = find /\ keys' = keys
         /\ \E U : TreeInv(U)'
<1>1. /\ keys \in KeyLists /\ StaticAsserts(keys) /\ next.node \in Nat /\ next.label \in Nat /\ next.child \in Nat
      /\ GroupOK(group, depth) /\ Entering(group, depth, callers) /\ Len(keys) \in Nat \ {0}
  BY CallEnters, KeyFacts DEF ShapeInv
<1>2. /\ next.label < Byte * Byte
      /\ next.label + longest_common_prefix(group, depth) <= MaxLabels
      /\ \E more \in SUBSET Spots :
           /\ Cardinality(more) = next.label + longest_common_prefix(group, depth)
           /\ SpotsRead(Append(callers, NewFrame(group, depth)), more)
  BY CallReads
<1>3. /\ next.child < Byte
      /\ \E more \in SUBSET Tokens :
           /\ Cardinality(more) = next.child + Children(group, depth)
           /\ PlacesTaken(Append(callers, NewFrame(group, depth)), more)
  BY CallTakes
<1>4. /\ keys' = keys /\ children' = children /\ find' = find
      /\ nodes' = [nodes EXCEPT ![next.node] = NewNode(group, depth)]
      /\ NewNode(group, depth) \in FlatNode
      /\ labels' = [a \in DOMAIN labels |->
                      IF a \in next.label .. next.label + longest_common_prefix(group, depth) - 1
                      THEN keys[First(group)][depth + a - next.label + 1] ELSE labels[a]]
      /\ next' = [node |-> next.node + 1, label |-> next.label + longest_common_prefix(group, depth),
                  child |-> next.child + Children(group, depth)]
      /\ calls' = Append(callers, NewFrame(group, depth))
  BY <1>1, <1>2, <1>3, EnterSays
<1>5. next.node < MaxNodes
  <2>1. CASE calls = <<>>
    <3>1. next.node = 0
      BY <2>1 DEF Called
    <3> QED
      BY <1>1, <3>1 DEF MaxNodes
  <2>2. CASE calls # <<>>
    BY <2>2, NodesFit DEF Called
  <2> QED
    BY <2>1, <2>2
<1>6. PICK U : U = Grown(T, group, depth)
  OBVIOUS
<1>7. Growing(T, U, group, depth, callers)
  BY <1>1, <1>2, <1>4, <1>5, <1>6 DEF Growing, Entered
<1>8. TreeInv(U)'
  BY <1>7, EnterTree
<1>9. Numbers' = Numbers /\ Frame' = Frame
  BY <1>4 DEF Numbers, Frame
<1>10. FramesOK(calls)'
  <2>1. FramesOK(Append(callers, NewFrame(group, depth)))
    BY <1>1, EnterFrames
  <2> DEFINE stack == Append(callers, NewFrame(group, depth))
  <2>2. PICK s : s = stack
    OBVIOUS
  <2>3. FramesOK(s)
    BY <2>1, <2>2
  <2>4. calls' = s
    BY <1>4, <2>2
  <2>5. s \in Seq(Frame')
    BY <1>9, <2>3 DEF FramesOK
  <2>6. FramesOK(s)'
    BY <1>4, <2>3, <2>5 DEF FramesOK, Alike
  <2>7. calls' = s => (FramesOK(calls)' <=> FramesOK(s)')
    BY DEF FramesOK, Alike
  <2> QED
    BY <2>4, <2>6, <2>7
<1>11. longest_common_prefix(group, depth) \in Nat /\ Children(group, depth) \in Nat
  BY <1>7, GrowsBy
<1>12. /\ next'.node = next.node + 1 /\ next'.label = next.label + longest_common_prefix(group, depth)
       /\ next'.child = next.child + Children(group, depth)
       /\ next' \in [node : Nat, label : Nat, child : Nat]
  <2> DEFINE lcp == longest_common_prefix(group, depth)
             count == Children(group, depth)
  <2>1. next' = [node |-> next.node + 1, label |-> next.label + lcp, child |-> next.child + count]
    BY <1>4
  <2>2. next.node + 1 \in Nat /\ next.label + lcp \in Nat /\ next.child + count \in Nat
    BY <1>1, <1>11
  <2> HIDE DEF lcp, count
  <2>3. /\ next'.node = next.node + 1 /\ next'.label = next.label + lcp /\ next'.child = next.child + count
        /\ next' \in [node : Nat, label : Nat, child : Nat]
    BY <2>1, <2>2
  <2> QED
    BY <2>3 DEF lcp, count
<1>13. (next.node <= MaxNodes)'
  <2>1. MaxNodes \in Nat /\ MaxNodes' = MaxNodes
    BY <1>1, <1>4 DEF MaxNodes
  <2> QED
    BY <1>1, <1>5, <1>12, <2>1
<1>14. LabelsInv'
  <2>1. PICK more \in SUBSET Spots :
          /\ Cardinality(more) = next.label + longest_common_prefix(group, depth)
          /\ SpotsRead(Append(callers, NewFrame(group, depth)), more)
    BY <1>2
  <2>2. Spots' = Spots
    BY <1>4, <1>9 DEF Spots
  <2>3. SpotsRead(calls', more)
    BY <1>4, <2>1
  <2>4. more \in SUBSET Spots' /\ next'.label = Cardinality(more)
    BY <1>12, <2>1, <2>2
  <2> QED
    BY <2>3, <2>4 DEF LabelsInv, SpotsRead
<1>15. PlacesInv'
  <2>1. PICK more \in SUBSET Tokens :
          /\ Cardinality(more) = next.child + Children(group, depth)
          /\ PlacesTaken(Append(callers, NewFrame(group, depth)), more)
    BY <1>3
  <2>2. Tokens' = Tokens
    BY <1>9 DEF Tokens
  <2>3. PlacesTaken(calls, more)'
    <3> DEFINE stack == Append(callers, NewFrame(group, depth))
    <3>1. PICK s : s = stack
      OBVIOUS
    <3>2. PlacesTaken(s, more)
      BY <2>1, <3>1
    <3>3. calls' = s
      BY <1>4, <3>1
    <3> QED
      BY <1>4, <3>2, <3>3 DEF PlacesTaken
  <2>4. more \in SUBSET Tokens' /\ next'.child = Cardinality(more)
    BY <1>12, <2>1, <2>2
  <2> QED
    BY <2>3, <2>4 DEF PlacesInv
<1>16. labels' \in [0 .. MaxLabels' - 1 -> Nat]
  <2>1. MaxLabels' = MaxLabels
    BY <1>4, <1>9 DEF MaxLabels
  <2>2. labels \in [0 .. MaxLabels - 1 -> Nat]
    BY DEF ShapeInv
  <2> DEFINE lcp == longest_common_prefix(group, depth)
             at(a) == depth + a - next.label + 1
  <2>3. /\ First(group) \in group /\ lcp \in Nat /\ depth \in Nat
        /\ keys[First(group)] \in Seq(Nat) /\ Len(keys[First(group)]) \in Nat
        /\ depth + lcp <= Len(keys[First(group)])
    <3>1. group \in SUBSET Numbers /\ group # {} /\ depth \in Nat
      BY <1>1 DEF GroupOK
    <3>2. First(group) \in group
      BY <1>1, <3>1, FirstIs
    <3>3. keys[First(group)] \in Seq(Nat) /\ Len(keys[First(group)]) \in Nat
      BY <1>1, <3>1, <3>2, KeyFacts
    <3>4. depth + lcp <= Len(keys[First(group)])
      BY <1>1, <3>2, Label DEF Deep
    <3> QED
      BY <1>11, <3>1, <3>2, <3>3, <3>4
  <2> HIDE DEF lcp
  <2>4. ASSUME NEW a \in next.label .. next.label + lcp - 1
        PROVE  keys[First(group)][at(a)] \in Nat
    <3>1. at(a) \in 1 .. Len(keys[First(group)])
      <4>1. next.label <= a /\ a <= next.label + lcp - 1 /\ a \in Int /\ next.label \in Nat
        BY <1>1, <2>3
      <4> DEFINE top == Len(keys[First(group)])
      <4>2. top \in Nat /\ depth + lcp <= top /\ depth \in Nat /\ lcp \in Nat
        BY <2>3
      <4> HIDE DEF top
      <4>3. at(a) \in 1 .. top
        BY <4>1, <4>2
      <4> QED
        BY <4>3 DEF top
    <3> HIDE DEF at
    <3> QED
      BY <2>3, <3>1
  <2>5. labels' = [a \in 0 .. MaxLabels - 1 |->
                     IF a \in next.label .. next.label + lcp - 1 THEN keys[First(group)][at(a)] ELSE labels[a]]
    BY <1>4, <2>2 DEF lcp
  <2> HIDE DEF at
  <2> QED
    BY <2>1, <2>2, <2>4, <2>5
<1>17. nodes' \in [0 .. MaxNodes' - 1 -> FlatNode] /\ children' \in [0 .. MaxChildren' - 1 -> Nat]
  <2>1. nodes \in [0 .. MaxNodes - 1 -> FlatNode] /\ children \in [0 .. MaxChildren - 1 -> Nat]
    BY DEF ShapeInv
  <2>2. MaxNodes' = MaxNodes /\ MaxChildren' = MaxChildren
    BY <1>4 DEF MaxNodes, MaxChildren
  <2> QED
    BY <1>4, <2>1, <2>2
<1>18. calls' \in Seq(Frame')
  BY <1>10 DEF FramesOK
<1>19. StaticAsserts(keys)'
  BY <1>1, <1>4 DEF StaticAsserts, Distinct
<1>20. FlatNode' = FlatNode
  BY SMTT(40) DEF FlatNode
<1>21. ShapeInv'
  BY <1>1, <1>4, <1>12, <1>16, <1>17, <1>18, <1>19, <1>20, SMTT(40) DEF ShapeInv
<1> QED
  BY <1>4, <1>8, <1>10, <1>13, <1>14, <1>15, <1>21
-----------------------------------------------------------------------------
(* The return of a call and what it makes of the tree.                     *)
Handed(T, k, m) ==
  [T EXCEPT ![m] = [group |-> T[m].group, depth |-> T[m].depth, done |-> T[m].done + 1,
                    wait |-> T[m].wait \ T[k].group, above |-> T[m].above, place |-> T[m].place]]

Returning(T, U, k, m) ==
  /\ ShapeInv /\ PlacesInv /\ next.node <= MaxNodes /\ TreeInv(T)
  /\ calls # <<>> /\ Len(calls) # 1 /\ calls[Len(calls)].left = {}
  /\ k = calls[Len(calls)].node /\ m = calls[Len(calls) - 1].node
  /\ calls' = Back /\ children' = [children EXCEPT ![nodes[m].first_child + T[m].done] = k]
  /\ keys' = keys /\ nodes' = nodes /\ labels' = labels /\ next' = next
  /\ U = Handed(T, k, m)

(* The call and the one that takes its node.                               *)
LEMMA TwoCalls ==
  ASSUME ShapeInv, next.node <= MaxNodes, NEW T, TreeInv(T), calls # <<>>, Len(calls) # 1,
         calls[Len(calls)].left = {},
         NEW k, k = calls[Len(calls)].node, NEW m, m = calls[Len(calls) - 1].node
  PROVE  /\ Len(calls) \in Nat /\ Len(calls) > 1 /\ DOMAIN calls = 1 .. Len(calls)
         /\ Len(calls) - 1 \in DOMAIN calls /\ Len(calls) \in DOMAIN calls
         /\ Len(calls) - 1 # Len(calls)
         /\ k \in Here /\ m \in Here /\ k # m
         /\ calls[Len(calls) - 1].g = T[m].done /\ calls[Len(calls) - 1].depth = End(T, m)
         /\ T[k].wait = {} /\ T[k].group # {} /\ T[k].group \subseteq T[m].wait
         /\ T[m].wait = calls[Len(calls) - 1].left \cup T[k].group
         /\ calls[Len(calls) - 1].left \cap T[k].group = {}
         /\ Under(T, k, m, T[m].done)
         /\ T[m].done < nodes[m].child_count
<1>1. calls \in Seq(Frame)
  BY DEF ShapeInv
<1>2. /\ Len(calls) \in Nat /\ Len(calls) > 1 /\ DOMAIN calls = 1 .. Len(calls)
  <2>1. Len(calls) \in Nat /\ Len(calls) # 0 /\ DOMAIN calls = 1 .. Len(calls)
    BY <1>1, SMTT(40)
  <2> QED
    BY <2>1
<1>3. /\ Len(calls) - 1 \in DOMAIN calls /\ Len(calls) \in DOMAIN calls
      /\ Len(calls) - 1 # Len(calls) /\ Len(calls) - 1 + 1 = Len(calls)
  <2>1. ASSUME NEW n \in Nat, n > 1
        PROVE  n - 1 \in 1 .. n /\ n \in 1 .. n /\ n - 1 # n /\ n - 1 + 1 = n
    BY <2>1
  <2> DEFINE n == Len(calls)
  <2>2. n \in Nat /\ n > 1 /\ DOMAIN calls = 1 .. n
    BY <1>2
  <2> HIDE DEF n
  <2>3. n - 1 \in DOMAIN calls /\ n \in DOMAIN calls /\ n - 1 # n /\ n - 1 + 1 = n
    BY <2>1, <2>2, SMTT(40)
  <2> QED
    BY <2>3, Zenon DEF n
<1>4. FrameOK(T, Len(calls)) /\ FrameOK(T, Len(calls) - 1)
  BY <1>3, Zenon DEF TreeInv, CallsOK
<1>5. k \in Here /\ T[k].wait = {}
  BY <1>4 DEF FrameOK
<1>6. /\ m \in Here /\ calls[Len(calls) - 1].g = T[m].done /\ calls[Len(calls) - 1].depth = End(T, m)
      /\ T[m].wait = calls[Len(calls) - 1].left \cup T[k].group
      /\ calls[Len(calls) - 1].left \cap T[k].group = {}
      /\ Under(T, k, m, T[m].done)
  <2> DEFINE at == Len(calls) - 1
  <2>1. FrameOK(T, at) /\ at # Len(calls) /\ calls[at + 1].node = k /\ calls[at].node = m
    BY <1>3, <1>4, ZenonT(60)
  <2> HIDE DEF at
  <2>2. /\ m \in Here /\ calls[at].g = T[m].done /\ calls[at].depth = End(T, m)
        /\ T[m].wait = calls[at].left \cup T[k].group
        /\ calls[at].left \cap T[k].group = {}
        /\ Under(T, k, m, T[m].done)
    BY <2>1 DEF FrameOK
  <2> QED
    BY <2>2, SMTT(40) DEF at
<1>7. T[k].group # {}
  BY <1>5 DEF TreeInv, NodeOK, GroupOK
<1>8. T[m].wait # {}
  BY <1>6, <1>7
<1>9. T[m].done < nodes[m].child_count
  BY <1>6, <1>8, ChildToCome, SMTT(40)
<1>10. k # m
  BY <1>3, Zenon DEF TreeInv, CallsOK
<1> QED
  BY <1>2, <1>3, <1>5, <1>6, <1>7, <1>9, <1>10, Zenon

(* What it changes and what it leaves.                                     *)
LEMMA HandedBy ==
  ASSUME NEW T, NEW U, NEW k, NEW m, Returning(T, U, k, m)
  PROVE  /\ Here' = Here /\ Numbers' = Numbers /\ m \in Here /\ k \in Here /\ k # m
         /\ DOMAIN U = Here /\ T[m].done \in Nat
         /\ U[m].group = T[m].group /\ U[m].depth = T[m].depth
         /\ U[m].above = T[m].above /\ U[m].place = T[m].place
         /\ U[m].done = T[m].done + 1 /\ U[m].wait = T[m].wait \ T[k].group
         /\ \A n \in Here : n # m => U[n] = T[n]
         /\ \A n \in Here : /\ U[n].group = T[n].group /\ U[n].depth = T[n].depth
                            /\ U[n].above = T[n].above /\ U[n].place = T[n].place
<1>1. m \in Here /\ k \in Here /\ k # m
  BY TwoCalls DEF Returning
<1>2. T \in [Here -> Branch] /\ U = Handed(T, k, m) /\ next' = next /\ keys' = keys
  BY DEF Returning, TreeInv
<1>3. T[m].done \in Nat
  BY <1>1, TreeTypes DEF Returning
<1>4. /\ U[m].group = T[m].group /\ U[m].depth = T[m].depth
      /\ U[m].above = T[m].above /\ U[m].place = T[m].place
      /\ U[m].done = T[m].done + 1 /\ U[m].wait = T[m].wait \ T[k].group
      /\ DOMAIN U = Here /\ \A n \in Here : n # m => U[n] = T[n]
  BY <1>1, <1>2 DEF Handed
<1>5. Here' = Here /\ Numbers' = Numbers
  BY <1>2 DEF Here, Numbers
<1> QED
  BY <1>1, <1>3, <1>4, <1>5

LEMMA ChildWritten ==
  ASSUME NEW T, NEW U, NEW k, NEW m, Returning(T, U, k, m)
  PROVE  /\ nodes[m].first_child + T[m].done \in 0 .. MaxChildren - 1
         /\ children' \in [0 .. MaxChildren - 1 -> Nat]
         /\ children'[nodes[m].first_child + T[m].done] = k
         /\ nodes'[m] = nodes[m]
         /\ \A n \in Here : \A c \in 0 .. T[n].done - 1 :
              children'[nodes[n].first_child + c] = children[nodes[n].first_child + c]
<1>1. ShapeInv /\ next.node <= MaxNodes /\ TreeInv(T)
  BY DEF Returning
<1>2. m \in Here /\ k \in Here /\ T[m].done < nodes[m].child_count
  BY TwoCalls DEF Returning
<1>3. \A n \in Here : /\ nodes[n].first_child \in Nat /\ nodes[n].child_count \in Nat
                      /\ T[n].done \in Nat /\ T[n].done <= nodes[n].child_count
  BY <1>1, TreeTypes, ChildToCome
<1>4. next.child \in Nat /\ next.node \in Nat
  BY <1>1 DEF ShapeInv
<1>5. next.child <= 2 * Len(keys) - 2 /\ Len(keys) \in Nat
  <2>1. keys \in KeyLists /\ StaticAsserts(keys)
    BY <1>1 DEF ShapeInv
  <2>2. PICK used \in SUBSET Tokens : next.child = Cardinality(used)
    BY DEF Returning, PlacesInv
  <2> QED
    BY <2>1, <2>2, TokensCount, KeyFacts
<1>6. nodes[m].first_child + nodes[m].child_count <= next.child
  BY <1>1, <1>2 DEF TreeInv, PlacesApart
<1>7. nodes[m].first_child + T[m].done \in 0 .. MaxChildren - 1
  <2> DEFINE a == nodes[m].first_child
             b == nodes[m].child_count
             d == T[m].done
  <2>1. a \in Nat /\ b \in Nat /\ d \in Nat /\ d < b /\ a + b <= next.child
    BY <1>2, <1>3, <1>6
  <2> HIDE DEF a, b, d
  <2>2. a + d < 2 * Len(keys) /\ a + d \in Nat
    BY <1>4, <1>5, <2>1
  <2>3. a + d \in 0 .. 2 * Len(keys) - 1
    BY <1>5, <2>2
  <2> QED
    BY <2>3 DEF MaxChildren, a, d
<1>8. /\ children \in [0 .. MaxChildren - 1 -> Nat] /\ k \in Nat
      /\ children' = [children EXCEPT ![nodes[m].first_child + T[m].done] = k]
  BY <1>1, <1>2, <1>4 DEF ShapeInv, Returning, Here
<1>9. /\ children' \in [0 .. MaxChildren - 1 -> Nat]
      /\ children'[nodes[m].first_child + T[m].done] = k
  BY <1>7, <1>8
<1>10. ASSUME NEW n \in Here, NEW c \in 0 .. T[n].done - 1
       PROVE  children'[nodes[n].first_child + c] = children[nodes[n].first_child + c]
  <2>1. nodes[n].first_child + c # nodes[m].first_child + T[m].done
    <3> SUFFICES ASSUME nodes[n].first_child + c = nodes[m].first_child + T[m].done
                 PROVE  FALSE
      OBVIOUS
    <3>1. c \in 0 .. nodes[n].child_count - 1
      BY <1>3
    <3>2. T[m].done \in 0 .. nodes[m].child_count - 1
      BY <1>2, <1>3
    <3>3. n = m
      BY <1>1, <1>2, <3>1, <3>2 DEF TreeInv, PlacesApart
    <3> DEFINE a == nodes[m].first_child
               d == T[m].done
    <3>4. a \in Nat /\ d \in Nat /\ c \in Nat /\ c < d /\ a + c = a + d
      BY <1>2, <1>3, <3>3
    <3> HIDE DEF a, d
    <3> QED
      BY <3>4
  <2> DEFINE x == nodes[n].first_child + c
             y == nodes[m].first_child + T[m].done
  <2>2. x # y /\ children' = [children EXCEPT ![y] = k]
    BY <1>8, <2>1
  <2> HIDE DEF x, y
  <2>3. children'[x] = children[x]
    BY <2>2
  <2> QED
    BY <2>3 DEF x
<1>11. nodes'[m] = nodes[m]
  BY DEF Returning
<1> QED
  BY <1>7, <1>9, <1>10, <1>11

LEMMA HandedNodes ==
  ASSUME NEW T, NEW U, NEW k, NEW m, Returning(T, U, k, m), NEW n \in Here
  PROVE  NodeOK(U, n)'
<1>1. NodeOK(T, n) /\ keys' = keys /\ nodes' = nodes /\ labels' = labels /\ next' = next
  BY DEF Returning, TreeInv
<1>2. U[n].group = T[n].group /\ U[n].depth = T[n].depth
  BY HandedBy
<1>3. End(U, n)' = End(T, n)
  BY <1>1, <1>2 DEF End
<1> QED
  BY <1>1, <1>2, <1>3 DEF NodeOK, GroupOK, Alike, Numbers, NPOS

LEMMA HandedEnds ==
  ASSUME NEW T, NEW U, NEW k, NEW m, Returning(T, U, k, m), NEW n \in Here
  PROVE  /\ U[n].depth + nodes'[n].label_length = End(T, n)
         /\ keys' = keys /\ nodes' = nodes /\ next' = next
         /\ \A i : {j \in U[n].group : Len(keys[j]) > End(T, n) /\ keys[j][End(T, n) + 1] = keys[i][End(T, n) + 1]}
                     = Class(T, n, i)
<1>1. keys' = keys /\ nodes' = nodes /\ next' = next
  BY DEF Returning
<1>2. U[n].group = T[n].group /\ U[n].depth = T[n].depth
  BY HandedBy
<1> QED
  BY <1>1, <1>2 DEF End, Class

LEMMA HandedUnder ==
  ASSUME NEW T, NEW U, NEW k, NEW m, Returning(T, U, k, m),
         NEW n \in Here, NEW j, NEW c, Under(T, j, n, c)
  PROVE  Under(U, j, n, c)'
<1>1. keys' = keys /\ nodes' = nodes /\ next' = next
  BY DEF Returning
<1>2. j \in Here
  <2>1. j \in 1 .. next.node - 1
    BY DEF Under
  <2>2. next.node \in Nat
    BY DEF Returning, ShapeInv
  <2> QED
    BY <2>1, <2>2 DEF Here
<1>3. /\ U[n].group = T[n].group /\ U[n].depth = T[n].depth
      /\ U[j].group = T[j].group /\ U[j].depth = T[j].depth
      /\ U[j].above = T[j].above /\ U[j].place = T[j].place
  BY <1>2, HandedBy
<1>4. End(U, n)' = End(T, n)
  BY <1>1, <1>3 DEF End
<1>5. ASSUME NEW i PROVE Class(U, n, i)' = Class(T, n, i)
  BY <1>1, <1>3, <1>4 DEF Class
<1> QED
  BY <1>1, <1>3, <1>4, <1>5 DEF Under

(* The characters that wait: those of the group are done with.             *)
LEMMA OneLess ==
  ASSUME NEW T, NEW U, NEW k, NEW m, Returning(T, U, k, m)
  PROVE  T[m].done + 1 + Cardinality(FirstChars(T[m].wait \ T[k].group, End(T, m))) = nodes[m].child_count
<1> DEFINE G == T[k].group
           wait == T[m].wait
           end == End(T, m)
           all == FirstChars(wait, end)
           rest == FirstChars(wait \ G, end)
<1>1. /\ ShapeInv /\ next.node <= MaxNodes /\ TreeInv(T)
      /\ keys \in KeyLists /\ StaticAsserts(keys)
  BY DEF Returning, ShapeInv
<1>2. /\ k \in Here /\ m \in Here /\ G # {} /\ G \subseteq wait
      /\ \A i \in G : G = Class(T, m, i)
  BY TwoCalls DEF Returning, Under
<1>3. wait \in SUBSET Numbers /\ T[m].done \in Nat /\ nodes[m].child_count \in Nat
  BY <1>1, <1>2, TreeTypes
<1>4. WaitOK(T, m)
  BY <1>1, <1>2 DEF TreeInv
<1>5. T[m].done + Cardinality(all) = nodes[m].child_count
  BY <1>4 DEF WaitOK
<1>6. \A j \in wait : j \in Class(T, m, j)
  BY <1>4 DEF WaitOK
<1>7. PICK x \in G : TRUE
  BY <1>2
<1>8. all = rest \cup {keys[x][end + 1]}
  <2>1. \A j \in G : keys[j][end + 1] = keys[x][end + 1]
    BY <1>2, <1>7 DEF Class
  <2> QED
    BY <1>2, <1>7, <2>1 DEF FirstChars
<1>9. keys[x][end + 1] \notin rest
  <2> SUFFICES ASSUME NEW j \in wait \ G, keys[j][end + 1] = keys[x][end + 1]
               PROVE  FALSE
    BY DEF FirstChars
  <2>1. j \in Class(T, m, x)
    BY <1>6 DEF Class
  <2> QED
    BY <1>2, <1>7, <2>1
<1>10. IsFiniteSet(rest) /\ Cardinality(rest) \in Nat
  <2>1. wait \ G \in SUBSET Numbers
    BY <1>3
  <2> HIDE DEF wait, G, end
  <2> QED
    BY <1>1, <2>1, CharsFinite
<1> HIDE DEF all, rest, wait, G, end
<1>11. Cardinality(all) = Cardinality(rest) + 1
  BY <1>8, <1>9, <1>10, FS_AddElement
<1>12. T[m].done + 1 + Cardinality(rest) = nodes[m].child_count
  BY <1>3, <1>5, <1>10, <1>11
<1> QED
  BY <1>12 DEF rest, wait, G, end

LEMMA HandedWaits ==
  ASSUME NEW T, NEW U, NEW k, NEW m, Returning(T, U, k, m), NEW n \in Here
  PROVE  WaitOK(U, n)'
<1>1. /\ WaitOK(T, n) /\ keys' = keys /\ nodes' = nodes /\ next' = next
      /\ \A c \in 0 .. T[n].done - 1 : ChildOK(T, n, c)
  BY DEF Returning, TreeInv
<1>2. /\ U[n].group = T[n].group /\ U[n].depth = T[n].depth
  BY HandedBy
<1>3. End(U, n)' = End(T, n)
  BY <1>1, <1>2 DEF End
<1>4. ASSUME NEW i PROVE Class(U, n, i)' = Class(T, n, i)
  BY <1>1, <1>2, <1>3 DEF Class
<1>5. ASSUME NEW c \in 0 .. T[n].done - 1
      PROVE  ChildOf(n, c)' = ChildOf(n, c) /\ ChildOf(n, c) \in Here
             /\ U[ChildOf(n, c)].group = T[ChildOf(n, c)].group
  <2>1. ChildOf(n, c)' = ChildOf(n, c)
    <3>1. children'[nodes[n].first_child + c] = children[nodes[n].first_child + c]
      BY ChildWritten
    <3> QED
      BY <1>1, <3>1 DEF ChildOf
  <2>2. ChildOf(n, c) \in 1 .. next.node - 1
    BY <1>1 DEF ChildOK, Under
  <2>3. next.node \in Nat
    BY DEF Returning, ShapeInv
  <2>4. ChildOf(n, c) \in Here
    BY <2>2, <2>3 DEF Here
  <2> QED
    BY <2>1, <2>4, HandedBy
<1>6. CASE n # m
  <2>1. U[n] = T[n]
    BY <1>6, HandedBy
  <2>2. FirstChars(U[n].wait, End(U, n))' = FirstChars(T[n].wait, End(T, n))
    BY <1>1, <1>3, <2>1 DEF FirstChars
  <2>3. \A i \in U[n].group : Len(keys[i]) > End(U, n)' =>
          i \in U[n].wait \/ \E c \in 0 .. U[n].done - 1 : i \in U[ChildOf(n, c)'].group
    BY <1>1, <1>3, <1>5, <2>1 DEF WaitOK
  <2>4. \A i \in U[n].wait : i \in Class(U, n, i)' /\ Class(U, n, i)' \subseteq U[n].wait
    BY <1>1, <1>4, <2>1 DEF WaitOK
  <2>5. (U[n].done + Cardinality(FirstChars(U[n].wait, End(U, n))) = nodes[n].child_count)'
    BY <1>1, <2>1, <2>2 DEF WaitOK
  <2> QED
    BY <1>1, <2>3, <2>4, <2>5 DEF WaitOK
<1>7. CASE n = m
  <2>1. U[n].done = T[n].done + 1 /\ U[n].wait = T[n].wait \ T[k].group /\ T[n].done \in Nat /\ k \in Here
    BY <1>7, HandedBy
  <2>2. \A i \in T[k].group : T[k].group = Class(T, n, i)
    BY <1>7, TwoCalls DEF Returning, Under
  <2>3. FirstChars(U[n].wait, End(U, n))' = FirstChars(T[n].wait \ T[k].group, End(T, n))
    BY <1>1, <1>3, <2>1 DEF FirstChars
  <2>4. T[n].done + 1 + Cardinality(FirstChars(T[n].wait \ T[k].group, End(T, n))) = nodes[n].child_count
    BY <1>7, OneLess
  <2>5. (U[n].done + Cardinality(FirstChars(U[n].wait, End(U, n))) = nodes[n].child_count)'
    BY <1>1, <2>1, <2>3, <2>4
  <2>6. ASSUME NEW i \in U[n].wait
        PROVE  i \in Class(U, n, i)' /\ Class(U, n, i)' \subseteq U[n].wait
    <3>1. i \in Class(T, n, i) /\ Class(T, n, i) \subseteq T[n].wait /\ i \notin T[k].group
      BY <1>1, <2>1 DEF WaitOK
    <3>2. ASSUME NEW j \in Class(T, n, i)
          PROVE  j \notin T[k].group
      <4>1. i \in Class(T, n, j)
        BY <3>1 DEF Class
      <4> QED
        BY <2>2, <3>1, <4>1
    <3> QED
      BY <1>4, <2>1, <3>1, <3>2
  <2>7. ChildOf(n, T[n].done)' = k
    <3>1. children'[nodes[n].first_child + T[n].done] = k
      BY <1>7, ChildWritten
    <3> QED
      BY <1>1, <3>1 DEF ChildOf
  <2>8. ASSUME NEW i \in U[n].group, Len(keys[i]) > End(U, n)'
        PROVE  i \in U[n].wait \/ \E c \in 0 .. U[n].done - 1 : i \in U[ChildOf(n, c)'].group
    <3>1. i \in T[n].wait \/ \E c \in 0 .. T[n].done - 1 : i \in T[ChildOf(n, c)].group
      BY <1>1, <1>2, <1>3, <2>8 DEF WaitOK
    <3>2. CASE \E c \in 0 .. T[n].done - 1 : i \in T[ChildOf(n, c)].group
      <4>1. PICK c \in 0 .. T[n].done - 1 : i \in T[ChildOf(n, c)].group
        BY <3>2
      <4>2. c \in 0 .. U[n].done - 1
        BY <2>1
      <4> QED
        BY <1>5, <4>1, <4>2
    <3>3. CASE i \in T[k].group
      <4>1. T[n].done \in 0 .. U[n].done - 1
        BY <2>1
      <4>2. U[k].group = T[k].group
        BY <2>1, HandedBy
      <4> QED
        BY <2>7, <3>3, <4>1, <4>2
    <3> QED
      BY <2>1, <3>1, <3>2, <3>3
  <2> QED
    BY <1>1, <2>5, <2>6, <2>8 DEF WaitOK
<1> QED
  BY <1>6, <1>7

LEMMA HandedChildren ==
  ASSUME NEW T, NEW U, NEW k, NEW m, Returning(T, U, k, m),
         NEW n \in Here, NEW c \in 0 .. U[n].done - 1
  PROVE  ChildOK(U, n, c)'
<1>1. /\ keys' = keys /\ nodes' = nodes /\ next' = next
      /\ \A d \in 0 .. T[n].done - 1 : ChildOK(T, n, d)
  BY DEF Returning, TreeInv
<1>2. ASSUME NEW d \in 0 .. T[n].done - 1
      PROVE  ChildOf(n, d)' = ChildOf(n, d) /\ ChildOf(n, d) \in Here
             /\ U[ChildOf(n, d)].group = T[ChildOf(n, d)].group
             /\ Under(T, ChildOf(n, d), n, d)
  <2>1. ChildOf(n, d)' = ChildOf(n, d)
    <3>1. children'[nodes[n].first_child + d] = children[nodes[n].first_child + d]
      BY ChildWritten
    <3> QED
      BY <1>1, <3>1 DEF ChildOf
  <2>2. ChildOf(n, d) \in 1 .. next.node - 1 /\ Under(T, ChildOf(n, d), n, d)
    BY <1>1 DEF ChildOK, Under
  <2>3. next.node \in Nat
    BY DEF Returning, ShapeInv
  <2>4. ChildOf(n, d) \in Here
    BY <2>2, <2>3 DEF Here
  <2> QED
    BY <2>1, <2>2, <2>4, HandedBy
<1>3. ASSUME c \in 0 .. T[n].done - 1
      PROVE  Under(U, ChildOf(n, c), n, c)'
  <2>1. PICK j : j = ChildOf(n, c)
    OBVIOUS
  <2>2. Under(T, j, n, c)
    BY <1>2, <1>3, <2>1
  <2>3. Under(U, j, n, c)'
    BY <2>2, HandedUnder
  <2>4. ChildOf(n, c)' = j
    BY <1>2, <1>3, <2>1
  <2> QED
    BY <2>3, <2>4 DEF Under
<1>4. CASE n # m
  <2>1. U[n] = T[n]
    BY <1>4, HandedBy
  <2>2. c \in 0 .. T[n].done - 1
    BY <2>1
  <2> QED
    BY <1>1, <1>2, <1>3, <2>1, <2>2 DEF ChildOK
<1>5. CASE n = m
  <2>1. U[n].done = T[n].done + 1 /\ U[n].wait = T[n].wait \ T[k].group /\ T[n].done \in Nat /\ k \in Here
    BY <1>5, HandedBy
  <2>2. T[k].group \subseteq T[n].wait /\ Under(T, k, n, T[n].done)
    BY <1>5, TwoCalls DEF Returning
  <2>3. ChildOf(n, T[n].done)' = k
    <3>1. children'[nodes[n].first_child + T[n].done] = k
      BY <1>5, ChildWritten
    <3> QED
      BY <1>1, <3>1 DEF ChildOf
  <2>4. U[k].group = T[k].group
    BY <2>1, HandedBy
  <2>5. ASSUME NEW d \in 0 .. U[n].done - 1
        PROVE  d \in 0 .. T[n].done - 1 \/ d = T[n].done
    BY <2>1
  <2>6. ASSUME NEW d \in 0 .. T[n].done - 1
        PROVE  T[ChildOf(n, d)].group \cap T[k].group = {}
    BY <1>1, <2>2 DEF ChildOK
  <2>7. CASE c \in 0 .. T[n].done - 1
    <3>1. U[ChildOf(n, c)'].group \cap U[n].wait = {}
      BY <1>1, <1>2, <2>1, <2>7 DEF ChildOK
    <3>2. ASSUME NEW d \in 0 .. U[n].done - 1, U[ChildOf(n, c)'].group \cap U[ChildOf(n, d)'].group # {}
          PROVE  c = d
      <4>1. CASE d \in 0 .. T[n].done - 1
        BY <1>1, <1>2, <2>7, <3>2, <4>1 DEF ChildOK
      <4>2. CASE d = T[n].done
        <5>1. U[ChildOf(n, c)'].group = T[ChildOf(n, c)].group
          BY <1>2, <2>7
        <5>2. U[ChildOf(n, d)'].group = T[k].group
          BY <2>3, <2>4, <4>2
        <5> QED
          BY <2>6, <2>7, <3>2, <5>1, <5>2
      <4> QED
        BY <2>5, <4>1, <4>2
    <3> QED
      BY <1>1, <1>3, <2>7, <3>1, <3>2 DEF ChildOK
  <2>8. CASE c = T[n].done
    <3>1. U[ChildOf(n, c)'].group = T[k].group
      BY <2>3, <2>4, <2>8
    <3>2. U[ChildOf(n, c)'].group \cap U[n].wait = {}
      BY <2>1, <3>1
    <3>3. ASSUME NEW d \in 0 .. U[n].done - 1, U[ChildOf(n, c)'].group \cap U[ChildOf(n, d)'].group # {}
          PROVE  c = d
      <4>1. CASE d \in 0 .. T[n].done - 1
        <5>1. U[ChildOf(n, d)'].group = T[ChildOf(n, d)].group
          BY <1>2, <4>1
        <5> QED
          BY <2>6, <3>1, <3>3, <4>1, <5>1
      <4>2. CASE d = T[n].done
        BY <2>8, <4>2
      <4> QED
        BY <2>5, <4>1, <4>2
    <3>4. Under(U, k, n, c)'
      BY <2>2, <2>8, HandedUnder
    <3>5. Under(U, ChildOf(n, c), n, c)'
      <4>1. ChildOf(n, c)' = k
        BY <2>3, <2>8, SMTT(40)
      <4> QED
        BY <3>4, <4>1 DEF Under
    <3> QED
      BY <1>1, <3>2, <3>3, <3>5 DEF ChildOK
  <2> QED
    BY <2>5, <2>7, <2>8
<1> QED
  BY <1>4, <1>5

LEMMA HandedFrames ==
  ASSUME NEW T, NEW U, NEW k, NEW m, Returning(T, U, k, m), NEW p \in DOMAIN calls'
  PROVE  FrameOK(U, p)'
<1>1. /\ DOMAIN calls' = 1 .. Len(calls) - 1 /\ DOMAIN calls = 1 .. Len(calls)
      /\ Len(calls) \in Nat /\ Len(calls) > 1 /\ Len(calls') = Len(calls) - 1
      /\ calls'[Len(calls) - 1] = [calls[Len(calls) - 1] EXCEPT !.g = @ + 1]
      /\ \A q \in DOMAIN calls' : q # Len(calls) - 1 => calls'[q] = calls[q]
      /\ \A q \in DOMAIN calls' : q \in DOMAIN calls /\ calls'[q].left = calls[q].left
                                  /\ calls'[q].depth = calls[q].depth /\ calls'[q].node = calls[q].node
  <2>1. calls' = Back /\ calls \in Seq(Frame) /\ calls # <<>> /\ Len(calls) # 1
    BY DEF Returning, ShapeInv
  <2> QED
    BY <2>1, GoneBack, Zenon
<1>2. keys' = keys /\ nodes' = nodes /\ next' = next /\ Here' = Here
  BY HandedBy DEF Returning
<1>3. p \in DOMAIN calls /\ FrameOK(T, p)
  BY <1>1 DEF Returning, TreeInv, CallsOK
<1>4. PICK n : n = calls[p].node
  OBVIOUS
<1>5. n \in Here /\ calls[p].depth = End(T, n) /\ calls[p].g = T[n].done
  BY <1>3, <1>4 DEF FrameOK
<1>6. U[n].depth = T[n].depth
  BY <1>5, HandedBy
<1>7. End(U, n)' = End(T, n)
  BY <1>2, <1>6 DEF End
<1>8. calls'[p].node = n /\ calls'[p].depth = End(T, n) /\ calls'[p].left = calls[p].left
  BY <1>1, <1>4, <1>5
<1>9. CASE p # Len(calls')
  <2>1. PICK j : j = calls[p + 1].node
    OBVIOUS
  <2>2. /\ p # Len(calls) /\ p + 1 \in DOMAIN calls' /\ p \in 1 .. Len(calls) - 2
    BY <1>1, <1>9
  <2>3. /\ T[n].wait = calls[p].left \cup T[j].group
        /\ calls[p].left \cap T[j].group = {}
        /\ Under(T, j, n, T[n].done)
    BY <1>3, <1>4, <2>1, <2>2 DEF FrameOK
  <2>4. j \in Here
    <3>1. p + 1 \in DOMAIN calls
      BY <1>1, <2>2
    <3>2. FrameOK(T, p + 1)
      BY <3>1 DEF Returning, TreeInv, CallsOK
    <3> QED
      BY <2>1, <3>2 DEF FrameOK
  <2>5. n # m
    <3>1. p # Len(calls) - 1 /\ Len(calls) - 1 \in DOMAIN calls
      BY <1>1, <1>9
    <3>2. m = calls[Len(calls) - 1].node
      BY DEF Returning
    <3> QED
      BY <1>3, <1>4, <3>1, <3>2 DEF Returning, TreeInv, CallsOK
  <2>6. U[n] = T[n] /\ U[j].group = T[j].group
    BY <1>5, <2>4, <2>5, HandedBy
  <2>7. calls'[p].g = T[n].done
    BY <1>1, <1>5, <1>9
  <2>8. calls'[p + 1].node = j
    BY <1>1, <2>1, <2>2
  <2>9. Under(U, j, n, U[n].done)'
    BY <1>5, <2>3, <2>6, HandedUnder
  <2> QED
    BY <1>2, <1>5, <1>7, <1>8, <1>9, <2>3, <2>6, <2>7, <2>8, <2>9 DEF FrameOK, End
<1>10. CASE p = Len(calls')
  <2>1. p = Len(calls) - 1 /\ n = m
    BY <1>1, <1>4, <1>10 DEF Returning
  <2>2. /\ T[m].wait = calls[Len(calls) - 1].left \cup T[k].group
        /\ calls[Len(calls) - 1].left \cap T[k].group = {}
    BY TwoCalls DEF Returning
  <2>3. U[m].done = T[m].done + 1 /\ U[m].wait = T[m].wait \ T[k].group
    BY HandedBy
  <2>4. U[n].wait = calls[p].left
    BY <2>1, <2>2, <2>3
  <2>5. calls'[p].g = T[n].done + 1
    <3>1. calls \in Seq(Frame)
      BY DEF Returning, ShapeInv
    <3>2. calls[p] \in Frame
      BY <1>3, <3>1
    <3>3. calls'[p] = [calls[p] EXCEPT !.g = @ + 1]
      BY <1>1, <2>1
    <3>4. calls'[p].g = calls[p].g + 1
      BY <3>2, <3>3 DEF Frame
    <3> QED
      BY <1>5, <3>4
  <2> QED
    BY <1>2, <1>5, <1>7, <1>8, <1>10, <2>1, <2>3, <2>4, <2>5 DEF FrameOK, End
<1> QED
  BY <1>9, <1>10, SMTT(40)

LEMMA HandedCalls ==
  ASSUME NEW T, NEW U, NEW k, NEW m, Returning(T, U, k, m)
  PROVE  CallsOK(U)'
<1>1. /\ calls' = Back /\ calls \in Seq(Frame) /\ calls # <<>> /\ Len(calls) # 1
      /\ CallsOK(T) /\ Here' = Here /\ k = calls[Len(calls)].node /\ m = calls[Len(calls) - 1].node
  BY HandedBy DEF Returning, ShapeInv, TreeInv
<1>2. /\ DOMAIN calls' = 1 .. Len(calls) - 1 /\ DOMAIN calls = 1 .. Len(calls)
      /\ Len(calls) \in Nat /\ Len(calls) > 1
      /\ \A q \in DOMAIN calls' : q \in DOMAIN calls /\ calls'[q].node = calls[q].node
  BY <1>1, GoneBack
<1>3. \A p \in DOMAIN calls' : FrameOK(U, p)'
  BY HandedFrames
<1>4. \A p, q \in DOMAIN calls' : calls'[p].node = calls'[q].node => p = q
  BY <1>1, <1>2 DEF CallsOK
<1>5. ASSUME NEW n \in Here, \A p \in DOMAIN calls' : calls'[p].node # n
      PROVE  U[n].wait = {}
  <2>1. n # m
    <3>1. Len(calls) - 1 \in DOMAIN calls'
      BY <1>2
    <3> QED
      BY <1>1, <1>2, <1>5, <3>1
  <2>2. U[n] = T[n]
    BY <2>1, HandedBy
  <2>3. CASE n = k
    BY <2>2, <2>3, TwoCalls DEF Returning
  <2>4. CASE n # k
    <3>1. \A p \in DOMAIN calls : p \in DOMAIN calls' \/ p = Len(calls)
      BY <1>2
    <3>2. \A p \in DOMAIN calls : calls[p].node # n
      BY <1>1, <1>2, <1>5, <2>4, <3>1
    <3> QED
      BY <1>1, <2>2, <3>2 DEF CallsOK
  <2> QED
    BY <2>3, <2>4
<1> QED
  BY <1>1, <1>3, <1>4, <1>5 DEF CallsOK

LEMMA HandedLinks ==
  ASSUME NEW T, NEW U, NEW k, NEW m, Returning(T, U, k, m), NEW n \in 1 .. next.node - 1
  PROVE  Written(U, n)' \/ \E p \in DOMAIN calls' : p # 1 /\ calls'[p].node = n
<1>1. /\ calls' = Back /\ calls \in Seq(Frame) /\ calls # <<>> /\ Len(calls) # 1
      /\ nodes' = nodes /\ k = calls[Len(calls)].node
  BY DEF Returning, ShapeInv
<1>2. /\ DOMAIN calls' = 1 .. Len(calls) - 1 /\ DOMAIN calls = 1 .. Len(calls)
      /\ Len(calls) \in Nat /\ Len(calls) > 1
      /\ \A q \in DOMAIN calls' : q \in DOMAIN calls /\ calls'[q].node = calls[q].node
  BY <1>1, GoneBack
<1>3. Here' = Here /\ n \in Here /\ m \in Here /\ T[m].done \in Nat /\ U[m].done = T[m].done + 1
  <2>1. next.node \in Nat
    BY DEF Returning, ShapeInv
  <2>2. n \in Here
    BY <2>1 DEF Here
  <2> QED
    BY <2>2, HandedBy
<1>4. U[n].above = T[n].above /\ U[n].place = T[n].place
  BY <1>3, HandedBy
<1>5. CASE Written(T, n)
  <2>1. PICK a : a = T[n].above
    OBVIOUS
  <2>2. a \in Here /\ T[n].place \in 0 .. T[a].done - 1 /\ ChildOf(a, T[n].place) = n
    BY <1>5, <2>1 DEF Written
  <2>3. T[n].place \in 0 .. U[a].done - 1
    <3>1. a # m => U[a].done = T[a].done
      BY <2>2, HandedBy
    <3>2. a = m => U[a].done = T[a].done + 1 /\ T[a].done \in Nat
      BY <1>3
    <3> QED
      BY <2>2, <3>1, <3>2
  <2>4. ChildOf(a, T[n].place)' = n
    <3>1. children'[nodes[a].first_child + T[n].place] = children[nodes[a].first_child + T[n].place]
      BY <2>2, ChildWritten
    <3> QED
      BY <1>1, <2>2, <3>1 DEF ChildOf
  <2>5. Written(U, n)'
    BY <1>3, <1>4, <2>1, <2>2, <2>3, <2>4 DEF Written
  <2> QED
    BY <2>5
<1>6. CASE ~Written(T, n)
  <2>1. PICK p \in DOMAIN calls : p # 1 /\ calls[p].node = n
    BY <1>6 DEF Returning, TreeInv, LinksOK
  <2>2. CASE p # Len(calls)
    <3>1. p \in DOMAIN calls'
      BY <1>2, <2>2
    <3> QED
      BY <1>2, <2>1, <3>1
  <2>3. CASE p = Len(calls)
    <3>1. n = k
      BY <1>1, <2>1, <2>3
    <3>2. T[n].above = m /\ T[n].place = T[m].done
      BY <3>1, TwoCalls DEF Returning, Under
    <3>3. ChildOf(m, T[m].done)' = n
      <4>1. children'[nodes[m].first_child + T[m].done] = k
        BY ChildWritten
      <4> QED
        BY <1>1, <3>1, <4>1 DEF ChildOf
    <3>4. T[m].done \in 0 .. U[m].done - 1
      BY <1>3
    <3>5. Written(U, n)'
      BY <1>3, <1>4, <3>2, <3>3, <3>4 DEF Written
    <3> QED
      BY <3>5
  <2> QED
    BY <2>2, <2>3
<1> QED
  BY <1>5, <1>6

LEMMA ReturnTree ==
  ASSUME NEW T, NEW U, NEW k, NEW m, Returning(T, U, k, m)
  PROVE  TreeInv(U)'
<1>1. /\ Here' = Here /\ Numbers' = Numbers /\ m \in Here /\ k \in Here
      /\ keys' = keys /\ nodes' = nodes /\ next' = next
  BY HandedBy DEF Returning
<1>2. Branch' = Branch
  BY <1>1 DEF Branch
<1>3. U \in [Here -> Branch]
  <2>1. T \in [Here -> Branch] /\ U = Handed(T, k, m)
    BY DEF Returning, TreeInv
  <2>2. T[m] \in Branch /\ T[k] \in Branch
    BY <1>1, <2>1
  <2> DEFINE b == [group |-> T[m].group, depth |-> T[m].depth, done |-> T[m].done + 1,
                   wait |-> T[m].wait \ T[k].group, above |-> T[m].above, place |-> T[m].place]
  <2>3. b \in Branch
    <3>1. T[m].done + 1 \in Nat
      BY <2>2 DEF Branch
    <3>2. T[m].wait \ T[k].group \in SUBSET Numbers
      BY <2>2 DEF Branch
    <3> QED
      BY <2>2, <3>1, <3>2 DEF Branch
  <2>4. U = [T EXCEPT ![m] = b]
    BY <2>1 DEF Handed
  <2> HIDE DEF b
  <2> QED
    BY <2>1, <2>3, <2>4
<1>4. \A n \in Here : NodeOK(U, n)'
  BY HandedNodes
<1>5. \A n \in Here : WaitOK(U, n)'
  BY HandedWaits
<1>6. \A n \in Here : \A c \in 0 .. U[n].done - 1 : ChildOK(U, n, c)'
  BY HandedChildren
<1>7. PlacesApart'
  BY <1>1 DEF Returning, TreeInv, PlacesApart
<1>8. CallsOK(U)'
  BY HandedCalls
<1>9. LinksOK(U)'
  <2>1. \A n \in 1 .. next.node - 1 : Written(U, n)' \/ \E p \in DOMAIN calls' : p # 1 /\ calls'[p].node = n
    BY HandedLinks
  <2> QED
    BY <1>1, <2>1 DEF LinksOK
<1>10. RootOK(U)'
  <2>1. RootOK(T) /\ calls' = Back /\ calls \in Seq(Frame) /\ calls # <<>> /\ Len(calls) # 1
    BY DEF Returning, ShapeInv, TreeInv
  <2>2. /\ DOMAIN calls' = 1 .. Len(calls) - 1 /\ Len(calls) \in Nat /\ Len(calls) > 1
        /\ \A q \in DOMAIN calls' : calls'[q].node = calls[q].node
    BY <2>1, GoneBack
  <2>3. calls'[1].node = 0
    <3>1. 1 \in DOMAIN calls'
      BY <2>2
    <3> QED
      BY <2>1, <2>2, <3>1 DEF RootOK
  <2>4. next.node \in Nat /\ next.node > 0
    <3>1. next.node \in Nat
      BY DEF Returning, ShapeInv
    <3>2. next.node # 0
      BY <1>1, <3>1 DEF Here
    <3> QED
      BY <3>1, <3>2
  <2>5. 0 \in Here
    BY <2>4 DEF Here
  <2>6. U[0].group = Numbers /\ U[0].depth = 0
    BY <2>1, <2>4, <2>5, HandedBy DEF RootOK
  <2> QED
    BY <1>1, <2>3, <2>4, <2>6 DEF RootOK
<1> QED
  BY <1>1, <1>2, <1>3, <1>4, <1>5, <1>6, <1>7, <1>8, <1>9, <1>10 DEF TreeInv

(* The return of the outermost call.                                       *)
LEMMA LastReturn ==
  ASSUME ShapeInv, NEW T, TreeInv(T), Len(calls) = 1, calls[1].left = {},
         calls' = <<>>, keys' = keys, nodes' = nodes, labels' = labels, children' = children, next' = next
  PROVE  TreeInv(T)'
<1>1. DOMAIN calls = {1}
  BY DEF ShapeInv
<1>2. Here' = Here /\ Numbers' = Numbers /\ Branch' = Branch
  BY DEF Here, Numbers, Branch
<1>3. FrameOK(T, 1)
  BY <1>1 DEF TreeInv, CallsOK
<1>4. T[calls[1].node].wait = {} /\ calls[1].node \in Here
  BY <1>3 DEF FrameOK
<1>5. \A n \in Here : T[n].wait = {}
  BY <1>1, <1>4 DEF TreeInv, CallsOK
<1>6. DOMAIN calls' = {}
  OBVIOUS
<1>7. CallsOK(T)'
  BY <1>2, <1>5, <1>6 DEF CallsOK
<1>8. ASSUME NEW n \in Here
      PROVE  /\ NodeOK(T, n)' /\ WaitOK(T, n)'
             /\ \A c \in 0 .. T[n].done - 1 : ChildOK(T, n, c)'
  <2>1. NodeOK(T, n) /\ WaitOK(T, n) /\ \A c \in 0 .. T[n].done - 1 : ChildOK(T, n, c)
    BY DEF TreeInv
  <2>2. NodeOK(T, n)'
    BY <2>1 DEF NodeOK, End, GroupOK, Alike, Numbers, NPOS
  <2>3. WaitOK(T, n)'
    BY <2>1 DEF WaitOK, End, Class, ChildOf, FirstChars
  <2>4. ASSUME NEW c \in 0 .. T[n].done - 1 PROVE ChildOK(T, n, c)'
    <3>1. ChildOK(T, n, c) /\ ChildOf(n, c)' = ChildOf(n, c)
      BY <2>1, SMTT(40) DEF ChildOf
    <3>2. Under(T, ChildOf(n, c), n, c)'
      BY <3>1 DEF ChildOK, Under, End, Class, ChildOf
    <3> QED
      BY <3>1, <3>2, SMTT(40) DEF ChildOK, ChildOf
  <2> QED
    BY <2>2, <2>3, <2>4
<1>9. PlacesApart'
  BY <1>2 DEF TreeInv, PlacesApart
<1>10. LinksOK(T)'
  <2>1. \A n \in 1 .. next.node - 1 : Written(T, n)
    BY <1>1 DEF TreeInv, LinksOK
  <2>2. \A n \in 1 .. next.node - 1 : Written(T, n)'
    BY <2>1, <1>2 DEF Written, ChildOf
  <2> QED
    BY <2>2 DEF LinksOK
<1>11. RootOK(T)'
  <2>1. next.node # 0
    <3>1. calls # <<>>
      BY <1>1
    <3> QED
      BY <3>1 DEF TreeInv, RootOK
  <2> QED
    BY <1>2, <2>1 DEF TreeInv, RootOK
<1> QED
  BY <1>2, <1>7, <1>8, <1>9, <1>10, <1>11 DEF TreeInv

LEMMA ReturnSays ==
  ASSUME ShapeInv, PlacesInv, next.node <= MaxNodes, NEW T, TreeInv(T), Return, Len(calls) # 1,
         NEW k, k = calls[Len(calls)].node, NEW m, m = calls[Len(calls) - 1].node
  PROVE  Returning(T, Handed(T, k, m), k, m)
<1>1. /\ calls # <<>> /\ calls[Len(calls)].left = {}
      /\ calls' = Back
      /\ children' = [children EXCEPT ![Narrow(nodes[m].first_child + Narrow(calls[Len(calls) - 1].g))] = Narrow(k)]
      /\ keys' = keys /\ nodes' = nodes /\ labels' = labels /\ next' = next
  BY DEF Return, Innermost, Back, NodeReturned
<1>2. /\ k \in Here /\ m \in Here /\ calls[Len(calls) - 1].g = T[m].done
      /\ T[m].done < nodes[m].child_count
  BY <1>1, TwoCalls
<1>3. /\ keys \in KeyLists /\ StaticAsserts(keys) /\ next.node \in Nat /\ next.child \in Nat
  BY DEF ShapeInv
<1>4. /\ nodes[m].first_child \in Nat /\ nodes[m].child_count \in Nat /\ T[m].done \in Nat
      /\ nodes[m].first_child + nodes[m].child_count <= next.child
  <2>1. nodes[m].first_child \in Nat /\ nodes[m].child_count \in Nat /\ T[m].done \in Nat
    BY <1>2, TreeTypes
  <2>2. nodes[m].first_child + nodes[m].child_count <= next.child
    BY <1>2 DEF TreeInv, PlacesApart
  <2> QED
    BY <2>1, <2>2
<1>5. Len(keys) \in Nat /\ 2 * Len(keys) <= Byte - 2 /\ Byte \in Nat
  BY <1>3, KeyFacts, TrieAssumption
<1>6. next.child <= 2 * Len(keys) - 2
  <2>1. PICK used \in SUBSET Tokens : next.child = Cardinality(used)
    BY DEF PlacesInv
  <2> QED
    BY <1>3, <2>1, TokensCount
<1>7. Narrow(k) = k
  <2>1. k \in Nat /\ k < Byte
    BY <1>2, <1>3, <1>5, SMTT(40) DEF Here, MaxNodes
  <2> QED
    BY <2>1, NarrowExact
<1> DEFINE a == nodes[m].first_child
           d == T[m].done
<1>8. a \in Nat /\ d \in Nat /\ d < Byte /\ a + d \in Nat /\ a + d < Byte
  <2> DEFINE b == nodes[m].child_count
  <2>1. a \in Nat /\ b \in Nat /\ d \in Nat /\ d < b /\ a + b <= next.child
    BY <1>2, <1>4
  <2> HIDE DEF a, b, d
  <2> QED
    BY <1>3, <1>5, <1>6, <2>1
<1> HIDE DEF a, d
<1>9. Narrow(d) = d /\ Narrow(a + d) = a + d
  BY <1>8, NarrowExact
<1>10. children' = [children EXCEPT ![a + d] = k]
  BY <1>1, <1>2, <1>7, <1>9 DEF a, d
<1> QED
  BY <1>1, <1>10 DEF Returning, a, d

LEMMA ReturnKeeps ==
  ASSUME ShapeInv, FramesOK(calls), PlacesInv, LabelsInv, next.node <= MaxNodes,
         NEW T, TreeInv(T), Return
  PROVE  /\ ShapeInv' /\ FramesOK(calls)' /\ PlacesInv' /\ LabelsInv' /\ (next.node <= MaxNodes)'
         /\ find' = find /\ keys' = keys /\ nodes' = nodes /\ labels' = labels /\ next' = next
         /\ \E U : TreeInv(U)'
<1>1. /\ calls # <<>> /\ calls[Len(calls)].left = {}
      /\ keys' = keys /\ nodes' = nodes /\ labels' = labels /\ next' = next /\ find' = find
      /\ Len(calls) = 1 => calls' = <<>> /\ children' = children
      /\ Len(calls) # 1 => calls' = Back
  BY DEF Return, Innermost, Back
<1>2. calls \in Seq(Frame) /\ children \in [0 .. MaxChildren - 1 -> Nat]
  BY DEF ShapeInv
<1>3. /\ MaxNodes' = MaxNodes /\ MaxLabels' = MaxLabels /\ MaxChildren' = MaxChildren
      /\ Numbers' = Numbers /\ Frame' = Frame /\ Spots' = Spots /\ Tokens' = Tokens /\ FlatNode' = FlatNode
  BY <1>1 DEF MaxNodes, MaxLabels, MaxChildren, Numbers, Frame, Spots, Tokens, FlatNode
<1>4. /\ calls' \in Seq(Frame) /\ FramesOK(calls')
      /\ \A p \in DOMAIN calls' : /\ p \in DOMAIN calls /\ calls'[p].left = calls[p].left
                                  /\ calls'[p].depth = calls[p].depth
      /\ children' \in [0 .. MaxChildren - 1 -> Nat]
      /\ \E U : TreeInv(U)'
  <2>1. CASE Len(calls) = 1
    <3>1. calls' = <<>> /\ children' = children
      BY <1>1, <2>1
    <3>2. calls' \in Seq(Frame) /\ DOMAIN calls' = {}
      BY <3>1
    <3>3. FramesOK(calls')
      BY <3>2 DEF FramesOK
    <3>4. calls[1].left = {}
      BY <1>1, <2>1
    <3>5. TreeInv(T)'
      BY <1>1, <2>1, <3>1, <3>4, LastReturn
    <3> QED
      BY <1>2, <3>1, <3>2, <3>3, <3>5
  <2>2. CASE Len(calls) # 1
    <3>1. calls' = Back
      BY <1>1, <2>2
    <3>2. FramesOK(Back)
      BY <1>1, <2>2, ReturnFrames
    <3>3. /\ Back \in Seq(Frame)
          /\ \A p \in DOMAIN Back : /\ p \in DOMAIN calls /\ Back[p].left = calls[p].left
                                    /\ Back[p].depth = calls[p].depth
      BY <1>1, <1>2, <2>2, GoneBack
    <3>4. PICK k, m : k = calls[Len(calls)].node /\ m = calls[Len(calls) - 1].node
      OBVIOUS
    <3>5. Returning(T, Handed(T, k, m), k, m)
      BY <2>2, <3>4, ReturnSays
    <3>6. children' \in [0 .. MaxChildren - 1 -> Nat]
      BY <3>5, ChildWritten
    <3>7. PICK U : U = Handed(T, k, m)
      OBVIOUS
    <3>8. TreeInv(U)'
      BY <3>5, <3>7, ReturnTree
    <3> QED
      BY <3>1, <3>2, <3>3, <3>6, <3>8
  <2> QED
    BY <2>1, <2>2
<1>5. ShapeInv'
  BY <1>1, <1>3, <1>4 DEF ShapeInv, StaticAsserts, Distinct
<1>6. FramesOK(calls)'
  BY <1>1, <1>3, <1>4 DEF FramesOK, Alike
<1>7. PlacesInv'
  <2>1. PICK used \in SUBSET Tokens : next.child = Cardinality(used) /\ PlacesTaken(calls, used)
    BY DEF PlacesInv
  <2>2. PlacesTaken(calls, used)'
    BY <1>1, <1>4, <2>1 DEF PlacesTaken
  <2>3. used \in SUBSET Tokens' /\ next'.child = Cardinality(used)
    BY <1>1, <1>3, <2>1
  <2> QED
    BY <2>2, <2>3 DEF PlacesInv
<1>8. LabelsInv'
  <2>1. PICK read \in SUBSET Spots : next.label = Cardinality(read) /\ SpotsRead(calls, read)
    BY DEF LabelsInv
  <2>2. SpotsRead(calls, read)'
    BY <1>4, <2>1 DEF SpotsRead
  <2>3. read \in SUBSET Spots' /\ next'.label = Cardinality(read)
    BY <1>1, <1>3, <2>1
  <2> QED
    BY <2>2, <2>3 DEF LabelsInv
<1>9. (next.node <= MaxNodes)'
  BY <1>1, <1>3
<1> QED
  BY <1>1, <1>4, <1>5, <1>6, <1>7, <1>8, <1>9
-----------------------------------------------------------------------------
(* The trie once it is built: the children of a node part the keys behind  *)
(* its label by their first characters.                                    *)
Child(T, n, c) ==
  LET k == ChildAt(n, c)
  IN  /\ k \in Here /\ k < NoChild /\ k = ChildOf(n, c)
      /\ T[k].depth = End(T, n) /\ nodes[k].label_length > 0 /\ T[k].group # {}
      /\ \A i \in T[k].group : T[k].group = Class(T, n, i) /\ FirstChar(k) = keys[i][End(T, n) + 1]

LEMMA BuiltChild ==
  ASSUME ShapeInv, PlacesInv, next.node <= MaxNodes, NEW T, TreeInv(T), Built, NEW n \in Here
  PROVE  /\ T[n].done = nodes[n].child_count
         /\ \A c \in ChildPlaces(n) : Child(T, n, c)
<1>1. DOMAIN calls = {}
  BY DEF Built
<1>2. T[n].wait = {}
  BY <1>1 DEF TreeInv, CallsOK
<1>3. T[n].done = nodes[n].child_count
  BY <1>2, ChildToCome
<1>4. /\ keys \in KeyLists /\ StaticAsserts(keys) /\ next.node \in Nat /\ next.child \in Nat
  BY DEF ShapeInv
<1>5. /\ Len(keys) \in Nat /\ 2 * Len(keys) <= Byte - 2 /\ Byte \in Nat
  BY <1>4, KeyFacts, TrieAssumption
<1>6. next.child <= 2 * Len(keys) - 2
  <2>1. PICK used \in SUBSET Tokens : next.child = Cardinality(used)
    BY DEF PlacesInv
  <2> QED
    BY <1>4, <2>1, TokensCount
<1>7. nodes[n].first_child + nodes[n].child_count <= next.child
  BY DEF TreeInv, PlacesApart
<1>8. nodes[n].first_child \in Nat /\ nodes[n].child_count \in Nat /\ End(T, n) \in Nat
  BY TreeTypes
<1>9. ASSUME NEW c \in ChildPlaces(n)
      PROVE  Child(T, n, c)
  <2>1. c \in 0 .. T[n].done - 1
    BY <1>3, <1>9 DEF ChildPlaces
  <2>2. ChildAt(n, c) = ChildOf(n, c)
    <3> DEFINE a == nodes[n].first_child
               b == nodes[n].child_count
    <3>1. a \in Nat /\ b \in Nat /\ a + b <= next.child /\ c \in 0 .. b - 1
      BY <1>3, <1>7, <1>8, <2>1
    <3> HIDE DEF a, b
    <3>2. c \in Nat /\ c < Byte /\ a + c \in Nat /\ a + c < Byte
      BY <1>4, <1>5, <1>6, <3>1
    <3>3. Narrow(c) = c /\ Narrow(a + c) = a + c
      BY <3>2, NarrowExact
    <3> QED
      BY <3>3 DEF ChildAt, ChildOf, a
  <2>3. PICK k : k = ChildOf(n, c)
    OBVIOUS
  <2>4. Under(T, k, n, c)
    BY <2>1, <2>3 DEF TreeInv, ChildOK
  <2>5. k \in 1 .. next.node - 1 /\ T[k].depth = End(T, n) /\ \A i \in T[k].group : T[k].group = Class(T, n, i)
    BY <2>4 DEF Under
  <2>6. k \in Here /\ k # 0 /\ k < NoChild
    <3>1. k \in Nat /\ 1 <= k /\ k <= next.node - 1 /\ next.node <= 2 * Len(keys)
      BY <1>4, <2>5 DEF MaxNodes
    <3> QED
      BY <1>4, <1>5, <3>1 DEF Here, NoChild
  <2>7. NodeOK(T, k)
    BY <2>6 DEF TreeInv
  <2>8. nodes[k].label_length > 0 /\ T[k].group # {}
    BY <2>6, <2>7 DEF NodeOK, GroupOK
  <2>9. nodes[k].label_length \in Nat /\ nodes[k].label_offset \in Nat
    BY <2>6, TreeTypes
  <2>10. ASSUME NEW i \in T[k].group
         PROVE  FirstChar(k) = keys[i][End(T, n) + 1]
    <3>1. 1 \in 1 .. nodes[k].label_length
      BY <2>8, <2>9
    <3>2. labels[nodes[k].label_offset + 1 - 1] = keys[i][T[k].depth + 1]
      BY <2>7, <3>1 DEF NodeOK
    <3>3. nodes[k].label_offset + 1 - 1 = nodes[k].label_offset
      BY <2>9
    <3> QED
      BY <2>5, <3>2, <3>3 DEF FirstChar
  <2> QED
    BY <2>2, <2>3, <2>5, <2>6, <2>8, <2>10 DEF Child
<1> QED
  BY <1>3, <1>9

(* Children start with different characters, and each key behind the label *)
(* belongs to one of them.                                                 *)
LEMMA BuiltPartition ==
  ASSUME ShapeInv, PlacesInv, next.node <= MaxNodes, NEW T, TreeInv(T), Built, NEW n \in Here
  PROVE  /\ \A c, d \in ChildPlaces(n) : FirstChar(ChildAt(n, c)) = FirstChar(ChildAt(n, d)) => c = d
         /\ \A i \in T[n].group : Len(keys[i]) > End(T, n) =>
              \E c \in ChildPlaces(n) : i \in T[ChildAt(n, c)].group
<1>1. T[n].done = nodes[n].child_count /\ \A c \in ChildPlaces(n) : Child(T, n, c)
  BY BuiltChild
<1>2. \A c : c \in ChildPlaces(n) <=> c \in 0 .. T[n].done - 1
  BY <1>1 DEF ChildPlaces
<1>3. ASSUME NEW c \in ChildPlaces(n), NEW d \in ChildPlaces(n),
             FirstChar(ChildAt(n, c)) = FirstChar(ChildAt(n, d))
      PROVE  c = d
  <2>1. PICK k, l : k = ChildAt(n, c) /\ l = ChildAt(n, d)
    OBVIOUS
  <2>2. /\ T[k].group # {} /\ T[l].group # {} /\ k = ChildOf(n, c) /\ l = ChildOf(n, d)
        /\ \A i \in T[k].group : T[k].group = Class(T, n, i) /\ FirstChar(k) = keys[i][End(T, n) + 1]
        /\ \A i \in T[l].group : T[l].group = Class(T, n, i) /\ FirstChar(l) = keys[i][End(T, n) + 1]
    BY <1>1, <2>1 DEF Child
  <2>3. PICK i \in T[k].group, j \in T[l].group : TRUE
    BY <2>2
  <2>4. j \in Class(T, n, j) /\ keys[i][End(T, n) + 1] = keys[j][End(T, n) + 1]
    BY <1>3, <2>1, <2>2, <2>3
  <2>5. j \in Class(T, n, i)
    BY <2>4 DEF Class
  <2>6. j \in T[k].group
    BY <2>2, <2>3, <2>5
  <2>7. T[ChildOf(n, c)].group \cap T[ChildOf(n, d)].group # {}
    BY <2>2, <2>3, <2>6
  <2> QED
    BY <1>2, <2>7 DEF TreeInv, ChildOK
<1>4. ASSUME NEW i \in T[n].group, Len(keys[i]) > End(T, n)
      PROVE  \E c \in ChildPlaces(n) : i \in T[ChildAt(n, c)].group
  <2>1. T[n].wait = {}
    <3>1. DOMAIN calls = {}
      BY DEF Built
    <3> QED
      BY <3>1 DEF TreeInv, CallsOK
  <2>2. PICK c \in 0 .. T[n].done - 1 : i \in T[ChildOf(n, c)].group
    BY <1>4, <2>1 DEF TreeInv, WaitOK
  <2>3. c \in ChildPlaces(n) /\ ChildAt(n, c) = ChildOf(n, c)
    BY <1>1, <1>2 DEF Child
  <2> QED
    BY <2>2, <2>3
<1> QED
  BY <1>3, <1>4

(* Table and scan: the one child that starts with the character, if any.   *)
LEMMA FindChildIs ==
  ASSUME ShapeInv, PlacesInv, next.node <= MaxNodes, NEW T, TreeInv(T), Built, NEW n \in Here, NEW char
  PROVE  /\ \A c \in ChildPlaces(n) : FirstChar(ChildAt(n, c)) = char => FindChild(n, char) = ChildAt(n, c)
         /\ (\A c \in ChildPlaces(n) : FirstChar(ChildAt(n, c)) # char) => FindChild(n, char) = NoChild
<1> DEFINE places == {c \in ChildPlaces(n) : FirstChar(ChildAt(n, c)) = char}
<1>1. \A c, d \in ChildPlaces(n) : FirstChar(ChildAt(n, c)) = FirstChar(ChildAt(n, d)) => c = d
  BY BuiltPartition
<1>2. nodes[n].child_count \in Nat
  BY TreeTypes
<1>3. ASSUME NEW c \in ChildPlaces(n), FirstChar(ChildAt(n, c)) = char
      PROVE  FindChild(n, char) = ChildAt(n, c)
  <2>1. places = {c}
    BY <1>1, <1>3
  <2>2. c \in Int
    BY <1>2 DEF ChildPlaces
  <2>3. c <= c
    BY <2>2
  <2>4. (CHOOSE e \in places : \A d \in places : d <= e) = c
    <3> HIDE DEF places
    <3> QED
      BY <2>1, <2>3
  <2>5. (CHOOSE e \in places : \A d \in places : e <= d) = c
    <3> HIDE DEF places
    <3> QED
      BY <2>1, <2>3
  <2>6. ChildLut(n, char) = ChildAt(n, c)
    BY <2>1, <2>4 DEF ChildLut
  <2>7. ScanChildren(n, char) = ChildAt(n, c)
    BY <2>1, <2>5 DEF ScanChildren
  <2> QED
    BY <2>6, <2>7 DEF FindChild
<1>4. ASSUME \A c \in ChildPlaces(n) : FirstChar(ChildAt(n, c)) # char
      PROVE  FindChild(n, char) = NoChild
  <2>1. places = {}
    BY <1>4
  <2> QED
    BY <2>1 DEF FindChild, ChildLut, ScanChildren
<1> QED
  BY <1>3, <1>4
-----------------------------------------------------------------------------
(* A lookup: so far the text agrees with the keys of the node's group, and *)
(* if it is a key, it is one of them.                                      *)
AnswerIsRight ==
  \/ \E i \in Numbers : keys[i] = find.key /\ find.answer = i - 1
  \/ (\A i \in Numbers : keys[i] # find.key) /\ find.answer = NPOS

Seeking(T) ==
  find.active =>
    /\ Built /\ find.asked /\ find.node \in Here
    /\ find.pos = T[find.node].depth /\ find.pos <= Len(find.key)
    /\ \A i \in T[find.node].group : \A k \in 1 .. find.pos : find.key[k] = keys[i][k]
    /\ \A i \in Numbers : keys[i] = find.key => i \in T[find.node].group

FindInv ==
  /\ find.node < MaxNodes /\ find.answer \in 0 .. NPOS
  /\ find.asked /\ ~find.active => AnswerIsRight

LEMMA LabelRead ==
  ASSUME ShapeInv, next.node <= MaxNodes, NEW T, TreeInv(T), Seeking(T), find.active,
         NEW n, n = find.node, NEW i \in T[n].group
  PROVE  /\ End(T, n) = find.pos + nodes[n].label_length /\ End(T, n) \in Nat
         /\ i \in Numbers /\ keys[i] \in Seq(Nat) /\ Len(keys[i]) \in Nat /\ End(T, n) <= Len(keys[i])
         /\ LabelMatches(find.key, find.pos, n) =>
              /\ End(T, n) <= Len(find.key)
              /\ \A k \in 1 .. End(T, n) : find.key[k] = keys[i][k]
         /\ keys[i] = find.key => LabelMatches(find.key, find.pos, n)
<1>1. /\ n \in Here /\ find.pos = T[n].depth /\ find.pos <= Len(find.key)
      /\ \A k \in 1 .. find.pos : find.key[k] = keys[i][k]
  BY DEF Seeking
<1>2. /\ T[n].group \in SUBSET Numbers /\ T[n].depth \in Nat
      /\ nodes[n].label_length \in Nat /\ nodes[n].label_offset \in Nat /\ End(T, n) \in Nat
  BY <1>1, TreeTypes
<1>3. i \in Numbers /\ keys[i] \in Seq(Nat) /\ Len(keys[i]) \in Nat
  BY <1>2, KeyFacts DEF ShapeInv
<1>4. /\ \A k \in 1 .. nodes[n].label_length : labels[nodes[n].label_offset + k - 1] = keys[i][T[n].depth + k]
      /\ End(T, n) <= Len(keys[i])
  BY <1>1 DEF TreeInv, NodeOK, GroupOK
<1> DEFINE d == T[n].depth
           len == nodes[n].label_length
           off == nodes[n].label_offset
           key == find.key
<1>5. /\ d \in Nat /\ len \in Nat /\ off \in Nat /\ find.pos = d /\ End(T, n) = d + len
      /\ d <= Len(key) /\ Len(key) \in Nat
      /\ \A k \in 1 .. len : labels[off + k - 1] = keys[i][d + k]
      /\ \A k \in 1 .. d : key[k] = keys[i][k]
      /\ d + len <= Len(keys[i])
  BY <1>1, <1>2, <1>4 DEF End, ShapeInv
<1>6. LabelMatches(key, d, n) <=>
        Len(key) - d >= len /\ \A j \in 0 .. len - 1 : key[d + j + 1] = labels[off + j]
  BY DEF LabelMatches
<1> HIDE DEF d, len, off, key
<1>7. ASSUME NEW j \in 0 .. len - 1
      PROVE  labels[off + j] = keys[i][d + j + 1]
  <2>1. j + 1 \in 1 .. len /\ off + (j + 1) - 1 = off + j /\ d + (j + 1) = d + j + 1
    BY <1>5
  <2>2. labels[off + (j + 1) - 1] = keys[i][d + (j + 1)]
    BY <1>5, <2>1
  <2> QED
    BY <2>1, <2>2
<1>8. ASSUME LabelMatches(key, d, n)
      PROVE  d + len <= Len(key) /\ \A k \in 1 .. d + len : key[k] = keys[i][k]
  <2>1. d + len <= Len(key)
    BY <1>5, <1>6, <1>8
  <2>2. ASSUME NEW k \in 1 .. d + len
        PROVE  key[k] = keys[i][k]
    <3>1. CASE k <= d
      <4>1. k \in 1 .. d
        BY <1>5, <3>1
      <4> QED
        BY <1>5, <4>1
    <3>2. CASE ~(k <= d)
      <4>1. k - d - 1 \in 0 .. len - 1 /\ d + (k - d - 1) + 1 = k
        BY <1>5, <3>2
      <4>2. key[d + (k - d - 1) + 1] = labels[off + (k - d - 1)]
        BY <1>6, <1>8, <4>1
      <4>3. labels[off + (k - d - 1)] = keys[i][d + (k - d - 1) + 1]
        BY <1>7, <4>1
      <4> QED
        BY <4>1, <4>2, <4>3
    <3> QED
      BY <3>1, <3>2
  <2> QED
    BY <2>1, <2>2
<1>9. ASSUME keys[i] = key
      PROVE  LabelMatches(key, d, n)
  <2>1. Len(key) - d >= len
    BY <1>5, <1>9
  <2>2. \A j \in 0 .. len - 1 : key[d + j + 1] = labels[off + j]
    BY <1>7, <1>9
  <2> QED
    BY <1>6, <2>1, <2>2
<1> QED
  BY <1>3, <1>5, <1>8, <1>9 DEF key, len

(* The three ways a round of the loop ends.                                *)
LEMMA MismatchRight ==
  ASSUME ShapeInv, next.node <= MaxNodes, NEW T, TreeInv(T), Seeking(T), find.active,
         ~LabelMatches(find.key, find.pos, find.node)
  PROVE  \A i \in Numbers : keys[i] # find.key
<1> SUFFICES ASSUME NEW i \in Numbers, keys[i] = find.key PROVE FALSE
  OBVIOUS
<1>1. PICK n : n = find.node
  OBVIOUS
<1>2. i \in T[n].group
  BY <1>1 DEF Seeking
<1>3. LabelMatches(find.key, find.pos, n)
  BY <1>1, <1>2, LabelRead
<1> QED
  BY <1>1, <1>3

LEMMA SameText ==
  ASSUME NEW s \in Seq(Nat), NEW t \in Seq(Nat), Len(s) = Len(t), \A k \in 1 .. Len(s) : s[k] = t[k]
  PROVE  s = t
OBVIOUS

LEMMA KeyEndsRight ==
  ASSUME ShapeInv, next.node <= MaxNodes, NEW T, TreeInv(T), Seeking(T), find.active,
         LabelMatches(find.key, find.pos, find.node),
         find.pos + nodes[find.node].label_length = Len(find.key)
  PROVE  LET value == nodes[find.node].value_index
         IN  /\ value >= 0 => \E i \in Numbers : keys[i] = find.key /\ value = i - 1
             /\ ~(value >= 0) => \A i \in Numbers : keys[i] # find.key
<1>1. PICK n : n = find.node
  OBVIOUS
<1> DEFINE value == nodes[n].value_index
<1>2. n \in Here /\ find.key \in Seq(Nat) /\ Len(find.key) \in Nat
  BY <1>1 DEF Seeking, ShapeInv
<1>3. /\ value \in -1 .. NPOS - 1
      /\ \A i \in T[n].group : Len(keys[i]) = End(T, n) => value = i - 1
      /\ value # -1 => \E i \in T[n].group : Len(keys[i]) = End(T, n) /\ value = i - 1
  BY <1>2 DEF TreeInv, NodeOK
<1>4. ASSUME value >= 0
      PROVE  \E i \in Numbers : keys[i] = find.key /\ value = i - 1
  <2>1. PICK i \in T[n].group : Len(keys[i]) = End(T, n) /\ value = i - 1
    BY <1>3, <1>4
  <2>2. /\ i \in Numbers /\ keys[i] \in Seq(Nat) /\ End(T, n) = Len(find.key)
        /\ \A k \in 1 .. End(T, n) : find.key[k] = keys[i][k]
    BY <1>1, <2>1, LabelRead
  <2>3. keys[i] = find.key
    BY <1>2, <2>1, <2>2, SameText
  <2> QED
    BY <2>1, <2>2, <2>3
<1>5. ASSUME ~(value >= 0), NEW i \in Numbers, keys[i] = find.key
      PROVE  FALSE
  <2>1. i \in T[n].group
    BY <1>1, <1>5 DEF Seeking
  <2>2. End(T, n) = Len(find.key)
    BY <1>1, <2>1, LabelRead
  <2>3. value = i - 1
    BY <1>3, <1>5, <2>1, <2>2
  <2>4. i >= 1 /\ i \in Nat
    BY KeyFacts, SMTT(40) DEF ShapeInv
  <2> HIDE DEF value
  <2> QED
    BY <1>5, <2>3, <2>4
<1> QED
  BY <1>1, <1>4, <1>5

Sought(T, pos, child) ==
  /\ child = NoChild => \A i \in Numbers : keys[i] # find.key
  /\ child # NoChild =>
       /\ child \in Here /\ pos = T[child].depth
       /\ \A i \in T[child].group : \A k \in 1 .. pos : find.key[k] = keys[i][k]
       /\ \A i \in Numbers : keys[i] = find.key => i \in T[child].group

LEMMA DescendRight ==
  ASSUME ShapeInv, PlacesInv, next.node <= MaxNodes, NEW T, TreeInv(T), Seeking(T), find.active,
         LabelMatches(find.key, find.pos, find.node),
         NEW pos, pos = find.pos + nodes[find.node].label_length, pos < Len(find.key),
         NEW child, child = FindChild(find.node, find.key[pos + 1])
  PROVE  Sought(T, pos, child)
<1>1. PICK n : n = find.node
  OBVIOUS
<1>2. PICK char : char = find.key[pos + 1]
  OBVIOUS
<1>3. n \in Here /\ Built
  BY <1>1 DEF Seeking
<1>4. \A c \in ChildPlaces(n) : Child(T, n, c)
  BY <1>3, BuiltChild
<1>5. /\ \A c \in ChildPlaces(n) : FirstChar(ChildAt(n, c)) = char => child = ChildAt(n, c)
      /\ (\A c \in ChildPlaces(n) : FirstChar(ChildAt(n, c)) # char) => child = NoChild
  <2>1. child = FindChild(n, char)
    BY <1>1, <1>2
  <2> QED
    BY <1>3, <2>1, FindChildIs
<1>6. \A i \in T[n].group : Len(keys[i]) > End(T, n) =>
        \E c \in ChildPlaces(n) : i \in T[ChildAt(n, c)].group
  BY <1>3, BuiltPartition
<1>7. ASSUME NEW i \in Numbers, keys[i] = find.key
      PROVE  \E c \in ChildPlaces(n) : /\ i \in T[ChildAt(n, c)].group /\ FirstChar(ChildAt(n, c)) = char
                                       /\ child = ChildAt(n, c) /\ child # NoChild
  <2>1. i \in T[n].group
    BY <1>1, <1>7 DEF Seeking
  <2>2. End(T, n) = pos
    BY <1>1, <2>1, LabelRead
  <2>3. Len(keys[i]) > End(T, n)
    BY <1>7, <2>2
  <2>4. PICK c \in ChildPlaces(n) : i \in T[ChildAt(n, c)].group
    BY <1>6, <2>1, <2>3
  <2>5. FirstChar(ChildAt(n, c)) = char
    BY <1>2, <1>4, <1>7, <2>2, <2>4 DEF Child
  <2>6. child = ChildAt(n, c)
    BY <1>5, <2>5
  <2>7. child # NoChild
    <3>1. child < NoChild /\ child \in Here
      BY <1>4, <2>6, SMTT(40) DEF Child
    <3>2. NoChild \in Int /\ Here \subseteq Int
      BY TrieAssumption, SMTT(40) DEF NoChild, Here
    <3> QED
      BY <3>1, <3>2
  <2> QED
    BY <2>4, <2>5, <2>6, <2>7
<1>8. ASSUME child # NoChild
      PROVE  /\ child \in Here /\ pos = T[child].depth
             /\ \A i \in T[child].group : \A k \in 1 .. pos : find.key[k] = keys[i][k]
             /\ \A i \in Numbers : keys[i] = find.key => i \in T[child].group
  <2>1. PICK c \in ChildPlaces(n) : FirstChar(ChildAt(n, c)) = char
    BY <1>5, <1>8
  <2>2. child = ChildAt(n, c)
    BY <1>5, <2>1
  <2>3. /\ child \in Here /\ T[child].depth = End(T, n) /\ T[child].group # {}
        /\ \A i \in T[child].group : T[child].group = Class(T, n, i)
    BY <1>4, <2>2, SMTT(40) DEF Child
  <2>4. \A i \in T[child].group : i \in T[n].group
    BY <2>3, ZenonT(60) DEF Class
  <2>5. PICK j \in T[child].group : TRUE
    BY <2>3, ZenonT(60)
  <2>6. End(T, n) = pos
    BY <1>1, <2>4, <2>5, LabelRead
  <2>7. ASSUME NEW i \in T[child].group
        PROVE  \A k \in 1 .. pos : find.key[k] = keys[i][k]
    <3>1. i \in T[n].group
      BY <2>4
    <3>2. LabelMatches(find.key, find.pos, n)
      BY <1>1
    <3>3. \A k \in 1 .. End(T, n) : find.key[k] = keys[i][k]
      BY <1>1, <3>1, <3>2, LabelRead
    <3> QED
      BY <2>6, <3>3, SMTT(40)
  <2> QED
    BY <1>7, <2>3, <2>6, <2>7, Zenon
<1> QED
  BY <1>7, <1>8, Zenon DEF Sought
-----------------------------------------------------------------------------
ChildrenInv == \A c \in 0 .. MaxChildren - 1 : children[c] = 0 \/ children[c] < next.node

TrieInv ==
  /\ ShapeInv /\ FramesOK(calls) /\ PlacesInv /\ LabelsInv /\ ChildrenInv
  /\ next.node <= MaxNodes /\ FindInv
  /\ \E T : TreeInv(T) /\ Seeking(T)

LEMMA InitTrie ==
  ASSUME Init
  PROVE  TrieInv
<1>1. /\ keys \in KeyLists /\ StaticAsserts(keys)
      /\ nodes = [i \in 0 .. MaxNodes - 1 |-> Leaf]
      /\ labels = [i \in 0 .. MaxLabels - 1 |-> Zero]
      /\ children = [i \in 0 .. MaxChildren - 1 |-> 0]
      /\ next = [node |-> 0, label |-> 0, child |-> 0]
      /\ calls = <<>> /\ find = Idle
  BY DEF Init
<1>2. Len(keys) \in Nat \ {0}
  BY <1>1, KeyFacts
<1>3. calls \in Seq(Frame) /\ DOMAIN calls = {}
  BY <1>1
<1>4. ShapeInv
  <2>1. Leaf \in FlatNode
    BY DEF Leaf, FlatNode
  <2>2. nodes \in [0 .. MaxNodes - 1 -> FlatNode]
    BY <1>1, <2>1
  <2>3. labels \in [0 .. MaxLabels - 1 -> Nat] /\ children \in [0 .. MaxChildren - 1 -> Nat]
    BY <1>1 DEF Zero
  <2>4. find \in [active : BOOLEAN, asked : BOOLEAN, key : Seq(Nat), pos : Nat, node : Nat, answer : Nat]
    <3>1. <<>> \in Seq(Nat)
      OBVIOUS
    <3> QED
      BY <1>1, <3>1 DEF Idle
  <2>5. next \in [node : Nat, label : Nat, child : Nat]
    BY <1>1
  <2> QED
    BY <1>1, <1>3, <2>2, <2>3, <2>4, <2>5 DEF ShapeInv
<1>5. FramesOK(calls)
  BY <1>3 DEF FramesOK
<1>6. Cardinality({}) = 0
  BY FS_EmptySet
<1>7. PlacesInv
  <2>1. {} \in SUBSET Tokens /\ next.child = Cardinality({}) /\ PlacesTaken(calls, {})
    BY <1>1, <1>6 DEF PlacesTaken
  <2> QED
    BY <2>1 DEF PlacesInv
<1>8. LabelsInv
  <2>1. {} \in SUBSET Spots /\ next.label = Cardinality({}) /\ SpotsRead(calls, {})
    BY <1>1, <1>6 DEF SpotsRead
  <2> QED
    BY <2>1 DEF LabelsInv
<1>9. ChildrenInv
  BY <1>1 DEF ChildrenInv
<1>10. next.node <= MaxNodes /\ FindInv
  BY <1>1, <1>2 DEF MaxNodes, FindInv, Idle, NPOS
<1>11. Here = {}
  BY <1>1 DEF Here
<1>12. PICK T : T = [n \in {} |-> 0]
  OBVIOUS
<1>13. T \in [Here -> Branch]
  BY <1>11, <1>12
<1>14. PlacesApart /\ CallsOK(T) /\ LinksOK(T) /\ RootOK(T)
  <2>1. PlacesApart /\ CallsOK(T)
    BY <1>3, <1>11 DEF PlacesApart, CallsOK
  <2>2. LinksOK(T)
    BY <1>1 DEF LinksOK
  <2>3. RootOK(T)
    BY <1>1 DEF RootOK
  <2> QED
    BY <2>1, <2>2, <2>3
<1>15. TreeInv(T)
  BY <1>11, <1>13, <1>14 DEF TreeInv
<1>16. Seeking(T)
  BY <1>1 DEF Seeking, Idle
<1> QED
  BY <1>4, <1>5, <1>7, <1>8, <1>9, <1>10, <1>15, <1>16 DEF TrieInv

(* A lookup leaves the trie alone.                                         *)
LEMMA TreeStays ==
  ASSUME NEW T, TreeInv(T), UNCHANGED <<keys, buildVars>>
  PROVE  TreeInv(T)'
<1>1. keys' = keys /\ nodes' = nodes /\ labels' = labels /\ children' = children /\ next' = next /\ calls' = calls
  BY DEF buildVars
<1>2. Here' = Here /\ Numbers' = Numbers /\ Branch' = Branch
  BY <1>1 DEF Here, Numbers, Branch
<1>3. ASSUME NEW n \in Here
      PROVE  /\ NodeOK(T, n)' /\ WaitOK(T, n)'
             /\ \A c \in 0 .. T[n].done - 1 : ChildOK(T, n, c)'
  <2>1. NodeOK(T, n) /\ WaitOK(T, n) /\ \A c \in 0 .. T[n].done - 1 : ChildOK(T, n, c)
    BY DEF TreeInv
  <2>2. NodeOK(T, n)'
    BY <1>1, <2>1 DEF NodeOK, End, GroupOK, Alike, Numbers, NPOS
  <2>3. WaitOK(T, n)'
    BY <1>1, <2>1 DEF WaitOK, End, Class, ChildOf, FirstChars
  <2>4. \A c \in 0 .. T[n].done - 1 : ChildOK(T, n, c)'
    BY <1>1, <2>1, SMTT(40) DEF ChildOK, Under, End, Class, ChildOf
  <2> QED
    BY <2>2, <2>3, <2>4
<1>4. PlacesApart'
  BY <1>1, <1>2, SMTT(40) DEF TreeInv, PlacesApart
<1>5. CallsOK(T)'
  <2>1. ASSUME NEW p \in DOMAIN calls
        PROVE  FrameOK(T, p)'
    <3>1. FrameOK(T, p)
      BY DEF TreeInv, CallsOK
    <3> QED
      BY <1>1, <1>2, <3>1 DEF FrameOK, End, Under, Class
  <2> QED
    BY <1>1, <1>2, <2>1, SMTT(40) DEF TreeInv, CallsOK
<1>6. LinksOK(T)'
  BY <1>1, <1>2 DEF TreeInv, LinksOK, Written, ChildOf
<1>7. RootOK(T)'
  BY <1>1, <1>2 DEF TreeInv, RootOK
<1> QED
  BY <1>2, <1>3, <1>4, <1>5, <1>6, <1>7 DEF TreeInv

LEMMA TrieStays ==
  ASSUME TrieInv, UNCHANGED <<keys, buildVars>>,
         find' \in [active : BOOLEAN, asked : BOOLEAN, key : Seq(Nat), pos : Nat, node : Nat, answer : Nat]
  PROVE  /\ ShapeInv' /\ FramesOK(calls)' /\ PlacesInv' /\ LabelsInv' /\ ChildrenInv' /\ (next.node <= MaxNodes)'
         /\ \A T : TreeInv(T) => TreeInv(T)'
<1>1. keys' = keys /\ nodes' = nodes /\ labels' = labels /\ children' = children /\ next' = next /\ calls' = calls
  BY DEF buildVars
<1>2. /\ MaxNodes' = MaxNodes /\ MaxLabels' = MaxLabels /\ MaxChildren' = MaxChildren
      /\ Numbers' = Numbers /\ Frame' = Frame /\ Spots' = Spots /\ Tokens' = Tokens /\ FlatNode' = FlatNode
  BY <1>1 DEF MaxNodes, MaxLabels, MaxChildren, Numbers, Frame, Spots, Tokens, FlatNode
<1>3. ShapeInv'
  BY <1>1, <1>2 DEF TrieInv, ShapeInv, StaticAsserts, Distinct
<1>4. FramesOK(calls)'
  BY <1>1, <1>2 DEF TrieInv, FramesOK, Alike
<1>5. PlacesInv'
  BY <1>1, <1>2 DEF TrieInv, PlacesInv, PlacesTaken
<1>6. LabelsInv'
  BY <1>1, <1>2 DEF TrieInv, LabelsInv, SpotsRead
<1>7. ChildrenInv' /\ (next.node <= MaxNodes)'
  BY <1>1, <1>2 DEF TrieInv, ChildrenInv
<1>8. ASSUME NEW T, TreeInv(T) PROVE TreeInv(T)'
  BY <1>8, TreeStays
<1> QED
  BY <1>3, <1>4, <1>5, <1>6, <1>7, <1>8

(* A step of the compiler.                                                 *)
LEMMA BuildStep ==
  ASSUME TrieInv, Build
  PROVE  TrieInv'
<1>1. /\ ShapeInv /\ FramesOK(calls) /\ PlacesInv /\ LabelsInv /\ ChildrenInv
      /\ next.node <= MaxNodes /\ FindInv
  BY DEF TrieInv
<1>2. PICK T : TreeInv(T) /\ Seeking(T)
  BY DEF TrieInv
<1>3. BuildTrie \/ BuildChild \/ Return
  BY DEF Build
<1>4. next.node \in Nat /\ children \in [0 .. MaxChildren - 1 -> Nat]
  BY <1>1 DEF ShapeInv
<1>5. /\ ShapeInv' /\ FramesOK(calls)' /\ PlacesInv' /\ LabelsInv' /\ (next.node <= MaxNodes)'
      /\ find' = find /\ keys' = keys /\ ~find.active
      /\ \E U : TreeInv(U)'
      /\ ChildrenInv'
  <2>1. ASSUME NEW group, NEW depth, NEW callers, Called(group, depth, callers),
               Enter(group, depth, callers)
        PROVE  /\ ShapeInv' /\ FramesOK(calls)' /\ PlacesInv' /\ LabelsInv' /\ (next.node <= MaxNodes)'
               /\ find' = find /\ keys' = keys /\ ~find.active
               /\ \E U : TreeInv(U)'
               /\ ChildrenInv'
    <3>1. /\ ShapeInv' /\ FramesOK(calls)' /\ PlacesInv' /\ LabelsInv' /\ (next.node <= MaxNodes)'
          /\ find' = find /\ keys' = keys
          /\ \E U : TreeInv(U)'
      BY <1>1, <1>2, <2>1, EnterKeeps
    <3>2. ~find.active
      BY <1>2, <2>1 DEF Seeking, Built, Called
    <3>3. children' = children /\ next'.node = next.node + 1
      BY <2>1 DEF Enter
    <3>4. MaxChildren' = MaxChildren
      BY <3>1 DEF MaxChildren
    <3>5. ASSUME NEW c \in 0 .. MaxChildren - 1
          PROVE  children'[c] = 0 \/ children'[c] < next'.node
      <4>1. children[c] \in Nat /\ (children[c] = 0 \/ children[c] < next.node)
        BY <1>1, <1>4 DEF ChildrenInv
      <4> QED
        BY <1>4, <3>3, <4>1
    <3>6. ChildrenInv'
      BY <3>4, <3>5 DEF ChildrenInv
    <3> QED
      BY <3>1, <3>2, <3>6
  <2>2. CASE BuildTrie
    <3>1. next.node = 0 /\ Enter(Numbers, 0, <<>>)
      BY <2>2 DEF BuildTrie
    <3>2. Called(Numbers, 0, <<>>)
      BY <1>2, <3>1 DEF Called, TreeInv, RootOK
    <3> QED
      BY <2>1, <3>1, <3>2
  <2>3. CASE BuildChild
    <3>1. calls # <<>> /\ Innermost.left # {} /\ Enter(NextGroup(Innermost), Innermost.depth, Callers)
      BY <2>3 DEF BuildChild, Callers
    <3>2. Called(NextGroup(Innermost), Innermost.depth, Callers)
      BY <3>1 DEF Called
    <3> QED
      BY <2>1, <3>1, <3>2
  <2>4. CASE Return
    <3>1. /\ ShapeInv' /\ FramesOK(calls)' /\ PlacesInv' /\ LabelsInv' /\ (next.node <= MaxNodes)'
          /\ find' = find /\ keys' = keys /\ next' = next
          /\ \E U : TreeInv(U)'
      BY <1>1, <1>2, <2>4, ReturnKeeps
    <3>2. calls # <<>>
      BY <2>4 DEF Return
    <3>3. ~find.active
      BY <1>2, <3>2 DEF Seeking, Built
    <3>4. MaxChildren' = MaxChildren
      BY <3>1 DEF MaxChildren
    <3>5. CASE Len(calls) = 1
      <4>1. children' = children
        BY <2>4, <3>5 DEF Return
      <4> QED
        BY <1>1, <3>1, <3>3, <3>4, <4>1 DEF ChildrenInv
    <3>6. CASE Len(calls) # 1
      <4>1. PICK k, m : k = calls[Len(calls)].node /\ m = calls[Len(calls) - 1].node
        OBVIOUS
      <4>2. PICK U : U = Handed(T, k, m)
        OBVIOUS
      <4>3. Returning(T, U, k, m)
        BY <1>1, <1>2, <2>4, <3>6, <4>1, <4>2, ReturnSays
      <4>4. children' = [children EXCEPT ![nodes[m].first_child + T[m].done] = k]
        BY <4>3 DEF Returning
      <4>5. k \in Here
        BY <4>3, TwoCalls DEF Returning
      <4>6. k < next.node
        BY <1>4, <4>5 DEF Here
      <4>7. ASSUME NEW c \in 0 .. MaxChildren - 1
            PROVE  children'[c] = 0 \/ children'[c] < next'.node
        <5>1. children[c] = 0 \/ children[c] < next.node
          BY <1>1 DEF ChildrenInv
        <5>2. children'[c] = k \/ children'[c] = children[c]
          BY <1>4, <4>4
        <5> QED
          BY <3>1, <4>6, <5>1, <5>2
      <4>8. ChildrenInv'
        BY <3>4, <4>7 DEF ChildrenInv
      <4> QED
        BY <3>1, <3>3, <4>8
    <3> QED
      BY <3>5, <3>6
  <2> QED
    BY <1>3, <2>2, <2>3, <2>4
<1>6. FindInv'
  BY <1>1, <1>5 DEF FindInv, AnswerIsRight, MaxNodes, NPOS, Numbers
<1>7. PICK U : TreeInv(U)'
  BY <1>5
<1>8. Seeking(U)'
  BY <1>5 DEF Seeking
<1> QED
  BY <1>5, <1>6, <1>7, <1>8 DEF TrieInv

(* A step of a lookup.                                                     *)
FindStep(T) ==
  /\ UNCHANGED <<keys, buildVars>>
  /\ find' \in [active : BOOLEAN, asked : BOOLEAN, key : Seq(Nat), pos : Nat, node : Nat, answer : Nat]
  /\ find'.node < MaxNodes /\ find'.answer \in 0 .. NPOS
  /\ find'.asked /\ ~find'.active =>
       \/ \E i \in Numbers : keys[i] = find'.key /\ find'.answer = i - 1
       \/ (\A i \in Numbers : keys[i] # find'.key) /\ find'.answer = NPOS
  /\ find'.active =>
       /\ Built /\ find'.asked /\ find'.node \in Here
       /\ find'.pos = T[find'.node].depth /\ find'.pos <= Len(find'.key)
       /\ \A i \in T[find'.node].group : \A k \in 1 .. find'.pos : find'.key[k] = keys[i][k]
       /\ \A i \in Numbers : keys[i] = find'.key => i \in T[find'.node].group

LEMMA FindKeeps ==
  ASSUME TrieInv, NEW T, TreeInv(T), FindStep(T)
  PROVE  TrieInv'
<1>1. /\ UNCHANGED <<keys, buildVars>>
      /\ find' \in [active : BOOLEAN, asked : BOOLEAN, key : Seq(Nat), pos : Nat, node : Nat, answer : Nat]
  BY DEF FindStep
<1>2. /\ keys' = keys /\ calls' = calls /\ next' = next
  BY <1>1 DEF buildVars
<1>3. /\ ShapeInv' /\ FramesOK(calls)' /\ PlacesInv' /\ LabelsInv' /\ ChildrenInv' /\ (next.node <= MaxNodes)'
      /\ TreeInv(T)'
  BY <1>1, TrieStays
<1>4. Numbers' = Numbers /\ NPOS' = NPOS /\ MaxNodes' = MaxNodes /\ Here' = Here /\ Built' = Built
  BY <1>2 DEF Numbers, NPOS, MaxNodes, Here, Built
<1>5. FindInv'
  BY <1>2, <1>4 DEF FindStep, FindInv, AnswerIsRight
<1>6. Seeking(T)'
  BY <1>2, <1>4 DEF FindStep, Seeking
<1> QED
  BY <1>3, <1>5, <1>6 DEF TrieInv

LEMMA LoopStep ==
  ASSUME TrieInv, NEW T, TreeInv(T), Seeking(T),
         \/ Loop
         \/ \E key \in Queries : Find(key)
  PROVE  FindStep(T)
<1>1. /\ ShapeInv /\ PlacesInv /\ next.node <= MaxNodes /\ FindInv
  BY DEF TrieInv
<1>2. /\ find \in [active : BOOLEAN, asked : BOOLEAN, key : Seq(Nat), pos : Nat, node : Nat, answer : Nat]
      /\ next.node \in Nat /\ Len(keys) \in Nat \ {0}
  BY <1>1, KeyFacts DEF ShapeInv
<1>3. NPOS \in Nat /\ MaxNodes \in Nat /\ 0 < MaxNodes /\ NPOS \in 0 .. NPOS
  BY <1>2 DEF NPOS, MaxNodes
<1>4. CASE \E key \in Queries : Find(key)
  <2>1. PICK key \in Queries : Find(key)
    BY <1>4
  <2>2. key \in Seq(Nat) /\ Len(key) \in Nat
    BY <2>1, TrieAssumption
  <2>3. /\ Built /\ UNCHANGED <<keys, buildVars>>
        /\ find' = [active |-> TRUE, asked |-> TRUE, key |-> key, pos |-> 0, node |-> 0, answer |-> 0]
    BY <2>1 DEF Find, Idle
  <2>4. T[0].group = Numbers /\ T[0].depth = 0 /\ 0 \in Here
    BY <1>2, <2>3 DEF TreeInv, RootOK, Built, Here
  <2> QED
    BY <1>3, <2>2, <2>3, <2>4 DEF FindStep
<1>5. ASSUME NEW index \in 0 .. NPOS, Answer(index), find.active,
             \/ \E i \in Numbers : keys[i] = find.key /\ index = i - 1
             \/ (\A i \in Numbers : keys[i] # find.key) /\ index = NPOS
      PROVE  FindStep(T)
  <2>1. UNCHANGED <<keys, buildVars>> /\ find' = [find EXCEPT !.active = FALSE, !.answer = index]
    BY <1>5 DEF Answer
  <2>2. /\ find' \in [active : BOOLEAN, asked : BOOLEAN, key : Seq(Nat), pos : Nat, node : Nat, answer : Nat]
        /\ find'.node = find.node /\ find'.answer = index /\ find'.key = find.key /\ ~find'.active
    <3>1. index \in Nat
      BY <1>3
    <3> QED
      BY <1>2, <2>1, <3>1
  <2>3. find.node < MaxNodes
    BY <1>1 DEF FindInv
  <2> QED
    BY <1>5, <2>1, <2>2, <2>3 DEF FindStep
<1>6. CASE Mismatch
  <2>1. find.active /\ ~LabelMatches(find.key, find.pos, find.node) /\ Answer(NPOS)
    BY <1>6 DEF Mismatch
  <2>2. \A i \in Numbers : keys[i] # find.key
    BY <1>1, <2>1, MismatchRight
  <2> QED
    BY <1>3, <1>5, <2>1, <2>2
<1>7. CASE KeyEnds
  <2> DEFINE value == nodes[find.node].value_index
  <2>1. /\ find.active /\ LabelMatches(find.key, find.pos, find.node)
        /\ find.pos + nodes[find.node].label_length = Len(find.key)
        /\ Answer(IF value >= 0 THEN value ELSE NPOS)
    BY <1>7 DEF KeyEnds
  <2>2. /\ value >= 0 => \E i \in Numbers : keys[i] = find.key /\ value = i - 1
        /\ ~(value >= 0) => \A i \in Numbers : keys[i] # find.key
    BY <1>1, <2>1, KeyEndsRight
  <2> HIDE DEF value
  <2>3. CASE value >= 0
    <3>1. PICK i \in Numbers : keys[i] = find.key /\ value = i - 1
      BY <2>2, <2>3
    <3>2. i \in 1 .. Len(keys)
      BY <1>1, KeyFacts DEF ShapeInv
    <3>3. value \in 0 .. NPOS
      BY <1>2, <3>1, <3>2 DEF NPOS
    <3> QED
      BY <1>5, <2>1, <2>3, <3>1, <3>3
  <2>4. CASE ~(value >= 0)
    BY <1>3, <1>5, <2>1, <2>2, <2>4
  <2> QED
    BY <2>3, <2>4
<1>8. CASE Descend
  <2>1. PICK pos : pos = find.pos + nodes[find.node].label_length
    OBVIOUS
  <2>2. PICK child : child = FindChild(find.node, find.key[pos + 1])
    OBVIOUS
  <2>3. /\ find.active /\ LabelMatches(find.key, find.pos, find.node) /\ pos < Len(find.key)
        /\ IF child = NoChild THEN Answer(NPOS)
           ELSE find' = [find EXCEPT !.pos = pos, !.node = child] /\ UNCHANGED <<keys, buildVars>>
    BY <1>8, <2>1, <2>2 DEF Descend
  <2>4. /\ child = NoChild => \A i \in Numbers : keys[i] # find.key
        /\ child # NoChild =>
             /\ child \in Here /\ pos = T[child].depth
             /\ \A i \in T[child].group : \A k \in 1 .. pos : find.key[k] = keys[i][k]
             /\ \A i \in Numbers : keys[i] = find.key => i \in T[child].group
    <3>1. find.active /\ LabelMatches(find.key, find.pos, find.node) /\ pos < Len(find.key)
      BY <2>3
    <3>2. ShapeInv /\ PlacesInv /\ next.node <= MaxNodes
      BY <1>1
    <3>3. Sought(T, pos, child)
      BY <2>1, <2>2, <3>1, <3>2, DescendRight
    <3> QED
      BY <3>3 DEF Sought
  <2>5. CASE child = NoChild
    BY <1>3, <1>5, <2>3, <2>4, <2>5
  <2>6. CASE child # NoChild
    <3>1. find' = [find EXCEPT !.pos = pos, !.node = child] /\ UNCHANGED <<keys, buildVars>>
      BY <2>3, <2>6
    <3>2. child \in Here /\ child \in Nat /\ child < next.node /\ T[child].depth \in Nat
      BY <1>1, <2>4, <2>6, TreeTypes
    <3>3. pos \in Nat /\ child < MaxNodes
      BY <1>1, <1>2, <1>3, <2>4, <2>6, <3>2
    <3>4. /\ find' \in [active : BOOLEAN, asked : BOOLEAN, key : Seq(Nat), pos : Nat, node : Nat, answer : Nat]
          /\ find'.active /\ find'.asked = find.asked /\ find'.node = child /\ find'.pos = pos
          /\ find'.key = find.key /\ find'.answer = find.answer
      BY <1>2, <2>3, <3>1, <3>2, <3>3
    <3>5. Built /\ find.asked
      BY <2>3 DEF Seeking
    <3>6. find.answer \in 0 .. NPOS
      BY <1>1 DEF FindInv
    <3>7. pos <= Len(find.key)
      <4>1. Len(find.key) \in Nat
        BY <1>2
      <4> QED
        BY <2>3, <3>3, <4>1
    <3> QED
      BY <2>4, <2>6, <3>1, <3>2, <3>3, <3>4, <3>5, <3>6, <3>7 DEF FindStep
  <2> QED
    BY <2>5, <2>6
<1> QED
  BY <1>4, <1>6, <1>7, <1>8 DEF Loop

LEMMA TrieStep ==
  ASSUME TrieInv, [Next]_vars
  PROVE  TrieInv'
<1>1. PICK T : TreeInv(T) /\ Seeking(T)
  BY DEF TrieInv
<1>2. CASE Build
  BY <1>2, BuildStep
<1>3. CASE Loop \/ \E key \in Queries : Find(key)
  <2>1. FindStep(T)
    BY <1>1, <1>3, LoopStep
  <2> QED
    BY <1>1, <2>1, FindKeeps
<1>4. CASE UNCHANGED vars
  <2>1. UNCHANGED <<keys, buildVars>> /\ find' = find
    BY <1>4 DEF vars, buildVars
  <2>2. find' \in [active : BOOLEAN, asked : BOOLEAN, key : Seq(Nat), pos : Nat, node : Nat, answer : Nat]
    BY <2>1 DEF TrieInv, ShapeInv
  <2>3. FindInv
    BY DEF TrieInv
  <2>4. FindStep(T)
    <3>1. find'.node < MaxNodes /\ find'.answer \in 0 .. NPOS
      BY <2>1, <2>3 DEF FindInv
    <3>2. find'.asked /\ ~find'.active =>
            \/ \E i \in Numbers : keys[i] = find'.key /\ find'.answer = i - 1
            \/ (\A i \in Numbers : keys[i] # find'.key) /\ find'.answer = NPOS
      BY <2>1, <2>3 DEF FindInv, AnswerIsRight
    <3> QED
      BY <1>1, <2>1, <2>2, <3>1, <3>2 DEF FindStep, Seeking
  <2> QED
    BY <1>1, <2>4, FindKeeps
<1> QED
  BY <1>2, <1>3, <1>4 DEF Next
-----------------------------------------------------------------------------
(* What the invariant says of the two properties.                          *)
LEMMA TypeFollows ==
  ASSUME TrieInv
  PROVE  TrieTypeOK
<1>1. /\ ShapeInv /\ PlacesInv /\ LabelsInv /\ ChildrenInv /\ next.node <= MaxNodes /\ FindInv
  BY DEF TrieInv
<1>2. PICK T : TreeInv(T)
  BY DEF TrieInv
<1>3. /\ keys \in KeyLists /\ StaticAsserts(keys) /\ next \in [node : Nat, label : Nat, child : Nat]
      /\ children \in [0 .. MaxChildren - 1 -> Nat]
  BY <1>1 DEF ShapeInv
<1>4. /\ Len(keys) \in Nat \ {0} /\ 2 * Len(keys) <= Byte - 2 /\ Byte \in Nat
  BY <1>3, KeyFacts, TrieAssumption
<1>5. /\ \A n \in Here : /\ n \in Nat /\ nodes[n].child_count \in Nat /\ T[n].done \in Nat
                         /\ T[n].above \in Nat /\ T[n].place \in Nat
      /\ next.node \in Nat
  BY <1>1, <1>2, TreeTypes
<1>6. Built => Linked
  <2> SUFFICES ASSUME Built, NEW child \in 1 .. next.node - 1
               PROVE  \E n \in 0 .. next.node - 1 : \E c \in ChildPlaces(n) :
                        /\ ChildAt(n, c) = child
                        /\ \A m \in 0 .. next.node - 1 : \A d \in ChildPlaces(m) :
                             ChildAt(m, d) = child => m = n /\ d = c
    BY DEF Linked
  <2>1. \A n \in Here : /\ T[n].done = nodes[n].child_count
                        /\ \A c \in ChildPlaces(n) : ChildAt(n, c) = ChildOf(n, c)
    BY <1>1, <1>2, BuiltChild DEF Child
  <2>2. Written(T, child)
    <3>1. DOMAIN calls = {}
      BY DEF Built
    <3> QED
      BY <1>2, <3>1 DEF TreeInv, LinksOK
  <2>3. PICK n, c : n = T[child].above /\ c = T[child].place
    OBVIOUS
  <2>4. n \in Here /\ c \in 0 .. T[n].done - 1 /\ ChildOf(n, c) = child
    BY <2>2, <2>3 DEF Written
  <2>5. c \in ChildPlaces(n) /\ ChildAt(n, c) = child
    BY <2>1, <2>4 DEF ChildPlaces
  <2>6. ASSUME NEW m \in Here, NEW d \in ChildPlaces(m), ChildAt(m, d) = child
        PROVE  m = n /\ d = c
    <3>1. d \in 0 .. T[m].done - 1 /\ ChildOf(m, d) = child
      BY <2>1, <2>6 DEF ChildPlaces
    <3>2. Under(T, child, m, d)
      BY <1>2, <3>1 DEF TreeInv, ChildOK
    <3> QED
      BY <2>3, <3>2 DEF Under
  <2> QED
    BY <2>4, <2>5, <2>6 DEF Here
<1>7. next.node \in 0 .. MaxNodes /\ next.child \in 0 .. MaxChildren /\ next.label \in 0 .. MaxLabels
  <2>1. PICK used \in SUBSET Tokens : next.child = Cardinality(used)
    BY <1>1 DEF PlacesInv
  <2>2. Cardinality(used) <= 2 * Len(keys) - 2
    BY <1>3, TokensCount
  <2>3. next.child \in 0 .. MaxChildren
    BY <1>3, <1>4, <2>1, <2>2 DEF MaxChildren
  <2>4. PICK read \in SUBSET Spots : next.label = Cardinality(read)
    BY <1>1 DEF LabelsInv
  <2>5. Cardinality(read) <= MaxLabels /\ MaxLabels \in Nat
    BY <1>3, SpotsCount
  <2>6. next.label \in 0 .. MaxLabels
    BY <1>3, <2>4, <2>5
  <2>7. next.node \in 0 .. MaxNodes
    BY <1>1, <1>3, <1>4 DEF MaxNodes
  <2> QED
    BY <2>3, <2>6, <2>7
<1>8. \A n \in 0 .. next.node - 1 :
        /\ nodes[n].label_offset + nodes[n].label_length <= next.label
        /\ nodes[n].first_child + nodes[n].child_count <= next.child
        /\ nodes[n].value_index \in -1 .. NPOS - 1
  BY <1>2 DEF TreeInv, NodeOK, PlacesApart, Here
<1>9. \A c \in 0 .. next.child - 1 : children[c] < next.node /\ children[c] < NoChild
  <2> SUFFICES ASSUME NEW c \in 0 .. next.child - 1
               PROVE  children[c] < next.node /\ children[c] < NoChild
    OBVIOUS
  <2>1. c \in 0 .. MaxChildren - 1
    <3>1. next.child \in Nat /\ MaxChildren \in Nat /\ next.child <= MaxChildren
      BY <1>4, <1>7 DEF MaxChildren
    <3> QED
      BY <3>1
  <2>2. children[c] \in Nat /\ (children[c] = 0 \/ children[c] < next.node)
    BY <1>1, <1>3, <2>1 DEF ChildrenInv
  <2>3. next.node # 0
    <3>1. next.child # 0
      BY <1>3
    <3> QED
      BY <1>2, <3>1 DEF TreeInv, RootOK
  <2>4. next.node \in Nat /\ next.node <= 2 * Len(keys)
    BY <1>1, <1>3 DEF MaxNodes
  <2> QED
    BY <1>4, <2>2, <2>3, <2>4 DEF NoChild
<1>10. find.node < MaxNodes /\ find.answer \in 0 .. NPOS
  BY <1>1 DEF FindInv
<1> QED
  BY <1>6, <1>7, <1>8, <1>9, <1>10 DEF TrieTypeOK

LEMMA AnswersFollow ==
  ASSUME TrieInv
  PROVE  AnswersRight
<1>1. /\ ShapeInv /\ PlacesInv /\ next.node <= MaxNodes /\ FindInv
  BY DEF TrieInv
<1>2. PICK T : TreeInv(T)
  BY DEF TrieInv
<1>3. find.asked /\ ~find.active =>
        \/ \E i \in Numbers : keys[i] = find.key /\ find.answer = i - 1
        \/ (\A i \in Numbers : keys[i] # find.key) /\ find.answer = NPOS
  BY <1>1 DEF FindInv, AnswerIsRight
<1>4. ASSUME Built, NEW n \in Here, NEW c \in ChildPlaces(n), NEW d \in ChildPlaces(n)
      PROVE  /\ nodes[ChildAt(n, c)].label_length > 0
             /\ FirstChar(ChildAt(n, c)) = FirstChar(ChildAt(n, d)) => c = d
  <2>1. Child(T, n, c)
    BY <1>1, <1>2, <1>4, BuiltChild
  <2>2. FirstChar(ChildAt(n, c)) = FirstChar(ChildAt(n, d)) => c = d
    BY <1>1, <1>2, <1>4, BuiltPartition
  <2> QED
    BY <2>1, <2>2 DEF Child
<1> QED
  BY <1>3, <1>4 DEF AnswersRight, Here
-----------------------------------------------------------------------------
(* trie_index.hpp:81-97: the arrays that are sized from the list alone are *)
(* large enough for every list of keys the static_asserts accept, every    *)
(* index kept in a node or among the children fits its narrow type, and    *)
(* each node but the root ends up as the child of exactly one node.        *)
THEOREM TrieFits == Spec => []TrieTypeOK
<1>1. Init => TrieInv
  BY InitTrie
<1>2. TrieInv /\ [Next]_vars => TrieInv'
  BY TrieStep
<1>3. TrieInv => TrieTypeOK
  BY TypeFollows
<1> QED
  BY <1>1, <1>2, <1>3, PTL DEF Spec

(* trie_index.hpp:338: whatever the keys and whatever is looked up, find   *)
(* answers the declaration index of the key it was given and size() for    *)
(* every other text; and no two children of a node begin alike, so that    *)
(* the table of characters and the linear scan find the same child.        *)
THEOREM TrieAnswersRight == Spec => []AnswersRight
<1>1. Init => TrieInv
  BY InitTrie
<1>2. TrieInv /\ [Next]_vars => TrieInv'
  BY TrieStep
<1>3. TrieInv => AnswersRight
  BY AnswersFollow
<1> QED
  BY <1>1, <1>2, <1>3, PTL DEF Spec
=============================================================================
