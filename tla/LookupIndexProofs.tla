------------------------- MODULE LookupIndexProofs --------------------------
(***************************************************************************)
(* What the tables and lookup_index guarantee for every key list, length   *)
(* function, threshold, table size and hash function.                      *)
(*                                                                         *)
(* The table that build_chd finishes is a perfect hash of its keys, and no *)
(* step ever disturbs a slot that is taken; the table that                 *)
(* find_lookup_seed returns is a perfect hash as well.  Each strategy of   *)
(* lookup_index is shown to answer a key with its own index; that it       *)
(* answers no other text follows from the key comparison.                  *)
(***************************************************************************)
EXTENDS LookupIndex, FiniteSetTheorems, TLAPS


(* The narrowing static_cast<index_t> loses nothing: index_type_t always   *)
(* holds -1 and every key index.                                           *)
LEMMA ToIndexExact ==
  ASSUME NEW i \in Index \cup {Empty}
  PROVE  ToIndex(i) = i
<1>1. /\ IndexHalf \in Nat \ {0}
      /\ KeyCount <= IndexHalf
  BY KeysAssumption, IndexTypesAssumption DEF IndexHalf
<1>2. i \in Int /\ -1 <= i /\ i < KeyCount
  BY KeysAssumption DEF Index, Empty
<1>3. i + IndexHalf \in Nat /\ i + IndexHalf < 2 * IndexHalf
  BY <1>1, <1>2, KeysAssumption
<1>4. ASSUME NEW x \in Nat, NEW y \in Nat, x < y
      PROVE  x % y = x
  BY <1>4
<1>5. (i + IndexHalf) % (2 * IndexHalf) = i + IndexHalf
  BY <1>1, <1>3, <1>4
<1> QED
  BY <1>1, <1>2, <1>5 DEF ToIndex

(* Masking a hash value yields a position of the table (or a bucket).      *)
LEMMA HashInRange ==
  ASSUME hash \in [Strings -> [Seeds -> Nat]],
         NEW text \in Strings, NEW s \in Seeds, NEW m \in Nat \ {0}
  PROVE  hash[text][s] % m \in 0 .. m - 1
<1>1. ASSUME NEW n \in Nat
      PROVE  n % m \in 0 .. m - 1
  OBVIOUS
<1>2. hash[text][s] \in Nat
  OBVIOUS
<1> QED
  BY <1>1, <1>2
-----------------------------------------------------------------------------
LEMMA HashRanges ==
  ASSUME hash \in [Strings -> [Seeds -> Nat]]
  PROVE  /\ \A text \in Strings : BucketOf(text) \in Buckets
         /\ \A text \in Strings, s \in Seeds : SlotOf(text, s) \in Slots
         /\ \A i \in Index : BucketOf(KeyViews[i]) \in Buckets
         /\ \A i \in Index, s \in Seeds : SlotOf(KeyViews[i], s) \in Slots
<1>1. 0 \in Seeds
  BY SeedsAssumption DEF Seeds
<1>2. \A text \in Strings : BucketOf(text) \in Buckets
  BY <1>1, HashInRange, ChdSizesAssumption DEF BucketOf, Buckets
<1>3. \A text \in Strings, s \in Seeds : SlotOf(text, s) \in Slots
  BY HashInRange, ChdSizesAssumption DEF SlotOf, Slots
<1> QED
  BY <1>2, <1>3, KeysAssumption
-----------------------------------------------------------------------------
(* When the loop over the buckets has ended, only empty ones are left.     *)
DoneInv == pc = "done" => \A bk \in pending : KeysIn(bk) = {}

(* The inductive invariant: types, "settled keys are found" and its        *)
(* converse "a taken slot has a settled owner", which shows that the slots *)
(* a later bucket takes were nobody's.                                     *)
ChdIInv == ChdTypeOK /\ SettledKeysFound /\ SlotsOwned /\ DoneInv

LEMMA ChdInitIInv == ChdInit => ChdIInv
<1> SUFFICES ASSUME ChdInit PROVE ChdIInv
  OBVIOUS
<1> USE DEF ChdInit, ChdInitBuild
<1>1. ToIndex(Empty) = Empty
  BY ToIndexExact
<1>2. hash \in [Strings -> [Seeds -> Nat]]
  BY HashAssumption
<1>3. ChdTypeOK
  BY <1>1, <1>2, ChdSizesAssumption, SeedsAssumption DEF ChdTypeOK, Seeds
<1>4. SettledKeysFound
  BY <1>2, HashRanges DEF SettledKeysFound, Settled
<1>5. SlotsOwned
  BY <1>1 DEF SlotsOwned
<1> QED
  BY <1>3, <1>4, <1>5 DEF ChdIInv, DoneInv

(* A bucket that does not fit, or is only being looked at, changes nothing *)
(* the invariant speaks of.                                                *)
LEMMA SearchKeepsChdIInv ==
  ASSUME ChdIInv,
         UNCHANGED <<hash, bucket_seeds, table, pending, b>>,
         pc \in {"coarse", "fine"},
         pc' \in {"coarse", "fine", "unreachable"},
         d' \in 1 .. SeedLimit + CoarseStep,
         best_d' \in 1 .. SeedLimit - 1
  PROVE  ChdIInv'
<1> USE DEF ChdIInv, ChdTypeOK
<1>1. ChdTypeOK'
  OBVIOUS
<1>2. \A bk \in Buckets : Settled(bk)' = Settled(bk)
  BY DEF Settled
<1>3. \A i \in Index : BucketOf(KeyViews[i]) \in Buckets
  BY HashRanges, SMTT(40)
<1>4. SettledKeysFound'
  BY <1>2, <1>3 DEF SettledKeysFound, ChdFind, SlotOf, BucketOf
<1>5. \A i \in Index, t \in Slots : Owns(i, t) => Owns(i, t)'
  BY <1>2, <1>3 DEF Owns, SlotOf, BucketOf
<1>6. SlotsOwned'
  BY <1>5 DEF SlotsOwned
<1> QED
  BY <1>1, <1>4, <1>6 DEF DoneInv

(* Placing a bucket: its own keys are found at the seed that fits, and the *)
(* keys placed before keep their slots because only free slots are taken.  *)
LEMMA PlaceKeepsChdIInv ==
  ASSUME ChdIInv, Place, pc \in {"coarse", "fine"}, d < SeedLimit
  PROVE  /\ ChdIInv'
         /\ \A t \in Slots : table[t] # Empty => table'[t] = table[t]
<1> USE DEF ChdIInv
<1>1. /\ hash \in [Strings -> [Seeds -> Nat]]
      /\ bucket_seeds \in [Buckets -> Seeds]
      /\ table \in [Slots -> Index \cup {Empty}]
      /\ pending \subseteq Buckets
      /\ b \in Buckets \ pending
      /\ d \in Seeds
      /\ ToIndex(Empty) = Empty
  BY ToIndexExact, ChdSizesAssumption, SeedsAssumption DEF ChdTypeOK, Seeds
<1>2. /\ Fits(b, d)
      /\ table' = Placed(b, d)
      /\ bucket_seeds' = [bucket_seeds EXCEPT ![b] = d]
      /\ pc' = "next"
      /\ UNCHANGED <<hash, pending, b, d, best_d>>
  BY DEF Place
<1>3. /\ \A i \in Index : BucketOf(KeyViews[i]) \in Buckets
      /\ \A i \in Index, s \in Seeds : SlotOf(KeyViews[i], s) \in Slots
  BY <1>1, HashRanges
<1>4. ASSUME NEW i \in KeysIn(b)
      PROVE  /\ i \in Index
             /\ SlotOf(KeyViews[i], d) \in Slots
             /\ table[SlotOf(KeyViews[i], d)] = Empty
             /\ table'[SlotOf(KeyViews[i], d)] = i
  <2>1. i \in Index /\ SlotOf(KeyViews[i], d) \in Slots
    BY <1>1, <1>3 DEF KeysIn
  <2>2. table[SlotOf(KeyViews[i], d)] = Empty
    BY <1>1, <1>2 DEF Fits
  <2>3. (CHOOSE j \in KeysIn(b) : SlotOf(KeyViews[j], d) = SlotOf(KeyViews[i], d)) = i
    BY <1>2 DEF Fits
  <2>4. table'[SlotOf(KeyViews[i], d)] = ToIndex(i)
    BY <1>2, <2>1, <2>3 DEF Placed
  <2> QED
    BY <2>1, <2>2, <2>4, ToIndexExact
<1>5. ASSUME NEW t \in Slots
      PROVE  \/ table'[t] = table[t]
             \/ \E i \in KeysIn(b) : SlotOf(KeyViews[i], d) = t /\ table'[t] = i
  BY <1>2, <1>4 DEF Placed
<1>6. \A t \in Slots : table[t] # Empty => table'[t] = table[t]
  BY <1>4, <1>5
<1>7. ChdTypeOK'
  <2>1. table' \in [Slots -> Index \cup {Empty}]
    <3>1. table' = [t \in Slots |-> table'[t]]
      BY <1>2 DEF Placed
    <3>2. \A t \in Slots : table'[t] \in Index \cup {Empty}
      BY <1>1, <1>4, <1>5
    <3> QED
      BY <3>1, <3>2
  <2>2. bucket_seeds' \in [Buckets -> Seeds]
    BY <1>1, <1>2
  <2> QED
    BY <1>2, <2>1, <2>2 DEF ChdTypeOK
<1>8. \A bk \in Buckets :
        /\ Settled(bk)' <=> Settled(bk) \/ bk = b
        /\ Settled(bk) => bk # b /\ bucket_seeds'[bk] = bucket_seeds[bk]
  BY <1>1, <1>2 DEF Settled
<1>9. SettledKeysFound'
  <2> SUFFICES ASSUME NEW i \in Index, Settled(BucketOf(KeyViews[i]))'
               PROVE  ChdFind(KeyViews[i])' = i
    BY <1>2, SMTT(40) DEF SettledKeysFound, BucketOf
  <2>1. CASE BucketOf(KeyViews[i]) = b
    <3>1. i \in KeysIn(b)
      BY <2>1 DEF KeysIn
    <3>2. bucket_seeds'[b] = d
      BY <1>1, <1>2, SMTT(40)
    <3> QED
      BY <1>2, <1>4, <2>1, <3>1, <3>2 DEF ChdFind, BucketOf, SlotOf
  <2>2. CASE BucketOf(KeyViews[i]) # b
    <3>1. /\ Settled(BucketOf(KeyViews[i]))
          /\ bucket_seeds'[BucketOf(KeyViews[i])] = bucket_seeds[BucketOf(KeyViews[i])]
      BY <1>2, <1>3, <1>8, <2>2 DEF BucketOf
    <3>2. ChdFind(KeyViews[i]) = i
      BY <3>1 DEF SettledKeysFound
    <3>3. i # Empty
      BY KeysAssumption DEF Index, Empty
    <3>4. SlotOf(KeyViews[i], bucket_seeds[BucketOf(KeyViews[i])]) \in Slots
      BY <1>1, <1>3
    <3> QED
      BY <1>2, <1>6, <3>1, <3>2, <3>3, <3>4 DEF ChdFind, BucketOf, SlotOf
  <2> QED
    BY <2>1, <2>2
<1>10. SlotsOwned'
  <2>1. ASSUME NEW i \in Index, NEW t \in Slots, Owns(i, t)
        PROVE  Owns(i, t)'
    BY <1>2, <1>3, <1>8, <2>1 DEF Owns, SlotOf, BucketOf
  <2>2. ASSUME NEW i \in KeysIn(b), NEW t \in Slots, SlotOf(KeyViews[i], d) = t
        PROVE  Owns(i, t)'
    <3>1. BucketOf(KeyViews[i]) = b /\ i \in Index
      BY DEF KeysIn
    <3>2. bucket_seeds'[b] = d
      BY <1>1, <1>2
    <3> QED
      BY <1>1, <1>2, <1>8, <2>2, <3>1, <3>2 DEF Owns, SlotOf, BucketOf
  <2>3. ASSUME NEW t \in Slots, table'[t] # Empty
        PROVE  \E i \in Index : table'[t] = i /\ Owns(i, t)'
    <3>1. CASE table'[t] = table[t]
      <4>1. table[t] \in Index /\ Owns(table[t], t)
        BY <1>1, <2>3, <3>1 DEF SlotsOwned
      <4> QED
        BY <2>1, <3>1, <4>1
    <3>2. CASE \E i \in KeysIn(b) : SlotOf(KeyViews[i], d) = t /\ table'[t] = i
      <4>1. PICK i \in KeysIn(b) : SlotOf(KeyViews[i], d) = t /\ table'[t] = i
        BY <3>2
      <4> QED
        BY <1>4, <2>2, <4>1
    <3> QED
      BY <1>5, <3>1, <3>2
  <2> QED
    BY <2>3 DEF SlotsOwned
<1>11. DoneInv'
  BY <1>2 DEF DoneInv
<1> QED
  BY <1>6, <1>7, <1>9, <1>10, <1>11

LEMMA ChdNextKeepsIInv ==
  ASSUME ChdIInv, [ChdNext]_chdVars
  PROVE  /\ ChdIInv'
         /\ \A t \in Slots : table[t] # Empty => table'[t] = table[t]
<1> USE DEF ChdIInv
<1>1. CASE PickBucket
  <2>1. PICK bk \in pending :
          /\ KeysIn(bk) # {}
          /\ b' = bk
          /\ pending' = pending \ {bk}
    BY <1>1 DEF PickBucket
  <2>2. /\ pc = "next" /\ pc' = "coarse" /\ d' = 1 /\ best_d' = 1
        /\ UNCHANGED <<hash, bucket_seeds, table>>
    BY <1>1 DEF PickBucket
  <2>3. ChdTypeOK'
    BY <2>1, <2>2, ChdSizesAssumption, SeedsAssumption DEF ChdTypeOK
  <2>4. \A x \in Buckets : Settled(x)' = Settled(x)
    BY <2>1, <2>2, SMTT(40) DEF Settled, ChdTypeOK
  <2>5. \A i \in Index : BucketOf(KeyViews[i]) \in Buckets
    BY HashRanges, SMTT(40) DEF ChdTypeOK
  <2>6. SettledKeysFound'
    BY <2>2, <2>4, <2>5 DEF SettledKeysFound, ChdFind, SlotOf, BucketOf
  <2>7. \A i \in Index, t \in Slots : Owns(i, t) => Owns(i, t)'
    BY <2>2, <2>4, <2>5 DEF Owns, SlotOf, BucketOf
  <2>8. SlotsOwned'
    BY <2>2, <2>7 DEF SlotsOwned, ChdTypeOK
  <2> QED
    BY <2>2, <2>3, <2>6, <2>8 DEF DoneInv
<1>2. CASE Finish
  <2>1. /\ pc = "next" /\ pc' = "done"
        /\ \A bk \in pending : KeysIn(bk) = {}
        /\ UNCHANGED <<hash, bucket_seeds, table, pending, b, d, best_d>>
    BY <1>2 DEF Finish
  <2>2. ChdTypeOK'
    BY <2>1, SMTT(40) DEF ChdTypeOK
  <2>3. SettledKeysFound' /\ SlotsOwned'
    BY <2>1 DEF SettledKeysFound, SlotsOwned, Owns, Settled, ChdFind, SlotOf, BucketOf
  <2>4. DoneInv'
    BY <2>1 DEF DoneInv, KeysIn, BucketOf
  <2> QED
    BY <2>1, <2>2, <2>3, <2>4
<1>3. CASE CoarseHit
  BY <1>3, PlaceKeepsChdIInv DEF CoarseHit
<1>4. CASE CoarseMiss
  BY <1>4, SearchKeepsChdIInv, ChdSizesAssumption, SeedsAssumption DEF CoarseMiss, ChdTypeOK
<1>5. CASE CoarseEnd
  BY <1>5, SearchKeepsChdIInv, ChdSizesAssumption, SeedsAssumption DEF CoarseEnd, ChdTypeOK
<1>6. CASE FineHit
  BY <1>6, PlaceKeepsChdIInv DEF FineHit, InFineRange
<1>7. CASE FineMiss
  BY <1>7, SearchKeepsChdIInv, ChdSizesAssumption, SeedsAssumption, SMTT(40) DEF FineMiss, InFineRange, ChdTypeOK
<1>8. CASE GiveUp
  BY <1>8, SearchKeepsChdIInv, SMTT(40) DEF GiveUp, ChdTypeOK
<1>9. CASE UNCHANGED chdVars
  BY <1>9 DEF chdVars, chdBuildVars, ChdTypeOK, SettledKeysFound, SlotsOwned, Owns, DoneInv,
              Settled, ChdFind, SlotOf, BucketOf, KeysIn
<1> QED
  BY <1>1, <1>2, <1>3, <1>4, <1>5, <1>6, <1>7, <1>8, <1>9 DEF ChdNext
-----------------------------------------------------------------------------
LEMMA PerfectHashFromIInv == ChdIInv => PerfectHash
<1> SUFFICES ASSUME ChdIInv, pc = "done", NEW i \in Index
             PROVE  ChdFind(KeyViews[i]) = i
  BY DEF PerfectHash
<1>1. BucketOf(KeyViews[i]) \notin pending
  BY DEF ChdIInv, DoneInv, KeysIn
<1> QED
  BY <1>1 DEF ChdIInv, SettledKeysFound, Settled

LEMMA ChdIInvAlways == ChdSpec => []ChdIInv
<1>1. ChdIInv /\ [ChdNext]_chdVars => ChdIInv'
  BY ChdNextKeepsIInv
<1> QED
  BY ChdInitIInv, <1>1, PTL DEF ChdSpec
-----------------------------------------------------------------------------
(* The seeds of the coarse pass.                                           *)
CoarseSeed(s) == \E k \in Nat : s = 1 + k * CoarseStep

(* What the search for b knows: the coarse pass has tried every coarse     *)
(* seed before d, the dense pass all of them and those from behind the     *)
(* last coarse one up to d.                                                *)
SearchedInv ==
  /\ pc = "coarse" =>
       /\ CoarseSeed(d)
       /\ d = best_d + CoarseStep \/ (d = 1 /\ best_d = 1)
       /\ \A s \in Seeds \ {0} : CoarseSeed(s) /\ s < d => ~Fits(b, s)
  /\ pc \in {"fine", "unreachable"} =>
       /\ best_d + CoarseStep >= SeedLimit
       /\ \A s \in Seeds \ {0} : CoarseSeed(s) \/ (best_d < s /\ s < d) => ~Fits(b, s)
  /\ pc = "unreachable" => d >= SeedLimit

LEMMA CoarseSeeds ==
  ASSUME NEW s \in Nat, s % CoarseStep = 1 % CoarseStep, s # 0
  PROVE  CoarseSeed(s)
<1> DEFINE c == CoarseStep
<1>1. c \in Nat \ {0}
  BY SeedsAssumption
<1> HIDE DEF c
<1>2. CASE c = 1
  <2>1. s - 1 \in Nat /\ s = 1 + (s - 1) * c
    BY <1>2
  <2> QED
    BY <2>1 DEF CoarseSeed, c
<1>3. CASE c # 1
  <2>1. s % c = 1
    <3>1. ASSUME NEW x \in Nat, NEW y \in Nat, x < y
          PROVE  x % y = x
      BY <3>1
    <3>2. 1 % c = 1
      BY <1>1, <1>3, <3>1
    <3> QED
      BY <3>2 DEF c
  <2>2. s \div c \in Nat /\ s = c * (s \div c) + (s % c)
    BY <1>1
  <2>3. s = 1 + (s \div c) * c
    BY <1>1, <2>1, <2>2
  <2> QED
    BY <2>2, <2>3 DEF CoarseSeed, c
<1> QED
  BY <1>2, <1>3

(* There is no coarse seed between one and the next.                       *)
LEMMA NextCoarseSeed ==
  ASSUME NEW s, CoarseSeed(s), NEW t, CoarseSeed(t), s < t + CoarseStep
  PROVE  s <= t /\ s \in Int /\ t \in Int /\ CoarseSeed(t + CoarseStep)
<1> DEFINE c == CoarseStep
<1>1. c \in Nat \ {0}
  BY SeedsAssumption
<1>2. PICK j \in Nat : s = 1 + j * c
  BY DEF CoarseSeed
<1>3. PICK k \in Nat : t = 1 + k * c
  BY DEF CoarseSeed
<1>4. s < t + c
  OBVIOUS
<1> HIDE DEF c
<1>5. (k + 1) * c = k * c + c /\ j * c \in Int /\ k * c \in Int
  BY <1>1
<1>6. ASSUME NEW x \in Nat, NEW y \in Nat, x <= y
      PROVE  x * c <= y * c
  <2>1. (y - x) * c \in Nat
    BY <1>1, <1>6
  <2>2. y * c = x * c + (y - x) * c /\ x * c \in Int /\ y * c \in Int
    BY <1>1
  <2> QED
    BY <2>1, <2>2
<1>7. j <= k
  <2> SUFFICES ASSUME k + 1 <= j PROVE FALSE
    OBVIOUS
  <2>1. (k + 1) * c <= j * c
    BY <1>6
  <2> QED
    BY <1>1, <1>2, <1>3, <1>4, <1>5, <2>1
<1>8. s <= t /\ s \in Int /\ t \in Int
  BY <1>2, <1>3, <1>5, <1>6, <1>7
<1>9. t + c = 1 + (k + 1) * c /\ k + 1 \in Nat
  BY <1>1, <1>3, <1>5
<1> QED
  BY <1>8, <1>9 DEF CoarseSeed, c

LEMMA SearchedInit == ChdInit => SearchedInv
BY DEF ChdInit, ChdInitBuild, SearchedInv

LEMMA ChdNextKeepsSearched ==
  ASSUME ChdTypeOK, SearchedInv, [ChdNext]_chdVars
  PROVE  SearchedInv'
<1>1. /\ SeedLimit \in Nat /\ SeedLimit > 1 /\ CoarseStep \in Nat \ {0}
      /\ d \in Nat \ {0} /\ best_d \in Nat \ {0} /\ best_d < SeedLimit
      /\ Seeds \subseteq Int
  BY SeedsAssumption DEF ChdTypeOK, Seeds
<1>2. ASSUME UNCHANGED <<hash, table, b>>, NEW s
      PROVE  Fits(b, s)' = Fits(b, s)
  BY <1>2 DEF Fits, KeysIn, BucketOf, SlotOf
<1>3. CASE PickBucket
  <2>1. pc' = "coarse" /\ d' = 1 /\ best_d' = 1
    BY <1>3 DEF PickBucket
  <2>2. CoarseSeed(1)
    <3>1. 0 \in Nat /\ 1 = 1 + 0 * CoarseStep
      BY <1>1
    <3> QED
      BY <3>1 DEF CoarseSeed
  <2>3. \A s \in Seeds \ {0} : ~(s < 1)
    BY <1>1 DEF Seeds
  <2> QED
    BY <2>1, <2>2, <2>3 DEF SearchedInv
<1>4. CASE Finish
  BY <1>4 DEF Finish, SearchedInv
<1>5. CASE CoarseHit
  BY <1>5 DEF CoarseHit, Place, SearchedInv
<1>6. CASE CoarseMiss
  <2>1. /\ pc = "coarse" /\ pc' = "coarse" /\ ~Fits(b, d)
        /\ best_d' = d /\ d' = d + CoarseStep
        /\ UNCHANGED <<hash, table, b>>
    BY <1>6 DEF CoarseMiss
  <2>2. CoarseSeed(d) /\ \A s \in Seeds \ {0} : CoarseSeed(s) /\ s < d => ~Fits(b, s)
    BY <2>1 DEF SearchedInv
  <2>3. CoarseSeed(d')
    <3>1. d < d + CoarseStep
      BY <1>1
    <3> QED
      BY <2>1, <2>2, <3>1, NextCoarseSeed
  <2>4. ASSUME NEW s \in Seeds \ {0}, CoarseSeed(s), s < d'
        PROVE  ~Fits(b, s)'
    <3>1. s < d \/ s = d
      <4>1. s <= d
        BY <2>1, <2>2, <2>4, NextCoarseSeed
      <4> QED
        BY <1>1, <4>1
    <3> QED
      BY <1>2, <2>1, <2>2, <2>4, <3>1
  <2> QED
    BY <2>1, <2>3, <2>4 DEF SearchedInv
<1>7. CASE CoarseEnd
  <2>1. /\ pc = "coarse" /\ pc' = "fine" /\ d >= SeedLimit
        /\ d' = best_d + 1
        /\ UNCHANGED <<hash, table, b, best_d>>
    BY <1>7 DEF CoarseEnd
  <2>2. d = best_d + CoarseStep
    BY <1>1, <2>1 DEF SearchedInv
  <2>3. ASSUME NEW s \in Seeds \ {0}, CoarseSeed(s) \/ (best_d < s /\ s < d')
        PROVE  ~Fits(b, s)'
    <3>1. s \in Int /\ s < SeedLimit
      BY <1>1 DEF Seeds
    <3>2. CoarseSeed(s) /\ s < d
      BY <1>1, <2>1, <2>3, <3>1
    <3> QED
      BY <1>2, <2>1, <3>2 DEF SearchedInv
  <2> QED
    BY <1>1, <2>1, <2>2, <2>3 DEF SearchedInv
<1>8. CASE FineHit
  BY <1>8 DEF FineHit, Place, SearchedInv
<1>9. CASE FineMiss
  <2>1. /\ pc = "fine" /\ pc' = "fine" /\ ~Fits(b, d)
        /\ d' = d + 1
        /\ UNCHANGED <<hash, table, b, best_d>>
    BY <1>9 DEF FineMiss
  <2>2. ASSUME NEW s \in Seeds \ {0}, CoarseSeed(s) \/ (best_d < s /\ s < d')
        PROVE  ~Fits(b, s)'
    <3>1. CoarseSeed(s) \/ (best_d < s /\ s < d) \/ s = d
      BY <1>1, <2>1, <2>2
    <3> QED
      BY <1>2, <2>1, <3>1 DEF SearchedInv
  <2> QED
    BY <2>1, <2>2 DEF SearchedInv
<1>10. CASE GiveUp
  <2>1. /\ pc = "fine" /\ pc' = "unreachable" /\ ~InFineRange
        /\ UNCHANGED <<hash, table, b, d, best_d>>
    BY <1>10 DEF GiveUp
  <2>2. d >= SeedLimit
    BY <1>1, <2>1 DEF SearchedInv, InFineRange
  <2> QED
    BY <1>2, <2>1, <2>2 DEF SearchedInv
<1>11. CASE UNCHANGED chdVars
  BY <1>2, <1>11 DEF chdVars, chdBuildVars, SearchedInv
<1> QED
  BY <1>3, <1>4, <1>5, <1>6, <1>7, <1>8, <1>9, <1>10, <1>11 DEF ChdNext

LEMMA ExhaustedFromSearched == ChdTypeOK /\ SearchedInv => GivesUpExhausted
<1> SUFFICES ASSUME ChdTypeOK, SearchedInv, pc = "unreachable", NEW s \in Tried
             PROVE  ~Fits(b, s)
  BY DEF GivesUpExhausted
<1>1. s \in Seeds \ {0} /\ s \in Nat /\ s < SeedLimit
  BY SeedsAssumption DEF Tried, Seeds
<1>2. CASE s % CoarseStep = 1 % CoarseStep
  <2>1. CoarseSeed(s)
    BY <1>1, <1>2, CoarseSeeds
  <2> QED
    BY <1>1, <2>1 DEF SearchedInv
<1>3. CASE s > best_d
  <2>1. best_d < s /\ s < d
    BY <1>1, <1>3, SeedsAssumption DEF SearchedInv, ChdTypeOK
  <2> QED
    BY <1>1, <2>1 DEF SearchedInv
<1> QED
  BY <1>2, <1>3 DEF Tried
-----------------------------------------------------------------------------
(* Type correctness: no seed, slot or index leaves its array, and the last *)
(* colliding seed stays below kSeedLimit.                                  *)
THEOREM ChdTypeCorrect == ChdSpec => []ChdTypeOK
BY ChdIInvAlways, PTL DEF ChdIInv

(* The keys of every bucket build_chd has placed stay findable while the   *)
(* later buckets are placed, for every hash function.                      *)
THEOREM SettledKeysStayFound == ChdSpec => []SettledKeysFound
BY ChdIInvAlways, PTL DEF ChdIInv

(* A taken slot belongs to a placed key that hashes there: no bucket is    *)
(* ever half placed.                                                       *)
THEOREM SlotsHaveOwners == ChdSpec => []SlotsOwned
BY ChdIInvAlways, PTL DEF ChdIInv

(* The table build_chd returns answers every key with its own index: a     *)
(* perfect hash, for every key list, size and hash function.               *)
THEOREM BuildIsPerfectHash == ChdSpec => []PerfectHash
BY ChdIInvAlways, PerfectHashFromIInv, PTL

(* No step of the builder empties or overwrites a slot that is taken.      *)
THEOREM TakenSlotsStay == ChdSpec => FilledSlotsStay
<1>1. ChdIInv /\ [ChdNext]_chdVars =>
        [\A t \in Slots : table[t] # Empty => table'[t] = table[t]]_chdVars
  BY ChdNextKeepsIInv
<1> QED
  BY ChdIInvAlways, <1>1, PTL DEF ChdSpec, FilledSlotsStay

(* build_chd stops the compilation only when no seed of its two passes     *)
(* fits the bucket: the dense pass takes over right behind the last coarse *)
(* seed and leaves none out, whatever the limit and the step.              *)
THEOREM SeedsAreExhausted == ChdSpec => []GivesUpExhausted
<1>1. ChdTypeOK /\ SearchedInv /\ [ChdNext]_chdVars => SearchedInv'
  BY ChdNextKeepsSearched
<1> QED
  BY ChdTypeCorrect, SearchedInit, <1>1, ExhaustedFromSearched, PTL DEF ChdSpec
-----------------------------------------------------------------------------

LEMMA LookupSlotInRange ==
  ASSUME hash \in [Strings -> [Seeds -> Nat]]
  PROVE  \A text \in Strings, s \in Seeds : LookupSlot(text, s) \in LookupSlots
BY HashInRange, LookupSizesAssumption DEF LookupSlot, LookupSlots

(* The inductive invariant: a found table is the keys' table for a seed    *)
(* that separates them.                                                    *)
FoundInv ==
  search = "found" => seed \in Seeds /\ ~Collision(seed) /\ lookup_table = Filled(seed)

SeedIInv == SeedTypeOK /\ FoundInv

LEMMA SeedInitIInv == SeedInit => SeedIInv
BY ToIndexExact, LookupSizesAssumption, SeedsAssumption, HashAssumption
   DEF SeedInit, SeedInitSearch, SeedIInv, SeedTypeOK, FoundInv, Seeds

LEMMA FilledType ==
  ASSUME NEW s, ~Collision(s)
  PROVE  Filled(s) \in [LookupSlots -> Index \cup {Empty}]
BY ToIndexExact DEF Filled

LEMMA SeedNextKeepsIInv == SeedIInv /\ [SeedNext]_seedVars => SeedIInv'
<1> SUFFICES ASSUME SeedIInv, [SeedNext]_seedVars PROVE SeedIInv'
  OBVIOUS
<1> USE DEF SeedIInv
<1>1. ASSUME SeedFound, search \in {"coarse", "fine"}, seed < SeedLimit
      PROVE  SeedIInv'
  <2>1. seed \in Seeds
    BY <1>1, LookupSizesAssumption, SeedsAssumption DEF SeedTypeOK, Seeds
  <2>2. SeedTypeOK'
    BY <1>1, <2>1, FilledType DEF SeedFound, SeedTypeOK
  <2>3. FoundInv'
    BY <1>1, <2>1 DEF SeedFound, FoundInv, Collision, Filled, LookupSlot
  <2> QED
    BY <2>2, <2>3
<1>2. CASE SeedHit
  BY <1>1, <1>2 DEF SeedHit
<1>3. CASE SeedMiss
  BY <1>3, LookupSizesAssumption, SeedsAssumption DEF SeedMiss, SeedTypeOK, FoundInv, Seeds
<1>4. CASE SeedCoarseEnd
  BY <1>4, LookupSizesAssumption, SeedsAssumption DEF SeedCoarseEnd, SeedTypeOK, FoundInv, Seeds
<1>5. CASE DenseHit
  BY <1>1, <1>5 DEF DenseHit, InDenseRange
<1>6. CASE DenseMiss
  BY <1>6, LookupSizesAssumption, SeedsAssumption DEF DenseMiss, InDenseRange, SeedTypeOK, FoundInv, Seeds
<1>7. CASE SeedGiveUp
  BY <1>7 DEF SeedGiveUp, SeedTypeOK, FoundInv
<1>8. CASE UNCHANGED seedVars
  BY <1>8 DEF seedVars, seedSearchVars, SeedTypeOK, FoundInv, Collision, Filled, LookupSlot
<1> QED
  BY <1>2, <1>3, <1>4, <1>5, <1>6, <1>7, <1>8 DEF SeedNext

LEMMA PerfectFromIInv == SeedIInv => TableIsPerfect
<1> SUFFICES ASSUME SeedIInv, search = "found", NEW i \in Index
             PROVE  lookup_table[LookupSlot(KeyViews[i], seed)] = i
  BY DEF TableIsPerfect, Candidate
<1>1. seed \in Seeds /\ ~Collision(seed) /\ lookup_table = Filled(seed)
  BY DEF SeedIInv, FoundInv
<1>2. LookupSlot(KeyViews[i], seed) \in LookupSlots
  BY <1>1, LookupSlotInRange, KeysAssumption DEF SeedIInv, SeedTypeOK
<1>3. (CHOOSE j \in Index : LookupSlot(KeyViews[j], seed) = LookupSlot(KeyViews[i], seed)) = i
  BY <1>1 DEF Collision
<1> QED
  BY <1>1, <1>2, <1>3, ToIndexExact DEF Filled

LEMMA SeedIInvAlways == SeedSpec => []SeedIInv
BY SeedInitIInv, SeedNextKeepsIInv, PTL DEF SeedSpec

(* Type correctness: the search stays within its seeds and slots, and a    *)
(* chosen seed is below kSeedLimit.                                        *)
THEOREM SeedTypeCorrect == SeedSpec => []SeedTypeOK
BY SeedIInvAlways, PTL DEF SeedIInv

(* The table find_lookup_seed returns answers every key with its own       *)
(* index, for every key list, table size and hash function.                *)
THEOREM SeedIsPerfect == SeedSpec => []TableIsPerfect
BY SeedIInvAlways, PerfectFromIInv, PTL

(* The returned table names a key only in the slot that key hashes to.     *)
THEOREM OnlyKeysInTable == SeedSpec => []TableHoldsOnlyKeys
<1>1. SeedIInv => TableHoldsOnlyKeys
  BY ToIndexExact DEF SeedIInv, FoundInv, TableHoldsOnlyKeys, Filled
<1> QED
  BY SeedIInvAlways, <1>1, PTL
-----------------------------------------------------------------------------
(* A candidate that is the key's own index whenever the text is a key is   *)
(* all key_equals needs to give the promised answer.                       *)
LEMMA CheckedCandidate ==
  ASSUME NEW text \in Strings, NEW c \in Index \cup {Empty},
         \A i \in Index : KeyViews[i] = text => c = i
  PROVE  Checked(text, c) = Promise!IndexOf(text)
<1>1. CASE \E i \in Index : KeyViews[i] = text
  <2>1. PICK i \in Index : KeyViews[i] = text
    BY <1>1
  <2>2. c = i /\ i # Empty
    BY <2>1, KeysAssumption DEF Index, Empty
  <2>3. \A j \in Index : KeyViews[j] = text => j = i
    BY <2>1, KeysAssumption
  <2> QED
    BY <2>1, <2>2, <2>3 DEF Checked, key_equals, Promise!IndexOf, Promise!Index, Index
<1>2. CASE ~ \E i \in Index : KeyViews[i] = text
  BY <1>2 DEF Checked, key_equals, Promise!IndexOf, Promise!Index, Index, NotFound, Empty
<1> QED
  BY <1>1, <1>2

(* A text whose length no key has is no key.                               *)
LEMMA NoKeyOfLength ==
  ASSUME NEW text \in Strings, ~ValidLength(Length[text])
  PROVE  Promise!IndexOf(text) = NotFound
BY DEF ValidLength, KeyLength, Promise!IndexOf, Promise!Index, Index, NotFound

LEMMA LengthCandidate ==
  ASSUME AllLengthsUnique, NEW text \in Strings
  PROVE  /\ LengthToIndex(Length[text]) \in Index \cup {Empty}
         /\ \A i \in Index : KeyViews[i] = text => LengthToIndex(Length[text]) = i
<1>1. CASE ~ValidLength(Length[text])
  BY <1>1 DEF LengthToIndex, ValidLength, KeyLength
<1>2. CASE ValidLength(Length[text])
  <2>1. PICK k \in Index : KeyLength(k) = Length[text]
    BY <1>2 DEF ValidLength
  <2>2. \A j \in Index : KeyLength(j) = Length[text] => j = k
    BY <2>1 DEF AllLengthsUnique
  <2>3. k <= k
    BY KeysAssumption DEF Index
  <2>4. LengthToIndex(Length[text]) = k
    BY <1>2, <2>1, <2>2, <2>3 DEF LengthToIndex
  <2> QED
    BY <2>2, <2>4 DEF KeyLength
<1> QED
  BY <1>1, <1>2
-----------------------------------------------------------------------------
(* The sorted key list.                                                    *)
LEMMA IndexFinite == IsFiniteSet(Index) /\ Cardinality(Index) = KeyCount
BY FS_Interval, KeysAssumption DEF Index

LEMMA KeyNumbers == \A i \in Index : KeyViews[i] \in Nat
BY KeysAssumption, TextsAssumption

LEMMA BeforeFinite ==
  ASSUME NEW text
  PROVE  /\ IsFiniteSet(KeysBefore(text))
         /\ Cardinality(KeysBefore(text)) \in 0 .. KeyCount
<1>1. KeysBefore(text) \in SUBSET Index
  BY DEF KeysBefore
<1> QED
  BY <1>1, IndexFinite, FS_Subset, FS_CardinalityType

(* The number of smaller keys tells keys apart and never reaches size().   *)
LEMMA RankStrict ==
  ASSUME NEW i \in Index, NEW t \in Nat, KeyViews[i] < t
  PROVE  Cardinality(KeysBefore(KeyViews[i])) < Cardinality(KeysBefore(t))
<1>1. KeysBefore(KeyViews[i]) \in SUBSET KeysBefore(t)
  BY KeyNumbers DEF KeysBefore
<1>2. i \in KeysBefore(t) /\ i \notin KeysBefore(KeyViews[i])
  BY KeyNumbers DEF KeysBefore
<1>3. /\ Cardinality(KeysBefore(KeyViews[i])) <= Cardinality(KeysBefore(t))
      /\ Cardinality(KeysBefore(KeyViews[i])) # Cardinality(KeysBefore(t))
  BY <1>1, <1>2, BeforeFinite, FS_Subset
<1> QED
  BY <1>3, BeforeFinite

LEMMA RankInjective ==
  ASSUME NEW i \in Index, NEW j \in Index,
         Cardinality(KeysBefore(KeyViews[i])) = Cardinality(KeysBefore(KeyViews[j]))
  PROVE  i = j
<1>1. ~(KeyViews[i] < KeyViews[j]) /\ ~(KeyViews[j] < KeyViews[i])
  BY RankStrict, KeyNumbers, BeforeFinite
<1>2. KeyViews[i] = KeyViews[j]
  BY <1>1, KeyNumbers
<1> QED
  BY <1>2, KeysAssumption

LEMMA RankInIndex ==
  ASSUME NEW i \in Index
  PROVE  Cardinality(KeysBefore(KeyViews[i])) \in Index
<1>1. KeysBefore(KeyViews[i]) \in SUBSET Index /\ i \notin KeysBefore(KeyViews[i])
  BY KeyNumbers DEF KeysBefore
<1>2. Cardinality(KeysBefore(KeyViews[i])) # KeyCount
  BY <1>1, IndexFinite, FS_Subset
<1> QED
  BY <1>2, BeforeFinite, KeysAssumption DEF Index

(* Every position of the sorted list holds a key.                          *)
LEMMA RankSurjective ==
  ASSUME NEW p \in Index
  PROVE  \E i \in Index : Cardinality(KeysBefore(KeyViews[i])) = p
<1> DEFINE rank == [i \in Index |-> Cardinality(KeysBefore(KeyViews[i]))]
<1>1. rank \in [Index -> Index]
  BY RankInIndex
<1>2. \A i, j \in Index : rank[i] = rank[j] => i = j
  BY RankInjective
<1>3. rank \in Injection(Index, Index)
  BY <1>1, <1>2 DEF Injection, IsInjective
<1>4. rank \in Surjection(Index, Index)
  BY <1>3, IndexFinite, FS_Injection
<1>5. \E i \in Index : rank[i] = p
  BY <1>4 DEF Surjection
<1> QED
  BY <1>5

LEMMA SortedAnswer ==
  ASSUME NEW text \in Strings
  PROVE  FindSorted(text) = Promise!IndexOf(text)
<1> DEFINE it == LowerBound(text)
<1>1. it \in 0 .. KeyCount /\ text \in Nat
  BY BeforeFinite, TextsAssumption DEF LowerBound
<1>2. CASE \E i \in Index : KeyViews[i] = text
  <2>1. PICK i \in Index : KeyViews[i] = text
    BY <1>2
  <2>2. it = Cardinality(KeysBefore(KeyViews[i])) /\ it \in Index
    BY <2>1, RankInIndex DEF LowerBound
  <2>3. SortedIndices(it) = i
    BY <2>2, RankInjective DEF SortedIndices
  <2>4. Promise!IndexOf(text) = i
    BY <2>1, KeysAssumption DEF Promise!IndexOf, Promise!Index, Index
  <2>5. it # KeyCount
    BY <2>2, KeysAssumption DEF Index
  <2> QED
    BY <2>1, <2>3, <2>4, <2>5 DEF FindSorted, SortedKeyViews
<1>3. CASE ~ \E i \in Index : KeyViews[i] = text
  <2>1. Promise!IndexOf(text) = NotFound
    BY <1>3 DEF Promise!IndexOf, Promise!Index, Index, NotFound
  <2>2. CASE it = KeyCount
    BY <2>1, <2>2 DEF FindSorted
  <2>3. CASE it # KeyCount
    <3>1. it \in Index
      BY <1>1, <2>3, KeysAssumption DEF Index
    <3>2. SortedIndices(it) \in Index
      BY <3>1, RankSurjective DEF SortedIndices
    <3> QED
      BY <1>3, <2>1, <3>2 DEF FindSorted, SortedKeyViews
  <2> QED
    BY <2>2, <2>3
<1> QED
  BY <1>2, <1>3
-----------------------------------------------------------------------------
(* The tables keep their invariants while they are computed and after, and *)
(* the program runs only with the tables its lookups use.                  *)
IndexInv ==
  /\ SeedIInv
  /\ ChdIInv
  /\ phase \in {"compiling", "running", "stopped"}
  /\ phase = "running" => TablesReady

LEMMA IndexInitInv == Init => IndexInv
BY SeedInitIInv, ChdInitIInv DEF Init, SeedInit, ChdInit, IndexInv

LEMMA IndexNextInv == IndexInv /\ [Next]_vars => IndexInv'
<1> SUFFICES ASSUME IndexInv, [Next]_vars PROVE IndexInv'
  OBVIOUS
<1> USE DEF IndexInv
<1>1. CASE SearchSeed
  <2>1. SeedIInv'
    BY <1>1, SeedNextKeepsIInv DEF SearchSeed
  <2>2. UNCHANGED hash
    BY <1>1 DEF SearchSeed, SeedNext, SeedHit, SeedMiss, SeedCoarseEnd, DenseHit,
                DenseMiss, SeedGiveUp, SeedFound
  <2>3. ChdIInv'
    BY <1>1, <2>2, ChdNextKeepsIInv DEF SearchSeed, chdVars
  <2> QED
    BY <1>1, <2>1, <2>3 DEF SearchSeed, callVars
<1>2. CASE BuildChd
  <2>1. ChdIInv'
    BY <1>2, ChdNextKeepsIInv DEF BuildChd
  <2>2. UNCHANGED hash
    BY <1>2 DEF BuildChd, ChdNext, PickBucket, Finish, CoarseHit, CoarseMiss, CoarseEnd,
                FineHit, FineMiss, GiveUp, Place
  <2>3. SeedIInv'
    BY <1>2, <2>2, SeedNextKeepsIInv DEF BuildChd, seedVars
  <2> QED
    BY <1>2, <2>1, <2>3 DEF BuildChd, callVars
<1>3. ASSUME UNCHANGED <<hash, seedSearchVars, chdBuildVars>>
      PROVE  SeedIInv' /\ ChdIInv' /\ (TablesReady => TablesReady')
  <2>1. SeedIInv' /\ ChdIInv'
    BY <1>3, SeedNextKeepsIInv, ChdNextKeepsIInv DEF seedVars, chdVars
  <2> QED
    BY <1>3, <2>1 DEF TablesReady, seedSearchVars, chdBuildVars, UseLookupTable, UseChd
<1>4. CASE CompileEnds
  BY <1>3, <1>4 DEF CompileEnds
<1>5. CASE CompileStops
  BY <1>3, <1>5 DEF CompileStops
<1>6. CASE \E text \in Strings : Find(text)
  BY <1>3, <1>6 DEF Find
<1>7. CASE UNCHANGED vars
  BY <1>3, <1>7 DEF vars, callVars
<1> QED
  BY <1>1, <1>2, <1>4, <1>5, <1>6, <1>7 DEF Next, Compile

LEMMA IndexInvAlways == Spec => []IndexInv
BY IndexInitInv, IndexNextInv, PTL DEF Spec

(* The answer of a lookup in a running program, whatever the strategy.     *)
LEMMA RawAnswer ==
  ASSUME IndexInv, phase = "running", NEW text \in Strings
  PROVE  find_index_raw(text) = Promise!IndexOf(text)
<1>1. CASE AllLengthsUnique
  BY <1>1, LengthCandidate, CheckedCandidate DEF find_index_raw
<1>2. CASE ~AllLengthsUnique /\ ~ValidLength(Length[text])
  BY <1>2, NoKeyOfLength DEF find_index_raw
<1>3. CASE ~AllLengthsUnique /\ ValidLength(Length[text]) /\ UseLookupTable
  <2>1. /\ search = "found"
        /\ hash \in [Strings -> [Seeds -> Nat]]
        /\ seed \in Seeds
        /\ lookup_table \in [LookupSlots -> Index \cup {Empty}]
    BY <1>3 DEF IndexInv, TablesReady, SeedIInv, SeedTypeOK
  <2>2. Candidate(text) \in Index \cup {Empty}
    BY <2>1, LookupSlotInRange DEF Candidate
  <2>3. \A i \in Index : KeyViews[i] = text => Candidate(text) = i
    BY <2>1, PerfectFromIInv DEF IndexInv, TableIsPerfect
  <2> QED
    BY <1>3, <2>2, <2>3, CheckedCandidate DEF find_index_raw
<1>4. CASE ~AllLengthsUnique /\ ValidLength(Length[text]) /\ UseBinarySearch
  BY <1>4, SortedAnswer, KeysAssumption, TextsAssumption
     DEF find_index_raw, UseBinarySearch, UseLookupTable
<1>5. CASE ~AllLengthsUnique /\ ValidLength(Length[text]) /\ UseChd
  <2>1. /\ pc = "done"
        /\ hash \in [Strings -> [Seeds -> Nat]]
        /\ bucket_seeds \in [Buckets -> Seeds]
        /\ table \in [Slots -> Index \cup {Empty}]
    BY <1>5 DEF IndexInv, TablesReady, ChdIInv, ChdTypeOK
  <2>2. ChdFind(text) \in Index \cup {Empty}
    BY <2>1, HashRanges DEF ChdFind
  <2>3. \A i \in Index : KeyViews[i] = text => ChdFind(text) = i
    BY <2>1, PerfectHashFromIInv DEF IndexInv, PerfectHash
  <2>4. ~UseLookupTable /\ ~UseBinarySearch
    BY <1>5, KeysAssumption, TextsAssumption DEF UseChd, UseLookupTable, UseBinarySearch
  <2> QED
    BY <1>5, <2>2, <2>3, <2>4, CheckedCandidate DEF find_index_raw
<1> QED
  BY <1>1, <1>2, <1>3, <1>4, <1>5, KeysAssumption, TextsAssumption
     DEF UseLookupTable, UseBinarySearch, UseChd

LEMMA StepSimulates ==
  ASSUME IndexInv, [Next]_vars
  PROVE  [Promise!Next]_(Promise!vars)
<1> USE DEF Promise!vars, status
<1>1. CASE SearchSeed
  BY <1>1 DEF SearchSeed, callVars
<1>2. CASE BuildChd
  BY <1>2 DEF BuildChd, callVars
<1>3. CASE CompileEnds
  BY <1>3 DEF CompileEnds, Promise!Next, Promise!Build
<1>4. CASE CompileStops
  BY <1>4 DEF CompileStops, Promise!Next, Promise!Build
<1>5. CASE \E text \in Strings : Find(text)
  <2>1. PICK text \in Strings : Find(text)
    BY <1>5
  <2>2. Promise!Lookup(text)
    BY <2>1, RawAnswer DEF Find, Promise!Lookup
  <2> QED
    BY <2>2 DEF Promise!Next
<1>6. CASE UNCHANGED vars
  BY <1>6 DEF vars, callVars
<1> QED
  BY <1>1, <1>2, <1>3, <1>4, <1>5, <1>6 DEF Next, Compile

(* lookup_index implements KeyIndex: for every key list, threshold, table  *)
(* size and hash function each lookup of a text answers as promised.       *)
THEOREM IndexKeepsPromise == Spec => IndexPromise
<1>1. Init => Promise!Init
  BY DEF Init, Promise!Init, status, NotFound
<1> QED
  BY <1>1, IndexInvAlways, StepSimulates, PTL DEF Spec, IndexPromise, Promise!Spec
-----------------------------------------------------------------------------
(* Each step of a program leaves the builders alone or is one of theirs.   *)
LEMMA BuildersStep ==
  ASSUME [Next]_vars
  PROVE  [SeedNext]_seedVars /\ [ChdNext]_chdVars
<1> USE DEF seedVars, chdVars
<1>1. CASE SearchSeed
  <2>1. UNCHANGED hash
    BY <1>1 DEF SearchSeed, SeedNext, SeedHit, SeedMiss, SeedCoarseEnd, DenseHit,
                DenseMiss, SeedGiveUp, SeedFound
  <2> QED
    BY <1>1, <2>1 DEF SearchSeed
<1>2. CASE BuildChd
  <2>1. UNCHANGED hash
    BY <1>2 DEF BuildChd, ChdNext, PickBucket, Finish, CoarseHit, CoarseMiss, CoarseEnd,
                FineHit, FineMiss, GiveUp, Place
  <2> QED
    BY <1>2, <2>1 DEF BuildChd
<1>3. CASE CompileEnds
  BY <1>3 DEF CompileEnds
<1>4. CASE CompileStops
  BY <1>4 DEF CompileStops
<1>5. CASE \E text \in Strings : Find(text)
  BY <1>5 DEF Find
<1>6. CASE UNCHANGED vars
  BY <1>6 DEF vars
<1> QED
  BY <1>1, <1>2, <1>3, <1>4, <1>5, <1>6 DEF Next, Compile

(* Whatever the program looks up and whenever it does, its displacement    *)
(* table answers the keys it has placed, and its compilation stops only    *)
(* when every seed of the two passes was tried.                            *)
THEOREM ProgramsTablesHold == Spec => [](SettledKeysFound /\ GivesUpExhausted /\ TableIsPerfect)
<1>1. Init => SeedInit /\ ChdInit
  BY DEF Init, SeedInit, ChdInit
<1>2. [Next]_vars => [SeedNext]_seedVars /\ [ChdNext]_chdVars
  BY BuildersStep
<1>3. Spec => SeedSpec /\ ChdSpec
  BY <1>1, <1>2, PTL DEF Spec, SeedSpec, ChdSpec
<1> QED
  BY <1>3, SettledKeysStayFound, SeedsAreExhausted, SeedIsPerfect, PTL
=============================================================================
