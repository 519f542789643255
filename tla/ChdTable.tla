------------------------------ MODULE ChdTable ------------------------------
(***************************************************************************)
(* The two-level displacement table ("CHD") that frozen_map, frozen_set    *)
(* and frozen_regex build at compile time for many keys: build_chd and     *)
(* chd_find of map.hpp.                                                    *)
(*                                                                         *)
(* hash(key, 0) picks a bucket; the bucket's own seed d picks the slot     *)
(* hash(key, d).  The builder places one bucket after the other, largest   *)
(* first, and for each searches a seed that sends all its keys to distinct *)
(* free slots: a coarse pass over 1, 1 + step, 1 + 2 step, ... and, when   *)
(* that fails, a dense pass behind the last coarse seed.                   *)
(*                                                                         *)
(* A step of the model is one seed tried for one bucket (the whole inner   *)
(* loop over the bucket's keys).  The hash function is any member of       *)
(* HashFamily, picked once: nothing here depends on CRC32C.                *)
(***************************************************************************)
EXTENDS KeyHash, FiniteSets

CONSTANTS
  ChdBucketCount,  \* template parameter BucketCount
  ChdTableSize     \* template parameter TableSize

Buckets == 0 .. ChdBucketCount - 1
Slots   == 0 .. ChdTableSize - 1
NoBucket == -1

ASSUME ChdSizesAssumption ==
  ChdBucketCount \in Nat \ {0} /\ ChdTableSize \in Nat \ {0}
VARIABLES
  bucket_seeds,  \* chd_result::bucket_seeds
  table,         \* chd_result::table, slot -> key index or Empty
  pending,       \* the buckets of `order` the outer loop has not reached
  b,             \* the bucket being placed
  d,             \* the seed about to be tried for b
  best_d,        \* the last coarse seed that collided
  pc             \* "next", "coarse", "fine", "done" or "unreachable"

chdBuildVars == <<bucket_seeds, table, pending, b, d, best_d, pc>>
chdVars == <<hash, chdBuildVars>>
-----------------------------------------------------------------------------
BucketOf(key) == hash[key][0] % ChdBucketCount
SlotOf(key, s) == hash[key][s] % ChdTableSize

(* keys_by_bucket[starts[bk] .. starts[bk + 1] - 1] *)
KeysIn(bk) == {i \in Index : BucketOf(KeyViews[i]) = bk}

(* Mutant: the inner loop without its check of the bucket's own slots.     *)
FitsWithoutDup(bk, s) ==
  \A i \in KeysIn(bk) : table[SlotOf(KeyViews[i], s)] = ToIndex(Empty)

(* The inner loop over the bucket's keys ends with ok: every slot is free  *)
(* and no two keys of the bucket share one.                                *)
Fits(bk, s) ==
  /\ \A i \in KeysIn(bk) : table[SlotOf(KeyViews[i], s)] = ToIndex(Empty)
  /\ \A i, j \in KeysIn(bk) :
       SlotOf(KeyViews[i], s) = SlotOf(KeyViews[j], s) => i = j

(* The table after the keys of bucket bk are written at seed s.            *)
Placed(bk, s) ==
  [t \in Slots |->
     IF \E i \in KeysIn(bk) : SlotOf(KeyViews[i], s) = t
     THEN ToIndex(CHOOSE i \in KeysIn(bk) : SlotOf(KeyViews[i], s) = t)
     ELSE table[t]]

(* chd_find: the candidate index for a text; the caller compares the key.  *)
ChdFind(key) == table[SlotOf(key, bucket_seeds[BucketOf(key)])]
-----------------------------------------------------------------------------
ChdInitBuild ==
  /\ bucket_seeds = [bk \in Buckets |-> 0]
  /\ table = [t \in Slots |-> ToIndex(Empty)]
  /\ pending = Buckets
  /\ b = NoBucket
  /\ d = 1
  /\ best_d = 1
  /\ pc = "next"

ChdInit == hash \in HashFamily /\ ChdInitBuild

(* The outer loop takes the next bucket of `order`.  std::ranges::sort is  *)
(* not stable: among buckets of one size any may come first.               *)
PickBucket ==
  /\ pc = "next"
  /\ \E bk \in pending :
       /\ KeysIn(bk) # {}
       /\ \A o \in pending : Cardinality(KeysIn(o)) <= Cardinality(KeysIn(bk))
       /\ b' = bk
       /\ pending' = pending \ {bk}
  /\ d' = 1
  /\ best_d' = 1
  /\ pc' = "coarse"
  /\ UNCHANGED <<hash, bucket_seeds, table>>

(* `if (first == last) break;`: only empty buckets are left.               *)
Finish ==
  /\ pc = "next"
  /\ \A bk \in pending : KeysIn(bk) = {}
  /\ pc' = "done"
  /\ UNCHANGED <<hash, bucket_seeds, table, pending, b, d, best_d>>

(* Mutant: the seed of the bucket is not stored.                           *)
PlaceWithoutSeed ==
  /\ Fits(b, d)
  /\ table' = Placed(b, d)
  /\ pc' = "next"
  /\ UNCHANGED <<hash, bucket_seeds, pending, b, d, best_d>>

Place ==
  /\ Fits(b, d)
  /\ table' = Placed(b, d)
  /\ bucket_seeds' = [bucket_seeds EXCEPT ![b] = d]
  /\ pc' = "next"
  /\ UNCHANGED <<hash, pending, b, d, best_d>>

CoarseHit == pc = "coarse" /\ d < SeedLimit /\ Place

CoarseMiss ==
  /\ pc = "coarse" /\ d < SeedLimit
  /\ ~Fits(b, d)
  /\ best_d' = d
  /\ d' = d + CoarseStep
  /\ UNCHANGED <<hash, bucket_seeds, table, pending, b, pc>>

CoarseEnd ==
  /\ pc = "coarse" /\ d >= SeedLimit
  /\ d' = best_d + 1
  /\ pc' = "fine"
  /\ UNCHANGED <<hash, bucket_seeds, table, pending, b, best_d>>

(* Mutant: the dense pass stops one seed early.                            *)
InFineRangeShort == d - best_d < CoarseStep /\ d < SeedLimit - 1

(* delta = d - best_d runs over 1 .. CoarseStep - 1.                       *)
InFineRange == d - best_d < CoarseStep /\ d < SeedLimit

FineHit == pc = "fine" /\ InFineRange /\ Place

FineMiss ==
  /\ pc = "fine" /\ InFineRange
  /\ ~Fits(b, d)
  /\ d' = d + 1
  /\ UNCHANGED <<hash, bucket_seeds, table, pending, b, best_d, pc>>

(* `if (!found) std::unreachable();`: in a constant expression this stops  *)
(* the compilation, and nothing after it is evaluated.                     *)
GiveUp ==
  /\ pc = "fine" /\ ~InFineRange
  /\ pc' = "unreachable"
  /\ UNCHANGED <<hash, bucket_seeds, table, pending, b, d, best_d>>

ChdNext ==
  \/ PickBucket \/ Finish
  \/ CoarseHit \/ CoarseMiss \/ CoarseEnd
  \/ FineHit \/ FineMiss \/ GiveUp

ChdSpec == ChdInit /\ [][ChdNext]_chdVars

-----------------------------------------------------------------------------
ChdTypeOK ==
  /\ hash \in [Strings -> [Seeds -> Nat]]
  /\ bucket_seeds \in [Buckets -> Seeds]
  /\ table \in [Slots -> Index \cup {Empty}]
  /\ pending \subseteq Buckets
  /\ b \in Buckets \cup {NoBucket}
  /\ d \in 1 .. SeedLimit + CoarseStep
  /\ best_d \in 1 .. SeedLimit - 1
  /\ pc \in {"next", "coarse", "fine", "done", "unreachable"}
  /\ pc \in {"coarse", "fine", "unreachable"} => b \in Buckets \ pending

(* The bucket has got its seed and its slots.                              *)
Settled(bk) ==
  bk \notin pending /\ (pc \in {"coarse", "fine", "unreachable"} => bk # b)

(* Every key of a settled bucket is found under that bucket's seed, also   *)
(* after later buckets took their slots.                                   *)
SettledKeysFound ==
  \A i \in Index :
    Settled(BucketOf(KeyViews[i])) => ChdFind(KeyViews[i]) = i

(* What build_chd is for: in the finished table every key is its own       *)
(* candidate, whatever the hash function.                                  *)
PerfectHash == pc = "done" => \A i \in Index : ChdFind(KeyViews[i]) = i

(* Key i sits where a lookup of it will go, for good.                      *)
Owns(i, t) ==
  /\ Settled(BucketOf(KeyViews[i]))
  /\ SlotOf(KeyViews[i], bucket_seeds[BucketOf(KeyViews[i])]) = t

(* A filled slot belongs to a key of a settled bucket that hashes there,   *)
(* so a bucket is never half placed and no key sits in two slots.          *)
SlotsOwned == \A t \in Slots : table[t] # Empty => Owns(table[t], t)

(* No step overwrites or empties a filled slot: later buckets only take    *)
(* free slots ("table[slot] != -1 -> ok = false").                         *)
FilledSlotsStay == [][\A t \in Slots : table[t] # Empty => table'[t] = table[t]]_chdVars

(* The builder stops the compilation only after every seed its two passes  *)
(* cover was tried for the bucket and does not fit.                        *)
Tried == {s \in Seeds \ {0} : s % CoarseStep = 1 % CoarseStep \/ s > best_d}
GivesUpExhausted == pc = "unreachable" => \A s \in Tried : ~Fits(b, s)

=============================================================================
