------------------------------ MODULE KeyHash ------------------------------
(***************************************************************************)
(* What the table builders of map.hpp share: the key list of a frozen_map  *)
(* (template parameters Keys...), the seeds they search and the seeded     *)
(* hash function hash_impl.  The hash function is any member of            *)
(* HashFamily, picked once: nothing below depends on CRC32C.               *)
(***************************************************************************)
EXTENDS Integers

CONSTANTS
  Strings,     \* the texts that can be keys or be looked up
  KeyCount,    \* sizeof...(Keys)
  KeyViews,    \* key_views: index -> text, in declaration order
  SeedLimit,   \* kSeedLimit (1'000'000)
  CoarseStep,  \* kCoarseStep (16)
  NarrowHalf,  \* 2^(w-1) for the narrow index type (128 for int8_t)
  WideHalf,    \* 2^(w-1) for the next index type (32768 for int16_t)
  HashFamily   \* the hash functions considered: text -> seed -> number

VARIABLE hash  \* the hash function, fixed for the whole behaviour

Index == 0 .. KeyCount - 1
Seeds == 0 .. SeedLimit - 1
Empty == -1

(* Keys are distinct (static_assert on has_duplicate_keys; the enumerator  *)
(* of frozen_regex removes duplicates).                                    *)
ASSUME KeysAssumption ==
  /\ KeyCount \in Nat \ {0}
  /\ KeyViews \in [Index -> Strings]
  /\ \A i, j \in Index : KeyViews[i] = KeyViews[j] => i = j

ASSUME SeedsAssumption ==
  /\ SeedLimit \in Nat /\ SeedLimit > 1
  /\ CoarseStep \in Nat \ {0}

ASSUME IndexTypesAssumption ==
  /\ NarrowHalf \in Nat \ {0} /\ WideHalf \in Nat \ {0}
  /\ KeyCount <= WideHalf

ASSUME HashAssumption == HashFamily \subseteq [Strings -> [Seeds -> Nat]]
-----------------------------------------------------------------------------

(* index_type_t<KeyCount>: half the range of the smallest signed type kept *)
(* for indices, and static_cast to it (two's complement).                  *)
IndexHalf == IF KeyCount < NarrowHalf - 1 THEN NarrowHalf ELSE WideHalf
ToIndex(i) == ((i + IndexHalf) % (2 * IndexHalf)) - IndexHalf
=============================================================================
