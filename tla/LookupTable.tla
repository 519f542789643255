---------------------------- MODULE LookupTable ----------------------------
(***************************************************************************)
(* The one-level table of lookup_index for up to 64 keys: find_lookup_seed *)
(* of map.hpp searches, while the program is compiled, a hash seed that    *)
(* sends all keys to distinct slots, first in steps of kCoarseStep from 0  *)
(* and then one by one behind the last coarse seed.                        *)
(*                                                                         *)
(* A step of the model is one seed with its whole inner loop.  The loop    *)
(* fills a fresh table each time and gives it up at the first collision,   *)
(* so only the table of a seed that fits is kept.                          *)
(***************************************************************************)
EXTENDS KeyHash

CONSTANT LookupTableSize  \* template parameter TableSize

LookupSlots == 0 .. LookupTableSize - 1

ASSUME LookupSizesAssumption == LookupTableSize \in Nat \ {0}

VARIABLES
  seed,          \* the seed about to be tried; the chosen one when found
  best_seed,     \* the last coarse seed that collided
  lookup_table,  \* lookup_seed_result::table, slot -> key index or Empty
  search         \* "coarse", "fine", "found" or "unreachable"

seedSearchVars == <<seed, best_seed, lookup_table, search>>
seedVars == <<hash, seedSearchVars>>
-----------------------------------------------------------------------------
LookupSlot(key, s) == hash[key][s] % LookupTableSize

(* Mutant: only neighbouring keys are compared.                            *)
CollisionAdjacent(s) ==
  \E i \in Index : i + 1 \in Index /\ LookupSlot(KeyViews[i], s) = LookupSlot(KeyViews[i + 1], s)

(* The inner loop meets a slot an earlier key has taken.                   *)
Collision(s) ==
  \E i, j \in Index : i # j /\ LookupSlot(KeyViews[i], s) = LookupSlot(KeyViews[j], s)

(* The table after the inner loop without a collision.                     *)
Filled(s) ==
  [t \in LookupSlots |->
     IF \E i \in Index : LookupSlot(KeyViews[i], s) = t
     THEN ToIndex(CHOOSE i \in Index : LookupSlot(KeyViews[i], s) = t)
     ELSE ToIndex(Empty)]

(* The candidate index for a text; the caller compares the key.            *)
Candidate(key) == lookup_table[LookupSlot(key, seed)]
-----------------------------------------------------------------------------
SeedInitSearch ==
  /\ seed = 0
  /\ best_seed = 0
  /\ lookup_table = [t \in LookupSlots |-> ToIndex(Empty)]
  /\ search = "coarse"

SeedInit == hash \in HashFamily /\ SeedInitSearch

(* Mutant: the result names best_seed instead of the seed that fits.       *)
SeedFoundWithBest ==
  /\ ~Collision(seed)
  /\ lookup_table' = Filled(seed)
  /\ search' = "found"
  /\ seed' = best_seed
  /\ UNCHANGED <<hash, best_seed>>

SeedFound ==
  /\ ~Collision(seed)
  /\ lookup_table' = Filled(seed)
  /\ search' = "found"
  /\ UNCHANGED <<hash, seed, best_seed>>

SeedHit == search = "coarse" /\ seed < SeedLimit /\ SeedFound

(* Mutant: the coarse loop does not advance.                               *)
SeedMissStuck ==
  /\ search = "coarse" /\ seed < SeedLimit
  /\ Collision(seed)
  /\ best_seed' = seed
  /\ UNCHANGED <<hash, seed, lookup_table, search>>

SeedMiss ==
  /\ search = "coarse" /\ seed < SeedLimit
  /\ Collision(seed)
  /\ best_seed' = seed
  /\ seed' = seed + CoarseStep
  /\ UNCHANGED <<hash, lookup_table, search>>

SeedCoarseEnd ==
  /\ search = "coarse" /\ seed >= SeedLimit
  /\ seed' = best_seed + 1
  /\ search' = "fine"
  /\ UNCHANGED <<hash, best_seed, lookup_table>>

(* delta = seed - best_seed runs over 1 .. CoarseStep - 1.                 *)
InDenseRange == seed - best_seed < CoarseStep /\ seed < SeedLimit

DenseHit == search = "fine" /\ InDenseRange /\ SeedFound

DenseMiss ==
  /\ search = "fine" /\ InDenseRange
  /\ Collision(seed)
  /\ seed' = seed + 1
  /\ UNCHANGED <<hash, best_seed, lookup_table, search>>

(* std::unreachable(): the compilation stops.                              *)
SeedGiveUp ==
  /\ search = "fine" /\ ~InDenseRange
  /\ search' = "unreachable"
  /\ UNCHANGED <<hash, seed, best_seed, lookup_table>>

SeedNext == SeedHit \/ SeedMiss \/ SeedCoarseEnd \/ DenseHit \/ DenseMiss \/ SeedGiveUp

SeedSpec == SeedInit /\ [][SeedNext]_seedVars

-----------------------------------------------------------------------------
SeedTypeOK ==
  /\ hash \in [Strings -> [Seeds -> Nat]]
  /\ seed \in 0 .. SeedLimit + CoarseStep
  /\ best_seed \in Seeds
  /\ lookup_table \in [LookupSlots -> Index \cup {Empty}]
  /\ search \in {"coarse", "fine", "found", "unreachable"}
  /\ search = "found" => seed \in Seeds

(* find_lookup_seed returns a table in which every key is its own          *)
(* candidate under the returned seed, whatever the hash function.          *)
TableIsPerfect ==
  search = "found" => \A i \in Index : Candidate(KeyViews[i]) = i

(* The returned table holds no entry but the keys': a text that is no key  *)
(* meets Empty or a key that really hashes to its slot.                    *)
TableHoldsOnlyKeys ==
  search = "found" =>
    \A t \in LookupSlots : lookup_table[t] # Empty =>
                       LookupSlot(KeyViews[lookup_table[t]], seed) = t

=============================================================================
