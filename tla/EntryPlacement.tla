--------------------------- MODULE EntryPlacement ---------------------------
(***************************************************************************)
(* How frozen_map, frozen_trie_map, frozen_bimap and frozen_multimap are   *)
(* built from an array of key-value entries in any order: try_make reports *)
(* what does not fit, the constructor (reorder_entries) stops.  One step   *)
(* is one round of the loop over the entries.  A value is the number of    *)
(* the entry it came with.                                                 *)
(***************************************************************************)
EXTENDS Integers, FiniteSets

CONSTANTS
  KeyCount,  \* sizeof...(Keys): keys and entries
  Texts      \* the texts that are keys of a container or of an entry

ASSUME PlacementAssumption ==
  /\ KeyCount \in Nat \ {0}
  /\ Texts \subseteq Int

Index == 0 .. KeyCount - 1
None == -1
Calls == {"map_try_make", "map_reorder", "multimap_try_make", "multimap_reorder"}

VARIABLES
  call,     \* which of the four functions runs
  keys,     \* Keys..., distinct unless the container is a multimap
  entries,  \* the keys of the entries
  entry,    \* the next entry of the loop
  values,   \* slot -> the entry whose value it holds, None when empty
  status    \* "placing", "made" or what went wrong

inputs == <<call, keys, entries>>
vars == <<call, keys, entries, entry, values, status>>

Multi == call \in {"multimap_try_make", "multimap_reorder"}
-----------------------------------------------------------------------------
Init ==
  /\ call \in Calls
  /\ keys \in [Index -> Texts]
  /\ ~Multi => \A i, j \in Index : keys[i] = keys[j] => i = j
  /\ entries \in [Index -> Texts]
  /\ entry = 0
  /\ values = [slot \in Index |-> None]
  /\ status = "placing"

Place(slot) ==
  /\ values' = [values EXCEPT ![slot] = entry]
  /\ entry' = entry + 1
  /\ UNCHANGED <<inputs, status>>

Fail(what) ==
  /\ status' = what
  /\ UNCHANGED <<inputs, entry, values>>

(* try_make and reorder_entries of frozen_map and frozen_trie_map: the     *)
(* slot is the index the key lookup answers.                               *)
PlaceByKey ==
  /\ status = "placing" /\ ~Multi /\ entry < KeyCount
  /\ \/ /\ \A i \in Index : keys[i] # entries[entry]
        /\ Fail("unknown key")
     \/ \E index \in Index :
          /\ keys[index] = entries[entry]
          /\ \/ values[index] # None /\ Fail("duplicate key")
             \/ values[index] = None /\ Place(index)

(* Mutant: a slot counts as free although a value stands in it.            *)
FreeSlotsTaken == {slot \in Index : keys[slot] = entries[entry]}

FreeSlots == {slot \in Index : values[slot] = None /\ keys[slot] = entries[entry]}

(* Mutant: the last free slot of the key is taken.                         *)
PlaceInLastFree ==
  /\ status = "placing" /\ Multi /\ entry < KeyCount
  /\ \E slot \in FreeSlots : (\A other \in FreeSlots : other <= slot) /\ Place(slot)

(* frozen_multimap: the first free slot with the entry's key.              *)
PlaceInFirstFree ==
  /\ status = "placing" /\ Multi /\ entry < KeyCount
  /\ \E slot \in FreeSlots : (\A other \in FreeSlots : slot <= other) /\ Place(slot)

(* No slot: try_make reports it, reorder_entries leaves the value out.     *)
NoFreeSlot ==
  /\ status = "placing" /\ Multi /\ entry < KeyCount
  /\ FreeSlots = {}
  /\ \/ call = "multimap_try_make" /\ Fail("unknown key")
     \/ /\ call = "multimap_reorder"
        /\ entry' = entry + 1
        /\ UNCHANGED <<inputs, values, status>>

(* Mutant: reorder_entries does not look for empty slots.                  *)
FinishUnchecked ==
  /\ status = "placing" /\ entry = KeyCount
  /\ status' = IF call # "multimap_reorder" /\ \E slot \in Index : values[slot] = None
               THEN "missing key" ELSE "made"
  /\ UNCHANGED <<inputs, entry, values>>

(* The second loop.                                                        *)
Finish ==
  /\ status = "placing" /\ entry = KeyCount
  /\ status' = IF \E slot \in Index : values[slot] = None THEN "missing key" ELSE "made"
  /\ UNCHANGED <<inputs, entry, values>>

Next == PlaceByKey \/ PlaceInFirstFree \/ NoFreeSlot \/ Finish

Spec == Init /\ [][Next]_vars
-----------------------------------------------------------------------------
(* The lookups of a multimap that was made.                                *)
Before(i, j) == keys[i] < keys[j] \/ (keys[i] = keys[j] /\ i < j)

(* sorted_indices_: position p holds the slot with p slots before it.      *)
sorted_index(p) == CHOOSE i \in Index : Cardinality({j \in Index : Before(j, i)}) = p

first_pos(key) == Cardinality({i \in Index : keys[i] < key})

last_pos(key) == Cardinality({i \in Index : keys[i] <= key})

(* equal_range(key): the values at the sorted positions of the key.        *)
equal_range(key) ==
  [n \in 1 .. last_pos(key) - first_pos(key) |-> values[sorted_index(first_pos(key) + n - 1)]]
-----------------------------------------------------------------------------
PlacementTypeOK ==
  /\ call \in Calls
  /\ keys \in [Index -> Texts] /\ entries \in [Index -> Texts]
  /\ entry \in 0 .. KeyCount
  /\ values \in [Index -> Index \cup {None}]
  /\ status \in {"placing", "made", "unknown key", "duplicate key", "missing key"}

(* A value only ever stands in a slot of its own key, and in one slot.     *)
ValuesInOwnSlots ==
  \A slot \in Index : values[slot] # None =>
    /\ entries[values[slot]] = keys[slot]
    /\ \A other \in Index : values[other] = values[slot] => other = slot

(* No value is dropped silently: a container is made only when every entry *)
(* has a slot, also by reorder_entries of the multimap, which passes over  *)
(* an entry without a slot and only counts empty slots in the end.         *)
NoValueLost ==
  status = "made" => \A e \in Index : \E slot \in Index : values[slot] = e

(* map.hpp:871, multimap.hpp:287: the entries are accepted exactly when    *)
(* their keys are the container's keys, each as often as it is declared.   *)
AcceptedExactlyWhenMatching ==
  status # "placing" =>
    (status = "made" <=>
       \A text \in Texts : Cardinality({i \in Index : keys[i] = text})
                             = Cardinality({i \in Index : entries[i] = text}))

(* multimap.hpp:285: equal keys keep the order of the entries: the range   *)
(* of a key holds exactly its values, in the order in which they were      *)
(* given.                                                                  *)
RangeInEntryOrder ==
  status = "made" /\ Multi =>
    \A text \in Texts :
      LET range == equal_range(text)
      IN  /\ {range[n] : n \in DOMAIN range} = {e \in Index : entries[e] = text}
          /\ \A m, n \in DOMAIN range : m < n => range[m] < range[n]

(* A placed value is neither moved nor replaced.                           *)
PlacedStay == [][\A slot \in Index : values[slot] # None => values'[slot] = values[slot]]_vars
=============================================================================
