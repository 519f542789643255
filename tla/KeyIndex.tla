------------------------------ MODULE KeyIndex ------------------------------
(***************************************************************************)
(* What lookup_index promises its users (frozen_map, frozen_set, bimap,    *)
(* trie_map, the JSON key tables): the index is built while the program is *)
(* compiled, or the compilation stops; once built, a lookup answers the    *)
(* declaration index of the text if it is a key and size() if it is not.   *)
(***************************************************************************)
EXTENDS Integers

CONSTANTS
  Texts,     \* the texts that can be looked up
  KeyCount,  \* the number of keys, size()
  Keys       \* declaration index -> key, all distinct

Index == 0 .. KeyCount - 1

VARIABLES
  status,  \* "building", "ready" or "failed" (the program does not compile)
  asked,   \* the texts of the last lookup, empty before the first
  answer   \* its answer

vars == <<status, asked, answer>>

IndexOf(text) ==
  IF \E i \in Index : Keys[i] = text
  THEN CHOOSE i \in Index : Keys[i] = text
  ELSE KeyCount

Init ==
  /\ status = "building"
  /\ asked = {}
  /\ answer = KeyCount

Build ==
  /\ status = "building"
  /\ status' \in {"ready", "failed"}
  /\ UNCHANGED <<asked, answer>>

Lookup(text) ==
  /\ status = "ready"
  /\ asked' = {text}
  /\ answer' = IndexOf(text)
  /\ UNCHANGED status

Next == Build \/ \E text \in Texts : Lookup(text)

Spec == Init /\ [][Next]_vars
=============================================================================
