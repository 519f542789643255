---------------------------- MODULE LookupIndex ----------------------------
(***************************************************************************)
(* lookup_index of map.hpp: the key index behind frozen_map, frozen_set,   *)
(* bimap and the tables made from them.  It composes the one-level table   *)
(* (LookupTable), the displacement table (ChdTable), a sorted key list and *)
(* a length table, and picks among them by the number and lengths of the   *)
(* keys.  Tables are computed while the program is compiled; lookups       *)
(* happen while it runs.                                                   *)
(*                                                                         *)
(* Texts are numbers in the order of std::string_view's operator<.  The    *)
(* 16-byte packed comparison of key_equals is modelled by its result; the  *)
(* casts to index_t are left out here (LookupIndexProofs shows them exact). *)
(***************************************************************************)
EXTENDS LookupTable, ChdTable

CONSTANTS
  Length,           \* text -> number of characters
  LookupThreshold,  \* k_lookup_threshold (64)
  ChdThreshold      \* k_chd_threshold (256)

VARIABLES
  phase,   \* "compiling", "running" or "stopped" (the compilation failed)
  asked,   \* the text of the last lookup, {} before the first
  answer   \* what find_index_raw returned for it

callVars == <<phase, asked, answer>>
vars == <<hash, seedSearchVars, chdBuildVars, callVars>>

NotFound == KeyCount   \* size(), the sentinel

ASSUME TextsAssumption ==
  /\ Strings \subseteq Nat
  /\ Length \in [Strings -> Nat]
  /\ LookupThreshold \in Nat /\ ChdThreshold \in Nat
  /\ LookupThreshold <= ChdThreshold

UseLookupTable  == KeyCount <= LookupThreshold
UseBinarySearch == KeyCount > LookupThreshold /\ KeyCount <= ChdThreshold
UseChd          == KeyCount > ChdThreshold

Pow2[k \in Nat] == IF k = 0 THEN 1 ELSE 2 * Pow2[k - 1]
next_pow2(n) == Pow2[CHOOSE k \in 0 .. n : Pow2[k] >= n /\ (k > 0 => Pow2[k - 1] < n)]

(* Load factor 1/4 for the table, 1/2 for the displacement table.          *)
ASSUME TableSizes ==
  /\ LookupTableSize = IF UseLookupTable THEN next_pow2(KeyCount * 4) ELSE 1
  /\ ChdBucketCount = IF UseLookupTable THEN 1 ELSE next_pow2(KeyCount)
  /\ ChdTableSize = IF UseLookupTable THEN 1 ELSE next_pow2(KeyCount * 2)
-----------------------------------------------------------------------------
KeyLength(i) == Length[KeyViews[i]]

AllLengthsUnique == \A i, j \in Index : KeyLength(i) = KeyLength(j) => i = j

(* len <= k_max_key_len_ && valid_lengths_[len]                            *)
ValidLength(len) == \E i \in Index : KeyLength(i) = len

(* length_to_index_: later keys overwrite earlier ones of their length.    *)
LengthToIndex(len) ==
  IF ValidLength(len)
  THEN CHOOSE i \in Index :
         KeyLength(i) = len /\ \A j \in Index : KeyLength(j) = len => j <= i
  ELSE Empty

KeysBefore(text) == {j \in Index : KeyViews[j] < text}

(* std::ranges::sort of key_views_: position p holds the key with p keys   *)
(* before it.                                                              *)
SortedIndices(p) == CHOOSE i \in Index : Cardinality(KeysBefore(KeyViews[i])) = p
SortedKeyViews(p) == KeyViews[SortedIndices(p)]

(* std::ranges::lower_bound: the first position whose key is not before.   *)
LowerBound(text) == Cardinality(KeysBefore(text))

key_equals(text, i) == KeyViews[i] = text

(* A candidate is only an answer when its key is the text.                 *)
Checked(text, candidate) ==
  IF candidate # Empty /\ key_equals(text, candidate) THEN candidate ELSE NotFound

FindSorted(text) ==
  LET it == LowerBound(text)
  IN  IF it = KeyCount \/ SortedKeyViews(it) # text THEN NotFound ELSE SortedIndices(it)

find_index_raw(text) ==
  IF AllLengthsUnique
  THEN Checked(text, LengthToIndex(Length[text]))
  ELSE IF ~ValidLength(Length[text]) THEN NotFound
  ELSE IF UseLookupTable THEN Checked(text, Candidate(text))
  ELSE IF UseBinarySearch THEN FindSorted(text)
  ELSE Checked(text, ChdFind(text))
-----------------------------------------------------------------------------
Init ==
  /\ hash \in HashFamily
  /\ SeedInitSearch
  /\ ChdInitBuild
  /\ phase = "compiling"
  /\ asked = {}
  /\ answer = NotFound

(* find_index_raw names metadata_ in every program with at most            *)
(* k_lookup_threshold keys, even one whose lengths alone decide, and chd_  *)
(* only above k_chd_threshold: a static member of a template that is not   *)
(* named is not computed.                                                  *)
SearchSeed ==
  /\ phase = "compiling" /\ UseLookupTable
  /\ SeedNext
  /\ UNCHANGED <<chdBuildVars, callVars>>

BuildChd ==
  /\ phase = "compiling" /\ UseChd
  /\ ChdNext
  /\ UNCHANGED <<seedSearchVars, callVars>>

TablesReady ==
  /\ UseLookupTable => search = "found"
  /\ UseChd => pc = "done"

CompileEnds ==
  /\ phase = "compiling"
  /\ TablesReady
  /\ phase' = "running"
  /\ UNCHANGED <<hash, seedSearchVars, chdBuildVars, asked, answer>>

(* std::unreachable() in a constant expression: the program is ill-formed. *)
CompileStops ==
  /\ phase = "compiling"
  /\ \/ UseLookupTable /\ search = "unreachable"
     \/ UseChd /\ pc = "unreachable"
  /\ phase' = "stopped"
  /\ UNCHANGED <<hash, seedSearchVars, chdBuildVars, asked, answer>>

Compile == SearchSeed \/ BuildChd \/ CompileEnds \/ CompileStops

Find(text) ==
  /\ phase = "running"
  /\ asked' = {text}
  /\ answer' = find_index_raw(text)
  /\ UNCHANGED <<hash, seedSearchVars, chdBuildVars, phase>>

Next == Compile \/ \E text \in Strings : Find(text)

(* The compiler evaluates constant expressions to their end; the program   *)
(* need not look anything up.                                              *)
Spec == Init /\ [][Next]_vars /\ WF_vars(Compile)
-----------------------------------------------------------------------------
status ==
  CASE phase = "compiling" -> "building"
    [] phase = "running"   -> "ready"
    [] phase = "stopped"   -> "failed"

Promise == INSTANCE KeyIndex WITH Texts <- Strings, Keys <- KeyViews

(* lookup_index keeps the promise of a key index: once the tables are      *)
(* computed every text, key or not, of any length, is answered as KeyIndex *)
(* says, whichever strategy the key list selects.                          *)
IndexPromise == Promise!Spec

(* The compiler's work on the tables ends, with tables or with an error.   *)
CompileFinishes == <>(phase # "compiling")
=============================================================================
