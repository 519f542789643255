--------------------------- MODULE MCLookupIndex ---------------------------
(* Small instances of LookupIndex: one key list per strategy, looked up    *)
(* with keys, texts of a key's length, shorter, longer and empty ones.     *)
EXTENDS LookupIndex

MCStrings == 1 .. 7
MCLength == [x \in MCStrings |-> <<0, 1, 1, 2, 2, 4, 5>>[x]]

SharedLengths == [i \in 0 .. 3 |-> <<5, 2, 6, 3>>[i + 1]]

(* Spread out, two by two, crossing the sizes of the tables, all equal.    *)
Patterns == {[x \in MCStrings |-> x], [x \in MCStrings |-> x \div 2],
             [x \in MCStrings |-> 19 * x], [x \in MCStrings |-> 3]}

MCHashes ==
  {[x \in MCStrings |-> [s \in 0 .. SeedLimit - 1 |-> pattern[s][x]]] :
   pattern \in [0 .. SeedLimit - 1 -> Patterns]}
=============================================================================
