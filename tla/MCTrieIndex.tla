---------------------------- MODULE MCTrieIndex ----------------------------
(* Small instances of TrieIndex: every list of up to three keys out of     *)
(* nine, prefixes of one another among them, with the types narrowed to    *)
(* eight values, and longer lists that the static_asserts refuse.          *)
EXTENDS TrieIndex

MCTexts == {<<>>, <<1>>, <<2>>, <<3>>, <<1, 1>>, <<1, 2>>, <<2, 1>>, <<1, 2, 1>>, <<1, 2, 3>>}

MCKeyLists ==
  UNION {[1 .. n -> MCTexts] : n \in 1 .. 3}
    \cup {<< <<1>>, <<2>>, <<3>>, <<1, 2>>, <<2, 1>> >>,
          << <<1, 2, 1>>, <<1, 2, 3>>, <<1, 1>>, <<>>, <<3>> >>}

MCQueries == MCTexts \cup {<<4>>, <<1, 3>>, <<1, 2, 2>>, <<1, 2, 1, 1>>, <<2, 1, 1>>, <<1, 1, 2, 1>>}
=============================================================================
