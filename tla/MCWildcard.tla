----------------------------- MODULE MCWildcard -----------------------------
(* Small instances of Wildcard: patterns put together from up to three     *)
(* pieces and some longer ones, on texts of up to three characters.        *)
EXTENDS Wildcard

MCAscii == <<"!", "(", ")", "*", "-", "?", "[", "\\", "]", "^", "a", "b", "|">>
MCDotChars == <<"a", "b">>

Core ==
  {<<"*">>, <<"?">>, <<"a">>, <<"a", "b">>, <<"[", "a", "]">>,
   <<"(", "a", "|", "a", "b", ")">>, <<"(", "*", "|", "b", ")">>}
Pieces ==
  Core \cup {<<"[", "!", "a", "]">>, <<"[", "a", "-", "b", "]">>, <<"(", "a", "|", ")">>,
             <<"\\", "a">>, <<"\\", "(">>, <<"\\">>, <<"(">>, <<")">>, <<"[">>, <<"|">>}

Joined(pieces, n) == {FlattenSeq(list) : list \in [1 .. n -> pieces]}

(* Overlapping ends, a group at a position behind the text left for it,    *)
(* groups in groups, and brackets with marks of groups in them.            *)
Longer ==
  {<<"[", "a", "]", "b", "*", "b">>,
   <<"a", "b", "(", "b", "|", ")", "*", "b">>, <<"a", "b", "(", "*", ")", "*", "b">>,
   <<"(", "a", "(", "b", "|", "a", ")", "*", "|", "b", ")", "a">>,
   <<"(", "[", ")", "]", ")">>, <<"(", "a", "\\", "|", "b", ")">>, <<"[", "-", "a", "]">>,
   <<"[", "!", "-", "b", "]">>, <<"[", "b", "-", "a", "]", "*">>, <<"[", "a", "-", "]">>,
   <<"*", "(", "a", "|", ")", "b">>, <<"[", "a", "[", "!", "]">>}

MCPatterns == UNION {Joined(Pieces, n) : n \in 0 .. 2} \cup Joined(Core, 3) \cup Longer

MCTexts == UNION {[1 .. k -> {"a", "b"}] : k \in 0 .. 3} \cup {<<c>> : c \in Range(MCAscii)}
             \cup {<<"[", ")", "]">>}
=============================================================================
