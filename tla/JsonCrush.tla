----------------------------- MODULE JsonCrush -----------------------------
(***************************************************************************)
(* json::crush and json::uncrush: after the swap of structure characters,  *)
(* repeated substrings are replaced one after the other by unused          *)
(* characters, each with an entry "character, substring" put at the end of *)
(* the text.  One step is one round of the loop of js_crush_utf16.         *)
(* Characters are UTF-16 units; the UTF-8 codecs around are left out.      *)
(***************************************************************************)
EXTENDS Integers, SequencesExt, FiniteSetsExt

CONSTANTS
  Units,         \* UTF-16 units
  Inputs,        \* the texts that are crushed
  Replacements,  \* replacement_characters_utf16, used from the end
  MaxLen,        \* 50, one more than the longest candidate
  Code,          \* unit -> its number
  HashBase, HashSize,  \* 1000003 and 2^64
  High, Low      \* surrogates: units that only make sense in this order

Delimiter == "U+0001"

VARIABLES
  input,       \* the text
  string,      \* the text with its entries
  candidates,  \* substrings that may be replaced, with their counts
  replacePos,  \* replacement characters not tried yet
  split,       \* the replacement characters in use, the last one first
  status       \* "crushing" or "done"

vars == <<input, string, candidates, replacePos, split, status>>
-----------------------------------------------------------------------------
(* json_crush_swap: five pairs of JSON structure characters and shorter or *)
(* rarer marks change places, first to last when crushing and last to      *)
(* first when the text is restored; " is written dq and ' is written sq.   *)
Groups == << << <<"dq">>, <<"sq">> >>,
             << <<"sq", ":">>, <<"!">> >>,
             << <<",", "sq">>, <<"~">> >>,
             << <<"}">>, <<")">> >>,
             << <<"{">>, <<"(">> >> >>

SwapMarks == {"dq", "sq", ":", "!", ",", "~", "}", ")", "{", "("}

(* JSON_CRUSH_DELIMITER is none of replacement_characters_utf16, and none  *)
(* of those or of the marks is a surrogate.                                *)
ASSUME UnitsAssumption ==
  /\ SwapMarks \cup {Delimiter} \subseteq Units
  /\ Inputs \subseteq Seq(Units)
  /\ Replacements \in Seq(Units)
  /\ MaxLen \in Nat
  /\ Delimiter \notin Range(Replacements)
  /\ High \cap Low = {}
  /\ (High \cup Low) \cap (SwapMarks \cup {Delimiter} \cup Range(Replacements)) = {}

(* One pass from left to right in which a becomes x and b becomes y.       *)
Pass(s, a, x, b, y) ==
  LET behind(t, front) == SubSeq(t, Len(front) + 1, Len(t))
      pass[t \in Seq(Units)] ==
        IF t = <<>> THEN <<>>
        ELSE IF IsPrefix(a, t) THEN x \o pass[behind(t, a)]
        ELSE IF IsPrefix(b, t) THEN y \o pass[behind(t, b)]
        ELSE <<Head(t)>> \o pass[Tail(t)]
  IN  pass[s]

Apply(s, a, b) == Pass(s, a, b, b, a)

(* What a loop of find and replace leaves.                                 *)
Replaced(s, old, new) == Pass(s, old, new, old, new)

json_crush_swap(s, forward) ==
  LET swap(text, k) == Apply(text, Groups[k][1], Groups[k][2])
  IN  IF forward THEN swap(swap(swap(swap(swap(s, 1), 2), 3), 4), 5)
                 ELSE swap(swap(swap(swap(swap(s, 5), 4), 3), 2), 1)
-----------------------------------------------------------------------------
Sub(s, pos, len) == SubSeq(s, pos, pos + len - 1)

Occurrences(s, sub) == {p \in 1 .. Len(s) - Len(sub) + 1 : Sub(s, p, Len(sub)) = sub}

(* str.rfind; 0 is npos.                                                   *)
RFind(s, char) ==
  LET found == {p \in DOMAIN s : s[p] = char}
  IN  IF found = {} THEN 0 ELSE Max(found)

(* RollingHash::slice.                                                     *)
Hash(s) == FoldLeft(LAMBDA h, c : (h * HashBase + Code[c]) % HashSize, 0, s)

has_unmatched_surrogate(s) ==
  \E i \in DOMAIN s :
    \/ s[i] \in High /\ (i = Len(s) \/ s[i + 1] \notin Low)
    \/ s[i] \in Low  /\ (i = 1 \/ s[i - 1] \notin High)

(* greedy_non_overlapping_count: from the left, none inside the one before.*)
Greedy(positions, len) ==
  LET later(p) == {q \in positions : q >= p + len}
      from[p \in positions] == 1 + (IF later(p) = {} THEN 0 ELSE from[Min(later(p))])
  IN  IF positions = {} THEN 0 ELSE from[Min(positions)]

(* The slices of one length with one hash value, as a set of positions, for *)
(* every value that occurs twice or more without overlap.                  *)
repeated_slices(s, len) ==
  LET hash == [p \in 1 .. Len(s) - len + 1 |-> Hash(Sub(s, p, len))]
      groups == {{p \in DOMAIN hash : hash[p] = h} : h \in Range(hash)}
  IN  {g \in groups : Greedy(g, len) > 1}

(* Mutant: surrogate pairs may be torn.                                    *)
BuildWithTornPairs(s) ==
  UNION {{[value |-> Sub(s, Min(g), len), count |-> Greedy(g, len)] : g \in repeated_slices(s, len)} :
         len \in 2 .. MaxLen - 1}

(* build_initial_candidates: a group is known by its first slice.          *)
build_initial_candidates(s) ==
  UNION {{[value |-> Sub(s, Min(g), len), count |-> Greedy(g, len)] :
            g \in {g \in repeated_slices(s, len) : ~has_unmatched_surrogate(Sub(s, Min(g), len))}} :
         len \in 2 .. MaxLen - 1}

(* replace_all_with_char: data_end is the end of the string in every call, *)
(* since js_crush_utf16 moves it there after each entry.                   *)
replace_all_with_char(s, from, to) == Replaced(s, from, <<to>>)

count_candidates(s, values) ==
  {[value |-> v, count |-> Greedy(Occurrences(s, v), Len(v))] : v \in values}

Delta(c) ==
  (c.count - 1) * Len(c.value) - (c.count + 1) - (IF split = <<>> THEN 1 ELSE 0)
-----------------------------------------------------------------------------
(* crush takes the delimiter out of the text and swaps.                    *)
WithoutDelimiter(text) == Replaced(text, <<Delimiter>>, <<>>)
Swapped(text) == json_crush_swap(WithoutDelimiter(text), TRUE)

Init ==
  /\ input \in Inputs
  /\ string = Swapped(input)
  /\ candidates = build_initial_candidates(string)
  /\ replacePos = Len(Replacements)
  /\ split = <<>>
  /\ status = "crushing"

(* The next replacement character that is not in the text, 0 if none.      *)
NextUnused ==
  LET unused == {i \in 1 .. replacePos : ~Contains(string, Replacements[i])}
  IN  IF unused = {} THEN 0 ELSE Max(unused)

(* Mutant: a candidate is as good as any other.                            *)
KeptAny == candidates

Kept == {c \in candidates : Delta(c) > 0}

Entry(char, best) == <<char>> \o best.value

(* Mutant: a character may stand in the text already.                      *)
RoundWithAnyChar ==
  /\ status = "crushing"
  /\ replacePos # 0 /\ Kept # {}
  /\ replacePos' = replacePos - 1
  /\ \E best \in Kept :
       LET char == Replacements[replacePos]
           shrunk == replace_all_with_char(string, best.value, char)
           rest == {replace_all_with_char(c.value, best.value, char) : c \in Kept}
       IN  /\ \A c \in Kept : Delta(c) <= Delta(best)
           /\ string' = shrunk \o Entry(char, best)
           /\ split' = <<char>> \o split
           /\ candidates' = count_candidates(string', {v \in rest : Len(v) >= 2})
  /\ UNCHANGED <<input, status>>

(* One round: the candidate that saves most, the first in the order of the *)
(* hash values if several do, is replaced by the next unused character.    *)
Round ==
  /\ status = "crushing"
  /\ NextUnused # 0 /\ Kept # {}
  /\ replacePos' = NextUnused - 1
  /\ \E best \in Kept :
       LET char == Replacements[NextUnused]
           shrunk == replace_all_with_char(string, best.value, char)
           rest == {replace_all_with_char(c.value, best.value, char) : c \in Kept}
       IN  /\ \A c \in Kept : Delta(c) <= Delta(best)
           /\ string' = shrunk \o Entry(char, best)
           /\ split' = <<char>> \o split
           /\ candidates' = count_candidates(string', {v \in rest : Len(v) >= 2})
  /\ UNCHANGED <<input, status>>

Stop ==
  /\ status = "crushing"
  /\ NextUnused = 0 \/ Kept = {}
  /\ status' = "done"
  /\ UNCHANGED <<input, string, candidates, replacePos, split>>

Next == Round \/ Stop

Spec == Init /\ [][Next]_vars

(* What crush returns.                                                     *)
Crushed(text, chars) ==
  text \o (IF chars = <<>> THEN <<>> ELSE <<Delimiter>> \o chars) \o <<"_">>
-----------------------------------------------------------------------------
(* uncrush: entries are taken off in the order of split, each character    *)
(* replaced by what stands behind its last occurrence.                     *)
TakenOff(data, char) ==
  LET p == RFind(data, char)
  IN  Replaced(SubSeq(data, 1, p - 1), <<char>>, SubSeq(data, p + 1, Len(data)))

Expand(body, chars) ==
  LET data[k \in 0 .. Len(chars)] == IF k = 0 THEN body ELSE TakenOff(data[k - 1], chars[k])
  IN  data[Len(chars)]

uncrush_to_string(text) ==
  LET u16 == Front(text)
      delim == RFind(u16, Delimiter)
      body == IF delim = 0 THEN u16 ELSE SubSeq(u16, 1, delim - 1)
      chars == IF delim = 0 THEN <<>> ELSE SubSeq(u16, delim + 1, Len(u16))
  IN  json_crush_swap(Expand(body, chars), FALSE)
-----------------------------------------------------------------------------

(* crush.hpp:59: at any time taking off the entries, the last one first,   *)
(* gives the swapped text back, although a later round also rewrites the   *)
(* entries of earlier ones; and what crush returns, uncrush turns back     *)
(* into the text, delimiters left out: the swap is undone, and the parts   *)
(* are told apart.                                                         *)
RoundTrip ==
  /\ Expand(string, split) = Swapped(input)
  /\ status = "done" =>
       uncrush_to_string(Crushed(string, split)) = WithoutDelimiter(input)

(* No round tears a surrogate pair, so the result can be written as UTF-8. *)
PairsStayWhole == ~has_unmatched_surrogate(input) => ~has_unmatched_surrogate(string)

(* A round never makes the result longer, its entry, its character and the *)
(* delimiter counted.                                                      *)
RoundsNeverLengthen ==
  [][Len(Crushed(string', split')) <= Len(Crushed(string, split))]_vars

=============================================================================
