---------------------------- MODULE FrozenRegex ----------------------------
(***************************************************************************)
(* frozen_regex: a pattern without quantifiers is parsed by recursive      *)
(* descent and every text it can match is enumerated while the program is  *)
(* compiled.  Parsing and enumerating are one recursion here: a rule at a  *)
(* position gives the texts it stands for and the position behind it, or   *)
(* Refused where the compiler stops with a message.                        *)
(***************************************************************************)
EXTENDS Integers, SequencesExt

CONSTANTS
  Ascii,       \* the characters, as a sequence in the order of their codes
  DotChars,    \* the characters a dot and a negated class choose from, a sequence
  MaxStrings   \* how many texts may be enumerated

Code(c) == CHOOSE i \in DOMAIN Ascii : Ascii[i] = c
CharRange(low, high) == SubSeq(Ascii, Code(low), Code(high))

Escapable == {"\\", ".", "[", "]", "(", ")", "|", "-", "^"}
Quantifiers == {"+", "*", "?", "{"}

Refused == [texts |-> <<>>, next |-> 0]
Ok(rule) == rule.next # 0
At(src, i, c) == i <= Len(src) /\ src[i] = c
BranchEnds(src, i) == i > Len(src) \/ src[i] \in {"|", ")"}

(* check_overflow stops the compiler at the first text too many.           *)
Enumerated(rule) == IF Len(rule.texts) > MaxStrings THEN Refused ELSE rule

OneEach(chars) == [k \in DOMAIN chars |-> <<chars[k]>>]

complement(excluded) == SelectSeq(OneEach(DotChars), LAMBDA c : ~Contains(excluded, c))

(* Every text of the one before every text of the other.                   *)
cartesian_concat(fronts, backs) ==
  [k \in 1 .. Len(fronts) * Len(backs) |->
     fronts[((k - 1) \div Len(backs)) + 1] \o backs[((k - 1) % Len(backs)) + 1]]

Extended(front, atom) ==
  IF ~Ok(front) \/ ~Ok(atom) THEN Refused
  ELSE Enumerated([texts |-> cartesian_concat(front.texts, atom.texts), next |-> atom.next])

Appended(rule, others) ==
  IF ~Ok(rule) \/ ~Ok(others) THEN Refused
  ELSE [texts |-> rule.texts \o others.texts, next |-> others.next]
-----------------------------------------------------------------------------
(* A character of a class or an atom: parse_class_char, parse_escape.      *)
parse_char(src, i) ==
  CASE i > Len(src) -> Refused
    [] i <= Len(src) /\ src[i] # "\\" -> [char |-> src[i], next |-> i + 1]
    [] At(src, i, "\\") /\ i < Len(src) /\ src[i + 1] \in Escapable ->
         [char |-> src[i + 1], next |-> i + 2]
    [] OTHER -> Refused

(* One character, as a rule of its own or as an item of a class.           *)
Literal(char) ==
  IF Ok(char) THEN [texts |-> << <<char.char>> >>, next |-> char.next] ELSE Refused

RangeTo(src, low, high) ==
  IF At(src, low.next + 1, "]") \/ ~Ok(high) \/ Code(low.char) > Code(high.char) THEN Refused
  ELSE [texts |-> OneEach(CharRange(low.char, high.char)), next |-> high.next]

ClassItem(src, low) ==
  IF Ok(low) /\ At(src, low.next, "-")
  THEN RangeTo(src, low, parse_char(src, low.next + 1))
  ELSE Literal(low)

(* The items from a position up to the closing bracket.                    *)
parse_class_items(src, from) ==
  LET items[i \in 1 .. Len(src) + 1] ==
        LET item == ClassItem(src, parse_char(src, i))
        IN  IF At(src, i, "]") THEN [texts |-> <<>>, next |-> i]
            ELSE IF Ok(item) THEN Appended(item, items[item.next]) ELSE Refused
  IN  items[from]

Class(negated, items) ==
  IF ~Ok(items) \/ items.texts = <<>> THEN Refused
  ELSE [texts |-> IF negated THEN complement(items.texts) ELSE items.texts, next |-> items.next + 1]

parse_char_class(src, i) ==
  IF At(src, i + 1, "^") THEN Class(TRUE, parse_class_items(src, i + 2))
  ELSE Class(FALSE, parse_class_items(src, i + 1))
-----------------------------------------------------------------------------
(* The rule at every position is a function, alt: a group asks it for what *)
(* is inside, and an alternative for what follows it.                      *)
InParentheses(src, inner) ==
  IF Ok(inner) /\ At(src, inner.next, ")") THEN [inner EXCEPT !.next = @ + 1] ELSE Refused

parse_group(src, i, alt) == InParentheses(src, alt[i + 1])

parse_atom(src, i, alt) ==
  CASE src[i] = "(" -> parse_group(src, i, alt)
    [] src[i] = "[" -> parse_char_class(src, i)
    [] src[i] = "." -> [texts |-> OneEach(DotChars), next |-> i + 1]
    [] src[i] \in Quantifiers -> Refused
    [] OTHER -> Literal(parse_char(src, i))

(* The atoms up to the end of the branch: every prefix is enumerated.      *)
parse_concat(src, from, alt) ==
  LET atoms[i \in from .. Len(src) + 1] ==
        LET atom == parse_atom(src, i, alt)
        IN  IF BranchEnds(src, i) THEN <<>>
            ELSE <<atom>> \o (IF Ok(atom) THEN atoms[atom.next] ELSE <<>>)
      Longer(front, atom) == Extended(Enumerated(front), atom)
  IN  IF BranchEnds(src, from) THEN Refused
      ELSE FoldLeft(Longer, Head(atoms[from]), Tail(atoms[from]))

Alternatives(src, first, alt) ==
  IF ~Ok(first) \/ ~At(src, first.next, "|") THEN first
  ELSE Enumerated(Appended(first, alt[first.next + 1]))

parse_alt(src) ==
  LET alt[i \in 1 .. Len(src) + 1] == Alternatives(src, parse_concat(src, i, alt), alt)
  IN  alt

Whole(src, root) == IF src # <<>> /\ root.next = Len(src) + 1 THEN root ELSE Refused
parse(src) == Whole(src, parse_alt(src)[1])

(* Its keys, each once, whether frozen_regex<src> compiles, and its        *)
(* contains, which finds them in a perfect hash table (ChdTable).          *)
keys(src) == Range(parse(src).texts)
Compiles(src) == Ok(parse(src)) /\ Cardinality(keys(src)) <= MaxStrings
contains(key_views, s) == s \in key_views
=============================================================================
