----------------------------- MODULE Characters -----------------------------
(***************************************************************************)
(* The characters of a FrozenString, bytes 0 .. 255, and the predicates    *)
(* and digits of detail/char_utils.hpp.  A text is a sequence of bytes.    *)
(***************************************************************************)
EXTENDS Integers, Sequences

NUL == 0
Tab == 9
LF == 10
CR == 13
Space == 32

Printable == " !\"#$%&'()*+,-./0123456789:;<=>?@ABCDEFGHIJKLMNOPQRSTUVWXYZ[\\]^_\tabcdefghijklmnopqrstuvwxyz{|}~"

(* The byte of a printable character, the bytes of a string of them; a     *)
(* backquote, which no string can hold, is written as a tab.               *)
Code == [c \in {SubSeq(Printable, i, i) : i \in 1 .. Len(Printable)} |->
           31 + (CHOOSE i \in 1 .. Len(Printable) : SubSeq(Printable, i, i) = c)]
Text(s) == [i \in 1 .. Len(s) |-> Code[SubSeq(s, i, i)]]

(* A to Z, a to z and 0 to 9; the hexadecimal digits go up to F and f.     *)
Upper == 65 .. 90
Lower == 97 .. 122
Digit == 48 .. 57
Alpha == Upper \cup Lower

Whitespace == {Space, Tab, LF, CR, 12, 11}
HexDigits == Digit \cup (97 .. 102) \cup (65 .. 70)
Unreserved == Alpha \cup Digit \cup {Code["-"], Code["."], Code["_"], Code["~"]}

to_upper(c) == IF c \in Lower THEN c - 32 ELSE c
to_lower(c) == IF c \in Upper THEN c + 32 ELSE c

hex_digit_to_value(c) ==
  IF c \in Digit THEN c - 48 ELSE 10 + to_lower(c) - 97
value_to_hex_digit(v, uppercase) ==
  IF v < 10 THEN Code["0"] + v ELSE (IF uppercase THEN Code["A"] ELSE Code["a"]) + v - 10

parse_hex_byte(hi, lo) == 16 * hex_digit_to_value(hi) + hex_digit_to_value(lo)
HexPair(byte, uppercase) ==
  <<value_to_hex_digit(byte \div 16, uppercase), value_to_hex_digit(byte % 16, uppercase)>>

base64_chars == Text("ABCDEFGHIJKLMNOPQRSTUVWXYZabcdefghijklmnopqrstuvwxyz0123456789+/")
Base64 == {base64_chars[i] : i \in DOMAIN base64_chars}
base64_char_to_value(c) ==
  CASE c \in Upper -> c - Code["A"]
    [] c \in Lower -> c - Code["a"] + 26
    [] c \in Digit -> c - Code["0"] + 52
    [] c = Code["+"] -> 62
    [] c = Code["/"] -> 63
    [] OTHER -> 255
-----------------------------------------------------------------------------
(* A FrozenString<N>: the size N of its buffer and the text before the NUL. *)
Frozen(n, t) == [size |-> n, text |-> t]
Literal(t) == Frozen(Len(t) + 1, t)
Same(f, t) == Frozen(f.size, t)

(* How a function goes through a text: at each place it reads some         *)
(* characters and writes others.                                           *)
Write(s, n) == [out |-> s, used |-> n]

Walk(t, Part(_, _)) ==
  LET from[i \in 1 .. Len(t) + 8] ==
        IF i > Len(t) THEN <<>>
        ELSE LET p == Part(t, i) IN p.out \o from[i + p.used]
  IN  from[1]

(* s stands in t at place i.                                               *)
StartsAt(t, i, s) == i > 0 /\ i + Len(s) - 1 <= Len(t) /\ SubSeq(t, i, i + Len(s) - 1) = s

Times(n, s) == [i \in 1 .. n * Len(s) |-> s[1 + ((i - 1) % Len(s))]]
Cut(t, n) == SubSeq(t, 1, IF n < Len(t) THEN n ELSE Len(t))
Rest(t, i) == SubSeq(t, i, Len(t))
Smaller(a, b) == IF a < b THEN a ELSE b
Larger(a, b) == IF a < b THEN b ELSE a

(* The number of characters at the beginning that are in a set, and at the *)
(* end.                                                                    *)
Leading(t, S) ==
  CHOOSE n \in 0 .. Len(t) : (n = Len(t) \/ t[n + 1] \notin S) /\ \A i \in 1 .. n : t[i] \in S
Trailing(t, S) ==
  LET n[i \in 0 .. Len(t)] == IF i > 0 /\ t[i] \in S THEN 1 + n[i - 1] ELSE 0
  IN  n[Len(t)]
=============================================================================
