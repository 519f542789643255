----------------------------- MODULE Encodings ------------------------------
(***************************************************************************)
(* The encodings of encoding.hpp: UTF-8, with decoding that never fails (a *)
(* byte that is no part of a sequence stands for itself), encoding and the *)
(* strict check; hexadecimal, URL, Base64, HTML entities, JSON strings and *)
(* C literals.                                                             *)
(***************************************************************************)
EXTENDS Characters, FiniteSets

(* Mutant of IsContinuation: any byte with the high bit set goes on.        *)
GoesOnHigh(t, i) == i <= Len(t) /\ t[i] >= 128

IsContinuation(t, i) == i <= Len(t) /\ t[i] \div 64 = 2

utf8_char_length(b) ==
  CASE b \div 32 = 6 -> 2
    [] b \div 16 = 14 -> 3
    [] b \div 8 = 30 -> 4
    [] OTHER -> 1

utf8_decode_at(t, i) ==
  LET n == utf8_char_length(t[i])
      lead == t[i] % (2 ^ (7 - n))
      low(k) == t[i + k] % 64
  IN  IF n = 1 \/ \E k \in 1 .. n - 1 : ~IsContinuation(t, i + k)
      THEN [codepoint |-> t[i], consumed |-> 1]
      ELSE [consumed |-> n,
            codepoint |-> CASE n = 2 -> lead * 64 + low(1)
                            [] n = 3 -> lead * 64^2 + low(1) * 64 + low(2)
                            [] n = 4 -> lead * 64^3 + low(1) * 64^2 + low(2) * 64 + low(3)]

utf8_to_codepoints(t) ==
  LET Next1(s, i) == LET d == utf8_decode_at(s, i) IN Write(<<d.codepoint>>, d.consumed)
  IN  Walk(t, Next1)

utf8_encode_codepoint(c) ==
  LET low(k) == 128 + ((c \div 64 ^ k) % 64)
  IN  CASE c <= 127 -> <<c>>
        [] c \in 128 .. 2047 -> <<192 + c \div 64, low(0)>>
        [] c \in 2048 .. 65535 -> <<224 + c \div 64^2, low(1), low(0)>>
        [] c > 65535 -> <<240 + c \div 64^3, low(2), low(1), low(0)>>

codepoints_to_utf8(points) ==
  LET Next1(s, i) == Write(utf8_encode_codepoint(s[i]), 1) IN Walk(points, Next1)

valid_utf8_seq_length(t, i) ==
  LET b == t[i]
  IN  IF ~IsContinuation(t, i + 1) THEN 0
      ELSE CASE b \in 194 .. 223 -> 2
             [] b \in 224 .. 239 /\ (b = 224 => t[i + 1] >= 160) /\ (b = 237 => t[i + 1] <= 159)
                /\ IsContinuation(t, i + 2) -> 3
             [] b \in 240 .. 244 /\ (b = 240 => t[i + 1] >= 144) /\ (b = 244 => t[i + 1] <= 143)
                /\ IsContinuation(t, i + 2) /\ IsContinuation(t, i + 3) -> 4
             [] OTHER -> 0

is_valid_utf8(t) ==
  LET valid[i \in 1 .. Len(t) + 1] ==
        IF i > Len(t) THEN TRUE
        ELSE IF t[i] < 128 THEN valid[i + 1]
        ELSE LET n == valid_utf8_seq_length(t, i) IN n # 0 /\ valid[i + n]
  IN  valid[1]

utf8_length(t) ==
  LET count[i \in 1 .. Len(t) + 4] ==
        IF i > Len(t) THEN 0 ELSE 1 + count[i + utf8_char_length(t[i])]
  IN  count[1]

utf8_substr(t, first, n) ==
  LET from[i \in 1 .. Len(t) + 1, emitted \in 0 .. Len(t)] ==
        IF i > Len(t) \/ emitted >= first + n THEN <<>>
        ELSE LET used == utf8_decode_at(t, i).consumed
             IN  (IF emitted >= first THEN SubSeq(t, i, i + used - 1) ELSE <<>>)
                 \o from[i + used, emitted + 1]
  IN  from[1, 0]

utf8_reverse(t) ==
  LET points == utf8_to_codepoints(t)
  IN  codepoints_to_utf8([i \in DOMAIN points |-> points[Len(points) + 1 - i]])
-----------------------------------------------------------------------------
hex_encode(f) ==
  LET Digits(t, i) == Write(HexPair(t[i], TRUE), 1)
  IN  Frozen(2 * (f.size - 1) + 1, Walk(f.text, Digits))

(* A pair that is not hexadecimal does not compile; a last single digit is *)
(* let go.                                                                 *)
HexCompiles(t) == \A i \in 1 .. 2 * (Len(t) \div 2) : t[i] \in HexDigits
hex_decode(f) ==
  LET Byte(t, i) == Write(IF i = Len(t) THEN <<>> ELSE <<parse_hex_byte(t[i], t[i + 1])>>, 2)
  IN  Same(f, Walk(f.text, Byte))
-----------------------------------------------------------------------------
UrlText(t) ==
  LET Escape(s, i) ==
        Write(IF s[i] \in Unreserved THEN <<s[i]>> ELSE <<Code["%"]>> \o HexPair(s[i], TRUE), 1)
  IN  Walk(t, Escape)

url_encode(f) == Frozen(3 * (f.size - 1) + 1, UrlText(f.text))

count_url_encoded_size(t) ==
  LET plain == {i \in DOMAIN t : t[i] \in Unreserved}
      count[i \in 0 .. Len(t)] == IF i = 0 THEN 0 ELSE count[i - 1] + (IF i \in plain THEN 1 ELSE 3)
  IN  count[Len(t)]

IsEscape(t, i) ==
  t[i] = Code["%"] /\ i + 2 <= Len(t) /\ t[i + 1] \in HexDigits /\ t[i + 2] \in HexDigits

url_decode(f) ==
  LET Unescape(t, i) ==
        IF IsEscape(t, i) THEN Write(<<parse_hex_byte(t[i + 1], t[i + 2])>>, 3)
        ELSE Write(<<IF t[i] = Code["+"] THEN Space ELSE t[i]>>, 1)
  IN  Same(f, Walk(f.text, Unescape))

count_url_decoded_size(t) ==
  LET count[i \in 1 .. Len(t) + 1] ==
        IF i > Len(t) THEN 0 ELSE 1 + count[i + (IF IsEscape(t, i) THEN 3 ELSE 1)]
  IN  count[1]

(* The forms with a template argument count the size first.                *)
url_encode_exact(f) == Frozen(count_url_encoded_size(f.text) + 1, UrlText(f.text))
url_decode_exact(f) == Frozen(count_url_decoded_size(f.text) + 1, url_decode(f).text)
-----------------------------------------------------------------------------
count_base64_encoded_size(n) == ((n + 2) \div 3) * 4

base64_encode(f) ==
  LET Group(t, i) ==
        LET b(k) == IF i + k <= Len(t) THEN t[i + k] ELSE 0
            word == b(0) * 2^16 + b(1) * 2^8 + b(2)
        IN  Write([k \in 1 .. 4 |-> IF i + k - 2 <= Len(t) \/ k <= 2
                                    THEN base64_chars[1 + ((word \div 64 ^ (4 - k)) % 64)]
                                    ELSE Code["="]], 3)
  IN  Frozen(count_base64_encoded_size(f.size - 1) + 1, Walk(f.text, Group))

IsBase64(c) == c \in Base64
IsPad(c) == c = Code["="]
BeforePad(t) == LET n == CHOOSE n \in 0 .. Len(t) :
                           (n < Len(t) => IsPad(t[n + 1])) /\ \A i \in 1 .. n : ~IsPad(t[i])
                IN  Cut(t, n)

(* n digits at the end that are no group of four make n - 1 bytes.         *)
base64_decode(f) ==
  LET Group(d, i) ==
        LET n == Smaller(4, Len(d) - i + 1)
            buffer[k \in 0 .. n] ==
              IF k = 0 THEN 0 ELSE 64 * buffer[k - 1] + base64_char_to_value(d[i + k - 1])
        IN  Write([k \in 1 .. n - 1 |-> (buffer[n] \div 2 ^ (6 * n - 8 * k)) % 256], n)
  IN  Same(f, Walk(SelectSeq(BeforePad(f.text), IsBase64), Group))

(* Digits after the padding, and padding after less than two digits, do    *)
(* not compile.                                                            *)
Base64Compiles(t) ==
  LET digits == {i \in DOMAIN t : IsBase64(t[i])}
      pads == {i \in DOMAIN t : IsPad(t[i])}
  IN  pads # {} => Cardinality(digits) >= 2 /\ \A i \in digits, j \in pads : i < j
count_base64_decoded_size(t) ==
  LET valid == Cardinality({i \in DOMAIN t : IsBase64(t[i])})
  IN  (valid \div 4) * 3 + (IF valid % 4 >= 2 THEN (valid % 4) - 1 ELSE 0)
base64_decode_exact(f) == Frozen(count_base64_decoded_size(f.text) + 1, base64_decode(f).text)
-----------------------------------------------------------------------------
Entity == [c \in {Code["&"], Code["<"], Code[">"], Code["\""], Code["'"]} |->
             CASE c = Code["&"] -> Text("&amp;")
               [] c = Code["<"] -> Text("&lt;")
               [] c = Code[">"] -> Text("&gt;")
               [] c = Code["\""] -> Text("&quot;")
               [] c = Code["'"] -> Text("&#39;")]

html_encode(f) ==
  LET Escape(t, i) == Write(IF t[i] \in DOMAIN Entity THEN Entity[t[i]] ELSE <<t[i]>>, 1)
  IN  Frozen(6 * (f.size - 1) + 1, Walk(f.text, Escape))

html_decode_entity(t, i) ==
  LET named == {c \in DOMAIN Entity : StartsAt(t, i, Entity[c])}
  IN  CASE named # {} -> LET c == CHOOSE c \in named : TRUE IN Write(<<c>>, Len(Entity[c]))
        [] StartsAt(t, i, Text("&#x27;")) -> Write(<<Code["'"]>>, 6)
        [] OTHER -> Write(<<t[i]>>, 1)

html_decode(f) ==
  LET Unescape(t, i) == IF t[i] = Code["&"] THEN html_decode_entity(t, i) ELSE Write(<<t[i]>>, 1)
  IN  Same(f, Walk(f.text, Unescape))
-----------------------------------------------------------------------------
(* The short escapes of JSON and of C: the letter for a control character. *)
JsonLetter == [c \in {8, 12, LF, CR, Tab, Code["\""], Code["\\"]} |->
                 CASE c = 8 -> Code["b"] [] c = 12 -> Code["f"] [] c = LF -> Code["n"]
                   [] c = CR -> Code["r"] [] c = Tab -> Code["t"] [] OTHER -> c]
CLetter == [c \in {7, 11, NUL, Code["'"]} \cup DOMAIN JsonLetter |->
              CASE c = 7 -> Code["a"] [] c = 11 -> Code["v"] [] c = NUL -> Code["0"]
                [] c = Code["'"] -> c [] OTHER -> JsonLetter[c]]
Escaped(c) == <<Code["\\"], c>>

write_json_escaped_char(c) ==
  CASE c \in DOMAIN JsonLetter -> Escaped(JsonLetter[c])
    [] c < 32 /\ c \notin DOMAIN JsonLetter -> Escaped(Code["u"]) \o Text("00") \o HexPair(c, FALSE)
    [] OTHER -> <<c>>

json_escaped_char_size(c) == IF c \in DOMAIN JsonLetter THEN 2 ELSE IF c < 32 THEN 6 ELSE 1
count_json_escaped_size(t) ==
  LET count[i \in 0 .. Len(t)] == IF i = 0 THEN 0 ELSE count[i - 1] + json_escaped_char_size(t[i])
  IN  count[Len(t)]

JsonText(t) == LET Escape(s, i) == Write(write_json_escaped_char(s[i]), 1) IN Walk(t, Escape)
json_escape(f) == Frozen(6 * (f.size - 1) + 1, JsonText(f.text))
json_quoted(f) == Frozen(6 * (f.size - 1) + 3, <<Code["\""]>> \o JsonText(f.text) \o <<Code["\""]>>)

(* n hexadecimal digits of a number.                                       *)
HexNumber(v, n) == [k \in 1 .. n |-> value_to_hex_digit((v \div 16 ^ (n - k)) % 16, TRUE)]

escape_c(f) ==
  LET Escape(t, i) ==
        LET c == t[i]
            seq_len == valid_utf8_seq_length(t, i)
            codepoint == utf8_decode_at(t, i).codepoint
        IN  CASE c \in DOMAIN CLetter -> Write(Escaped(CLetter[c]), 1)
              [] c >= 128 /\ seq_len # 0 ->
                   Write(IF codepoint <= 65535 THEN Escaped(Code["u"]) \o HexNumber(codepoint, 4)
                         ELSE Escaped(Code["U"]) \o Text("00") \o HexNumber(codepoint, 6), seq_len)
              [] c >= 128 /\ seq_len = 0 -> Write(Escaped(Code["x"]) \o HexPair(c, TRUE), 1)
              [] c \notin DOMAIN CLetter /\ (c < 32 \/ c = 127) ->
                   Write(Escaped(Code["x"]) \o HexPair(c, TRUE), 1)
              [] OTHER -> Write(<<c>>, 1)
  IN  Frozen(4 * f.size + 1, Walk(f.text, Escape))

(* At most max_digits hexadecimal digits from place i.  A value above      *)
(* 0x10FFFF is as good as any other above it.                              *)
parse_hex_digits(t, i, max_digits) ==
  LET count == Leading(SubSeq(t, i, Smaller(i + max_digits - 1, Len(t))), HexDigits)
      value[k \in 0 .. count] ==
        IF k = 0 THEN 0
        ELSE LET v == value[k - 1]
             IN  IF v > 1114111 THEN v ELSE 16 * v + hex_digit_to_value(t[i + k - 1])
  IN  [value |-> value[count], count |-> count]

(* A sequence that is cut short or names no character is kept as it is;    *)
(* but a surrogate is refused in its short form \u only.                   *)
unescape_c(f) ==
  LET letters == {CLetter[c] : c \in DOMAIN CLetter}
      Character(t, i, digits) ==
        LET r == parse_hex_digits(t, i + 2, digits)
        IN  IF r.count = digits /\ r.value <= 1114111 /\ (digits = 4 => r.value \notin 55296 .. 57343)
            THEN Write(utf8_encode_codepoint(r.value), 2 + digits)
            ELSE Write(SubSeq(t, i, i + 1 + r.count), 2 + r.count)
      Byte(t, i) ==
        LET r == parse_hex_digits(t, i + 2, 2)
        IN  IF r.count > 0 THEN Write(<<r.value>>, 2 + r.count) ELSE Write(SubSeq(t, i, i + 1), 2)
      Unescape(t, i) ==
        IF t[i] # Code["\\"] \/ i = Len(t) THEN Write(<<t[i]>>, 1)
        ELSE LET c == t[i + 1]
             IN  CASE c \in letters -> Write(<<CHOOSE b \in DOMAIN CLetter : CLetter[b] = c>>, 2)
                   [] c = Code["x"] -> Byte(t, i)
                   [] c = Code["u"] -> Character(t, i, 4)
                   [] c = Code["U"] -> Character(t, i, 8)
                   [] OTHER -> Write(<<Code["\\"], c>>, 2)
  IN  Same(f, Walk(f.text, Unescape))
=============================================================================
