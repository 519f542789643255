------------------------------ MODULE MCCalls ------------------------------
EXTENDS Calls

MCWords == {Text(""), Text("a"), Text("b"), Text("ab"), Text("ba"), Text("aab"), Text("bba")}
MCYears == 1970 .. 2101

(* The texts of at most n pieces.                                          *)
Upto(pieces, n) ==
  LET texts[k \in 0 .. n] ==
        IF k = 0 THEN {<<>>} ELSE {t \o p : t \in texts[k - 1], p \in pieces \cup {<<>>}}
  IN  texts[n]

Types == [signed : BOOLEAN, bits : {4, WordBits}]
NumberTexts ==
  Upto({Text("-"), Text("+"), Text("0"), Text("1"), Text("8"), Text("x"), Text("B"), Text("g"), <<NUL>>}, 3)
    \cup {s \o p \o d : s \in {Text(""), Text("-"), Text("+")},
                        p \in {Text(""), Text("0"), Text("0x"), Text("0B")},
                        d \in Upto({Text("0"), Text("1"), Text("3"), Text("7"), Text("8"), Text("F")}, 3)}
    \cup {Decimal(n) : n \in -40 .. 70}
    \cup {Text("0x") \o InBase(n, 16) : n \in -3 .. 70}
    \cup {Text("0b") \o InBase(n, 2) : n \in -3 .. 70} \cup {Text("0") \o InBase(n, 8) : n \in -3 .. 70}
    \cup {Text("64g"), Text("70x"), Text("63g"), Text("0b1000000"), Text("0b1000000-")}

NumberJobs ==
  {[function |-> "parse_number", text |-> t, type |-> type, charconv |-> c] :
     t \in NumberTexts, type \in Types, c \in BOOLEAN}

(* The specifications and the texts that mean them.                        *)
Char(c) == IF c = Default THEN <<>> ELSE <<c>>
SpecText(s) ==
  (IF s.fill = Space THEN <<>> ELSE <<s.fill>>) \o Char(s.align) \o Char(s.sign)
    \o (IF s.zero THEN Text("0") ELSE <<>>) \o (IF s.width = 0 THEN <<>> ELSE Decimal(s.width))
    \o (IF s.precision < 0 THEN <<>> ELSE Text(".") \o Decimal(s.precision)) \o Char(s.type)
Specs(types, precisions) ==
  {s \in [fill : {Space, Code[":"]}, align : Aligns \cup {Default}, sign : {Default, Plus, Minus, Space},
          zero : BOOLEAN, width : {0, 5, 12}, precision : precisions, type : {Default} \cup {Code[c] : c \in types}] :
     s.fill # Space => s.align # Default}

Whole(n) == [kind |-> "int", value |-> n]
Literal1(t) == [kind |-> "literal", text |-> t]
FieldOf(arg, spec) == [kind |-> "field", arg |-> arg, spec |-> spec]

FormatJob(fmt, args, capacity, meant) ==
  [function |-> "frozen_format", fmt |-> fmt, args |-> args, capacity |-> capacity, meant |-> meant]

OneField(arg, s, capacity) ==
  FormatJob(Text("a{{{:") \o SpecText(s) \o Text("}}}"), <<arg>>, capacity,
            <<Literal1(Text("a{")), FieldOf(arg, s), Literal1(Text("}"))>>)
Plain == [fill |-> Space, align |-> Default, sign |-> Default, zero |-> FALSE, width |-> 0, precision |-> -1, type |-> Default]
TwoFields(arg, s, other, capacity) ==
  FormatJob(Text("{:") \o SpecText(s) \o Text("}-{}"), <<arg, other>>, capacity,
            <<FieldOf(arg, s), Literal1(Text("-")), FieldOf(other, Plain)>>)

Texts == {[kind |-> "text", value |-> Text("abc")], [kind |-> "text", value |-> Text("{")],
          [kind |-> "char", value |-> Code["z"]], [kind |-> "bool", value |-> TRUE], [kind |-> "bool", value |-> FALSE]}
Broken == {FormatJob(Text(f), <<Whole(1)>>, 9, <<>>) : f \in {"{", "}", "a}{}", "{}{", "{}{}", "{{}", "{:>4", "a", "{0}", "{}}"}}

FormatJobs ==
  {OneField(Whole(n), s, c) : n \in {-5, 0, 62}, s \in Specs({"d", "X", "o", "b"}, {-1}), c \in {4, 64}}
    \cup {OneField(arg, s, c) : arg \in Texts, s \in Specs({"s"}, {-1, 2}), c \in {6, 64}}
    \cup {TwoFields(Whole(-5), s, Whole(7), c) : s \in Specs({}, {-1}), c \in 2 .. 9}
    \cup Broken

SuggestJobs ==
  {[function |-> "suggest", input |-> w, limit |-> n, candidates |-> c] :
     w \in MCWords, n \in {0, 1, 2, 3, SizeMax}, c \in UNION {[1 .. k -> MCWords] : k \in 1 .. 3}}

(* Keys of every length around the chunks of eight bytes.                  *)
Keys ==
  {[i \in 1 .. n |-> IF i = k THEN b ELSE 0] : n \in 0 .. 18, k \in 1 .. 18, b \in {1, 16, 128, 255}}
    \cup {[i \in 1 .. n |-> (37 * i + 90) % 256] : n \in 0 .. 26}
HashJobs == {[function |-> "hash_impl", key |-> key, seed |-> s] : key \in Keys, s \in {{}, {0}, {3, 7, 19}}}

Days == {0, 58, 59, 364, 365, 788, 789, 790, 10956, 11015, 11016, 11322, 19722, 19782, 20088, 47540, 47541}
Points == [day : Days \ {0}, second : {0, 1, 59, 60, 3599, 3600, 43200, 86399}]
Offsets == {-1439, -720, -90, -60, -30, -1, 0, 1, 30, 60, 90, 720, 1439}
Call(function, text, means) == [function |-> function, text |-> text, means |-> means]
DateJobs ==
  {Call("parse_iso_date", format_iso_date(year_month_day(d)), year_month_day(d)) : d \in Days}
    \cup {Call("parse_date_macro", MacroText(year_month_day(d)), year_month_day(d)) : d \in Days}
    \cup {Call("parse_iso_datetime", Local(Point(p.day, p.second + 60 * n)) \o OffsetText(n), p) : p \in Points, n \in Offsets}
    \cup {Call("parse_iso_datetime", Local(p) \o zone, p) : p \in Points, zone \in {Text(""), Text("Z"), Text("z"), Text("Z00:00")}}
    \cup {Call("parse_iso_date", Text(t), Refused) :
            t \in {"", "2024-1-01", "2024-13-01", "2024-00-01", "2024-01-32", "2024-01-00", "2024/01/01", "2024-01/01"}}
    \cup {Call("parse_date_macro", Text(t), Refused) :
            t \in {"", "Jan 01 1969", "Jam 01 2024", "Jan 32 2024", "Jan  0 2024", "Jan 01-2024", "Jan 1 2024"}}
    \cup {Call("parse_iso_datetime", Text(t), Refused) :
            t \in {"2024-01-01T00:00:0", "2024-01-01 00:00:00", "2024-01-01T24:00:00", "2024-01-01T00:60:00",
                   "2024-01-01T00:00:60", "2024-01-01T00-00:00", "2024-01-01T00:00:00X", "2024-01-01T00:00:00+0900",
                   "2024-01-01T00:00:00+09-00", "2024-01-01T00:00:00+09"}}

(* Headers that include others, in every way, themselves among them.       *)
Line(kind) == [kind |-> kind, to |-> ""]
To(h) == [kind |-> "include", to |-> h]
Names == {"a", "b", "c"}
Headers ==
  {<<Line("pragma"), Line("code")>>}
    \cup {<<Line("pragma"), To(h), Line("code")>> : h \in Names}
    \cup {<<Line("code"), To(h), To(g), Line("code")>> : h \in Names, g \in Names}
HeaderJobs ==
  {[function |-> "amalgamate", headers |-> h, entries |-> e] :
     h \in [Names -> Headers], e \in {<<"a">>, <<"b", "a">>, <<"a", "b", "c">>}}
    \cup {[function |-> "amalgamate", headers |-> [h \in {"a"} |-> <<To("b")>>], entries |-> e] : e \in {<<"a">>, <<"b">>}}

MCJobs ==
  [parse_number |-> NumberJobs, frozen_format |-> FormatJobs, suggest |-> SuggestJobs,
   hash_impl |-> HashJobs, dates |-> DateJobs, amalgamate |-> HeaderJobs]
=============================================================================
