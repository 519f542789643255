-------------------------------- MODULE Calls -------------------------------
(***************************************************************************)
(* The functions that make or read one value, and the script that makes    *)
(* the single headers: one call of one of them.                            *)
(***************************************************************************)
EXTENDS FieldFormat, Suggest, Crc32c, Dates, Amalgamate

CONSTANTS
  Jobs,      \* the calls that are tried, by function
  Words      \* the texts that suggestions are made from

ASSUME WordsAssumption == \A word \in Words : word \in Seq(Range(word))

IsSuggestJob(j) == j.input \in Words /\ j.candidates \in Seq(Words) /\ j.limit \in Nat

ASSUME JobsAssumption ==
  \A function \in DOMAIN Jobs : \A j \in Jobs[function] :
    /\ j.function = "parse_number" => IsNumberJob(j)
    /\ j.function = "amalgamate" => IsHeaderJob(j)
    /\ j.function = "hash_impl" => IsHashJob(j)
    /\ j.function = "suggest" => IsSuggestJob(j)

Start(function) ==
  CASE function = "parse_number" -> ReaderStart
    [] function = "frozen_format" -> FormatStart
    [] function = "suggest" -> SuggestStart
    [] function = "hash_impl" -> HashStart
    [] function = "amalgamate" -> AmalgamateStart
    [] OTHER -> Running

Init ==
  /\ \E function \in DOMAIN Jobs : job \in Jobs[function]
  /\ st = Start(job.function)
  /\ result = Running

Terminated == result # Running /\ UNCHANGED callVars

Next ==
  \/ ReadNext \/ FormatNext
  \/ SuggestNext
  \/ HashNext
  \/ DateNext
  \/ AmalgamateNext
  \/ Terminated

Spec == Init /\ [][Next]_callVars
-----------------------------------------------------------------------------
(* What the number in a text is: its digits weighted by their places.      *)
Meaning(digits, base) ==
  LET n == Len(digits)
      last[k \in 0 .. n] ==   \* the last k digits, and the place in front of them
        IF k = 0 THEN [worth |-> 0, place |-> 1]
        ELSE [worth |-> last[k - 1].worth + hex_digit_to_value(digits[n - k + 1]) * last[k - 1].place,
              place |-> base * last[k - 1].place]
  IN  last[n].worth

(* A text is a number of the type, out of its range, or no number.  The    *)
(* digits in front decide when they alone are too large for the machine.   *)
NumberIn(text, type) ==
  LET bare == IF Signed(text) THEN Rest(text, 2) ELSE text
      base == Base(bare)
      rest == Rest(bare, PrefixSize(base) + 1)
      n == Leading(rest, DigitsOf(base))
      value == Meaning(Cut(rest, n), base)
      signed == IF text # <<>> /\ text[1] = Minus THEN -value ELSE value
  IN  IF text = <<>> \/ bare = <<>> \/ n = 0 \/ (text[1] = Minus /\ ~type.signed) THEN Invalid
      ELSE IF value > MaxWord THEN OutOfRange
      ELSE IF n < Len(rest) THEN Invalid
      ELSE IF signed \in -MaxOf(type) - (IF type.signed THEN 1 ELSE 0) .. MaxOf(type) THEN Number(signed)
      ELSE OutOfRange

(* parse_number reads what the text says in both builds, up to the largest *)
(* and the smallest value of every type: the check before each             *)
(* multiplication, the extra negative value and the prefix that decides    *)
(* the base agree with std::from_chars.                                    *)
ReadsExactly == Returned("parse_number") => Answer = NumberIn(job.text, job.type)

(* The digits of n by their places, and what a field shows by the meaning  *)
(* of its specification: the argument between its filling.                 *)
Places(n, base, capital) ==
  LET size == CHOOSE k \in 1 .. WordBits : base ^ k > n /\ (k > 1 => base ^ (k - 1) <= n)
  IN  [i \in 1 .. size |-> value_to_hex_digit((n \div base ^ (size - i)) % base, capital)]

Shown(arg, spec) ==
  LET numeric == arg.kind = "int"
      n == IF arg.value < 0 THEN -arg.value ELSE arg.value
      sign == SignOf(arg, spec)
      body == CASE ~numeric -> Body(arg, spec)
                [] spec.type \in Range(Text("xX")) -> Places(n, 16, spec.type = Code["X"])
                [] spec.type = Code["o"] -> Places(n, 8, FALSE)
                [] spec.type \in Range(Text("bB")) -> Places(n, 2, FALSE)
                [] OTHER -> Places(n, 10, FALSE)
      pad == Larger(spec.width - Len(sign) - Len(body), 0)
      fill(k) == Times(k, <<spec.fill>>)
  IN  CASE numeric /\ spec.zero -> sign \o Times(pad, Text("0")) \o body
        [] spec.align = Code["<"] \/ (spec.align = Default /\ ~numeric) -> sign \o body \o fill(pad)
        [] spec.align = Code["^"] -> fill(pad \div 2) \o sign \o body \o fill(pad - (pad \div 2))
        [] OTHER -> fill(pad) \o sign \o body

(* frozen_format writes the literals and the fields that its format means, *)
(* in order, and as much of them as the buffer holds; a format with a      *)
(* brace too many, or another number of fields, does not compile.          *)
FormatsAsMeant ==
  Returned("frozen_format") =>
    LET parts == [i \in DOMAIN job.meant |->
                    IF job.meant[i].kind = "literal" THEN job.meant[i].text
                    ELSE Shown(job.meant[i].arg, job.meant[i].spec)]
    IN  Answer = IF job.meant = <<>> THEN "refused" ELSE Cut(FlattenSeq(parts), job.capacity - 1)

(* The distance of two texts: how many characters have to be put in, taken *)
(* out or changed to make one of the other.                                *)
Letters == UNION {Range(word) : word \in Words}
Edits(t) ==
  {t} \cup {RemoveAt(t, i) : i \in DOMAIN t}
      \cup {ReplaceAt(t, i, c) : i \in DOMAIN t, c \in Letters}
      \cup {InsertAt(t, i, c) : i \in 1 .. Len(t) + 1, c \in Letters}
Reach(t, size) ==
  LET after[n \in 0 .. size] == IF n = 0 THEN {t} ELSE UNION {Edits(u) : u \in after[n - 1]} IN after
Distance ==
  [a \in Words |-> [b \in Words |->
     LET size == Larger(Len(a), Len(b))   \* changes are enough, and the rest put in or taken out
         reach == Reach(a, size)
     IN  CHOOSE n \in 0 .. size : b \in reach[n] /\ \A m \in 0 .. n - 1 : b \notin reach[m]]]

(* suggest returns the first of the nearest candidates within the limit:   *)
(* neither the lengths it compares first, nor giving up in the middle of   *)
(* the table, nor the cutoff that falls with the best one so far, loses it.*)
NearestSuggested ==
  Returned("suggest") =>
    LET dist == [k \in DOMAIN job.candidates |-> Distance[job.input][job.candidates[k]]]
        within == {k \in DOMAIN dist : dist[k] <= job.limit}
    IN  IF within = {} THEN Answer = 0
        ELSE /\ Answer \in within
             /\ \A k \in within : dist[Answer] <= dist[k] /\ (dist[k] = dist[Answer] => Answer <= k)

(* A key is found in a table that was built by the compiler: the processor *)
(* hashes it to what the table was built with, whatever its length.        *)
HardwareAgrees == Returned("hash_impl") => Answer = hash_software(job.key, job.seed)

(* What is written: the text of __DATE__, an offset of n minutes, a point  *)
(* in time without its zone.                                               *)
MacroText(d) ==
  LET name == Text(Months[d.month])
  IN  <<to_upper(name[1])>> \o Tail(name) \o <<Space>>
        \o (IF d.day < 10 THEN <<Space, Code["0"] + d.day>> ELSE to_two_digits(d.day)) \o <<Space>> \o to_four_digits(d.year)
Magnitude(n) == IF n < 0 THEN -n ELSE n
OffsetText(n) ==
  Text(IF n < 0 THEN "-" ELSE "+") \o to_two_digits(Magnitude(n) \div 60) \o Text(":") \o to_two_digits(Magnitude(n) % 60)
Local(p) == Cut(format_iso_datetime(p), 19)

(* A date that was written is read as itself; so is a point in time, in    *)
(* Greenwich's time or in the local time of an offset, across the end of a *)
(* day, a month or a year.  What is not in the form is refused.            *)
DatesComeBack ==
  \A function \in {"parse_iso_date", "parse_date_macro", "parse_iso_datetime"} :
    Returned(function) => Answer = job.means

(* The headers that one includes, those that others need in turn, and the  *)
(* lines of code.                                                          *)
Included(headers, g) ==
  {h \in DOMAIN headers : \E k \in DOMAIN headers[g] : headers[g][k].kind = "include" /\ headers[g][k].to = h}
Complete(headers, C) == \A g \in C : Included(headers, g) \subseteq C
Needs(headers, S) ==
  {h \in DOMAIN headers : \A C \in SUBSET DOMAIN headers : S \subseteq C /\ Complete(headers, C) => h \in C}

CodeOf(headers, C) ==
  UNION {{[header |-> h, line |-> k] : k \in {k \in DOMAIN headers[h] : headers[h][k].kind = "code"}} : h \in C}

(* A single header holds the code of every header that is needed once, and *)
(* before the code that follows its #include, unless the two headers       *)
(* include each other.                                                     *)
HeadersOnce ==
  Returned("amalgamate") /\ Answer # "not found" =>
    LET place == [c \in Range(Answer) |-> CHOOSE i \in DOMAIN Answer : Answer[i] = c]
        before(c, k) == Needs(Include, {Include[c.header][k].to})
    IN  /\ IsInjective(Answer)
        /\ Range(Answer) = CodeOf(Include, Needs(Include, Range(job.entries)))
        /\ \A c \in Range(Answer) : \A k \in 1 .. c.line - 1 :
             Include[c.header][k].kind = "include" /\ c.header \notin before(c, k)
               => \A d \in CodeOf(Include, before(c, k)) : place[d] < place[c]
=============================================================================
