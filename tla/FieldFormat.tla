---------------------------- MODULE FieldFormat -----------------------------
(***************************************************************************)
(* frozen_format of frozen_format.hpp: a format text is checked, then gone *)
(* through once; literals and fields are written to a buffer that ends at  *)
(* Capacity.  Arguments are [kind, value]; floating point is left out.     *)
(***************************************************************************)
EXTENDS NumberReader

Open == Code["{"]
Close == Code["}"]
Aligns == {Code["<"], Code[">"], Code["^"]}
Signs == {Plus, Minus, Space}
Default == 0                  \* '\0' in a format_spec

First(t, S) == t # <<>> /\ t[1] \in S
Drop(t, n) == Rest(t, n + 1)
Natural(t) ==
  LET value[k \in 0 .. Len(t)] == IF k = 0 THEN 0 ELSE 10 * value[k - 1] + hex_digit_to_value(t[k])
  IN  Smaller(value[Len(t)], 9999)

(* Mutant: a width may begin with 0, which is looked at first.             *)
ZeroInWidth(t) == <<FALSE, IF First(t, Digit) THEN Leading(t, Digit) ELSE 0>>

(* Whether 0 stands before the width, and the digits of the width.         *)
ZeroAndWidth(t) ==
  LET zero == First(t, {Code["0"]})
      rest == Drop(t, IF zero THEN 1 ELSE 0)
  IN  <<zero, IF First(rest, Digit \ {Code["0"]}) THEN Leading(rest, Digit) ELSE 0>>

(* The inside of the braces: [[fill]align][sign][0][width][.precision][type] *)
parse_spec(inside) ==
  LET t == Drop(inside, IF First(inside, {Code[":"]}) THEN 1 ELSE 0)
      filled == Len(t) > 1 /\ t[1] \notin Aligns /\ t[2] \in Aligns
      aligned == ~filled /\ First(t, Aligns)
      u == Drop(t, IF filled THEN 2 ELSE IF aligned THEN 1 ELSE 0)
      v == Drop(u, IF First(u, Signs) THEN 1 ELSE 0)
      zw == ZeroAndWidth(v)
      w == Drop(v, IF zw[1] THEN 1 ELSE 0)
      x == Drop(w, zw[2])
      dot == First(x, {Code["."]})
      y == Drop(x, IF dot THEN 1 + Leading(Drop(x, 1), Digit) ELSE 0)
  IN  [fill |-> IF filled THEN t[1] ELSE Space,
       align |-> IF filled THEN t[2] ELSE IF aligned THEN t[1] ELSE Default,
       sign |-> IF First(u, Signs) THEN u[1] ELSE Default,
       zero |-> zw[1],
       width |-> IF zw[2] = 0 THEN 0 ELSE Natural(Cut(w, zw[2])),
       precision |-> IF dot THEN Natural(Cut(Drop(x, 1), Leading(Drop(x, 1), Digit))) ELSE -1,
       type |-> IF y = <<>> THEN Default ELSE y[1]]

(* Where the field that is open before place i ends; behind the text when  *)
(* it does not.                                                            *)
FieldEnd(t, i) == i + Leading(Rest(t, i), (0 .. 255) \ {Close})

(* The number of fields, -1 when a brace has no partner.                   *)
scan_format(t) ==
  LET fields[i \in 1 .. Len(t) + 2] ==
        IF i > Len(t) THEN 0
        ELSE IF t[i] \notin {Open, Close} THEN fields[i + 1]
        ELSE IF StartsAt(t, i + 1, <<t[i]>>) THEN fields[i + 2]
        ELSE IF t[i] = Close \/ FieldEnd(t, i) > Len(t) THEN -1
        ELSE LET more == fields[FieldEnd(t, i) + 1] IN IF more < 0 THEN -1 ELSE more + 1
  IN  fields[1]
-----------------------------------------------------------------------------
Body(arg, spec) ==
  CASE arg.kind = "bool" -> IF arg.value THEN Text("true") ELSE Text("false")
    [] arg.kind = "char" -> <<arg.value>>
    [] arg.kind = "text" ->
         IF spec.type = Code["c"] THEN Cut(arg.value, 1)
         ELSE IF spec.precision >= 0 THEN Cut(arg.value, spec.precision) ELSE arg.value
    [] arg.kind = "int" ->
         LET n == IF arg.value < 0 THEN -arg.value ELSE arg.value
         IN  CASE spec.type = Code["x"] -> InBase(n, 16)
               [] spec.type = Code["X"] -> [i \in DOMAIN InBase(n, 16) |-> to_upper(InBase(n, 16)[i])]
               [] spec.type = Code["o"] -> InBase(n, 8)
               [] spec.type \in {Code["b"], Code["B"]} -> InBase(n, 2)
               [] OTHER -> Digits(n, 10)

SignOf(arg, spec) ==
  IF arg.kind # "int" THEN <<>>
  ELSE IF arg.value < 0 THEN <<Minus>>
  ELSE IF spec.sign \in {Plus, Space} THEN <<spec.sign>> ELSE <<>>

(* A buffer: what stands in it, and pos, which goes on where it is full.   *)
Put(buf, chars, capacity) ==
  [text |-> Cut(buf.text \o chars, capacity - 1), pos |-> buf.pos + Len(chars)]

(* Outside a field filled with zeros, a sign that is not written is not    *)
(* counted.                                                                *)
PutSign(buf, sign, counted, capacity) ==
  IF counted \/ buf.pos < capacity - 1 THEN Put(buf, sign, capacity) ELSE buf

(* Of an odd number of characters of filling the last goes behind.         *)
FillBefore(pad, align) ==
  IF align = Code["<"] THEN 0 ELSE IF align = Code[">"] THEN pad ELSE pad \div 2

format_field(buf, arg, spec, capacity) ==
  LET sign == SignOf(arg, spec)
      body == Body(arg, spec)
      pad == Larger(spec.width, Len(sign) + Len(body)) - Len(sign) - Len(body)
      align == IF spec.align # Default THEN spec.align ELSE Code[IF arg.kind = "int" THEN ">" ELSE "<"]
      before == FillBefore(pad, align)
      filled == Put(buf, Times(before, <<spec.fill>>), capacity)
  IN  IF arg.kind = "int" /\ spec.zero
        THEN Put(PutSign(buf, sign, TRUE, capacity), Times(pad, <<Code["0"]>>) \o body, capacity)
        ELSE Put(PutSign(filled, sign, FALSE, capacity), body \o Times(pad - before, <<spec.fill>>), capacity)
-----------------------------------------------------------------------------
FormatStart == [i |-> 1, buf |-> [text |-> <<>>, pos |-> 0], field |-> 1]
Formats == Runs("frozen_format")
Fmt == job.fmt

(* The program does not compile.                                           *)
RefuseFormat ==
  /\ Formats /\ scan_format(Fmt) # Len(job.args)
  /\ Returns("refused")

Writing == Formats /\ scan_format(Fmt) = Len(job.args) /\ st.i <= Len(Fmt)
Doubled == StartsAt(Fmt, st.i + 1, <<Fmt[st.i]>>)

Literally ==
  /\ Writing /\ Fmt[st.i] \notin {Open, Close}
  /\ Goes([st EXCEPT !.i = @ + 1, !.buf = Put(@, <<Fmt[st.i]>>, job.capacity)])

Brace ==
  /\ Writing /\ Fmt[st.i] \in {Open, Close} /\ Doubled
  /\ Goes([st EXCEPT !.i = @ + 2, !.buf = Put(@, <<Fmt[st.i]>>, job.capacity)])

Field ==
  /\ Writing /\ Fmt[st.i] = Open /\ ~Doubled
  /\ LET end == FieldEnd(Fmt, st.i)
         inside == SubSeq(Fmt, st.i + 1, end - 1)
         spec == parse_spec(inside)
     IN  IF First(inside, Digit) THEN Returns("refused")      \* an index, which is not supported
         ELSE Goes([i |-> end + 1, field |-> st.field + 1,
                    buf |-> format_field(st.buf, job.args[st.field], spec, job.capacity)])

Formatted ==
  /\ Formats /\ scan_format(Fmt) = Len(job.args) /\ st.i > Len(Fmt)
  /\ Returns(Cut(st.buf.text, Smaller(st.buf.pos, job.capacity - 1)))

FormatNext == RefuseFormat \/ Literally \/ Brace \/ Field \/ Formatted
=============================================================================
