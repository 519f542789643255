---------------------------- MODULE NumberReader ----------------------------
(***************************************************************************)
(* parse_number<T> of number_conv.hpp for integers, in the build with      *)
(* std::from_chars and in the one without, and the writers of              *)
(* detail/number_conv.hpp.  Machine words are WordBits wide; a type is     *)
(* [signed, bits].                                                         *)
(***************************************************************************)
EXTENDS OneCall

CONSTANT WordBits    \* the width of unsigned long long

(* A word holds more than one digit of every base.                         *)
ASSUME WordAssumption == /\ WordBits \in Nat /\ 2 ^ WordBits > 16
                         /\ \A k \in 0 .. WordBits : 2 ^ k \in Nat \ {0}

IsNumberJob(j) ==
  /\ j.text \in Seq(0 .. 255) /\ j.charconv \in BOOLEAN
  /\ j.type \in [signed : BOOLEAN, bits : 1 .. WordBits]

MaxWord == 2 ^ WordBits - 1
MaxOf(type) == IF type.signed THEN 2 ^ (type.bits - 1) - 1 ELSE 2 ^ type.bits - 1

Number(n) == [error |-> "none", value |-> n]
Invalid == [error |-> "invalid_argument", value |-> 0]
OutOfRange == [error |-> "result_out_of_range", value |-> 0]

Minus == Code["-"]
Plus == Code["+"]

(* The digits of a number, the way each base writes it.                    *)
Digits(n, base) ==
  LET from[k \in 0 .. n] ==
        IF k < base THEN <<value_to_hex_digit(k, FALSE)>>
        ELSE Append(from[k \div base], value_to_hex_digit(k % base, FALSE))
  IN  from[n]

Decimal(n) == IF n < 0 THEN <<Minus>> \o Digits(-n, 10) ELSE Digits(n, 10)

(* A negative number is cast to the unsigned word first.                   *)
InBase(n, base) == Digits(n % (MaxWord + 1), base)
-----------------------------------------------------------------------------
ReaderStart == [at |-> 0, neg |-> FALSE, base |-> 0, acc |-> 0]
Subject == job.text
After(n) == SubSeq(Subject, n + 1, Len(Subject))

(* The digits that are read in each base; the base is decided by what      *)
(* begins the number, and a 0 that ends it is just a 0.                    *)
DigitsOf(base) == {c \in HexDigits : hex_digit_to_value(c) < base}
Base(rest) ==
  IF Len(rest) < 2 \/ rest[1] # Code["0"] THEN 10
  ELSE IF Len(rest) > 2 /\ to_lower(rest[2]) = Code["x"] THEN 16
  ELSE IF Len(rest) > 2 /\ to_lower(rest[2]) = Code["b"] THEN 2
  ELSE 8
PrefixSize(base) == CASE base = 10 -> 0 [] base = 8 -> 1 [] OTHER -> 2

(* The value that was read is brought to the type; the negative range has  *)
(* one more.                                                               *)
Fits(n, neg, type) ==
  IF n > MaxOf(type) + (IF neg THEN 1 ELSE 0) THEN OutOfRange ELSE Number(IF neg THEN -n ELSE n)

(* std::from_chars: all the digits there are, then whether they fit.       *)
from_chars(rest, base, neg, type) ==
  LET n == Leading(rest, DigitsOf(base))
      value[k \in 0 .. n] ==
        IF k = 0 THEN 0 ELSE Smaller(base * value[k - 1] + hex_digit_to_value(rest[k]), MaxWord + 1)
  IN  IF n = 0 THEN Invalid
      ELSE IF value[n] > MaxWord THEN OutOfRange
      ELSE IF n < Len(rest) THEN Invalid
      ELSE Fits(value[n], neg, type)

Signed(t) == t # <<>> /\ t[1] \in {Minus, Plus}
-----------------------------------------------------------------------------
Reads == Runs("parse_number")

(* The sign and the base.                                                  *)
RefuseText ==
  /\ Reads /\ st.base = 0
  /\ LET bare == IF Signed(Subject) THEN After(1) ELSE Subject
     IN  IF bare = <<>> THEN TRUE ELSE Subject[1] = Minus /\ ~job.type.signed
  /\ Returns(Invalid)

TakeBase ==
  /\ Reads /\ st.base = 0 /\ Subject # <<>>
  /\ LET neg == Subject[1] = Minus
         bare == IF Signed(Subject) THEN After(1) ELSE Subject
         base == Base(bare)
     IN  /\ bare # <<>> /\ (neg => job.type.signed)
         /\ Goes([at |-> Len(Subject) - Len(bare) + PrefixSize(base),
                  neg |-> neg, base |-> base, acc |-> 0])

(* With <charconv>.                                                        *)
Convert ==
  /\ Reads /\ st.base # 0 /\ job.charconv
  /\ Returns(from_chars(After(st.at), st.base, st.neg, job.type))

(* Without: digit by digit.                                                *)
Scanning == Reads /\ st.base # 0 /\ ~job.charconv
NextChar == Subject[st.at + 1]

(* Mutant: the product alone is compared with the largest word.            *)
OverflowsProduct(acc, digit, base) == acc > MaxWord \div base

Overflows(acc, digit, base) == acc > (MaxWord - digit) \div base

RefuseDigit ==
  /\ Scanning /\ st.at < Len(Subject) /\ NextChar \notin DigitsOf(st.base)
  /\ Returns(Invalid)

RefuseValue ==
  /\ Scanning /\ st.at < Len(Subject) /\ NextChar \in DigitsOf(st.base)
  /\ Overflows(st.acc, hex_digit_to_value(NextChar), st.base)
  /\ Returns(OutOfRange)

TakeDigit ==
  /\ Scanning /\ st.at < Len(Subject) /\ NextChar \in DigitsOf(st.base)
  /\ ~Overflows(st.acc, hex_digit_to_value(NextChar), st.base)
  /\ Goes([st EXCEPT !.at = @ + 1, !.acc = (st.base * @ + hex_digit_to_value(NextChar)) % (MaxWord + 1)])

Finish ==
  /\ Scanning /\ st.at = Len(Subject)
  /\ Returns(Fits(st.acc, st.neg, job.type))

ReadNext ==
  \/ RefuseText \/ TakeBase
  \/ Convert
  \/ RefuseDigit \/ RefuseValue \/ TakeDigit \/ Finish
=============================================================================
