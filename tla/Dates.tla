-------------------------------- MODULE Dates -------------------------------
(***************************************************************************)
(* The dates of chrono.hpp: ISO 8601 dates and times and the text of       *)
(* __DATE__ are read and written.  A date is [year, month, day], a point   *)
(* in time [day, second], the day counted from the first of 1970.          *)
(***************************************************************************)
EXTENDS OneCall

CONSTANT Years    \* the years that dates are written in, consecutive

ASSUME YearsAssumption == Years \subseteq 1970 .. 9999

(* The characters of a date as bytes.                                      *)
ASSUME CodesAssumption ==
  /\ Code["0"] = 48 /\ Code["-"] = 45 /\ Code["+"] = 43 /\ Code[":"] = 58
  /\ Code["T"] = 84 /\ Code["Z"] = 90 /\ Code["z"] = 122 /\ Code[" "] = Space
  /\ \A c \in {"T", "Z", "z", ":", "-", "+", " "} : Text(c) = <<Code[c]>>
  /\ Text("") = <<>>

Months == <<"jan", "feb", "mar", "apr", "may", "jun", "jul", "aug", "sep", "oct", "nov", "dec">>

ASSUME MonthsAssumption ==
  \A m \in 1 .. 12 :
    /\ Text(Months[m]) \in [1 .. 3 -> Lower]
    /\ \A k \in 1 .. 12 : Text(Months[k]) = Text(Months[m]) => k = m

(* std::chrono: the calendar; a day behind the end of its month is counted *)
(* on from the first.                                                      *)
Leap(y) == y % 4 = 0 /\ (y % 100 # 0 \/ y % 400 = 0)
MonthDays(y, m) == IF m = 2 THEN (IF Leap(y) THEN 29 ELSE 28) ELSE IF m \in {4, 6, 9, 11} THEN 30 ELSE 31
MonthsBefore(y, m) ==
  LET n[k \in 1 .. m] == IF k = 1 THEN 0 ELSE n[k - 1] + MonthDays(y, k - 1) IN n[m]
DaysBefore(y, m) ==
  365 * (y - 1970) + ((y - 1969) \div 4) - ((y - 1901) \div 100) + ((y - 1601) \div 400) + MonthsBefore(y, m)
sys_days(d) == DaysBefore(d.year, d.month) + d.day - 1
year_month_day(day) ==
  LET y == CHOOSE y \in Years : DaysBefore(y, 1) <= day /\ day < DaysBefore(y + 1, 1)
      m == CHOOSE m \in 1 .. 12 : DaysBefore(y, m) <= day /\ day < DaysBefore(y, m) + MonthDays(y, m)
  IN  [year |-> y, month |-> m, day |-> day - DaysBefore(y, m) + 1]
hours(n) == n \div 3600
minutes(n) == (n \div 60) % 60
seconds(n) == n % 60
Point(day, second) == [day |-> day + (second \div 86400), second |-> second % 86400]
-----------------------------------------------------------------------------
decode_two_digits(t, i) == 10 * (t[i] - Code["0"]) + t[i + 1] - Code["0"]
decode_four_digits(t, i) == 100 * decode_two_digits(t, i) + decode_two_digits(t, i + 2)
to_two_digits(n) == <<Code["0"] + (n \div 10), Code["0"] + (n % 10)>>
to_four_digits(n) == to_two_digits(n \div 100) \o to_two_digits(n % 100)

month_name_to_number(t) ==
  LET named == {m \in 1 .. 12 : [i \in 1 .. 3 |-> to_lower(t[i])] = Text(Months[m])}
  IN  IF named = {} THEN 0 ELSE CHOOSE m \in named : TRUE

parse_ymd_iso(t) ==
  [year |-> decode_four_digits(t, 1), month |-> decode_two_digits(t, 6), day |-> decode_two_digits(t, 9)]
parse_ymd_macro(t) ==
  [year |-> decode_four_digits(t, 8), month |-> month_name_to_number(t),
   day |-> IF t[5] = Space THEN t[6] - Code["0"] ELSE decode_two_digits(t, 5)]
parse_hms(t, i) ==
  3600 * decode_two_digits(t, i) + 60 * decode_two_digits(t, i + 3) + decode_two_digits(t, i + 6)

Eastward(c) == CASE c = Code["-"] -> -1 [] c = Code["+"] -> 1 [] OTHER -> 0

(* Mutant: the sign is that of the hours alone.                            *)
SignOnHours(t, i) == Eastward(t[i]) * 60 * decode_two_digits(t, i + 1) + decode_two_digits(t, i + 4)

(* The minutes of +hh:mm at place i; there are none behind a Z.            *)
parse_tz_offset(t, i) == Eastward(t[i]) * (60 * decode_two_digits(t, i + 1) + decode_two_digits(t, i + 4))

format_iso_date(d) ==
  to_four_digits(d.year) \o <<Code["-"]>> \o to_two_digits(d.month) \o <<Code["-"]>> \o to_two_digits(d.day)
format_iso_datetime(p) ==
  format_iso_date(year_month_day(p.day)) \o Text("T") \o to_two_digits(hours(p.second))
    \o Text(":") \o to_two_digits(minutes(p.second)) \o Text(":") \o to_two_digits(seconds(p.second))
    \o Text("Z")
-----------------------------------------------------------------------------
Refused == "invalid_argument"
Epoch == 1970
Stands(t, i, c) == t[i] = Code[c]

(* The texts that are refused; the reader looks at the length first.       *)
IsoDate(t) ==
  /\ Stands(t, 5, "-") /\ Stands(t, 8, "-")
  /\ decode_two_digits(t, 6) \in 1 .. 12
  /\ decode_two_digits(t, 9) \in 1 .. 31
MacroDate(t) ==
  /\ Stands(t, 7, " ")
  /\ month_name_to_number(t) > 0
  /\ parse_ymd_macro(t).day \in 1 .. 31
  /\ decode_four_digits(t, 8) >= Epoch
IsoDatetime(t) ==
  /\ Stands(t, 5, "-") /\ Stands(t, 8, "-") /\ Stands(t, 11, "T") /\ Stands(t, 14, ":") /\ Stands(t, 17, ":")
  /\ decode_two_digits(t, 12) \in 0 .. 23 /\ decode_two_digits(t, 15) \in 0 .. 59
  /\ decode_two_digits(t, 18) \in 0 .. 59
  /\ Len(t) >= 20 => t[20] \in {Code["Z"], Code["z"], Code["+"], Code["-"]}
  /\ Len(t) = 25 => Stands(t, 23, ":")

parse_iso_date ==
  /\ Runs("parse_iso_date")
  /\ Returns(IF Len(job.text) = 10 /\ IsoDate(job.text) THEN parse_ymd_iso(job.text) ELSE Refused)

parse_date_macro ==
  /\ Runs("parse_date_macro")
  /\ Returns(IF Len(job.text) = 11 /\ MacroDate(job.text) THEN parse_ymd_macro(job.text) ELSE Refused)

parse_iso_datetime ==
  /\ Runs("parse_iso_datetime")
  /\ LET t == job.text
         offset == IF Len(t) = 25 THEN parse_tz_offset(t, 20) ELSE 0
     IN  Returns(IF Len(t) \in {19, 20, 25} /\ IsoDatetime(t)
                   THEN Point(sys_days(parse_ymd_iso(t)), parse_hms(t, 12) - 60 * offset)
                   ELSE Refused)

DateNext == parse_iso_date \/ parse_date_macro \/ parse_iso_datetime
=============================================================================
