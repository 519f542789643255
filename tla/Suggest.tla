------------------------------ MODULE Suggest -------------------------------
(***************************************************************************)
(* suggest of string_ops.hpp: the candidate nearest to a text, by the edit *)
(* distance that gives up as soon as it must exceed the best one so far.   *)
(***************************************************************************)
EXTENDS OneCall

CONSTANT SizeMax   \* the largest std::size_t: no limit at all

Unset == -1
SuggestStart == [k |-> 1, best |-> 0, dist |-> Unset, cutoff |-> 0, row |-> <<>>, i |-> 0]

Candidate == job.candidates[st.k]
Gap(a, b) == IF Len(a) > Len(b) THEN Len(a) - Len(b) ELSE Len(b) - Len(a)
Least(row) == CHOOSE d \in Range(row) : \A e \in Range(row) : d <= e

(* Only a nearer candidate than the best one counts.                       *)
Cutoff(limit, dist) == IF dist = Unset THEN limit ELSE Smaller(limit, dist - 1)

(* The row below: row[j + 1] is the distance to the first j characters of  *)
(* the candidate, c the next character of the input.                       *)
RowBelow(row, c, candidate) ==
  LET below[j \in 1 .. Len(row)] ==
        IF j = 1 THEN row[1] + 1
        ELSE Smaller(below[j - 1] + 1,
                     Smaller(row[j] + 1, row[j - 1] + (IF candidate[j - 1] = c THEN 0 ELSE 1)))
  IN  [j \in 1 .. Len(row) |-> below[j]]

(* Mutant: it gives up on a row that only comes up to the cutoff.          *)
GivesUpEarly(row, cutoff) == cutoff # SizeMax /\ Least(row) >= cutoff

(* A row that exceeds the cutoff cannot lead below it; without a limit     *)
(* every row is computed.                                                  *)
GivesUp(row, cutoff) == cutoff # SizeMax /\ Least(row) > cutoff
-----------------------------------------------------------------------------
Suggests == Runs("suggest")
Skip == Goes([st EXCEPT !.k = @ + 1, !.row = <<>>, !.i = 0])

Finished == /\ Suggests /\ st.row = <<>> /\ st.k > Len(job.candidates)
            /\ Returns(st.best)

(* A candidate that cannot be nearer: nothing is, or its length says so.   *)
PassOver ==
  /\ Suggests /\ st.row = <<>> /\ st.k <= Len(job.candidates)
  /\ \/ st.dist = 0
     \/ Gap(job.input, Candidate) > Cutoff(job.limit, st.dist)
  /\ Skip

Consider ==
  /\ Suggests /\ st.row = <<>> /\ st.k <= Len(job.candidates)
  /\ st.dist # 0
  /\ Gap(job.input, Candidate) <= Cutoff(job.limit, st.dist)
  /\ Goes([st EXCEPT !.cutoff = Cutoff(job.limit, st.dist), !.i = 1,
                     !.row = [j \in 1 .. Len(Candidate) + 1 |-> j - 1]])

(* levenshtein_distance_impl_cutoff, one row.                              *)
Row ==
  /\ Suggests /\ st.row # <<>> /\ st.i <= Len(job.input)
  /\ LET below == RowBelow(st.row, job.input[st.i], Candidate)
     IN  IF GivesUp(below, st.cutoff) THEN Skip
         ELSE Goes([st EXCEPT !.row = below, !.i = @ + 1])

Compare ==
  /\ Suggests /\ st.row # <<>> /\ st.i > Len(job.input)
  /\ LET dist == st.row[Len(st.row)]
     IN  IF dist > st.cutoff \/ (st.dist # Unset /\ dist >= st.dist) THEN Skip
         ELSE Goes([st EXCEPT !.k = @ + 1, !.row = <<>>, !.i = 0, !.best = st.k, !.dist = dist])

SuggestNext == Finished \/ PassOver \/ Consider \/ Row \/ Compare
=============================================================================
