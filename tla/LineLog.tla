------------------------------ MODULE LineLog ------------------------------
(***************************************************************************)
(* What constexpr_log promises: an append-only list of whole lines.  A     *)
(* line that fits, with its line end, in what is left of the capacity is   *)
(* kept; one that does not is refused as a whole and leaves no trace, so   *)
(* that a shorter one may still be kept later.                             *)
(***************************************************************************)
EXTENDS Integers, Sequences

CONSTANTS
  Lines,        \* the lines that can be logged
  Capacity,     \* characters, line ends included
  MaxMessages   \* lines

VARIABLES
  lines,   \* the lines kept so far
  used,    \* characters in use
  result   \* what the last call returned, TRUE before the first

vars == <<lines, used, result>>

Room(line) == Len(lines) < MaxMessages /\ used + Len(line) + 1 <= Capacity

Init == lines = <<>> /\ used = 0 /\ result = TRUE

Keep(line) ==
  /\ Room(line)
  /\ lines' = Append(lines, line)
  /\ used' = used + Len(line) + 1
  /\ result' = TRUE

Refuse(line) ==
  /\ ~Room(line)
  /\ result' = FALSE
  /\ UNCHANGED <<lines, used>>

(* A message below the minimum level counts as handled.                    *)
Skip == result' = TRUE /\ UNCHANGED <<lines, used>>

Next == Skip \/ \E line \in Lines : Keep(line) \/ Refuse(line)

Spec == Init /\ [][Next]_vars
=============================================================================
