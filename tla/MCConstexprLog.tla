--------------------------- MODULE MCConstexprLog ---------------------------
(* Small instances of ConstexprLog: every message of at most two           *)
(* characters, line ends among them, and one that never fits.              *)
EXTENDS ConstexprLog

MCChars == {"x", "nl"}
MCMessages == UNION {[1 .. n -> {"x", "nl"}] : n \in 0 .. 2} \cup {[k \in 1 .. 9 |-> "x"]}
NoPrefix == <<>>
=============================================================================
