---------------------------- MODULE MCJsonCrush ----------------------------
(* Small instances of JsonCrush: texts put together from a few words, with *)
(* repetitions inside and across the words.                                *)
EXTENDS JsonCrush

MCUnits == <<"a", "b", "c", "H", "L", "x", "y", "z", "dq", "sq", ":", "!", ",", "~", "}", ")",
             "{", "(", "U+0001">>
MCAllUnits == Range(MCUnits)
MCCode == [u \in MCAllUnits |-> CHOOSE n \in DOMAIN MCUnits : MCUnits[n] = u]

MCReplacements == <<"z", "y", "x">>

Words == {<<"a", "b", "a", "b">>, <<"a", "b", "c", "a", "b", "c">>, <<"c", "c", "c">>,
          <<"H", "L">>, <<"x", "a", "b">>}

Repeating == {FlattenSeq(w) : w \in UNION {[1 .. n -> Words] : n \in 2 .. 5}}

Member == <<"dq", "a", "b", "dq", ":", "dq", "sq", "c", "dq">>
Marks == {<<",">>, <<"{">>, <<"}">>, <<"!", "~">>, <<"sq", "U+0001", ":">>}

(* JSON members next to the characters and marks that are swapped.         *)
MCJson == {FlattenSeq(w) : w \in UNION {[1 .. n -> Marks \cup {Member}] : n \in 1 .. 4}}

MCInputs == Repeating \cup MCJson
=============================================================================
