--------------------------- MODULE MCJsonCompress ---------------------------
(* Small instances of JsonCompress: every short sequence of lexemes, and   *)
(* documents nested up to and beyond the limit, whole and with an error.   *)
EXTENDS JsonCompress

MCBase62Chars == <<"0", "1">>

A == Str(<<"a">>)
One == Lit(<<"1">>)
OneText == Str(<<"1">>)

Lexemes == {Comma, Colon, Space, A, One, Bad} \cup Range(Open) \cup Range(Close)
Short == UNION {[1 .. n -> Lexemes] : n \in 1 .. 4}

Scalars == {Scalar(A), Scalar(One), Scalar(OneText), Scalar(Lit(<<"null">>))}

Arrays(items) == {[Container("array") EXCEPT !.arr = arr] : arr \in UNION {[1 .. n -> items] : n \in 0 .. 2}}
Objects(items) == {[Container("object") EXCEPT !.keys = <<A, A>>, !.arr = <<x, y>>] : x, y \in items}

Flat == Scalars \cup Arrays(Scalars) \cup Objects(Scalars)
Nested == Arrays({Scalar(A), Scalar(One)} \cup Objects({Scalar(OneText), Scalar(One)}))
Deep == {[Container("array") EXCEPT !.arr = <<v>>] : v \in Nested}
Wide == {[Container("array") EXCEPT !.arr = arr] : arr \in [1 .. 4 -> Scalars]}

Whole == {Text(v) : v \in Flat \cup Nested \cup Deep \cup Wide}
Damaged == UNION {{[Text(v) EXCEPT ![k] = lexeme] :
                     k \in DOMAIN Text(v), lexeme \in {Comma, Close.array, Space, One}} :
                  v \in Nested}

MCDocuments == Short \cup Whole \cup Damaged

Table1(root) ==
  <<Open.object, Str(<<"values">>), Colon, Open.array, A, Comma, One, Close.array, Comma,
    Str(<<"root">>), Colon>> \o root \o <<Close.object>>
MCForeign == {Table1(root) : root \in {<<Str(d)>> : d \in UNION {[1 .. n -> {"0", "1", "a"}] : n \in 0 .. 3}}
                                        \cup {<<One>>, <<Open.array, Close.array>>}}
=============================================================================
