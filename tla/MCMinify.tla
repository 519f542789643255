------------------------------ MODULE MCMinify ------------------------------
EXTENDS Minify

MCWords == {"a", "if", "else", "do", "while", "for", "with", "return", "1",
            "AS", "INNER", "JOIN", "CAST", "TRY_CAST", "SAFE_CAST", "SELECT", "WITH", "VALUES", "TABLE",
            "BOOLEAN", "CHARACTER", "VARYING", "DECIMAL", "INTEGER", "BOOL", "CHAR", "DEC", "INT", "VARCHAR",
            "COPY",
            "b", "li", "p", "div", "id", "x", "img", "disabled", "br", "script", "type", "importmap", "py", "pre", "style", "c"}

Pieces(name) ==
  CASE name = "json" -> {<<"a", ",">>, <<",">>, <<" ">>, <<"\n">>, <<"/", "/", "\"">>, <<"/", "*", "\"", "*", "/">>, <<"/", "*">>,
                         <<"\"", "a", "/", "/", " ", "\"">>, <<"\"", "\\", "\"", "/", "*", "\"">>, <<"\"", "\\", "\\", "\"">>}
    [] name = "js" -> {<<"a">>, <<"return">>, <<"else">>, <<"if", " ", "(", "a", ")">>, <<"(">>, <<")">>, <<"+">>, <<"+", "+">>, <<";">>, <<"}">>, <<"{">>, <<"\n">>,
                      <<" ">>, <<"/", "/", "'", "\n">>, <<"/", "*", "\n", "'", "*", "/">>, <<"'", "\\", "'", " ", "/", "/", "'">>,
                      <<"bt", "'", "$", "{", "a", "{", "}", "bt", "}", "/", "/", "bt">>, <<"=">>, <<"!">>}
    [] name = "sql" -> {<<"a">>, <<"AS">>, <<"INNER">>, <<"JOIN">>, <<"CAST", " ", "(", "a">>, <<" ", "AS", " ", "a">>, <<"(">>, <<")">>, <<"SELECT">>, <<"INTEGER">>, <<"CHARACTER">>, <<"VARYING">>,
                       <<" ">>, <<"-">>, <<"-", "-", "'", "\n">>, <<"/", "*", "'", "*", "/">>, <<"'", "-", "-", "'", "'", " ", "'", ",">>, <<"[", " ", "'", "]">>, <<",">>}
    [] name = "cypher" -> {<<"a">>, <<"COPY">>, <<"(">>, <<")">>, <<"*">>, <<";">>, <<" ">>, <<"-">>, <<"/", "/", "'", "\n">>, <<"/", "*", "'", "*", "/">>,
                       <<"'", "\\", "'", "/", "/", "'">>, <<"bt", " ", "bt", "bt", "'", "bt", ")">>}
    [] name = "lua" -> {<<"a">>, <<"1">>, <<".", ".">>, <<"-">>, <<"[", "a", "]">>, <<";">>, <<"}">>, <<"{">>, <<" ">>, <<"-", "-", "'", "\n">>, <<"-", "-", "!", "'", "\n">>, <<"-", "-", "[", "=", "[", "'", "]", "]", "]", "=", "]">>,
                     <<"=", "[", "[", " ", "]", "=", "]", "-", "-", "]", "]">>, <<"'", "\\", "'", "-", "-", "'">>}
    [] name = "yaml" ->
         {<<"a", ":", " ", "'", "#", " ", "#", "'", "'", " ", "#", "'", " ", "#", "b", "\n">>,
          <<" ", "-", " ", "\"", "\\", "\"", " ", "#", "\"", " ", "\n">>,
          <<"a", ":", " ", "|", "\n">>, <<" ", "-", " ", ">", "-", " ", "#", "c", "\n">>,
          <<" ", " ", "b", " ", "#", "c", "\n">>, <<" ", "b", " ", "\n">>,
          <<" ", "\n">>, <<"\n">>, <<"#", "c", "\n", "b", "\n">>, <<"b", "#", "c">>}
    [] name = "html" ->
         {<<"a">>, <<" ">>, <<"<", "b", ">">>, <<"<", "/", "b", ">">>, <<"<", "li", ">">>, <<"<", "/", "li", ">">>,
          <<"<", "p", ">">>, <<"<", "/", "p", ">">>, <<"<", "div", " ", "id", " ", "=", " ", "'", "x", "'", ">">>,
          <<"<", "img", "\n", "disabled", "=", "\"", "disabled", "\"", " ", " ", "/", ">">>,
          <<"<", "/", "br", ">">>, <<" ", "<", "!", "-", "-", "<", "b", ">", "-", "-", ">">>,
          <<"{", "{", "x", "}", "}">>, <<"{", "{", "#", " ", "}", "}">>,
          <<"<", "script", ">", "a", "\n", "a", ";", "/", "*", "<", "*", "/", "<", "/", "script", ">">>,
          <<"<", "script", " ", "type", "=", "importmap", ">", "{", " ", "}", "<", "/", "script", ">">>,
          <<"<", "script", " ", "type", "=", "'", "py", "'", ">", " ", "a", "<", "/", "script", ">">>,
          <<"<", "pre", ">", " ", "{", "{", "<", "/", "pre", ">">>,
          <<"<", "style", ">", "a", " ", "b", " ", "{", " ", "a", ":", " ", "b", ";", " ", "}", "<", "/", "style", ">">>,
          <<"=">>, <<">">>}

(* The texts of at most n pieces.                                          *)
Upto(name, n) ==
  LET texts[k \in 0 .. n] ==
        IF k = 0 THEN {<<>>} ELSE {t \o p : t \in texts[k - 1], p \in Pieces(name) \cup {<<>>}}
  IN  texts[n]

Options(name) ==
  CASE name = "sql" -> {{}, {"shorten_types", "remove_as", "simplify_join"}}
    [] name = "html" -> {{}, {"remove_quotes", "remove_end_tags"}}
    [] name = "lua" -> {{}, {"keep_directives"}}
    [] OTHER -> {{}}

(* A page does not begin with a space or a comment, and directives of Lua  *)
(* stand at the beginning: see README.md.                                  *)
Begins(name, t) ==
  /\ name = "html" => /\ t # <<>> /\ t[1] # " "
                      /\ Len(t) > 1 => <<t[1], t[2]>> # <<"<", "!">>
  /\ name = "lua" => \A k \in DOMAIN t : t[k] = "!" => k = 3

Calls(name, n) ==
  {[lang |-> name, text |-> t, opts |-> o] : t \in {t \in Upto(name, n) : Begins(name, t)},
                                            o \in Options(name)}

MCInputs ==
  [json |-> Calls("json", 4), js |-> Calls("js", 3), sql |-> Calls("sql", 3),
   cypher |-> Calls("cypher", 3), lua |-> Calls("lua", 3), yaml |-> Calls("yaml", 3),
   html |-> Calls("html", 3)]

(* Pages that begin with a space.                                          *)
MCLedPages == [html |-> {[lang |-> "html", text |-> <<" ">> \o t, opts |-> {}] : t \in Upto("html", 2)}]
=============================================================================
