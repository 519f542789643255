----------------------------- MODULE MCTextPipe -----------------------------
EXTENDS TextPipe

MCReserved == {Text("SELECT"), Text("AS")}

(* The texts of at most n pieces.                                          *)
Upto(pieces, n) ==
  LET texts[k \in 0 .. n] ==
        IF k = 0 THEN {<<>>} ELSE {t \o p : t \in texts[k - 1], p \in pieces \cup {<<>>}}
  IN  texts[n]

Bytes == {<<NUL>>, <<LF>>, <<1>>, <<127>>, Text("A"), Text("41"), Text("\""), Text("'"), Text("\\"), Text("\\n"),
          Text("&"), Text("amp;"), Text("<"), Text("%"), Text("+"), Text("="),
          <<195, 169>>, <<237, 160, 128>>, <<240, 159, 152, 128>>, <<255>>}

(* Sequences of bytes at the limits of the forms of UTF-8.                 *)
Sequences8 ==
  {<<b>> : b \in {65, 127, 128, 192, 255}}
  \cup {<<b, c>> : b \in {65, 193, 194, 223, 224, 240}, c \in {65, 127, 128, 191, 192}}
  \cup {<<b, c, d>> : b \in {194, 224, 225, 237, 239, 240}, c \in {65, 128, 143, 159, 160, 191, 192}, d \in {65, 128, 191, 192}}
  \cup {<<b, c, 128, d>> : b \in {225, 240, 241, 244, 245, 247, 248}, c \in {127, 128, 143, 144, 160, 191}, d \in {65, 128, 191, 192}}

(* Escapes of C at their limits: surrogates, characters beyond the last     *)
(* one, and digits that end too early.                                     *)
Escapes ==
  {Text("A"), Text("4"), Text("\\"), Text("\\0"), Text("\\x"), Text("\\xE"), Text("\\xE9"), Text("\\u"), Text("\\u20A"),
   Text("\\u20AC"), Text("\\uD800"), Text("\\U0000D800"), Text("\\U0000DFFF"), Text("\\U0010FFFF"), Text("\\U00110000"),
   Text("\\U0010FFF"), <<195, 169>>}

LinePieces == {Text("a"), Text(" "), Text("  b"), <<Tab>>, <<LF>>, Text("# c"), Text("/*"), Text("*/"),
               Text("\\n"), Text("<br>"), Text("<BR />"), Text("\\#"), Text("["), Text("]")}
WordPieces == {Text("a"), Text("as"), Text("Select"), Text("B"), Text("_"), Text("-"), Text("--"), Text(" "),
               <<LF>>, Text("'"), Text("\""), Text("["), Text("]"), Text("/"), Text("/*"), Text("*/"), Text("."), Text(".."),
               <<226, 130, 172>>}

Pipe(texts, family, stages) == {[text |-> t, family |-> family, stages |-> stages] : t \in texts}

Awkward == {<<NUL>>, Text("\\"), Text("&"), Text("%"), <<255>>}
Short == {Text("a"), Text(" "), Text("b"), <<Tab>>, <<LF>>, Text("#"), Text("\\n"), Text("<br>")}
Letters == {Text("a"), Text("as"), Text("B"), Text("_"), Text("-"), Text(" "), <<LF>>, Text("'"), Text("/"), Text("."), Text("..")}

MCJobs ==
  Pipe(Upto(Bytes, 1), "codes", 4) \cup Pipe(Upto(Awkward, 1), "codes", 5) \cup Pipe(Upto(Bytes, 2), "codes", 2)
  \cup Pipe(Upto(Awkward, 2), "codes", 3)
  \cup Pipe(Sequences8, "utf8", 2) \cup Pipe(Upto(Escapes, 2), "escapes", 3)
  \cup Pipe(Upto(LinePieces, 2), "lines", 1) \cup Pipe(Upto(Short, 3), "lines", 1) \cup Pipe(Upto(Short, 2), "lines", 2)
  \cup Pipe(Upto(WordPieces, 2), "words", 1) \cup Pipe(Upto(Letters, 3), "words", 1)

Codecs == {<<"url_encode">>, <<"base64_encode">>, <<"hex_encode">>, <<"html_encode">>, <<"json_escape">>,
           <<"json_quoted">>, <<"escape_c">>}
MCEncoders ==
  [codes |-> Codecs,
   utf8 |-> {<<"escape_c">>, <<"utf8_reverse">>},
   escapes |-> {<<"escape_c">>},
   lines |-> {<<"linebreak", "Nl", "Br">>, <<"linebreak", "Nl", "EscN">>, <<"linebreak", "EscN", "Br">>,
              <<"indent", 2, Tab>>, <<"reverse">>},
   words |-> {<<"to_snake_case">>}]

MCCleaners ==
  [codes |-> {<<"strip">>, <<"word_wrap", 2>>, <<"tolower">>, <<"indent", 1, Tab>>, <<"center", 9, Space>>,
              <<"prefix_lines", Text("> ")>>, <<"normalize_whitespace">>, <<"shrink_to_fit">>},
   utf8 |-> {<<"utf8_substr", 1, 1>>},
   escapes |-> {<<"unescape_c">>},
   lines |-> {<<"strip">>, <<"lstrip">>, <<"rtrim">>, <<"collapse_spaces">>, <<"normalize_whitespace">>,
              <<"remove_leading_spaces", 0>>, <<"remove_leading_spaces", 1>>, <<"remove_leading_whitespace", 0>>,
              <<"remove_comment_lines", Text("#")>>, <<"remove_comments", Text("#")>>,
              <<"remove_trailing_spaces", 0>>, <<"remove_trailing_spaces", 1>>, <<"trim_trailing_spaces">>,
              <<"remove_range_comments", Text("/*"), Text("*/")>>, <<"remove_regex_comment">>,
              <<"join_lines", Text(", ")>>, <<"join_lines_nttp", Text(", ")>>, <<"remove_empty_lines">>,
              <<"remove_leading_empty_lines", 0>>, <<"remove_leading_empty_lines", 1>>,
              <<"remove_trailing_empty_lines", 0>>, <<"remove_trailing_empty_lines", 1>>, <<"collapse_empty_lines">>,
              <<"prefix_lines", Text("> ")>>, <<"postfix_lines", Text(";")>>, <<"surround_lines", Text("("), Text(")")>>,
              <<"dedent">>, <<"word_wrap", 1>>, <<"word_wrap", 3>>, <<"linebreak", "Br", "Nl">>},
   words |-> {<<"toupper">>, <<"tolower">>, <<"capitalize">>, <<"to_snake_case">>, <<"to_camel_case">>, <<"to_pascal_case">>,
              <<"to_kebab_case">>, <<"sql_uppercase_keywords">>, <<"normalize">>, <<"dirname">>, <<"repeat", 2>>,
              <<"abbreviate", 4, Text("...")>>, <<"abbreviate", 2, Text("...")>>, <<"pad_left", 4, 42>>, <<"pad_right", 4, 42>>,
              <<"center", 4, Space>>, <<"replace", Text("a"), Text("bc")>>, <<"replace_all", Text("a"), Text("bc")>>,
              <<"replace_all", Text("as"), <<>>>>, <<"substr", 2, 2>>, <<"substr", 2, -3>>, <<"word_wrap", 3>>}]
=============================================================================
