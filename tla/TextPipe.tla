------------------------------ MODULE TextPipe ------------------------------
(***************************************************************************)
(* A pipe of adaptors, `text | ops::a | ops::b | ...` (detail/pipe.hpp and *)
(* ops.hpp): every stage takes the FrozenString that the one before it     *)
(* returned.  A pipe may encode a text, hand the encoded text through      *)
(* other stages, and decode it again, one encoding inside another.         *)
(***************************************************************************)
EXTENDS StringOps

CONSTANTS
  Jobs,       \* the pipes that are tried: text, family of adaptors, stages
  Encoders,   \* the encoders of a family
  Cleaners    \* the other adaptors of a family, with their arguments

VARIABLES
  str,    \* the FrozenString that the last stage returned
  open,   \* what is encoded: by which encoder, and the text it was given
  last,   \* the last adaptor
  job,    \* the pipe that is tried
  left    \* the number of stages that may follow

vars == <<str, open, last, job, left>>
-----------------------------------------------------------------------------
(* The function that an adaptor a forwards to, a name and its arguments.   *)
Trimmed(a, f) ==
  CASE a[1] = "strip" -> strip(f)
    [] a[1] = "lstrip" -> lstrip(f)
    [] a[1] = "rtrim" -> rtrim(f)
    [] a[1] = "toupper" -> toupper(f)
    [] a[1] = "tolower" -> tolower(f)
    [] a[1] = "collapse_spaces" -> collapse_spaces(f)
    [] a[1] = "substr" -> substr(f, a[2], a[3])

Renamed(a, f) ==
  CASE a[1] = "capitalize" -> capitalize(f)
    [] a[1] = "to_snake_case" -> to_snake_case(f)
    [] a[1] = "to_camel_case" -> to_camel_case(f)
    [] a[1] = "to_pascal_case" -> to_pascal_case(f)
    [] a[1] = "to_kebab_case" -> to_kebab_case(f)

Uncommented(a, f) ==
  CASE a[1] = "remove_leading_spaces" -> remove_leading_spaces_if(f, {Space}, a[2])
    [] a[1] = "remove_leading_whitespace" -> remove_leading_spaces_if(f, Whitespace, a[2])
    [] a[1] = "remove_comment_lines" -> remove_comment_lines(f, a[2])
    [] a[1] = "remove_comments" -> remove_comments(f, a[2])
    [] a[1] = "remove_trailing_spaces" -> remove_trailing_spaces_if(f, {Space}, a[2])
    [] a[1] = "remove_range_comments" -> remove_range_comments(f, a[2], a[3])
    [] a[1] = "remove_regex_comment" -> remove_regex_comment(f)

Lined(a, f) ==
  CASE a[1] = "join_lines" -> join_lines(f, a[2], MAX_SEP_LEN)
    [] a[1] = "join_lines_nttp" -> join_lines(f, a[2], Len(a[2]))
    [] a[1] = "trim_trailing_spaces" -> trim_trailing_spaces(f)
    [] a[1] = "remove_empty_lines" -> remove_empty_lines(f)
    [] a[1] = "remove_leading_empty_lines" -> remove_leading_empty_lines(f, a[2])
    [] a[1] = "remove_trailing_empty_lines" -> remove_trailing_empty_lines(f, a[2])
    [] a[1] = "collapse_empty_lines" -> collapse_empty_lines(f)
    [] a[1] = "prefix_lines" -> prefix_lines(f, a[2])
    [] a[1] = "postfix_lines" -> postfix_lines(f, a[2])
    [] a[1] = "surround_lines" -> surround_lines(f, a[2], a[3], Len(a[2]) + Len(a[3]) + 2)

Encoded(a, f) ==
  CASE a[1] = "url_encode" -> url_encode(f)
    [] a[1] = "base64_encode" -> base64_encode(f)
    [] a[1] = "hex_encode" -> hex_encode(f)
    [] a[1] = "html_encode" -> html_encode(f)
    [] a[1] = "json_escape" -> json_escape(f)
    [] a[1] = "json_quoted" -> json_quoted(f)

Laid(a, f) ==
  CASE a[1] = "word_wrap" -> word_wrap(f, a[2])
    [] a[1] = "sql_uppercase_keywords" -> sql_uppercase_keywords(f)
    [] a[1] = "pad_left" -> pad_left(f, a[2], a[3])
    [] a[1] = "pad_right" -> pad_right(f, a[2], a[3])
    [] a[1] = "replace" -> replace(f, a[2], a[3])
    [] a[1] = "replace_all" -> replace_all(f, a[2], a[3])
    [] a[1] = "linebreak" -> convert_linebreak(f, a[2], a[3])
    [] a[1] = "reverse" -> reverse(f)
    [] a[1] = "indent" -> indent(f, a[2], a[3])
    [] a[1] = "dedent" -> dedent(f)

(* The functions without an adaptor, called between the stages of a pipe.  *)
Called(a, f) ==
  CASE a[1] = "normalize_whitespace" -> normalize_whitespace(f)
    [] a[1] = "center" -> center(f, a[2], a[3])
    [] a[1] = "repeat" -> repeat(f, a[2])
    [] a[1] = "abbreviate" -> abbreviate(f, a[2], a[3])
    [] a[1] = "shrink_to_fit" -> shrink_to_fit(f)
    [] a[1] = "normalize" -> normalize(f)
    [] a[1] = "dirname" -> dirname(f)
    [] a[1] = "escape_c" -> escape_c(f)
    [] a[1] = "unescape_c" -> unescape_c(f)
    [] a[1] = "utf8_reverse" -> Same(f, utf8_reverse(f.text))
    [] a[1] = "utf8_substr" -> Same(f, utf8_substr(f.text, a[2], a[3]))

Group ==
  [trim |-> {"strip", "lstrip", "rtrim", "toupper", "tolower", "collapse_spaces", "substr"},
   case |-> {"capitalize", "to_snake_case", "to_camel_case", "to_pascal_case", "to_kebab_case"},
   comment |-> {"remove_leading_spaces", "remove_leading_whitespace", "remove_comment_lines",
                "remove_comments", "remove_trailing_spaces", "remove_range_comments",
                "remove_regex_comment"},
   line |-> {"join_lines", "join_lines_nttp", "trim_trailing_spaces", "remove_empty_lines",
             "remove_leading_empty_lines", "remove_trailing_empty_lines", "collapse_empty_lines",
             "prefix_lines", "postfix_lines", "surround_lines"},
   encode |-> {"url_encode", "base64_encode", "hex_encode", "html_encode", "json_escape",
               "json_quoted"},
   layout |-> {"word_wrap", "sql_uppercase_keywords", "pad_left", "pad_right", "replace",
               "replace_all", "linebreak", "reverse", "indent", "dedent"}]

Apply(a, f) ==
  CASE a[1] \in Group.trim -> Trimmed(a, f)
    [] a[1] \in Group.case -> Renamed(a, f)
    [] a[1] \in Group.comment -> Uncommented(a, f)
    [] a[1] \in Group.line -> Lined(a, f)
    [] a[1] \in Group.encode -> Encoded(a, f)
    [] a[1] \in Group.layout -> Laid(a, f)
    [] OTHER -> Called(a, f)
-----------------------------------------------------------------------------
(* What a reader of JSON makes of the characters of a string.              *)
ReadJson(t) ==
  LET Part(s, i) ==
        IF s[i] # Code["\\"] THEN Write(<<s[i]>>, 1)
        ELSE IF s[i + 1] = Code["u"] THEN Write(<<parse_hex_digits(s, i + 2, 4).value>>, 6)
        ELSE Write(<<CHOOSE c \in DOMAIN JsonLetter : JsonLetter[c] = s[i + 1]>>, 2)
  IN  Walk(t, Part)

(* The stage that takes an encoding back.                                  *)
Decoded(a, f) ==
  CASE a[1] = "url_encode" -> url_decode(f)
    [] a[1] = "base64_encode" -> base64_decode(f)
    [] a[1] = "hex_encode" -> hex_decode(f)
    [] a[1] = "html_encode" -> html_decode(f)
    [] a[1] = "json_escape" -> Same(f, ReadJson(f.text))
    [] a[1] = "json_quoted" -> Same(f, ReadJson(SubSeq(f.text, 2, Len(f.text) - 1)))
    [] a[1] = "escape_c" -> unescape_c(f)
    [] a[1] = "linebreak" -> convert_linebreak(f, a[3], a[2])
    [] a[1] = "reverse" -> reverse(f)
    [] a[1] = "utf8_reverse" -> Same(f, utf8_reverse(f.text))
    [] a[1] = "indent" -> dedent(f)
    [] a[1] = "to_snake_case" -> to_camel_case(f)

(* The texts that an encoder can be asked to bring back.                   *)
Encodable(a, t) ==
  CASE a[1] = "linebreak" -> convert_linebreak(Literal(t), a[3], a[2]).text = t
    [] a[1] = "utf8_reverse" -> is_valid_utf8(t)
    [] a[1] = "indent" -> dedent(Literal(t)).text = t /\ t # <<>> /\ \E i \in DOMAIN t : t[i] \notin Whitespace
    [] a[1] = "to_snake_case" -> \A i \in DOMAIN t : t[i] \in Alpha /\ (i = 1 => t[i] \in Lower)
    [] OTHER -> TRUE

(* What leaves an encoded text as good as it was.                          *)
Harmless(a, name) ==
  CASE a[1] = "base64_encode" -> name \in {"strip", "word_wrap", "indent", "prefix_lines", "center"}
    [] a[1] = "hex_encode" -> name \in {"strip", "word_wrap", "toupper", "tolower"}
    [] a[1] = "url_encode" -> name \in {"strip", "word_wrap", "normalize_whitespace"}
    [] OTHER -> FALSE

Top == open[Len(open)]
Stage(a, f) == str' = f /\ last' = a /\ left' = left - 1 /\ UNCHANGED job

Init ==
  /\ job \in Jobs
  /\ str = Literal(job.text) /\ left = job.stages
  /\ open = <<>> /\ last = <<"none">>

Encode(a) ==
  /\ left > Len(open) + 1 /\ Encodable(a, str.text)
  /\ Stage(a, Apply(a, str))
  /\ open' = Append(open, [by |-> a, was |-> str.text])

(* The encoded text passes a stage that does it no harm.                   *)
Handle(a) ==
  /\ left > Len(open) /\ open # <<>> /\ Harmless(Top.by, a[1])
  /\ Stage(a, Apply(a, str)) /\ UNCHANGED open

Decode ==
  /\ open # <<>>
  /\ Stage(<<"decode">>, Decoded(Top.by, str))
  /\ open' = SubSeq(open, 1, Len(open) - 1)

Clean(a) ==
  /\ left > 0 /\ open = <<>>
  /\ Stage(a, Apply(a, str)) /\ UNCHANGED open

(* A pipe may end when nothing is left encoded.                            *)
Return == open = <<>> /\ UNCHANGED vars

Next ==
  \/ \E a \in Encoders[job.family] : Encode(a)
  \/ \E a \in Cleaners[job.family] : Handle(a)
  \/ \E a \in Cleaners[job.family] : Clean(a)
  \/ Decode
  \/ Return

Spec == Init /\ [][Next]_vars
-----------------------------------------------------------------------------
(* Decoding gives back the text that was encoded, for every text of bytes, *)
(* with encodings inside one another and harmless stages between.          *)
TakesBack == [][Len(open') < Len(open) => str'.text = Top.was]_vars

(* No function writes beyond its buffer: the size that its template        *)
(* computes from the sizes of its arguments has room for the text and NUL, *)
(* at every stage of the pipe.                                             *)
Holds == Len(str.text) < str.size

WordsOf(t) == LET ws == split(t, Whitespace, Len(t) + 1) IN [i \in DOMAIN ws |-> ws[i].text]

Replacements == {<<Text("a"), Text("bc")>>, <<Text("  "), Text("x")>>, <<Text("aa"), <<>>>>}

Filled(f) == Len(f.text) + 1 = f.size

(* Sizes that are counted in a pass of their own agree with the text that  *)
(* the second pass writes: url_encode, url_decode, base64_decode, snake    *)
(* case, replace_all and split of a template argument, and JSON escapes.   *)
ExactSizes ==
  LET f == Literal(str.text)
      words == split_result(f.text, Whitespace)
  IN  /\ Filled(url_encode_exact(f)) /\ Filled(url_decode_exact(f))
      /\ Filled(base64_encode(f)) /\ Filled(to_snake_case_exact(f))
      /\ Base64Compiles(f.text) => Filled(base64_decode_exact(f))
      /\ Len(JsonText(f.text)) = count_json_escaped_size(f.text)
      /\ NUL \notin {f.text[i] : i \in DOMAIN f.text} =>
           \A r \in Replacements : Filled(replace_all_exact(f, r[1], r[2]))
      /\ Len(words.value) = words.token_count
      /\ \A i \in DOMAIN words.value : Len(words.value[i].text) < words.value[i].size

LineLayout ==
  {"strip", "lstrip", "rtrim", "collapse_spaces", "remove_leading_spaces",
   "remove_leading_whitespace", "remove_trailing_spaces", "trim_trailing_spaces",
   "remove_empty_lines", "remove_leading_empty_lines", "remove_trailing_empty_lines",
   "collapse_empty_lines", "indent", "dedent", "center"}
TextLayout == LineLayout \cup {"word_wrap", "normalize_whitespace"}

(* The words of the lines that have any.                                   *)
HasAny(ws) == ws # <<>>
LineWords(t) ==
  LET ls == LinesOf(t)
  IN  SelectSeq([i \in DOMAIN ls |-> WordsOf(ls[i].body)], HasAny)

(* Stages that move spaces and lines keep the words, their order, and the  *)
(* lines they stand in; those that wrap or join lines keep the words.      *)
WordsKept ==
  [][/\ last'[1] \in LineLayout => LineWords(str'.text) = LineWords(str.text)
     /\ last'[1] \in TextLayout => WordsOf(str'.text) = WordsOf(str.text)]_vars

(* word_wrap leaves no line longer than the width but for a single word.   *)
WrapsRight ==
  last[1] = "word_wrap" =>
    LET ls == LinesOf(str.text)
    IN  \A i \in DOMAIN ls :
          Len(ls[i].body) <= last[2] \/ Len(WordsOf(ls[i].body)) = 1

(* What is taken apart goes together again: the pieces of partition, of    *)
(* utf8_substr and of split, and the directory, stem and extension of a    *)
(* path.                                                                   *)
PiecesJoin ==
  LET f == Literal(str.text)
      parts == partition(f, Text("a"))
      path == normalize(f)
      words == split(f.text, Whitespace, f.size)
      count == Len(utf8_to_codepoints(f.text))
  IN  /\ parts[1].text \o parts[2].text \o parts[3].text = f.text
      /\ normalize(path_join(dirname(path).text, basename(path).text)).text = path.text
      /\ stem(path).text \o extension(path).text = basename(path).text
      /\ Len(extension(path).text) < Larger(1, Len(basename(path).text))
      /\ join(words, Text(" "), f.size).text = normalize_whitespace(f).text
      /\ \A n \in 0 .. count :
           utf8_substr(f.text, 0, n) \o utf8_substr(f.text, n, count) = f.text

(* is_valid_utf8 takes a text exactly when it is what its code points are  *)
(* written as, and all of them are characters: no overlong form, no        *)
(* surrogate, nothing above 0x10FFFF or cut short.  utf8_length then       *)
(* counts them.                                                            *)
ValidExactly ==
  LET t == str.text
      points == utf8_to_codepoints(t)
  IN  /\ is_valid_utf8(t) <=>
           /\ codepoints_to_utf8(points) = t
           /\ \A i \in DOMAIN points : points[i] <= 1114111 /\ points[i] \notin 55296 .. 57343
      /\ is_valid_utf8(t) => utf8_length(t) = Len(points)
=============================================================================
