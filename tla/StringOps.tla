----------------------------- MODULE StringOps ------------------------------
(***************************************************************************)
(* The operations on whole strings: string_ops.hpp with the helpers of     *)
(* detail/string_utils.hpp and case_conv.hpp.  Then those on the lines of  *)
(* a text: multiline.hpp, indent and dedent, and the comments of           *)
(* regex_comment.hpp.  Then those on words and names: split.hpp, the       *)
(* notations of case_conv.hpp and the file names of path.hpp.  Each        *)
(* returns the FrozenString that the function returns, with the size that  *)
(* its template computes for the buffer.                                   *)
(***************************************************************************)
EXTENDS Encodings, FiniteSetsExt

CONSTANT SqlReserved   \* sql_reserved_words that occur in the texts

(* A loop over the characters of a text that carries a state.              *)
Through(t, first, Step(_, _)) ==
  LET after[i \in 0 .. Len(t)] == IF i = 0 THEN first ELSE Step(after[i - 1], i)
  IN  after[Len(t)]
-----------------------------------------------------------------------------
(* Searching.  Places count from 1, and 0 is npos.                         *)
find_impl(t, s, pos) ==
  LET hits == {i \in pos .. Len(t) - Len(s) + 1 : StartsAt(t, i, s)}
  IN  CASE s = <<>> -> pos
        [] s # <<>> /\ hits = {} -> 0
        [] s # <<>> /\ hits # {} -> Min(hits)
rfind_substring(t, s) ==
  LET hits == {i \in 1 .. Len(t) - Len(s) + 1 : StartsAt(t, i, s)}
  IN  IF hits = {} THEN 0 ELSE Max(hits)
find_last_of(t, chars) ==
  LET hits == {i \in DOMAIN t : t[i] \in chars} IN IF hits = {} THEN 0 ELSE Max(hits)

(* Mutant of count_substring: every place where s stands is counted.       *)
CountOverlapping(t, s) == IF s = <<>> THEN 0 ELSE Cardinality({i \in DOMAIN t : StartsAt(t, i, s)})

(* Occurrences that do not overlap, from the left.                         *)
count_substring(t, s) ==
  LET count[i \in 1 .. Len(t) + 1] ==
        IF i > Len(t) THEN 0
        ELSE IF StartsAt(t, i, s) THEN 1 + count[i + Len(s)] ELSE count[i + 1]
  IN  IF s = <<>> THEN 0 ELSE count[1]
-----------------------------------------------------------------------------
(* shrink_to_fit ends the text at the first NUL of the buffer.             *)
FirstNul(t) == Min({i \in DOMAIN t : t[i] = NUL} \cup {Len(t) + 1})
shrink_to_fit(f) == Literal(Cut(f.text, FirstNul(f.text) - 1))

Padded(f, width, left, right) ==
  Frozen(Larger(f.size, width + 1), left \o f.text \o right)
pad_left(f, width, fill) == Padded(f, width, Times(Larger(0, width - Len(f.text)), <<fill>>), <<>>)
pad_right(f, width, fill) == Padded(f, width, <<>>, Times(Larger(0, width - Len(f.text)), <<fill>>))
center(f, width, fill) ==
  LET room == Larger(0, width - Len(f.text))
  IN  Padded(f, width, Times(room \div 2, <<fill>>), Times(room - room \div 2, <<fill>>))

repeat(f, count) == Frozen((f.size - 1) * count + 1, Times(count, f.text))

toupper(f) == Same(f, [i \in DOMAIN f.text |-> to_upper(f.text[i])])
tolower(f) == Same(f, [i \in DOMAIN f.text |-> to_lower(f.text[i])])

abbreviate(f, max_len, suffix) ==
  Frozen(Larger(f.size, max_len + 1),
         CASE Len(f.text) <= max_len -> f.text
           [] Len(f.text) > max_len /\ max_len <= Len(suffix) -> Cut(suffix, max_len)
           [] Len(f.text) > max_len /\ max_len > Len(suffix) ->
                Cut(f.text, max_len - Len(suffix)) \o suffix)

reverse(f) == Same(f, [i \in DOMAIN f.text |-> f.text[Len(f.text) + 1 - i]])

(* A negative length takes the characters before pos.                      *)
substr(f, pos, len) ==
  LET anchor == Smaller(pos, Len(f.text))
  IN  Same(f, IF len >= 0 THEN SubSeq(f.text, anchor + 1, Smaller(anchor + len, Len(f.text)))
              ELSE SubSeq(f.text, Larger(0, anchor + len) + 1, anchor))

replace(f, from, to) ==
  LET pos == find_impl(f.text, from, 1)
  IN  Frozen(f.size + Len(to) + 1,
             IF pos = 0 THEN f.text
             ELSE Cut(f.text, pos - 1) \o to \o Rest(f.text, pos + Len(from)))

(* Mutant of ReplacedSize: every text is taken to be full of matches.      *)
AllReplaced(size, from, to) == ((size - 1) \div Len(from)) * Len(to) + ((size - 1) % Len(from)) + 1

(* The largest result has the most matches, or none.                       *)
ReplacedSize(size, from, to) ==
  LET s == size - 1 IN Larger(s, (s \div Len(from)) * Len(to) + (s % Len(from))) + 1
replace_all(f, from, to) ==
  LET Part(t, i) ==
        IF StartsAt(t, i, from) THEN Write(to, Len(from)) ELSE Write(<<t[i]>>, 1)
  IN  Frozen(ReplacedSize(f.size, from, to), Walk(f.text, Part))
replace_all_exact_size(t, from, to) ==
  Len(t) + count_substring(t, from) * (Len(to) - Len(from)) + 1
replace_all_exact(f, from, to) ==
  Frozen(replace_all_exact_size(f.text, from, to), shrink_to_fit(replace_all(f, from, to)).text)

(* What stands before the first delimiter, the delimiter, and the rest.    *)
partition(f, delim) ==
  LET pos == find_impl(f.text, delim, 1)
  IN  IF pos = 0 THEN <<f, Frozen(Len(delim) + 1, <<>>), Same(f, <<>>)>>
      ELSE <<Same(f, Cut(f.text, pos - 1)), Literal(delim), Same(f, Rest(f.text, pos + Len(delim)))>>

join(fs, delim, size) ==
  LET all[i \in 0 .. Len(fs)] ==
        IF i = 0 THEN <<>> ELSE all[i - 1] \o (IF i > 1 THEN delim ELSE <<>>) \o fs[i].text
  IN  Frozen(size * Len(fs) + Len(delim) * Larger(0, Len(fs) - 1) + 1, all[Len(fs)])
-----------------------------------------------------------------------------
(* trim_copy: the characters of a set go from the left, the right or both. *)
trim_copy(f, left, right, chars) ==
  LET l == IF left THEN Leading(f.text, chars) ELSE 0
      r == IF right THEN Trailing(Rest(f.text, l + 1), chars) ELSE 0
  IN  Same(f, SubSeq(f.text, l + 1, Len(f.text) - r))
strip(f) == trim_copy(f, TRUE, TRUE, Whitespace)
lstrip(f) == trim_copy(f, TRUE, FALSE, Whitespace)
rtrim(f) == trim_copy(f, FALSE, TRUE, {Space})

collapse_spaces(f) ==
  LET Keep(out, i) ==
        IF f.text[i] = Space /\ i > 1 /\ f.text[i - 1] = Space THEN out ELSE Append(out, f.text[i])
  IN  Same(f, Through(f.text, <<>>, Keep))

EndsInSpace(t) == t # <<>> /\ t[Len(t)] = Space
normalize_whitespace(f) ==
  LET Keep(out, i) ==
        IF f.text[i] \notin Whitespace THEN Append(out, f.text[i])
        ELSE IF out = <<>> \/ EndsInSpace(out) THEN out ELSE Append(out, Space)
      all == Through(f.text, <<>>, Keep)
  IN  Same(f, Cut(all, Len(all) - Trailing(all, {Space})))

(* Mutant of BreaksBefore: the space in front of the next word is not      *)
(* counted.                                                                *)
NoSpaceCounted(col, word_len, width) == col + word_len > width
BreaksBefore(col, word_len, width) == col + 1 + word_len > width

(* A space becomes a line break when the word after it does not fit.       *)
word_wrap(f, w) ==
  LET width == Larger(w, 1)
      t == f.text
      Unspaced(out) == IF EndsInSpace(out) THEN Cut(out, Len(out) - 1) ELSE out
      Wrap(s, i) ==
        LET spaces == Leading(Rest(t, i + 1), Whitespace \ {LF})
            next_word == i + 1 + spaces
            rest == Rest(t, next_word)
            word_len == Min({k \in 1 .. Len(rest) : rest[k] \in Whitespace} \cup {Len(rest) + 1}) - 1
        IN  CASE s.done -> s
              [] ~s.done /\ t[i] = LF ->
                   [s EXCEPT !.out = Append(IF s.col = 0 THEN Unspaced(@) ELSE @, LF), !.col = 0]
              [] ~s.done /\ t[i] \in Whitespace \ {LF} ->
                   IF s.col = 0 THEN s
                   ELSE IF next_word > Len(t) THEN [s EXCEPT !.done = TRUE]
                   ELSE IF BreaksBefore(s.col, word_len, width)
                        THEN [s EXCEPT !.out = Append(Unspaced(@), LF), !.col = 0]
                        ELSE [s EXCEPT !.out = Append(@, Space), !.col = @ + 1]
              [] ~s.done /\ t[i] \notin Whitespace ->
                   [s EXCEPT !.out = Append(@, t[i]), !.col = @ + 1]
      all == Through(t, [out |-> <<>>, col |-> 0, done |-> FALSE], Wrap).out
  IN  Frozen(2 * f.size, Cut(all, Len(all) - Trailing(all, {Space})))
-----------------------------------------------------------------------------
(* <br>, in any case, with blanks and a slash: its length, 0 if none.      *)
match_br_tag(t, i) ==
  LET blanks == Leading(Rest(t, i + 3), {Space, Tab})
      slash == IF StartsAt(t, i + 3 + blanks, Text("/")) THEN 1 ELSE 0
      end == i + 3 + blanks + slash
  IN  IF /\ i + 2 <= Len(t) /\ t[i] = Code["<"] /\ to_lower(t[i + 1]) = Code["b"]
         /\ to_lower(t[i + 2]) = Code["r"] /\ StartsAt(t, end, Text(">"))
      THEN end + 1 - i ELSE 0

br_to_target(f, to) ==
  LET Part(t, i) ==
        LET n == match_br_tag(t, i) IN IF n = 0 THEN Write(<<t[i]>>, 1) ELSE Write(to, n)
  IN  Frozen(Larger(4 * f.size, 2048), Walk(f.text, Part))

LineBreak == [Br |-> Text("<br>"), EscN |-> Text("\\n"), Nl |-> <<LF>>]
convert_linebreak(f, from, to) ==
  IF from = "Br" THEN br_to_target(f, LineBreak[to])
  ELSE replace_all(f, LineBreak[from], LineBreak[to])
-----------------------------------------------------------------------------
(* sql_uppercase_keywords: reserved words, but not in quotes or comments.  *)
SqlStart == Alpha \cup {Code["_"]}
SqlChars == SqlStart \cup Digit

(* The place behind what is quoted from i on: a doubled quote stays inside *)
(* unless the closing character is that of a backquote or a bracket.       *)
AfterQuote(t, i, close, doubles) ==
  LET end[k \in i .. Len(t) + 2] ==
        IF k > Len(t) THEN Len(t) + 1
        ELSE IF t[k] # close THEN end[k + 1]
        ELSE IF doubles /\ k < Len(t) /\ t[k + 1] = close THEN end[k + 2] ELSE k + 1
  IN  end[i]
AfterText(t, i, s) == LET p == find_impl(t, s, i) IN IF p = 0 THEN Len(t) + 1 ELSE p + Len(s)

Kept(t, i, end) == Write(SubSeq(t, i, end - 1), end - i)

sql_uppercase_keywords(f) ==
  LET Part(t, i) ==
        LET c == t[i]
            line == find_impl(t, <<LF>>, i)
            word == SubSeq(t, i, i + Leading(Rest(t, i), SqlChars) - 1)
            upper == [k \in DOMAIN word |-> to_upper(word[k])]
        IN  CASE c \in {Code["'"], Code["\""]} -> Kept(t, i, AfterQuote(t, i + 1, c, TRUE))
              [] c = Code["\t"] -> Kept(t, i, AfterQuote(t, i + 1, c, FALSE))
              [] c = Code["["] -> Kept(t, i, AfterQuote(t, i + 1, Code["]"], FALSE))
              [] StartsAt(t, i, Text("--")) -> Kept(t, i, IF line = 0 THEN Len(t) + 1 ELSE line)
              [] StartsAt(t, i, Text("/*")) -> Kept(t, i, AfterText(t, i + 1, Text("*/")))
              [] c \in SqlStart ->
                   Write(IF Len(word) <= 256 /\ upper \in SqlReserved THEN upper ELSE word, Len(word))
              [] OTHER -> Write(<<c>>, 1)
  IN  Same(f, Walk(f.text, Part))
-----------------------------------------------------------------------------
(* A text ends with its last line break or a line without one.             *)
LineLength(t, i) == Leading(Rest(t, i), (0 .. 255) \ {LF})
LinesOf(t) ==
  LET Line(s, i) ==
        LET n == LineLength(s, i)
            nl == IF i + n <= Len(s) THEN <<LF>> ELSE <<>>
        IN  Write(<<[body |-> SubSeq(s, i, i + n - 1), nl |-> nl]>>, n + Len(nl))
  IN  Walk(t, Line)

(* Every line becomes what Written makes of it.                            *)
EachLine(t, Written(_)) ==
  LET One(ls, i) == Write(Written(ls[i]), 1) IN Walk(LinesOf(t), One)

(* Mutant of UpTo: n characters, however many there are.                   *)
Exactly(n, m) == IF n = 0 THEN m ELSE n

(* At most n of m characters; 0 means all of them.                         *)
UpTo(n, m) == IF n = 0 THEN m ELSE Smaller(n, m)
-----------------------------------------------------------------------------
(* The characters that go at the beginning of a line may be line breaks.   *)
remove_leading_spaces_if(f, chars, n) ==
  LET Part(t, i) ==
        LET spaces == UpTo(n, Leading(Rest(t, i), chars))
            line == Smaller(LineLength(t, i + spaces) + 1, Len(t) - i - spaces + 1)
        IN  Write(SubSeq(t, i + spaces, i + spaces + line - 1), spaces + line)
  IN  Same(f, Walk(f.text, Part))

remove_comment_lines(f, comment_seq) ==
  LET Written(l) == IF StartsAt(l.body, 1, comment_seq) THEN <<>> ELSE l.body \o l.nl
  IN  Same(f, EachLine(f.text, Written))

remove_comments(f, comment_seq) ==
  LET Written(l) ==
        LET pos == find_impl(l.body, comment_seq, 1)
        IN  (IF pos = 0 THEN l.body ELSE Cut(l.body, pos - 1)) \o l.nl
  IN  Same(f, EachLine(f.text, Written))

remove_range_comments(f, start_seq, end_seq) ==
  LET Part(t, i) ==
        IF StartsAt(t, i, start_seq)
        THEN Write(<<>>, AfterText(t, i + Len(start_seq), end_seq) - i)
        ELSE Write(<<t[i]>>, 1)
  IN  Same(f, Walk(f.text, Part))

remove_trailing_spaces_if(f, chars, n) ==
  LET Written(l) == Cut(l.body, Len(l.body) - UpTo(n, Trailing(l.body, chars))) \o l.nl
  IN  Same(f, EachLine(f.text, Written))
trim_trailing_spaces(f) == remove_trailing_spaces_if(f, Whitespace, 0)

(* The separator of a call has room for 32 characters, that of a template  *)
(* argument is known.                                                      *)
join_lines(f, sep, room) ==
  LET ls == LinesOf(f.text)
      One(s, i) == Write((IF i > 1 THEN sep ELSE <<>>) \o s[i].body, 1)
  IN  Frozen(f.size + f.size * room + 1, Walk(ls, One))
MAX_SEP_LEN == 32
-----------------------------------------------------------------------------
remove_empty_lines(f) ==
  LET Written(l) == IF l.body = <<>> THEN <<>> ELSE l.body \o l.nl
  IN  Same(f, EachLine(f.text, Written))

remove_leading_empty_lines(f, n) == Same(f, Rest(f.text, UpTo(n, Leading(f.text, {LF})) + 1))

(* The line break that ends the last line that is not empty stays.         *)
remove_trailing_empty_lines(f, n) ==
  LET breaks == Trailing(f.text, {LF})
      ends == IF breaks = Len(f.text) THEN breaks ELSE Larger(0, breaks - 1)
  IN  Same(f, Cut(f.text, Len(f.text) - UpTo(n, ends)))

collapse_empty_lines(f) ==
  LET One(ls, i) ==
        Write(IF ls[i].body = <<>> /\ i > 1 /\ ls[i - 1].body = <<>> THEN <<>>
              ELSE ls[i].body \o ls[i].nl, 1)
  IN  Same(f, Walk(LinesOf(f.text), One))

(* The buffer has room for a prefix, and a postfix, with their NULs, for   *)
(* every character.                                                        *)
surround_lines(f, prefix, postfix, room) ==
  LET Written(l) == prefix \o l.body \o postfix \o l.nl
  IN  Frozen(f.size + f.size * room, EachLine(f.text, Written))
prefix_lines(f, prefix) == surround_lines(f, prefix, <<>>, Len(prefix) + 1)
postfix_lines(f, postfix) == surround_lines(f, <<>>, postfix, Len(postfix) + 1)

(* indent leaves empty lines alone.                                        *)
indent(f, width, char) ==
  LET Written(l) == (IF l.body = <<>> THEN <<>> ELSE Times(width, <<char>>)) \o l.body \o l.nl
  IN  Frozen(Larger(f.size * (width + 1) + 1, 2048), EachLine(f.text, Written))

(* Mutant of CountsFor: blank lines count for the common indentation.      *)
BlanksCount(l) == TRUE

(* The lines whose indentation counts are those with more than blanks.     *)
CountsFor(l) == Leading(l.body, {Space, Tab}) < Len(l.body)

dedent(f) ==
  LET ls == LinesOf(f.text)
      depths == {Leading(ls[i].body, {Space, Tab}) : i \in {i \in DOMAIN ls : CountsFor(ls[i])}}
      common == Min(depths \cup {Len(f.text)})
      Written(l) == Rest(l.body, Smaller(common, Leading(l.body, {Space, Tab})) + 1) \o l.nl
  IN  Same(f, EachLine(f.text, Written))
-----------------------------------------------------------------------------
(* The spaces and comments of a regular expression in extended mode go,    *)
(* unless they are escaped or in a bracket.                                *)
remove_regex_comment(f) ==
  LET pattern == IF StartsAt(f.text, 1, Text("(?x)")) THEN Rest(f.text, 5) ELSE f.text
      Scan(s, i) ==
        LET c == pattern[i]
            keep == [s EXCEPT !.out = Append(@, c)]
        IN  CASE s.in_comment -> [s EXCEPT !.in_comment = c \notin {LF, CR}]
              [] ~s.in_comment /\ s.escaped -> [keep EXCEPT !.escaped = FALSE]
              [] ~s.in_comment /\ ~s.escaped /\ c = Code["\\"] -> [keep EXCEPT !.escaped = TRUE]
              [] ~s.in_comment /\ ~s.escaped /\ ~s.in_char_class /\ c = Code["#"] ->
                   [s EXCEPT !.in_comment = TRUE]
              [] ~s.in_comment /\ ~s.escaped /\ ~s.in_char_class /\ c \in Whitespace \ {11} -> s
              [] OTHER -> [keep EXCEPT !.in_char_class = c = Code["["] \/ (@ /\ c # Code["]"])]
      start == [out |-> <<>>, escaped |-> FALSE, in_char_class |-> FALSE, in_comment |-> FALSE]
  IN  Same(f, Through(pattern, start, Scan).out)
-----------------------------------------------------------------------------
(* The characters at which a word begins and those at which one goes on.   *)
BeginsWord(t, i, delims) == t[i] \notin delims /\ (i = 1 \/ t[i - 1] \in delims)
WordLength(t, i, delims) == Leading(Rest(t, i), (0 .. 255) \ delims)

split_count(t, delims) == Cardinality({i \in DOMAIN t : BeginsWord(t, i, delims)})
max_token_len(t, delims) == Max({WordLength(t, i, delims) : i \in DOMAIN t} \cup {0})

(* split: the words, each in a buffer of the given size.                   *)
split(t, delims, size) ==
  LET Part(s, i) ==
        LET n == WordLength(s, i, delims)
        IN  IF n = 0 THEN Write(<<>>, 1) ELSE Write(<<Frozen(size, SubSeq(s, i, i + n - 1))>>, n)
  IN  Walk(t, Part)

(* The form with a template argument has an array and elements as large as *)
(* a first pass counts.                                                    *)
split_result(t, delims) ==
  [token_count |-> split_count(t, delims), value |-> split(t, delims, max_token_len(t, delims) + 1)]
-----------------------------------------------------------------------------
capitalize(f) ==
  LET low == tolower(f).text
  IN  Same(f, [i \in DOMAIN low |-> IF i = 1 THEN to_upper(low[1]) ELSE low[i]])

SnakeText(t) ==
  LET Part(s, i) ==
        Write((IF s[i] \in Upper /\ i > 1 THEN <<Code["_"]>> ELSE <<>>) \o <<to_lower(s[i])>>, 1)
  IN  Walk(t, Part)
to_snake_case(f) == Frozen(2 * (f.size - 1) + 1, SnakeText(f.text))
count_snake_underscores(t) == Cardinality({i \in DOMAIN t : i > 1 /\ t[i] \in Upper})
to_snake_case_exact(f) ==
  Frozen(Len(f.text) + count_snake_underscores(f.text) + 1, SnakeText(f.text))

(* A letter after an underscore becomes a capital; the underscore goes.    *)
Camel(f, next_upper) ==
  LET Part(t, i) ==
        LET raised == IF i = 1 THEN next_upper ELSE t[i - 1] = Code["_"]
        IN  Write(IF t[i] = Code["_"] THEN <<>>
                  ELSE <<IF raised THEN to_upper(t[i]) ELSE t[i]>>, 1)
  IN  Same(f, Walk(f.text, Part))
to_camel_case(f) == Camel(f, FALSE)
to_pascal_case(f) == Camel(f, TRUE)

EndsInDash(t) == t # <<>> /\ t[Len(t)] = Code["-"]
to_kebab_case(f) ==
  LET Dashed(out) == IF out = <<>> \/ EndsInDash(out) THEN out ELSE Append(out, Code["-"])
      Word(out, i) ==
        LET c == f.text[i]
        IN  CASE c \in {Code["_"], Code["-"]} -> Dashed(out)
              [] c \in Upper -> Append(Dashed(out), to_lower(c))
              [] OTHER -> Append(out, c)
      all == Through(f.text, <<>>, Word)
  IN  Frozen(2 * (f.size - 1) + 1, Cut(all, Len(all) - Trailing(all, {Code["-"]})))
-----------------------------------------------------------------------------
Slash == Code["/"]
Dot == Code["."]

dirname(f) ==
  LET slash_pos == find_last_of(f.text, {Slash})
  IN  Frozen(Larger(f.size, 2),
             CASE slash_pos = 0 -> <<Dot>>
               [] slash_pos = 1 -> <<Slash>>
               [] slash_pos > 1 -> Cut(f.text, slash_pos - 1))

basename(f) == Same(f, Rest(f.text, rfind_substring(f.text, <<Slash>>) + 1))

(* Mutant of DotPlace: a dot at the beginning begins an extension too.     *)
AnyDot(name) ==
  LET dots == {i \in DOMAIN name : name[i] = Dot} IN IF dots = {} THEN Len(name) + 1 ELSE Max(dots)

(* The last dot of a name but for one at its beginning.                    *)
DotPlace(name) ==
  LET dots == {i \in 2 .. Len(name) : name[i] = Dot}
  IN  IF dots = {} THEN Len(name) + 1 ELSE Max(dots)
extension(f) == LET name == basename(f).text IN Same(f, Rest(name, DotPlace(name)))
stem(f) == LET name == basename(f).text IN Same(f, Cut(name, DotPlace(name) - 1))

(* ".." takes back the segment before it, stays at the root, or is kept.   *)
Leave(segments, absolute) ==
  CASE segments = <<>> /\ absolute -> segments
    [] segments # <<>> /\ segments[Len(segments)] # <<Dot, Dot>> -> Cut(segments, Len(segments) - 1)
    [] OTHER -> Append(segments, <<Dot, Dot>>)

normalize(f) ==
  LET absolute == StartsAt(f.text, 1, <<Slash>>)
      given == split(f.text, {Slash}, f.size)
      Enter(segments, i) ==
        CASE given[i].text = <<Dot>> -> segments
          [] given[i].text = <<Dot, Dot>> -> Leave(segments, absolute)
          [] OTHER -> Append(segments, given[i].text)
      all == Through(given, <<>>, Enter)
      One(s, i) == Write((IF i > 1 THEN <<Slash>> ELSE <<>>) \o s[i], 1)
  IN  Frozen(f.size + 1,
             IF all = <<>> THEN (IF absolute THEN <<Slash>> ELSE <<Dot>>)
             ELSE (IF absolute THEN <<Slash>> ELSE <<>>) \o Walk(all, One))

(* path::join of two parts: an absolute part lets the ones before it go.   *)
path_join(a, b) ==
  LET apart == a # <<>> /\ b # <<>> /\ a[Len(a)] # Slash
  IN  Frozen(2048 * 2 + 2 + 1,
             IF StartsAt(b, 1, <<Slash>>) THEN b
             ELSE a \o (IF apart THEN <<Slash>> ELSE <<>>) \o b)
=============================================================================
