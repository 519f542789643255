------------------------------- MODULE Minify -------------------------------
(***************************************************************************)
(* The minifiers of minify.hpp together: a call of one of them on a text,  *)
(* with the calls that minify_markup makes of minify_js and minify_json.   *)
(***************************************************************************)
EXTENDS MinifyMarkup, MinifyQuery

CONSTANTS
  WordSymbols,   \* the symbols made of identifier characters
  Inputs         \* the calls that are tried, by language: lang, text, opts

Languages == {"json", "js", "html", "sql", "cypher", "lua", "yaml"}

ASSUME InputsAssumption ==
  \A language \in DOMAIN Inputs : \A c \in Inputs[language] :
    c.lang \in Languages /\ c.text \in Seq(STRING)

VARIABLE call     \* the call that was made
vars == <<scanVars, call>>

First(language) ==
  CASE language = "json" -> JsonStart
    [] language = "js" -> JsStart
    [] language = "html" -> HtmlStart
    [] language = "sql" -> SqlStart
    [] language = "cypher" -> CypherStart
    [] language = "lua" -> LuaStart
    [] language = "yaml" -> YamlStart

Ended(language) ==
  CASE language = "html" -> HtmlEnd
    [] language = "sql" -> SqlEnd
    [] language = "cypher" -> CypherEnd
    [] OTHER -> out

Init ==
  /\ \E language \in DOMAIN Inputs : call \in Inputs[language]
  /\ text = call.text /\ opts = call.opts
  /\ Begin(call.lang, First(call.lang))

(* Every function returns when its loop has come to the end of the text.   *)
Return ==
  /\ lang \notin {"done", "tag", "end"} /\ at > stop
  /\ lang \in {"js", "json"} => st.caller = Nobody
  /\ lang' = "done" /\ out' = Ended(lang)
  /\ UNCHANGED <<text, at, stop, from, pend, st, opts, call>>

(* The text is done; nothing is left to do.                                *)
Terminated == lang = "done" /\ UNCHANGED vars

Next ==
  \/ (JsonNext \/ JsNext) /\ UNCHANGED <<lang, call>>
  \/ MarkupNext /\ UNCHANGED call
  \/ (SqlNext \/ CypherNext \/ LuaNext \/ YamlNext) /\ UNCHANGED <<lang, call>>
  \/ Return
  \/ Terminated

Spec == Init /\ [][Next]_vars
-----------------------------------------------------------------------------
(* What a text of the languages that minify.hpp treats is made of: its     *)
(* tokens by the longest match, without comments and spaces; and what a    *)
(* page says: its tags with their attributes, the words between them and   *)
(* the spaces that separate words, the insides of raw elements.  This is   *)
(* the reference the scanners are compared with, after README.md and the   *)
(* languages; none of it is in the code.                                   *)
(* How a language is written: what opens a line comment, which quotes      *)
(* there are and how one is written inside a literal, which characters     *)
(* make one token when they touch.                                         *)
Language(name) ==
  CASE name = "json" ->
         [line |-> <<"/", "/">>, block |-> TRUE, backslash |-> {"\""}, doubled |-> {},
          fused |-> {}, long |-> FALSE]
    [] name = "js" ->
         [line |-> <<"/", "/">>, block |-> TRUE, backslash |-> {"\"", "'", "bt"}, doubled |-> {},
          fused |-> {<<"+", "+">>, <<"-", "-">>}, long |-> FALSE]
    [] name = "sql" ->
         [line |-> <<"-", "-">>, block |-> TRUE, backslash |-> {}, doubled |-> {"'", "\"", "["},
          fused |-> {}, long |-> FALSE]
    [] name = "cypher" ->
         [line |-> <<"/", "/">>, block |-> TRUE, backslash |-> {"\"", "'"}, doubled |-> {"bt"},
          fused |-> {}, long |-> FALSE]
    [] name = "lua" ->
         [line |-> <<"-", "-">>, block |-> FALSE, backslash |-> {"\"", "'"}, doubled |-> {},
          fused |-> {<<".", ".">>}, long |-> TRUE]

Stands(s, k, pattern) ==
  /\ k >= 1 /\ k + Len(pattern) - 1 <= Len(s)
  /\ SubSeq(s, k, k + Len(pattern) - 1) = pattern

Least(S, none) == IF S = {} THEN none ELSE Min(S)

(* The length of the run of c that ends at e and begins behind k.          *)
RunLength(s, k, e, c) ==
  CHOOSE n \in 0 .. e - k :
    /\ \A i \in e - n + 1 .. e : s[i] = c
    /\ n < e - k => s[e - n] # c

(* Inside a template no brace of a hole may be open where it ends.         *)
HolesClosed(s, k, e) ==
  LET inside == SubSeq(s, k, e)
      hole == {i \in 1 .. Len(inside) - 1 : inside[i] = "$" /\ inside[i + 1] = "{"}
      count(c) == Cardinality({i \in DOMAIN inside : inside[i] = c /\ i > Least(hole, 0)})
  IN  hole = {} \/ count("{") = count("}")

LiteralEnd(s, k, L) ==
  LET q == IF s[k] = "[" THEN "]" ELSE s[k]
      ends(e) ==
        /\ s[e] = q
        /\ s[k] \in L.backslash => RunLength(s, k, e - 1, "\\") % 2 = 0
        /\ s[k] \in L.doubled \ {"["} => /\ RunLength(s, k, e, q) % 2 = 1
                                         /\ e = Len(s) \/ s[e + 1] # q
        /\ s[k] = "bt" /\ "bt" \in L.backslash => HolesClosed(s, k, e)
  IN  Least({e \in k + 1 .. Len(s) : ends(e)}, Len(s))

LongOpen(s, k) ==
  {n \in 0 .. Len(s) - k - 1 : Stands(s, k, <<"[">> \o [i \in 1 .. n |-> "="] \o <<"[">>)}

LongEnd(s, k) ==
  LET n == CHOOSE n \in LongOpen(s, k) : TRUE
      closing == <<"]">> \o [i \in 1 .. n |-> "="] \o <<"]">>
  IN  IF LongOpen(s, k) = {} THEN 0
      ELSE Least({e \in k .. Len(s) : Stands(s, e - n - 1, closing) /\ e - n - 1 > k}, 0)

WordEndAt(s, k) ==
  Least({e \in k .. Len(s) : e = Len(s) \/ s[e + 1] \notin WordSymbols}, Len(s))

(* Where the token or the comment at k ends.                               *)
TokenEnd(s, k, L) ==
  CASE Stands(s, k, L.line) /\ L.long /\ k + 2 <= Len(s) /\ LongEnd(s, k + 2) # 0 -> LongEnd(s, k + 2)
    [] Stands(s, k, L.line) -> Least({e \in k .. Len(s) : e = Len(s) \/ s[e + 1] = "\n"}, Len(s))
    [] L.block /\ Stands(s, k, <<"/", "*">>) ->
         Least({e \in k + 3 .. Len(s) : Stands(s, e - 1, <<"*", "/">>)}, Len(s))
    [] s[k] \in L.backslash \cup L.doubled -> LiteralEnd(s, k, L)
    [] L.long /\ LongEnd(s, k) # 0 -> LongEnd(s, k)
    [] L.long /\ s[k] = "1" /\ Stands(s, k + 1, <<".">>) -> k + 1
    [] s[k] \in WordSymbols -> WordEndAt(s, k)
    [] \E pair \in L.fused : Stands(s, k, pair) -> k + 1
    [] OTHER -> k

IsComment(s, k, L) == Stands(s, k, L.line) \/ (L.block /\ Stands(s, k, <<"/", "*">>))

(* Each token with whether a line break stands before it.                  *)
TokensFrom(s, L) ==
  LET tokens[k \in Nat, broken \in BOOLEAN] ==
        IF k > Len(s) THEN <<>>
        ELSE IF s[k] \in {" ", "\n"} THEN tokens[k + 1, broken \/ s[k] = "\n"]
        ELSE LET end == TokenEnd(s, k, L)
             IN  IF IsComment(s, k, L)
                 THEN tokens[end + 1, broken \/ \E i \in k .. end : s[i] = "\n"]
                 ELSE << [is |-> SubSeq(s, k, end), broken |-> broken] >> \o tokens[end + 1, FALSE]
  IN  tokens[1, FALSE]

TokensOf(s, name) == TokensFrom(s, Language(name))

Is(T, i) == IF i \in DOMAIN T THEN T[i].is ELSE <<>>
Texts(T) == [i \in DOMAIN T |-> T[i].is]
Leave(T, D) == [i \in 1 .. Len(T) - Cardinality(D) |->
                  T[CHOOSE k \in DOMAIN T \ D : Cardinality({l \in DOMAIN T \ D : l <= k}) = i]]
-----------------------------------------------------------------------------
(* The bracket that closes at i.                                           *)
Opening(T, i) ==
  LET depth(j) == Cardinality({k \in j .. i : T[k].is = <<"(">>})
                    - Cardinality({k \in j .. i : T[k].is = <<")">>})
      places == {j \in 1 .. i : T[j].is = <<"(">> /\ depth(j) = 0}
  IN  Max({0} \cup places)

(* The tokens of which each may be left out without changing what the      *)
(* text says.                                                              *)
JsDroppable(T) ==
  LET empty(i) ==
        \/ Is(T, i - 1) \in {<<"else">>, <<"do">>}
        \/ /\ Is(T, i - 1) = <<")">>
           /\ Is(T, Opening(T, i - 1) - 1) \in {<<"if">>, <<"while">>, <<"for">>, <<"with">>}
  IN  {i \in DOMAIN T : T[i].is = <<";">> /\ Is(T, i + 1) \in {<<>>, <<"}">>} /\ ~empty(i)}

IsName(token) == token # <<>> /\ token[1] \in WordSymbols

SqlDroppable(T) ==
  LET open(i) == {j \in 1 .. i - 1 : T[j].is = <<"(">> /\ \A k \in j .. i - 1 :
                    T[k].is = <<")">> => Opening(T, k) > j}
      inCast(i) == open(i) # {} /\
        Is(T, Max(open(i)) - 1)
          \in {<<"CAST">>, <<"TRY_CAST">>, <<"SAFE_CAST">>}
  IN  {i \in DOMAIN T :
         \/ /\ T[i].is = <<"AS">> /\ ~inCast(i) /\ IsName(Is(T, i + 1))
            /\ Is(T, i + 1) \notin {<<"SELECT">>, <<"WITH">>, <<"VALUES">>, <<"TABLE">>}
         \/ T[i].is = <<"INNER">> /\ Is(T, i + 1) = <<"JOIN">>}

(* VARCHAR is short for two words, the others for one.                     *)
SqlSame(T) ==
  LET short == [x \in {<<"BOOLEAN">>, <<"CHARACTER">>, <<"DECIMAL">>, <<"INTEGER">>} |->
                  CASE x = <<"BOOLEAN">> -> <<"BOOL">> [] x = <<"CHARACTER">> -> <<"CHAR">>
                    [] x = <<"DECIMAL">> -> <<"DEC">> [] OTHER -> <<"INT">>]
      short1(x) == IF x \in DOMAIN short THEN short[x] ELSE x
  IN  FlattenSeq([i \in DOMAIN T |->
        CASE short1(T[i].is) = <<"CHAR">> /\ Is(T, i + 1) = <<"VARYING">> -> << <<"VARCHAR">> >>
          [] T[i].is = <<"VARYING">> /\ short1(Is(T, i - 1)) = <<"CHAR">> -> <<>>
          [] OTHER -> << short1(T[i].is) >>])

LuaDroppable(T) ==
  {i \in DOMAIN T : T[i].is = <<";">> /\ Is(T, i + 1) \in {<<>>, <<"}">>, <<"]">>, <<")">>}}

CypherDroppable(T) == {i \in DOMAIN T : i = Len(T) /\ T[i].is = <<";">>}

Droppable(T, name) ==
  CASE name = "js" -> JsDroppable(T)
    [] name = "sql" -> SqlDroppable(T)
    [] name = "lua" -> LuaDroppable(T)
    [] name = "cypher" -> CypherDroppable(T)
    [] OTHER -> {}

Meaning(T, name) == IF name = "sql" THEN SqlSame(T) ELSE Texts(T)

(* U says what T says: it leaves out some of what may be left out.         *)
SameTokens(T, U, name) ==
  \E D \in SUBSET Droppable(T, name) : Meaning(Leave(T, D), name) = Meaning(U, name)
-----------------------------------------------------------------------------
(* A line break between two tokens ends a statement of JavaScript when the *)
(* first can end one and the second cannot go on with it; behind return it *)
(* always does, and ++ belongs to what follows the break.                  *)
EndsLine(token) == token[1] \in WordSymbols \cup {")", "]", "}", "\"", "'", "bt"}
BeginsLine(token) == token[1] \in WordSymbols \cup {"{", "!", "\"", "'"}
Counts == {<<"+", "+">>, <<"-", "-">>}

LinesNeeded(T) ==
  {i \in 2 .. Len(T) :
     /\ T[i].broken
     /\ \/ T[i - 1].is = <<"return">> /\ T[i].is[1] \notin {")", "]", "}", ",", ";"}
        \/ EndsLine(T[i - 1].is) /\ T[i].is \in Counts
        \/ (EndsLine(T[i - 1].is) \/ T[i - 1].is \in Counts) /\ BeginsLine(T[i].is)}

SameLines(T, U) ==
  \E D \in SUBSET JsDroppable(T) :
    LET V == Leave(T, D)
    IN  /\ Texts(V) = Texts(U)
        /\ \A i \in LinesNeeded(V) : U[i].broken
        /\ \A i \in 2 .. Len(U) : U[i].broken => V[i].broken
-----------------------------------------------------------------------------
(* YAML line by line: a block scalar keeps every line that is deeper than  *)
(* its header or empty; any other line says what stands before its comment.*)
Lines(s) ==
  LET breaks == SelectSeq([i \in DOMAIN s |-> i], LAMBDA i : s[i] = "\n")
      ends == IF s = <<>> \/ s[Len(s)] = "\n" THEN breaks ELSE Append(breaks, Len(s) + 1)
  IN  [n \in DOMAIN ends |-> SubSeq(s, IF n = 1 THEN 1 ELSE ends[n - 1] + 1, ends[n] - 1)]

Depth(line) == Least({i \in DOMAIN line : line[i] # " "}, Len(line) + 1) - 1
Empty(line) == Depth(line) = Len(line)

(* A quoted scalar begins where a value may.                               *)
QuoteStart(line) ==
  Least({i \in DOMAIN line : /\ line[i] \in {"'", "\""}
                             /\ \A j \in 1 .. i - 1 : line[j] \in {" ", "a", ":", "-"}}, 0)
InsideQuotes(line, i) ==
  LET q == QuoteStart(line)
  IN  q # 0 /\ i \in q .. LiteralEnd(line, q, [backslash |-> {"\""}, doubled |-> {"'"}])

Content(line) ==
  LET marks == {i \in DOMAIN line : /\ line[i] = "#" /\ ~InsideQuotes(line, i)
                                    /\ i = 1 \/ line[i - 1] = " "}
      said == SubSeq(line, 1, Least(marks, Len(line) + 1) - 1)
  IN  SubSeq(said, 1, Max({0} \cup {i \in DOMAIN said : said[i] # " "}))

OpensBlock(line) ==
  \E n \in DOMAIN line :
    /\ line[n] \in {"|", ">"} /\ (n = 1 \/ line[n - 1] = " ")
    /\ \A i \in n + 1 .. Len(line) : line[i] \in {"+", "-", "1"}

YamlMeaning(s) ==
  LET lines == Lines(s)
      inside(i, parent) == parent # -1 /\ (Empty(lines[i]) \/ Depth(lines[i]) > parent)
      parent[i \in 0 .. Len(lines)] ==   \* the depth of the block that goes on behind line i
        IF i = 0 THEN -1
        ELSE IF inside(i, parent[i - 1]) THEN parent[i - 1]
        ELSE IF OpensBlock(Content(lines[i])) THEN Depth(lines[i]) ELSE -1
      said == [i \in DOMAIN lines |->
                 IF inside(i, parent[i - 1]) THEN [body |-> TRUE, is |-> lines[i]]
                 ELSE [body |-> FALSE, is |-> Content(lines[i])]]
  IN  SelectSeq(said, LAMBDA line : line.body \/ line.is # <<>>)
-----------------------------------------------------------------------------
Blanks == {" ", "\n"}
NoBlank(s, k) == Least({e \in k .. Len(s) : s[e] \notin Blanks}, Len(s) + 1)
FirstIn(s, k, S) == Least({e \in k .. Len(s) : s[e] \in S}, Len(s) + 1)
FirstSeen(s, k, pattern) == Least({e \in k .. Len(s) : Stands(s, e, pattern)}, Len(s) + 1)
Sub(s, i, j) == SubSeq(s, i, IF j < Len(s) THEN j ELSE Len(s))
Char(s, k) == IF k \in DOMAIN s THEN s[k] ELSE ""

(* The attributes from k to the end of a tag.                              *)
ValueEnd(s, v) ==
  IF Char(s, v) \in {"'", "\""} THEN FirstIn(s, v + 1, {s[v]}) ELSE FirstIn(s, v, Blanks \cup {">"}) - 1

Attributes(s, first) ==
  LET attributes[k \in Nat] ==
        LET n == FirstIn(s, k, Blanks \cup {"=", ">", "/"})
            v == NoBlank(s, NoBlank(s, n) + 1)
        IN  CASE Char(s, k) \in {"", ">"} -> <<>>
              [] Char(s, k) \in Blanks \cup {"/"} -> attributes[k + 1]
              [] Char(s, NoBlank(s, n)) # "=" ->
                   << [name |-> Sub(s, k, n - 1), value |-> <<>>] >> \o attributes[n]
              [] Char(s, v) \in {"'", "\""} ->
                   << [name |-> Sub(s, k, n - 1), value |-> Sub(s, v + 1, ValueEnd(s, v) - 1)] >>
                     \o attributes[ValueEnd(s, v) + 1]
              [] OTHER ->
                   << [name |-> Sub(s, k, n - 1), value |-> Sub(s, v, ValueEnd(s, v))] >>
                     \o attributes[ValueEnd(s, v) + 1]
  IN  attributes[first]

(* Where the tag that begins at k ends: a > outside the quoted values.     *)
TagEnd(s, first) ==
  LET end[k \in Nat] ==
        CASE Char(s, k) \in {"", ">"} -> k
          [] Char(s, k) \in {"'", "\""} -> end[FirstIn(s, k + 1, {s[k]}) + 1]
          [] OTHER -> end[k + 1]
  IN  end[first]

Name(s, k) == Sub(s, k, FirstIn(s, k, Blanks \cup {">", "/"}) - 1)
Raw == {<<"script">>, <<"pre">>, <<"textarea">>, <<"style">>}
Item(kind, is, gap) == [kind |-> kind, is |-> is, gap |-> gap]

ItemsOf(s) ==
  LET items[k \in Nat, gap \in BOOLEAN] ==
        CASE k > Len(s) -> <<>>
          [] s[k] \in Blanks -> items[k + 1, TRUE]
          [] Stands(s, k, <<"<", "!", "-", "-">>) ->
               items[FirstSeen(s, k + 4, <<"-", "-", ">">>) + 3, TRUE]
          [] Stands(s, k, <<"{", "{">>) ->
               << Item(IF Char(s, k + 2) \in {"#", "/", "^", "!", ">"} THEN "section" ELSE "variable",
                       Sub(s, k, FirstSeen(s, k + 2, <<"}", "}">>) + 1), gap) >>
                 \o items[FirstSeen(s, k + 2, <<"}", "}">>) + 2, FALSE]
          [] Stands(s, k, <<"<", "/">>) ->
               << Item("close", Name(s, k + 2), gap) >> \o items[FirstIn(s, k, {">"}) + 1, FALSE]
          [] s[k] = "<" /\ Name(s, k + 1) \in Raw ->
               LET close == FirstSeen(s, TagEnd(s, k), <<"<", "/">> \o Name(s, k + 1))
               IN  << Item("open", Name(s, k + 1), gap) @@ [attributes |-> Attributes(s, k + 2)],
                      Item("raw", Sub(s, TagEnd(s, k) + 1, close - 1), FALSE) >>
                     \o items[close, FALSE]
          [] s[k] = "<" ->
               << Item("open", Name(s, k + 1), gap) @@ [attributes |-> Attributes(s, k + 2)] >>
                 \o items[TagEnd(s, k) + 1, FALSE]
          [] OTHER -> << Item("text", <<s[k]>>, gap) >> \o items[k + 1, FALSE]
  IN  items[1, FALSE]
-----------------------------------------------------------------------------
Void == {<<"br">>, <<"img">>, <<"input">>}
Optional == {<<"li">>, <<"p">>, <<"td">>}
Inline == {<<"b">>, <<"img">>}
Block == {<<"p">>, <<"div">>, <<"pre">>}
Defaults == {<< <<"script">>, <<"type">>, <<"text/javascript">> >>,
             << <<"input">>, <<"type">>, <<"text">> >>}
Flags == {<<"disabled">>}

(* The end tags that a reader of the page adds by itself: those of void    *)
(* elements are no tags at all, that of a paragraph only before the end of *)
(* its parent, the end of the page and a block.                            *)
MayEnd(T, i, options) ==
  /\ T[i].kind = "close"
  /\ \/ T[i].is \in Void
     \/ /\ "remove_end_tags" \in options /\ T[i].is \in Optional
        /\ T[i].is = <<"p">> =>
             \/ i = Len(T) \/ T[i + 1].kind = "close"
             \/ T[i + 1].kind = "open" /\ T[i + 1].is \in Block

(* Without the attributes that say what holds anyway, and the values that  *)
(* repeat the name of a flag.                                              *)
Said(tag, attributes) ==
  LET said == SelectSeq(attributes, LAMBDA a : <<tag, a.name, a.value>> \notin Defaults)
  IN  [i \in DOMAIN said |->
        IF said[i].value = said[i].name /\ said[i].name \in Flags
        THEN [said[i] EXCEPT !.value = <<>>] ELSE said[i]]

TypeOf(T, i) ==
  LET types == {j \in DOMAIN T[i - 1].attributes : T[i - 1].attributes[j].name = <<"type">>}
  IN  IF types = {} THEN <<>> ELSE T[i - 1].attributes[CHOOSE j \in types : TRUE].value

(* The inside of a raw element says the same in both.                      *)
SameInside(T, i, u, options) ==
  LET t == T[i].is
  IN  CASE T[i - 1].is # <<"script">> \/ "preserve_script" \in options -> t = u
        [] TypeOf(T, i) \in {<<>>, <<"text/javascript">>, <<"module">>} ->
             SameTokens(TokensOf(t, "js"), TokensOf(u, "js"), "js")
        [] TypeOf(T, i) = <<"importmap">> ->
             SameTokens(TokensOf(t, "json"), TokensOf(u, "json"), "json")
        [] OTHER -> t = u

(* Words of a style sheet: a space counts only between two of them, and a  *)
(* semicolon only before another declaration.                              *)
Css(s) ==
  LET css[k \in Nat, gap \in BOOLEAN] ==
        CASE k > Len(s) -> <<>>
          [] s[k] \in Blanks -> css[k + 1, TRUE]
          [] Stands(s, k, <<"/", "*">>) -> css[FirstSeen(s, k + 2, <<"*", "/">>) + 2, TRUE]
          [] s[k] = ";" /\ Char(s, NoBlank(s, k + 1)) = "}" -> css[k + 1, gap]
          [] OTHER -> << [is |-> s[k], gap |-> gap /\ s[k] \in WordSymbols] >> \o css[k + 1, FALSE]
  IN  css[1, FALSE]

SameStyle(t, u) ==
  LET T == Css(t)
      U == Css(u)
  IN  /\ Len(T) = Len(U)
      /\ \A i \in DOMAIN T :
           /\ T[i].is = U[i].is
           /\ i > 1 /\ T[i - 1].is \in WordSymbols => T[i].gap = U[i].gap

Flows(item) ==
  \/ item.kind = "variable"
  \/ item.kind = "text" /\ item.is \notin {<<"/">>, <<"=">>, <<">">>}
  \/ item.kind \in {"open", "close"} /\ item.is \in Inline

SameItem(T, i, u, options) ==
  LET t == T[i]
  IN  /\ t.kind = u.kind
      /\ CASE t.kind = "open" -> t.is = u.is /\ Said(t.is, t.attributes) = Said(u.is, u.attributes)
           [] t.kind = "raw" /\ T[i - 1].is = <<"style">> -> SameStyle(t.is, u.is)
           [] t.kind = "raw" -> SameInside(T, i, u.is, options)
           [] OTHER -> t.is = u.is

(* U is the page T without end tags that need not be there; where a word   *)
(* or an inline element meets another, they are apart in both or in none.  *)
SamePage(T, U, options) ==
  LET kept == SelectSeq([i \in DOMAIN T |-> i], LAMBDA i : ~MayEnd(T, i, options))
  IN  /\ Len(kept) = Len(U)
      /\ \A j \in DOMAIN U : SameItem(T, kept[j], U[j], options)
      /\ \A j \in 2 .. Len(U) :
           kept[j] = kept[j - 1] + 1 /\ Flows(U[j - 1]) /\ Flows(U[j]) => T[kept[j]].gap = U[j].gap
-----------------------------------------------------------------------------
Done(languages) == lang = "done" /\ call.lang \in languages

(* minify_json, minify_js, minify_sql, minify_cypher and minify_lua change *)
(* spaces and comments only: the tokens are the same, in the same order,   *)
(* but for the semicolons and the keywords that the options let go, and    *)
(* minify_js keeps the line breaks that end a statement and adds none that *)
(* would.  A quote in a comment, a comment in a literal, two characters    *)
(* that fuse when a space goes, or a level of brackets forgotten would     *)
(* change them.                                                            *)
TokensKept ==
  \A language \in {"json", "js", "sql", "cypher", "lua"} :
    Done({language}) =>
      /\ SameTokens(TokensOf(text, language), TokensOf(out, language), language)
      /\ language = "js" => SameLines(TokensOf(text, "js"), TokensOf(out, "js"))

(* The page that minify_markup writes says what was given: tags, their     *)
(* attributes, template tags, scripts and styles are the same, and words   *)
(* that were apart are apart and no others.  The modes follow one another  *)
(* across a tag, a script and a style sheet.                               *)
PageKept == Done({"html"}) => SamePage(ItemsOf(text), ItemsOf(out), opts)

(* minify_yaml drops comments and empty lines but for those in the body of *)
(* a block scalar, which ends at the first line that is not deeper.        *)
OutlineKept == Done({"yaml"}) => YamlMeaning(out) = YamlMeaning(text)

(* No function has at any moment written more than the text is long: the   *)
(* buffer of the result is as large as that of the argument.               *)
FitsItsBuffer == Len(out) <= Len(text)

Place == Min2(at, stop + 1)
Rank == CASE lang = "tag" -> 4 [] lang \in {"js", "json"} -> 3 [] lang = "end" -> 2
          [] lang = "done" -> 0 [] OTHER -> 1

(* Every round of a loop moves on in the text or ends a loop inside        *)
(* another; with no state in which nothing can happen, every call returns. *)
MovesOn == [][Place' > Place \/ (Place' = Place /\ Rank' < Rank)]_vars
=============================================================================
