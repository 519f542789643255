---------------------------- MODULE MinifyQuery -----------------------------
(***************************************************************************)
(* minify_sql, minify_cypher, minify_lua and minify_yaml of minify.hpp.    *)
(* Keywords are single symbols in upper case; the comparison regardless of *)
(* case is left out. A round of the YAML loop treats a whole line.         *)
(***************************************************************************)
EXTENDS MinifyScript

SqlStart == [quote |-> "", parens |-> <<>>, cast |-> FALSE]

SqlPunct == {",", ";", "(", "=", "+", "-", "/", "<", ">", ":", "|", "@", "#"}
SqlClosing == [q \in {"'", "\"", "bt", "["} |-> IF q = "[" THEN "]" ELSE q]
CastWords == {"CAST", "TRY_CAST", "SAFE_CAST"}
StatementWords == {"SELECT", "WITH", "VALUES", "TABLE"}
sql_type_shortenings ==
  [BOOLEAN |-> "BOOL", CHARACTER |-> "CHAR", DECIMAL |-> "DEC", INTEGER |-> "INT"]

SqlReads == lang = "sql" /\ at <= stop
SqlCode == SqlReads /\ st.quote = ""
SqlLine == Sees(at, <<"-", "-">>)
SqlBlock == Sees(at, <<"/", "*">>)

(* A doubled ' or " inside a literal stands for one.                       *)
SqlQuoted ==
  /\ SqlReads /\ st.quote # ""
  /\ IF st.quote \in {"'", "\""} /\ Here = st.quote /\ At(at + 1) = Here
     THEN Round(at + 2, out \o <<Here, Here>>, pend) /\ UNCHANGED st
     ELSE /\ st' = [st EXCEPT !.quote = IF Here = SqlClosing[@] THEN "" ELSE @]
          /\ Round(at + 1, Append(out, Here), pend)

(* An open block comment leaves its last character to the next round.      *)
SqlComment ==
  /\ SqlCode
  /\ \/ SqlLine /\ Round(ToFirst(at + 2, {"\n"}), out, TRUE)
     \/ SqlBlock /\ Round(PastComment(at + 2, <<"*", "/">>, stop), out, TRUE)
  /\ UNCHANGED st

SqlBlank ==
  /\ SqlCode /\ Here \in Space
  /\ Round(at + 1, out, TRUE)
  /\ UNCHANGED st

SqlSpaced ==
  LET fuse == Prev = "-" /\ Here = "-"
      tight == Prev \in SqlPunct \/ Here \in SqlPunct \cup {")"}
  IN  IF pend /\ Prev # "" /\ (~tight \/ fuse) THEN Append(out, " ") ELSE out

WordEnd(k) ==
  CHOOSE j \in k - 1 .. stop :
    (\A l \in k .. j : text[l] \in Words) /\ At(j + 1) \notin Words

(* Word k ends one symbol later: a keyword is one symbol and alone.        *)
IsWord(k, words) == At(k) \in words /\ WordEnd(k) = k

InCast ==
  /\ Len(st.parens) \in 1 .. MaxParens
  /\ st.parens[Len(st.parens)]

(* Mutant: AS is dropped inside CAST(...) too.                             *)
SqlSkipsAnyAs(end) ==
  LET k == PastSpace(end + 1)
  IN  CASE "remove_as" \in opts /\ IsWord(at, {"AS"}) /\ At(k) \in Words /\ ~IsWord(k, StatementWords) -> k
        [] "simplify_join" \in opts /\ IsWord(at, {"INNER"}) /\ IsWord(k, {"JOIN"}) /\ k < stop -> k
        [] OTHER -> 0

(* Where to go on when the word that ends at end is left out; 0 when it is *)
(* not.  JOIN has to be followed by something.                             *)
sql_optimize_keyword(end) ==
  LET k == PastSpace(end + 1)
  IN  CASE "remove_as" \in opts /\ ~InCast /\ IsWord(at, {"AS"}) /\ At(k) \in Words
             /\ ~IsWord(k, StatementWords) -> k
        [] "simplify_join" \in opts /\ IsWord(at, {"INNER"}) /\ IsWord(k, {"JOIN"}) /\ k < stop -> k
        [] OTHER -> 0

SqlStartsWord == SqlCode /\ Here \in Words
SqlOptimizes == opts \cap {"remove_as", "simplify_join"} # {}

SqlSkipWord ==
  /\ SqlStartsWord /\ SqlOptimizes
  /\ LET k == sql_optimize_keyword(WordEnd(at))
     IN  k # 0 /\ Round(k, SqlSpaced, FALSE)
  /\ st' = [st EXCEPT !.cast = FALSE]

(* sql_emit_identifier: CHARACTER VARYING asks for a space behind VARCHAR. *)
SqlWord ==
  /\ SqlStartsWord
  /\ SqlOptimizes => sql_optimize_keyword(WordEnd(at)) = 0
  /\ st' = [st EXCEPT !.cast = IsWord(at, CastWords)]
  /\ LET end == WordEnd(at)
         k == PastSpace(end + 1)
     IN  CASE ~("shorten_types" \in opts /\ IsWord(at, DOMAIN sql_type_shortenings)) ->
                Round(end + 1, SqlSpaced \o Part(at, end), FALSE)
           [] IsWord(at, {"CHARACTER"}) /\ IsWord(k, {"VARYING"}) /\ k < stop ->
                Round(k + 1, Append(SqlSpaced, "VARCHAR"), TRUE)
           [] OTHER -> Round(end + 1, Append(SqlSpaced, sql_type_shortenings[Here]), FALSE)

(* Beyond MaxParens levels a bracket is counted but not looked at; st.cast *)
(* says whether the last word was a CAST.                                  *)
SqlOther ==
  /\ SqlCode /\ ~SqlLine /\ ~SqlBlock /\ Here \notin Space \cup Words
  /\ st' = [cast |-> FALSE,
            quote |-> IF Here \in DOMAIN SqlClosing THEN Here ELSE "",
            parens |-> CASE Here = "(" -> Append(st.parens, st.cast)
                         [] Here = ")" /\ st.parens # <<>> -> SubSeq(st.parens, 1, Len(st.parens) - 1)
                         [] OTHER -> st.parens]
  /\ Round(at + 1, Append(SqlSpaced, Here), FALSE)

SqlNext == SqlQuoted \/ SqlComment \/ SqlBlank \/ SqlSkipWord \/ SqlWord \/ SqlOther

(* A space at the end of the output goes.                                  *)
SqlEnd == WithoutSpace(out)
-----------------------------------------------------------------------------
CypherStart == [state |-> "normal", id |-> <<>>]

isCloseChar == {"'", "\"", "bt", ")", "]", "}"}

cypher_needs_space(last, c, id) ==
  \/ last \in Words /\ c \in Words \cup Quotes \cup {"*"}
  \/ last \in isCloseChar \cup {"*"} /\ c \in Words
  \/ last \in isCloseChar /\ c = "("
  \/ last \in Words /\ c = "(" /\ id = <<"COPY">>

CypherIn(state) == lang = "cypher" /\ at <= stop /\ st.state = state
CypherLine == Sees(at, <<"/", "/">>)
CypherBlock == Sees(at, <<"/", "*">>)

CypherComment ==
  /\ CypherIn("normal")
  /\ \/ CypherLine /\ st' = [st EXCEPT !.state = "line_comment"]
     \/ CypherBlock /\ st' = [st EXCEPT !.state = "block_comment"]
  /\ Round(at + 2, out, pend)

CypherBlank ==
  /\ CypherIn("normal") /\ Here \in Space
  /\ Round(at + 1, out, TRUE)
  /\ UNCHANGED st

(* id is the word the output ends with; the code keeps 16 characters of it *)
(* to tell COPY, the only word that needs a space before its bracket.      *)
CypherChar ==
  /\ CypherIn("normal") /\ ~CypherLine /\ ~CypherBlock /\ Here \notin Space
  /\ LET s == IF pend /\ cypher_needs_space(Prev, Here, st.id) THEN Append(out, " ") ELSE out
         id == CASE Here \notin Words -> <<>>
                 [] s # <<>> /\ s[Len(s)] \in Words -> Append(st.id, Here)
                 [] OTHER -> <<Here>>
     IN  /\ Round(at + 1, Append(s, Here), FALSE)
         /\ st' = [state |-> IF Here \in Quotes THEN Here ELSE "normal", id |-> id]

(* Inside single and double quotes a backslash takes the next character   *)
(* along; inside backticks a doubled one stands for one.                   *)
CypherQuoted ==
  /\ lang = "cypher" /\ at <= stop /\ st.state \in Quotes
  /\ IF IF st.state = "bt" THEN Sees(at, <<"bt", "bt">>) ELSE Here = "\\"
     THEN Round(at + 2, out \o Part(at, at + 1), pend) /\ UNCHANGED st
     ELSE /\ Round(at + 1, Append(out, Here), pend)
          /\ st' = [st EXCEPT !.state = IF Here = @ THEN "normal" ELSE @]

CypherInLine ==
  /\ CypherIn("line_comment")
  /\ IF Here = "\n" THEN Round(at + 1, out, TRUE) /\ st' = [st EXCEPT !.state = "normal"]
                    ELSE Round(at + 1, out, pend) /\ UNCHANGED st

CypherInBlock ==
  /\ CypherIn("block_comment")
  /\ IF Sees(at, <<"*", "/">>)
     THEN Round(at + 2, out, TRUE) /\ st' = [st EXCEPT !.state = "normal"]
     ELSE Round(at + 1, out, pend) /\ UNCHANGED st

CypherNext ==
  CypherComment \/ CypherBlank \/ CypherChar \/ CypherQuoted \/ CypherInLine \/ CypherInBlock

CypherEnd == IF Prev = ";" THEN SubSeq(out, 1, Len(out) - 1) ELSE out
-----------------------------------------------------------------------------
LuaStart == [state |-> "normal"]
Digits == {"1"}

(* The level of the long bracket that opens at k, -1 when none does.       *)
long_bracket_level(k) ==
  LET j == CHOOSE n \in k + 1 .. Max2(k + 1, stop + 1) :
             /\ \A l \in k + 1 .. n - 1 : At(l) = "="
             /\ At(n) # "="
  IN  IF At(j) = "[" THEN j - (k + 1) ELSE -1

(* Mutant: the level of the closing bracket is not compared.               *)
LongCloseAny(k) ==
  LET level == long_bracket_level(k)
      closing(j) == \E n \in 0 .. Len(text) :
                      Sees(j, <<"]">> \o [i \in 1 .. n |-> "="] \o <<"]">>)
      places == {j \in k .. stop : closing(j)}
  IN  IF level = -1 \/ places = {} THEN 0
      ELSE Min(places) + level + 1

(* The last character of the long bracket at k; 0 when there is none or    *)
(* nothing closes it.                                                      *)
LongBracket(k) ==
  LET level == long_bracket_level(k)
      closing == <<"]">> \o [i \in 1 .. level |-> "="] \o <<"]">>
  IN  IF At(k) # "[" \/ level = -1 \/ Found(k, closing) = 0 THEN 0
      ELSE Found(k, closing) + level + 1

lua_needs_space(last, c) ==
  \/ last \in Words /\ c \in Words \cup {"'", "\""}
  \/ last \in {"'", "\"", "bt", ")", "]", "}"} /\ c \in Words
  \/ last = "-" /\ c = "-"
  \/ last \in Digits /\ c = "."

LuaIn(state) == lang = "lua" /\ at <= stop /\ st.state = state
LuaLine == Sees(at, <<"-", "-">>)

LuaLongComment ==
  /\ LuaIn("normal") /\ LuaLine /\ LongBracket(at + 2) # 0
  /\ Round(LongBracket(at + 2) + 1, out, TRUE)
  /\ UNCHANGED st

LuaDirective == "keep_directives" \in opts /\ At(at + 2) = "!"

LuaLineComment ==
  /\ LuaIn("normal") /\ LuaLine /\ LongBracket(at + 2) = 0
  /\ IF LuaDirective
     THEN Round(at + 2, out \o <<"-", "-">>, pend) /\ st' = [state |-> "directive_line"]
     ELSE Round(at + 2, out, pend) /\ st' = [state |-> "line_comment"]

(* The space that is held back stays held back.                            *)
LuaLongString ==
  /\ LuaIn("normal") /\ LongBracket(at) # 0
  /\ Round(LongBracket(at) + 1, out \o Part(at, LongBracket(at)), pend)
  /\ UNCHANGED st

LuaBracket ==
  /\ LuaIn("normal") /\ Here = "[" /\ LongBracket(at) = 0
  /\ Round(at + 1, out \o (IF pend /\ Prev \in Words THEN <<" ">> ELSE <<>>) \o <<"[">>, FALSE)
  /\ UNCHANGED st

LuaBlank ==
  /\ LuaIn("normal") /\ Here \in Space
  /\ Round(at + 1, out, TRUE)
  /\ UNCHANGED st

(* The first character behind k that is neither space nor comment.         *)
LuaAhead(k) ==
  LET ahead[n \in Nat] ==
        LET j == PastSpace(n)
        IN  CASE Sees(j, <<"-", "-">>) /\ LongBracket(j + 2) # 0 -> ahead[LongBracket(j + 2) + 1]
              [] Sees(j, <<"-", "-">>) -> ahead[ToFirst(j + 2, {"\n"})]
              [] OTHER -> At(j)
  IN  ahead[k]

LuaSemicolon ==
  /\ LuaIn("normal") /\ Here = ";"
  /\ IF LuaAhead(at + 1) \in {"", "}", "]", ")"} THEN Round(at + 1, out, TRUE)
                                                 ELSE Round(at + 1, Append(out, ";"), FALSE)
  /\ UNCHANGED st

LuaOther ==
  /\ LuaIn("normal") /\ ~LuaLine /\ Here \notin Space \cup {"[", ";"}
  /\ LET s == IF pend /\ lua_needs_space(Prev, Here) THEN Append(out, " ") ELSE out
     IN  Round(at + 1, Append(s, Here), FALSE)
  /\ st' = [state |-> IF Here \in {"'", "\""} THEN Here ELSE "normal"]

LuaQuoted ==
  /\ lang = "lua" /\ at <= stop /\ st.state \in {"'", "\""}
  /\ IF Here = "\\"
     THEN Round(at + 2, out \o Part(at, at + 1), pend) /\ UNCHANGED st
     ELSE /\ Round(at + 1, Append(out, Here), pend)
          /\ st' = [state |-> IF Here = st.state THEN "normal" ELSE st.state]

LuaInLine ==
  /\ lang = "lua" /\ at <= stop /\ st.state \in {"line_comment", "directive_line"}
  /\ LET s == IF st.state = "directive_line" THEN Append(out, Here) ELSE out
     IN  IF Here = "\n" THEN Round(at + 1, s, TRUE) /\ st' = LuaStart
                        ELSE Round(at + 1, s, pend) /\ UNCHANGED st

LuaNext ==
  \/ LuaLongComment \/ LuaLineComment \/ LuaLongString \/ LuaBracket \/ LuaBlank
  \/ LuaSemicolon \/ LuaOther \/ LuaQuoted \/ LuaInLine
-----------------------------------------------------------------------------
YamlStart == [block |-> FALSE, parent |-> 0]

Blank == {" "}   \* and tab and carriage return

YamlLineEnd == ToFirst(at, {"\n"}) - 1
YamlLine == SubSeq(text, at, YamlLineEnd)

Indent(line) ==
  CHOOSE n \in 0 .. Len(line) :
    (\A i \in 1 .. n : line[i] = " ") /\ (n < Len(line) => line[n + 1] # " ")

BlankLine(line) == \A i \in DOMAIN line : line[i] \in Blank

(* Quotes as the line is read: which one is open, and whether a backslash  *)
(* inside double quotes takes the next character along.                    *)
AfterChar(c) ==
  [open \in {"", "'", "\"", "\\"} |->
     CASE open = "" -> IF c \in {"'", "\""} THEN c ELSE ""
       [] open = "\\" -> "\""
       [] open = "\"" /\ c = "\\" -> "\\"
       [] OTHER -> IF c = open THEN "" ELSE open]

YamlQuotes(line) ==
  LET open[i \in 1 .. Len(line) + 1] == IF i = 1 THEN "" ELSE AfterChar(line[i - 1])[open[i - 1]]
  IN  open

(* Mutant: any # outside quotes begins a comment.                          *)
UncommentedAny(line) ==
  LET open == YamlQuotes(line)
      marks == {i \in DOMAIN line : line[i] = "#" /\ open[i] = ""}
  IN  IF marks = {} THEN line
      ELSE SubSeq(line, 1, Min(marks) - 1)

(* A comment begins at a # outside quotes, first or behind a space.        *)
Uncommented(line) ==
  LET open == YamlQuotes(line)
      marks == {i \in DOMAIN line : /\ line[i] = "#" /\ open[i] = ""
                                    /\ i = 1 \/ line[i - 1] \in Blank}
  IN  IF marks = {} THEN line
      ELSE SubSeq(line, 1, Min(marks) - 1)

Trimmed(s) == SubSeq(s, 1, LastBut(s, Blank))

(* What is left of the line ends in a header of a block scalar: | or >     *)
(* alone or behind a space, with chomping and indentation behind it.       *)
BlockHeader(s) ==
  LET k == LastBut(s, {"+", "-"} \cup Digits)
  IN  k # 0 /\ s[k] \in {"|", ">"} /\ (k = 1 \/ s[k - 1] \in Blank)

YamlReads == lang = "yaml" /\ at <= stop
YamlBody == st.block /\ (BlankLine(YamlLine) \/ Indent(YamlLine) > st.parent)
YamlBreak == IF YamlLineEnd < stop THEN <<"\n">> ELSE <<>>

YamlBlockLine ==
  /\ YamlReads /\ YamlBody
  /\ Round(YamlLineEnd + 2, out \o YamlLine \o YamlBreak, pend)
  /\ UNCHANGED st

YamlPlainLine ==
  /\ YamlReads /\ ~YamlBody
  /\ LET kept == Trimmed(Uncommented(YamlLine))
     IN  /\ Round(YamlLineEnd + 2, IF kept = <<>> THEN out ELSE out \o kept \o YamlBreak, pend)
         /\ st' = IF kept # <<>> /\ BlockHeader(kept)
                  THEN [block |-> TRUE, parent |-> Indent(YamlLine)]
                  ELSE [st EXCEPT !.block = FALSE]

YamlNext == YamlBlockLine \/ YamlPlainLine
=============================================================================
