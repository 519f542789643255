---------------------------- MODULE MinifyScript ----------------------------
(***************************************************************************)
(* minify_json and minify_js of minify.hpp, one action per branch of their *)
(* loops.  Either is called on a whole text or, by minify_markup, on the   *)
(* inside of a script element: st.caller then holds the locals of the      *)
(* caller, and stop and from bound what is read and what is looked back at.*)
(* First what all the loops of minify.hpp have in common: the text and the *)
(* place the loop has come to, the output buffer, and the space that is    *)
(* held back until the next character decides whether it is needed.  A     *)
(* symbol of a text is one character, or a whole word where only its being *)
(* that word matters; "" is the terminating NUL.                           *)
(***************************************************************************)
EXTENDS Integers, SequencesExt

CONSTANTS
  Words,       \* the symbols made of identifier characters
  MaxParens    \* 64, the brackets minify_js and minify_sql keep track of

VARIABLES
  lang,   \* the function that is running, "done" at the end
  text,   \* input
  at,     \* i, counted from one
  stop,   \* len; a script inside a page ends before the text does
  out,    \* output[0 .. offset)
  from,   \* where in the output the running function began to write
  pend,   \* pending_space
  st,     \* the other locals of the running function
  opts    \* options: the flags that are set

scanVars == <<lang, text, at, stop, out, from, pend, st, opts>>
-----------------------------------------------------------------------------
Min2(a, b) == IF a < b THEN a ELSE b
Max2(a, b) == IF a < b THEN b ELSE a

Space == {" ", "\n"}

(* isIdentChar: letters, digits and a few more.                            *)
ASSUME WordsAssumption == Words \cap ({"", ">", "="} \cup Space) = {}

Quotes == {"'", "\"", "bt"}

At(k) == IF k <= stop THEN text[k] ELSE ""
Here == At(at)

(* The characters from k on are those of pattern.                          *)
Sees(k, pattern) ==
  /\ k + Len(pattern) - 1 <= stop
  /\ \A j \in DOMAIN pattern : text[k + j - 1] = pattern[j]

(* The first place from k on that holds one of S, or the end.              *)
ToFirst(k, S) ==
  CHOOSE j \in k .. Max2(k, stop + 1) :
    (\A l \in k .. j - 1 : At(l) \notin S) /\ At(j) \in S \cup {""}

PastSpace(k) ==
  CHOOSE j \in k .. Max2(k, stop + 1) :
    /\ \A l \in k .. j - 1 : At(l) \in Space
    /\ At(j) \notin Space

(* Where pattern is first seen from k on; 0 when it is nowhere.            *)
Found(k, pattern) ==
  LET places == {j \in k .. stop : Sees(j, pattern)}
  IN  IF places = {} THEN 0 ELSE Min(places)

(* Mutant: that the comment may be open is not looked at.                  *)
PastOpenComment(k, closing, end) == Found(k, closing) + Len(closing)

(* Behind the comment whose inside begins at k; an open one runs to end.   *)
PastComment(k, closing, end) ==
  IF Found(k, closing) = 0 THEN Max2(k, end) ELSE Found(k, closing) + Len(closing)

Part(first, last) == SubSeq(text, first, Min2(last, stop))

(* output[offset - 1], NUL before the first character.                     *)
Prev == IF Len(out) > from THEN out[Len(out)] ELSE ""

WithoutSpace(s) == IF s # <<>> /\ s[Len(s)] = " " THEN SubSeq(s, 1, Len(s) - 1) ELSE s

(* The last place in s that holds none of S.                               *)
LastBut(s, S) == Max({0} \cup {i \in DOMAIN s : s[i] \notin S})

(* One round of the loop that goes on at k with s written so far.          *)
Round(k, s, space) ==
  /\ at' = k /\ out' = s /\ pend' = space
  /\ UNCHANGED <<text, stop, from, opts>>

Begin(language, first) ==
  /\ lang = language /\ at = 1 /\ stop = Len(text)
  /\ out = <<>> /\ from = 0 /\ pend = FALSE /\ st = first
-----------------------------------------------------------------------------
Nobody == <<>>
-----------------------------------------------------------------------------
JsonStart == [quoted |-> FALSE, escaped |-> FALSE, caller |-> Nobody]

JsonReads == lang = "json" /\ at <= stop

JsonQuoted ==
  /\ JsonReads /\ st.quoted
  /\ st' = [st EXCEPT !.escaped = ~@ /\ Here = "\\",
                      !.quoted = Here = "\"" => st.escaped]
  /\ Round(at + 1, Append(out, Here), pend)

JsonOpen ==
  /\ JsonReads /\ ~st.quoted /\ Here = "\""
  /\ st' = [st EXCEPT !.quoted = TRUE]
  /\ Round(at + 1, Append(out, Here), pend)

JsonComment ==
  /\ JsonReads /\ ~st.quoted
  /\ \/ /\ Sees(at, <<"/", "/">>)
        /\ Round(ToFirst(at + 2, {"\n"}), out, pend)
     \/ /\ Sees(at, <<"/", "*">>)
        /\ Round(PastComment(at + 2, <<"*", "/">>, stop + 1), out, pend)
  /\ UNCHANGED st

JsonOther ==
  /\ JsonReads /\ ~st.quoted /\ Here # "\""
  /\ ~Sees(at, <<"/", "/">>) /\ ~Sees(at, <<"/", "*">>)
  /\ Round(at + 1, IF Here \in Space THEN out ELSE Append(out, Here), pend)
  /\ UNCHANGED st

JsonNext == JsonQuoted \/ JsonOpen \/ JsonComment \/ JsonOther
-----------------------------------------------------------------------------
JsStart == [quote |-> "", braces |-> 0, newline |-> FALSE, parens |-> <<>>,
            control |-> FALSE, caller |-> Nobody]

js_needs_space(prev, c) ==
  \/ prev \in Words /\ c \in Words
  \/ prev = c /\ c \in {"+", "-", "/"}

(* Mutant: a line that ends in an operator is taken to go on, ++ as well.  *)
NewlineDroppableWide(prev, c) ==
  \/ prev \in {"{", "(", "[", ",", ";", ":", "?", "=", "<", ">", "*", "%", "&", "|", "^", "!", "~",
               "+"}
  \/ c \in {"}", ")", "]", ","}

js_newline_droppable(prev, c) ==
  \/ prev \in {"{", "(", "[", ",", ";", ":", "?", "=", "<", ">", "*", "%", "&", "|", "^", "!", "~"}
  \/ c \in {"}", ")", "]", ","}

js_output_ends_with_word(s, words) ==
  LET n == Len(s)
  IN  /\ n > from /\ s[n] \in words
      /\ n > from + 1 => ~js_needs_space(s[n - 1], s[n])

(* Whether the statement ends anyway at the first character behind k that  *)
(* is neither space nor comment.                                           *)
js_semicolon_redundant(k) ==
  LET redundant[n \in Nat] ==
        LET j == PastSpace(n)
        IN  CASE Sees(j, <<"/", "/">>) -> redundant[ToFirst(j, {"\n"})]
              [] Sees(j, <<"/", "*">>) -> redundant[PastComment(j + 2, <<"*", "/">>, stop + 1)]
              [] OTHER -> At(j) \in {"", "}"}
  IN  redundant[k]

JsReads == lang = "js" /\ at <= stop
JsCode == JsReads /\ st.quote = ""
JsLine == Sees(at, <<"/", "/">>)
JsBlock == Sees(at, <<"/", "*">>)
JsHoleHere == st.quote = "bt" /\ Sees(at, <<"$", "{">>)

JsEscape ==
  /\ JsReads /\ st.quote # "" /\ Here = "\\"
  /\ Round(at + 2, out \o Part(at, at + 1), pend)
  /\ UNCHANGED st

JsHole ==
  /\ JsReads /\ JsHoleHere
  /\ st' = [st EXCEPT !.braces = @ + 1]
  /\ Round(at + 2, out \o Part(at, at + 1), pend)

(* Braces count only inside a hole of a template, and nothing closes the   *)
(* template there.                                                         *)
JsInside ==
  /\ JsReads /\ st.quote # "" /\ Here # "\\" /\ ~JsHoleHere
  /\ LET counts == st.quote = "bt" /\ st.braces > 0
         braces == CASE counts /\ Here = "{" -> st.braces + 1
                     [] counts /\ Here = "}" -> st.braces - 1
                     [] OTHER -> st.braces
     IN  st' = [st EXCEPT !.braces = braces,
                          !.quote = IF Here = @ /\ braces = 0 THEN "" ELSE @]
  /\ Round(at + 1, Append(out, Here), pend)

JsLineComment ==
  /\ JsCode /\ JsLine
  /\ Round(ToFirst(at + 2, {"\n"}), out, TRUE)
  /\ UNCHANGED st

(* A comment with a line break in it counts as a line break.               *)
JsBlockComment ==
  /\ JsCode /\ JsBlock
  /\ LET next == PastComment(at + 2, <<"*", "/">>, stop + 1)
     IN  /\ st' = [st EXCEPT !.newline = @ \/ \E k \in at + 2 .. next - 2 : At(k) = "\n"]
         /\ Round(next, out, TRUE)

JsBlank ==
  /\ JsCode /\ Here \in Space
  /\ st' = [st EXCEPT !.newline = @ \/ Here = "\n"]
  /\ Round(at + 1, out, TRUE)

JsSemicolon ==
  /\ JsCode /\ Here = ";"
  /\ LET empty == st.control \/ js_output_ends_with_word(out, {"else", "do"})
         kept == empty \/ ~js_semicolon_redundant(at + 1)
     IN  Round(at + 1, IF kept THEN Append(out, ";") ELSE out, FALSE)
  /\ st' = [st EXCEPT !.newline = FALSE, !.control = FALSE]

(* Mutant: a space is written where the text has none.                     *)
JsGapAlways ==
  IF Prev = "" THEN <<>>
  ELSE IF st.newline /\ ~js_newline_droppable(Prev, Here) THEN <<"\n">>
  ELSE IF js_needs_space(Prev, Here) THEN <<" ">> ELSE <<>>

JsGap ==
  IF ~pend \/ Prev = "" THEN <<>>
  ELSE IF st.newline /\ ~js_newline_droppable(Prev, Here) THEN <<"\n">>
  ELSE IF js_needs_space(Prev, Here) THEN <<" ">> ELSE <<>>

(* A round bracket is noted with whether it opens the condition of a       *)
(* statement, up to the depth of control_parens.                           *)
JsParens(s) ==
  CASE Here = "(" -> Append(st.parens, /\ Len(st.parens) < MaxParens
                                       /\ js_output_ends_with_word(s, {"if", "while", "for", "with"}))
    [] Here = ")" /\ st.parens # <<>> -> SubSeq(st.parens, 1, Len(st.parens) - 1)
    [] OTHER -> st.parens

JsToken ==
  /\ JsCode /\ ~JsLine /\ ~JsBlock /\ Here \notin Space \cup {";"}
  /\ LET s == out \o JsGap
     IN  /\ st' = [st EXCEPT
                     !.newline = FALSE,
                     !.parens = JsParens(s),
                     !.control = Here = ")" /\ st.parens # <<>> /\ st.parens[Len(st.parens)],
                     !.quote = IF Here \in Quotes THEN Here ELSE @]
         /\ Round(at + 1, Append(s, Here), FALSE)

JsNext ==
  \/ JsEscape \/ JsHole \/ JsInside
  \/ JsLineComment \/ JsBlockComment \/ JsBlank \/ JsSemicolon \/ JsToken
=============================================================================
