---------------------------- MODULE MinifyMarkup ----------------------------
(***************************************************************************)
(* minify_markup of minify.hpp with the functions it is made of.  lang is  *)
(* "html" in its own loop, "tag" in the loop of emit_open_tag, and "js" or *)
(* "json" while the inside of a script element is minified.  A name of a   *)
(* tag or of an attribute, and a type, is one symbol; upper case is left   *)
(* out.                                                                    *)
(***************************************************************************)
EXTENDS MinifyScript

(* last_tag_inline, in_style, the tag under way (name ends at a slash, tag *)
(* does not) and what emit_open_tag says of the content of a script.       *)
HtmlStart == [inline |-> FALSE, style |-> FALSE, name |-> <<>>, tag |-> <<>>, mode |-> "js"]

VoidElements == {<<"area">>, <<"base">>, <<"br">>, <<"col">>, <<"embed">>, <<"hr">>, <<"img">>,
  <<"input">>, <<"link">>, <<"meta">>, <<"param">>, <<"source">>, <<"track">>, <<"wbr">>}
OptionalEndTags == {<<"li">>, <<"dt">>, <<"dd">>, <<"p">>, <<"tr">>, <<"td">>, <<"th">>,
  <<"thead">>, <<"tbody">>, <<"tfoot">>, <<"option">>, <<"optgrou">>, <<"colgroup">>, <<"caption">>}
InlineTags == {<<"a">>, <<"abbr">>, <<"b">>, <<"bdi">>, <<"bdo">>, <<"button">>, <<"cite">>,
  <<"code">>, <<"data">>, <<"del">>, <<"dfn">>, <<"em">>, <<"i">>, <<"img">>, <<"input">>,
  <<"ins">>, <<"kbd">>, <<"label">>, <<"mark">>, <<"q">>, <<"s">>, <<"samp">>, <<"small">>,
  <<"span">>, <<"strong">>, <<"sub">>, <<"sup">>, <<"time">>, <<"u">>, <<"var">>}
Blocks == {<<"address">>, <<"article">>, <<"aside">>, <<"blockquote">>, <<"details">>, <<"div">>,
  <<"dl">>, <<"fieldset">>, <<"figcaption">>, <<"figure">>, <<"footer">>, <<"form">>, <<"h1">>,
  <<"h2">>, <<"h3">>, <<"h4">>, <<"h5">>, <<"h6">>, <<"header">>, <<"hgroup">>, <<"hr">>,
  <<"main">>, <<"menu">>, <<"nav">>, <<"ol">>, <<"p">>, <<"pre">>, <<"section">>, <<"table">>,
  <<"ul">>}
BooleanAttributes == {<<"disabled">>, <<"checked">>, <<"readonly">>, <<"required">>,
  <<"autofocus">>, <<"autoplay">>, <<"controls">>, <<"loop">>, <<"muted">>, <<"hidden">>,
  <<"defer">>, <<"async">>, <<"novalidate">>, <<"formnovalidate">>, <<"reversed">>, <<"opened">>,
  <<"selected">>, <<"autopl">>, <<"nowrap">>, <<"scoped">>, <<"seamless">>, <<"ismap">>,
  <<"itemscope">>}
RedundantAttributes == {
  << <<"script">>, <<"type">>, <<"text/javascript">> >>,
  << <<"script">>, <<"type">>, <<"application/javascr">> >>,
  << <<"script">>, <<"type">>, <<"module">> >>,
  << <<"style">>, <<"type">>, <<"text/css">> >>,
  << <<"input">>, <<"type">>, <<"text">> >>,
  << <<"form">>, <<"method">>, <<"get">> >>,
  << <<"button">>, <<"type">>, <<"submit">> >>}
JsTypes == {<<"module">>, <<"text/javascript">>, <<"application/javascript">>,
  <<"text/ecmascript">>, <<"application/ecmascript">>, <<"application/x-javascript">>}
RawElements == {<<"script">>, <<"pre">>, <<"textarea">>}
Opens == <<"<", "!", "-", "-">>
Closes == <<"-", "-", ">">>
-----------------------------------------------------------------------------
(* Where a name that begins at k ends.                                     *)
NameEnd(k, S) == ToFirst(k, {">"} \cup Space \cup S) - 1

can_remove_attribute_quotes(value) ==
  /\ value # <<>>
  /\ \A i \in DOMAIN value : value[i] \notin Space \cup Quotes \cup {"=", "<", ">"}

can_omit_p_end_tag(k) ==
  LET omits[n \in Nat] ==
        LET j == PastSpace(n)
        IN  CASE Sees(j, Opens) -> omits[PastComment(j + 4, Closes, stop + 1)]
              [] At(j) # "<" -> At(j) = ""
              [] At(j + 1) = "/" -> TRUE
              [] OTHER -> Part(j + 1, NameEnd(j + 1, {"/"})) \in Blocks
  IN  omits[k]

(* Mutant: the end of a paragraph goes like that of a list item.           *)
DropsEveryEnd(k) ==
  LET name == Part(k + 2, NameEnd(k + 2, {}))
  IN  \/ name \in VoidElements
      \/ "remove_end_tags" \in opts /\ name \in OptionalEndTags

(* emit_close_tag: what it writes for the end tag at k, and the place      *)
(* behind it.                                                              *)
DropsEnd(k) ==
  LET name == Part(k + 2, NameEnd(k + 2, {}))
  IN  \/ name \in VoidElements
      \/ /\ "remove_end_tags" \in opts /\ name \in OptionalEndTags
         /\ name = <<"p">> => can_omit_p_end_tag(ToFirst(k, {">"}) + 1)

PastEndTag(k) == IF Sees(k + 1, <<"/">>) THEN Min2(ToFirst(k, {">"}), stop) + 1 ELSE k
EndTag(k) ==
  IF ~Sees(k + 1, <<"/">>) \/ DropsEnd(k) THEN <<>> ELSE Part(k, ToFirst(k, {">"}))

find_close_tag(k, name) ==
  LET places == {j \in k .. stop : Sees(j, <<"<", "/">>) /\ Part(j + 2, NameEnd(j + 2, {})) = name}
  IN  IF places = {} THEN Max2(k, stop + 1) ELSE Min(places)

(* What emit_attribute writes for a name with the value whose source text  *)
(* is raw.                                                                 *)
emit_attribute(name, value, quoted, raw) ==
  CASE <<st.tag, name, value>> \in RedundantAttributes -> <<>>
    [] value = <<>> /\ quoted -> name
    [] value = name /\ name \in BooleanAttributes -> name
    [] "remove_quotes" \in opts /\ quoted /\ can_remove_attribute_quotes(value) ->
         Append(name, "=") \o value
    [] OTHER -> Append(name, "=") \o raw

flush_pending_space(c) ==
  LET ok == /\ Prev \notin {"", "<", "=", "/"} /\ (Prev = ">" => st.inline)
            /\ c \notin {">", "=", "/"}
  IN  IF pend /\ ok THEN Append(out, " ") ELSE out

Stripped(s) == SubSeq(s, 1, LastBut(s, {" "}))
-----------------------------------------------------------------------------
HtmlReads == lang = "html" /\ at <= stop
StyleEnds == Sees(at, <<"<", "/", "style">>) /\ At(at + 3) \in {">"} \cup Space
InStyle == HtmlReads /\ st.style /\ ~StyleEnds /\ ~Sees(at, Opens)
Plain == HtmlReads /\ ~Sees(at, Opens) /\ (st.style => StyleEnds)

(* The call goes on at k in another loop, or in the same one.              *)
Continue(loop, k, s, space, locals) ==
  /\ lang' = loop /\ at' = k /\ out' = s /\ pend' = space /\ st' = locals
  /\ UNCHANGED <<text, stop, from, opts>>

(* An open comment leaves its last two characters to the next rounds.      *)
HtmlComment ==
  /\ HtmlReads /\ Sees(at, Opens)
  /\ Continue("html", PastComment(at + 4, Closes, stop - 1), out, TRUE, st)

CssComment ==
  /\ InStyle /\ Sees(at, <<"/", "*">>)
  /\ Continue("html", PastComment(at + 2, <<"*", "/">>, stop), out, TRUE, st)

CssBlank ==
  /\ InStyle /\ Here \in Space
  /\ Continue("html", at + 1, out, TRUE, st)

(* Mutant: no space is kept between two words of a selector.               *)
CssOtherTight ==
  /\ InStyle /\ ~Sees(at, <<"/", "*">>) /\ Here \notin Space
  /\ Continue("html", at + 1, Append(out, Here), FALSE, st)

CssOther ==
  /\ InStyle /\ ~Sees(at, <<"/", "*">>) /\ Here \notin Space
  /\ LET tight == pend /\ Here \in {"{", "}", ":", ";"}
         s1 == IF tight THEN WithoutSpace(out) ELSE out
         s2 == IF Here = "}" /\ s1 # <<>> /\ s1[Len(s1)] = ";" THEN SubSeq(s1, 1, Len(s1) - 1)
               ELSE s1
         spaced == /\ pend /\ ~tight /\ s2 # <<>>
                   /\ s2[Len(s2)] \notin {"<", ">", "=", "/", "{", ":", ";"}
                   /\ Here \notin {">", "=", "/"}
     IN  Continue("html", at + 1, Append(IF spaced THEN Append(s2, " ") ELSE s2, Here),
                  pend /\ ~tight /\ s2 = <<>>, st)

(* A template tag is copied; those that structure the text lose the space  *)
(* around them.                                                            *)
HtmlTemplate ==
  /\ Plain /\ Sees(at, <<"{", "{">>)
  /\ LET structural == At(at + 2) \in {"#", "/", "^", "!", ">"}
         closing == Found(at + 2, <<"}", "}">>)
         end == IF closing = 0 THEN Max2(at + 1, stop - 1) ELSE closing + 1
         s == IF structural THEN WithoutSpace(out) ELSE flush_pending_space("{")
     IN  Continue("html", IF structural THEN PastSpace(end + 1) ELSE end + 1,
                  s \o Part(at, end), FALSE, st)

HtmlTagName ==
  LET k == IF At(at + 1) = "/" THEN at + 2 ELSE at + 1
  IN  Part(k, NameEnd(k, {"/"}))

(* What stands before a tag: one space only around inline elements.        *)
BeforeTag ==
  LET s == WithoutSpace(out)
      glued == s # <<>> /\ (s[Len(s)] = ">" => st.inline)
  IN  IF HtmlTagName \in InlineTags /\ pend /\ glued THEN Append(s, " ") ELSE s

HtmlTag == Plain /\ Here = "<"

HtmlEndTag ==
  /\ HtmlTag /\ At(at + 1) = "/"
  /\ Continue("html", PastEndTag(at), BeforeTag \o EndTag(at), FALSE,
              [st EXCEPT !.inline = HtmlTagName \in InlineTags, !.style = FALSE])

(* <! and <? and a < at the end are characters like others.                *)
HtmlMark ==
  /\ HtmlTag /\ At(at + 1) \in {"!", "?", ""}
  /\ Continue("html", at + 1, Append(BeforeTag, "<"), FALSE, st)

HtmlOpenTag ==
  /\ HtmlTag /\ At(at + 1) \notin {"/", "!", "?", ""}
  /\ LET end == NameEnd(at + 1, {})
     IN  Continue("tag", end + 1, BeforeTag \o Part(at, end), FALSE,
                  [st EXCEPT !.tag = Part(at + 1, end), !.name = HtmlTagName, !.mode = "js",
                             !.inline = HtmlTagName \in InlineTags,
                             !.style = HtmlTagName = <<"style">>])

HtmlGreater ==
  /\ Plain /\ Here = ">"
  /\ Continue("html", at + 1, Append(WithoutSpace(out), ">"), pend, st)

HtmlBlank ==
  /\ Plain /\ Here \in Space
  /\ Continue("html", at + 1, out, TRUE, st)

HtmlText ==
  /\ Plain /\ Here \notin Space \cup {"<", ">"} /\ ~Sees(at, <<"{", "{">>)
  /\ Continue("html", at + 1, Append(flush_pending_space(Here), Here), pend /\ out = <<>>, st)
-----------------------------------------------------------------------------
TagReads == lang = "tag" /\ at <= stop /\ Here # ">"

TagBlank ==
  /\ TagReads /\ Here \in Space
  /\ LET k == PastSpace(at)
         s == IF At(k) \notin {"", ">", "/"} /\ Prev # " " THEN Append(out, " ") ELSE out
     IN  Continue("tag", k, s, pend, st)

TagSlash ==
  /\ TagReads /\ Here = "/"
  /\ Continue("tag", at + 1, (IF Prev \in {" ", "<"} THEN out ELSE Append(out, " ")) \o <<"/">>,
              pend, st)

TagOther ==
  /\ TagReads /\ Here \notin Words \cup {":", "/"} \cup Space
  /\ Continue("tag", at + 1, Append(out, Here), pend, st)

ScriptMode(value, mode) ==
  CASE value = <<>> -> mode
    [] value = <<"importmap">> -> "json"
    [] value \in JsTypes -> "js"
    [] OTHER -> "raw"

(* A name; what stands behind = is its value, up to a closing quote or to  *)
(* a space.                                                                *)
TagAttribute ==
  /\ TagReads /\ Here \in Words \cup {":"}
  /\ LET end == NameEnd(at, {"="})
         name == Part(at, end)
         equals == At(PastSpace(end + 1)) = "="
         first == PastSpace(IF equals THEN PastSpace(end + 1) + 1 ELSE end + 1)
         quoted == At(first) \in {"'", "\""}
         last == IF quoted THEN Min2(ToFirst(first + 1, {At(first)}), stop) ELSE NameEnd(first, {})
         value == IF quoted THEN Part(first + 1, last - 1) ELSE Part(first, last)
         written == IF equals THEN emit_attribute(name, value, quoted, Part(first, last))
                    ELSE Part(at, first - 1)
         mode == IF st.tag = <<"script">> /\ name = <<"type">> THEN ScriptMode(value, st.mode) ELSE st.mode
     IN  Continue("tag", IF equals THEN last + 1 ELSE first, out \o written, pend,
                  [st EXCEPT !.mode = mode])

(* The tag is closed.  The inside of a raw element is copied, or goes      *)
(* through the function for its type; its end tag follows.                 *)
TagClose ==
  /\ lang = "tag" /\ (at <= stop => Here = ">")
  /\ LET s == Stripped(out) \o Part(at, at)
         next == Min2(at, stop) + 1
         end == find_close_tag(next, st.name)
         mode == IF st.name = <<"script">> /\ "preserve_script" \notin opts THEN st.mode ELSE "raw"
     IN  CASE st.name \notin RawElements -> Continue("html", next, s, FALSE, st)
           [] st.name \in RawElements /\ mode = "raw" ->
                Continue("end", end, s \o Part(next, end - 1), FALSE, st)
           [] OTHER ->
                /\ lang' = mode /\ at' = next /\ stop' = end - 1
                /\ out' = s /\ from' = Len(s) /\ pend' = FALSE
                /\ st' = [(IF mode = "js" THEN JsStart ELSE JsonStart) EXCEPT !.caller = st]
                /\ UNCHANGED <<text, opts>>

ScriptReturns ==
  /\ lang \in {"js", "json"} /\ st.caller # Nobody /\ at > stop
  /\ lang' = "end" /\ at' = stop + 1 /\ stop' = Len(text)
  /\ from' = 0 /\ pend' = FALSE /\ st' = st.caller
  /\ UNCHANGED <<text, out, opts>>

RawEnds ==
  /\ lang = "end"
  /\ Continue("html", PastEndTag(at), out \o EndTag(at), FALSE, st)

MarkupNext ==
  \/ HtmlComment \/ CssComment \/ CssBlank \/ CssOther
  \/ HtmlTemplate \/ HtmlEndTag \/ HtmlMark \/ HtmlOpenTag \/ HtmlGreater \/ HtmlBlank \/ HtmlText
  \/ TagBlank \/ TagSlash \/ TagOther \/ TagAttribute \/ TagClose
  \/ ScriptReturns \/ RawEnds

HtmlEnd == WithoutSpace(out)
=============================================================================
