------------------------------ MODULE Wildcard ------------------------------
(***************************************************************************)
(* wildcard_match and wildcard_find_all. First the matcher: it reads a     *)
(* pattern token by token, calls itself for what follows a star or a       *)
(* branch, and remembers the calls that failed. Its calls are a stack      *)
(* here, and one step is one token, one call or one return. Positions      *)
(* count from 0, as in the code.                                           *)
(*                                                                         *)
(* Then the delegation of patterns without * and ? to frozen_regex, the    *)
(* greedy loop for patterns of * and ? alone, the matcher with its early   *)
(* rejections for all others, and the search for the starts of matches.    *)
(***************************************************************************)
EXTENDS FrozenRegex

CONSTANT TextCap   \* wildcard_memo::k_text_cap, the text positions remembered

VARIABLES
  pat, text,   \* PAT and the text
  plan,        \* wildcard_plan<PAT>, made when the program is compiled
  calls,       \* the calls of wildcard_match_impl under way, the innermost last
  ret,         \* what the last call returned, until its caller has read it
  memo         \* wildcard_memo::failed

matcherVars == <<calls, ret, memo>>
-----------------------------------------------------------------------------
Size == Len(pat)
P(i) == pat[i + 1]
T(i) == text[i + 1]
NPOS == -1

CharIn(i, chars) == i < Size /\ P(i) \in chars

(* The scans skip a backslash and what it escapes: from a, position i is   *)
(* looked at when an even number of backslashes stands right before it.    *)
BackslashesBefore(i, a) ==
  i - (CHOOSE j \in a .. i : /\ \A k \in j .. i - 1 : P(k) = "\\"
                             /\ j = a \/ P(j - 1) # "\\")
Unescaped(a, b) == {i \in a .. b - 1 : BackslashesBefore(i, a) % 2 = 0}
Marks(chars, a, b) == {i \in Unescaped(a, b) : P(i) \in chars}

FirstOf(S) == IF S = {} THEN Size ELSE CHOOSE i \in S : \A j \in S : i <= j
InOrder(S) == [k \in 1 .. Cardinality(S) |-> CHOOSE i \in S : Cardinality({j \in S : j <= i}) = k]

find_matching_close_bracket(i) == FirstOf(Marks({"]"}, i + 1, Size))

(* How many groups opened in a .. i are still open behind i.               *)
Depth(a, i) == Cardinality(Marks({"("}, a, i + 1)) - Cardinality(Marks({")"}, a, i + 1))

find_matching_close_paren(i) ==
  FirstOf({j \in Marks({")"}, i + 1, Size) : Depth(i + 1, j) = -1})

(* The class table of the bracket at i, as the set of its characters.      *)
ClassItems(start, close) ==
  LET escaped(k) == P(k) = "\\" /\ k + 1 < close
      char(k) == IF escaped(k) THEN P(k + 1) ELSE P(k)
      behind(k) == IF escaped(k) THEN k + 2 ELSE k + 1
      is_range_token(j) == P(j) = "-" /\ j # start /\ behind(j) < close
      isRange(j) == behind(j) + 1 < close /\ P(behind(j)) = "-" /\ ~is_range_token(j)
      items[j \in start .. close] ==
        IF j = close THEN {}
        ELSE IF isRange(j) THEN Range(CharRange(char(j), char(behind(j) + 1)))
                                  \cup items[behind(behind(j) + 1)]
        ELSE {char(j)} \cup items[behind(j)]
  IN  items[start]

char_class_table(i) ==
  LET close == find_matching_close_bracket(i)
      negated == i + 1 < close /\ P(i + 1) = "!"
      items == ClassItems(IF negated THEN i + 2 ELSE i + 1, close)
  IN  IF negated THEN Range(Ascii) \ items ELSE items

(* The branches of the group at i, in order; a branch without a star       *)
(* stands for at most as many characters as it has itself.                 *)
NO_LIMIT == -1
Branches(i) ==
  LET close == find_matching_close_paren(i)
      bars == {j \in Marks({"|"}, i + 1, close) : Depth(i + 1, j) = 0}
      edges == InOrder({i, close} \cup bars)
      Branch(from, to) ==
        [from |-> from, to |-> to,
         max_length |-> IF Marks({"*"}, from, to) # {} THEN NO_LIMIT ELSE to - from]
  IN  [k \in 1 .. Len(edges) - 1 |-> Branch(edges[k] + 1, edges[k + 1])]

Places(c) == {i \in 0 .. Size - 1 : P(i) = c}
Closed(closes) == {i \in DOMAIN closes : closes[i] < Size}

make_metadata ==
  LET brackets == [i \in Places("[") |-> find_matching_close_bracket(i)]
      parens == [i \in Places("(") |-> find_matching_close_paren(i)]
  IN  [close_brackets |-> brackets, close_parens |-> parens,
       char_class_tables |-> [i \in Closed(brackets) |-> char_class_table(i)],
       branches |-> [i \in Closed(parens) |-> Branches(i)]]
-----------------------------------------------------------------------------
IsSet(p, q) == P(p) = "[" /\ plan.close_brackets[p] < q
IsGroup(p, q) == P(p) = "(" /\ plan.close_parens[p] < q

(* The tokens that stand for one character: which ones, and what follows.  *)
OneChar(p, q) ==
  CASE P(p) = "\\" -> [chars |-> IF p + 1 < q THEN {P(p + 1)} ELSE {}, next |-> p + 2]
    [] P(p) = "?" -> [chars |-> Range(Ascii), next |-> p + 1]
    [] IsSet(p, q) -> [chars |-> plan.char_class_tables[p], next |-> plan.close_brackets[p] + 1]
    [] OTHER -> [chars |-> {P(p)}, next |-> p + 1]
-----------------------------------------------------------------------------
(* What the pattern from p to q stands for: the ends of the stretches of   *)
(* the text from i on, those the matcher should prefer first.  A star      *)
(* takes as little as it can, and so does each branch of a group.          *)
Behind(ends, found, p, q) == FlattenSeq([k \in DOMAIN found |-> ends[<<found[k], p, q>>]])

EndsOf(ends, i, p, q) ==
  LET Branch(b) == InOrder(Range(ends[<<i, b.from, b.to>>]))
  IN  IF p >= q THEN <<i>>
      ELSE IF P(p) = "*" THEN Behind(ends, [k \in 1 .. Len(text) - i + 1 |-> i + k - 1], p + 1, q)
      ELSE IF IsGroup(p, q) THEN
        FlattenSeq([b \in DOMAIN plan.branches[p] |->
                      Behind(ends, Branch(plan.branches[p][b]), plan.close_parens[p] + 1, q)])
      ELSE IF i < Len(text) /\ T(i) \in OneChar(p, q).chars
      THEN ends[<<i + 1, OneChar(p, q).next, q>>]
      ELSE <<>>

Ends[x \in (0 .. Len(text)) \X (0 .. Size) \X (0 .. Size)] == EndsOf(Ends, x[1], x[2], x[3])

Full == Contains(Ends[<<0, 0, Size>>], Len(text))
-----------------------------------------------------------------------------
(* wildcard_match_impl.  A call has the length of its text, its positions, *)
(* the end of its part of the pattern, whether a prefix of the text will   *)
(* do, where it began, and the calls its loop has still to try.            *)
Call(n, ti, pi, pi_end, partial) ==
  [n |-> n, ti |-> ti, pi |-> pi, pi_end |-> pi_end, partial |-> partial,
   began |-> <<ti, pi>>, tries |-> <<>>]

NoRet == [matched |-> FALSE, pos |-> NPOS]
Failed == [matched |-> FALSE, pos |-> 0]
Matched(pos) == [matched |-> TRUE, pos |-> pos]

Top == Last(calls)
Others == Front(calls)
Running == calls # <<>> /\ ret = NoRet /\ Top.tries = <<>>
Retried == calls # <<>> /\ ret # NoRet

(* Mutant: branches of a group are remembered like the whole pattern.      *)
SlotOfAnyPart(call) == IF call.began[1] < TextCap THEN {<<call.began, call.partial>>} ELSE {}

(* wildcard_memo::at: what is remembered of a call, if anything.           *)
Slot(call) == IF call.pi_end = Size /\ call.began[1] < TextCap
              THEN {<<call.began, call.partial>>} ELSE {}

Enter(call) ==
  /\ IF Slot(call) \cap memo # {}
     THEN calls' = calls /\ ret' = Failed
     ELSE calls' = Append(calls, call) /\ ret' = NoRet
  /\ memo' = memo

Return(result) ==
  /\ calls' = Others
  /\ ret' = result
  /\ memo' = IF result.matched THEN memo ELSE memo \cup Slot(Top)

Continue(call) ==
  /\ calls' = Append(Others, call)
  /\ ret' = NoRet
  /\ memo' = memo

TryAll(tries) == IF tries = <<>> THEN Return(Failed) ELSE Continue([Top EXCEPT !.tries = tries])

Rest(ti, pi) == [branch |-> FALSE, end |-> ti, call |-> Call(Top.n, ti, pi, Top.pi_end, Top.partial)]

(* One character of the text for \, ?, a set or a literal.                 *)
MatchOne ==
  /\ Running /\ Top.pi < Top.pi_end
  /\ P(Top.pi) # "*" /\ ~IsGroup(Top.pi, Top.pi_end)
  /\ LET one == OneChar(Top.pi, Top.pi_end)
     IN  IF Top.ti < Top.n /\ T(Top.ti) \in one.chars
         THEN Continue([Top EXCEPT !.ti = @ + 1, !.pi = one.next])
         ELSE Return(Failed)

PatternEnds ==
  /\ Running /\ Top.pi >= Top.pi_end
  /\ Return(IF Top.partial \/ Top.ti = Top.n THEN Matched(Top.ti) ELSE Failed)

AfterStars(p, q) == CHOOSE i \in p .. q : (\A k \in p .. i - 1 : P(k) = "*") /\ (i = q \/ P(i) # "*")
Special == {"*", "?", "[", "(", "\\"}
ChunkEnd(p, q) == CHOOSE i \in p .. q : /\ \A k \in p .. i - 1 : P(k) \notin Special
                                        /\ i = q \/ P(i) \in Special

(* Where the pattern from p to q, read as it stands, begins in the text:   *)
(* string_view::find, or every position when nothing literal comes next.   *)
Found(p, q, from, n) ==
  InOrder({k \in from .. n - (q - p) : \A j \in 0 .. q - p - 1 : T(k + j) = P(p + j)})

MatchStar ==
  /\ Running /\ Top.pi < Top.pi_end /\ P(Top.pi) = "*"
  /\ LET p == AfterStars(Top.pi, Top.pi_end)
         lit_end == ChunkEnd(p, Top.pi_end)
         found == Found(p, lit_end, Top.ti, Top.n)
     IN  IF p = Top.pi_end
         THEN Return(Matched(IF Top.partial THEN Top.ti ELSE Top.n))
         ELSE TryAll([k \in DOMAIN found |-> Rest(found[k] + (lit_end - p), lit_end)])

(* Every end a branch may have, shortest first, branch after branch.  The  *)
(* subtraction of unsigned sizes wraps when the position is behind the end.*)
LastEnd(call, branch) ==
  IF branch.max_length = NO_LIMIT \/ (call.ti <= call.n /\ branch.max_length >= call.n - call.ti)
  THEN call.n ELSE call.ti + branch.max_length

BranchTries(call, branch) ==
  [k \in 1 .. LastEnd(call, branch) - call.ti + 1 |->
     LET e == call.ti + k - 1
     IN  [branch |-> TRUE, end |-> e,
          call |-> Call(IF e < call.n THEN e ELSE call.n, call.ti, branch.from, branch.to, FALSE)]]

MatchGroup ==
  /\ Running /\ Top.pi < Top.pi_end /\ IsGroup(Top.pi, Top.pi_end)
  /\ LET branches == plan.branches[Top.pi]
     IN  TryAll(FlattenSeq([b \in DOMAIN branches |-> BranchTries(Top, branches[b])]))

Try ==
  /\ calls # <<>> /\ ret = NoRet /\ Top.tries # <<>>
  /\ Enter(Head(Top.tries).call)

TryFailed ==
  /\ Retried /\ ~ret.matched
  /\ TryAll(Tail(Top.tries))

RestMatched ==
  /\ Retried /\ ret.matched /\ ~Head(Top.tries).branch
  /\ Return(ret)

(* A branch stands for the text up to e; what follows the group is next.   *)
BranchMatched ==
  /\ Retried /\ ret.matched /\ Head(Top.tries).branch
  /\ LET e == Head(Top.tries).end
         after_alt == plan.close_parens[Top.pi] + 1
     IN  IF after_alt < Top.pi_end THEN TryAll(<<Rest(e, after_alt)>> \o Tail(Top.tries))
         ELSE IF Top.partial \/ e = Top.n THEN Return(Matched(e))
         ELSE TryAll(Tail(Top.tries))

Matcher ==
  /\ \/ MatchOne \/ PatternEnds \/ MatchStar \/ MatchGroup
     \/ Try \/ TryFailed \/ RestMatched \/ BranchMatched
  /\ UNCHANGED <<pat, text, plan>>
-----------------------------------------------------------------------------
CONSTANTS
  Patterns,   \* the patterns
  Texts       \* the texts they are used on

ASSUME CharsAssumption ==
  /\ TextCap \in Nat
  /\ \A p \in Patterns : p \in Seq(Range(Ascii))
  /\ \A t \in Texts : t \in Seq(Range(Ascii))

VARIABLES
  regex,    \* made of the pattern at compile time: can_delegate and the keys of
            \* frozen_regex, none if it refuses the pattern
  phase,    \* "ready", "glob", "match", "find", "done"
  glob,     \* ti, pi, star_pi and retry_ti of the greedy loop
  starts,   \* the starts that wildcard_find_from has yet to try
  hit,      \* the last match found, from start to end
  answer    \* what wildcard_match returned

inputs == <<pat, text, plan, regex>>
vars == <<pat, text, plan, regex, calls, ret, memo, phase, glob, starts, hit, answer>>
-----------------------------------------------------------------------------
(* can_delegate and regex_pattern of wildcard_to_regex_helper.             *)
Delegable[i \in 0 .. Size, depth \in 0 .. Size] ==
  LET close == find_matching_close_bracket(i)
  IN  IF i = Size THEN depth = 0
      ELSE CASE P(i) = "\\" -> CharIn(i + 1, Escapable) /\ Delegable[i + 2, depth]
             [] P(i) = "[" -> /\ close < Size /\ ~CharIn(i + 1, {"!", "^"})
                              /\ Delegable[close + 1, depth]
             [] P(i) \in {"*", "?", ".", "{", "}", "+", "^", "$"} -> FALSE
             [] P(i) = "(" -> Delegable[i + 1, depth + 1]
             [] P(i) = ")" -> depth > 0 /\ Delegable[i + 1, depth - 1]
             [] P(i) = "|" -> depth > 0 /\ Delegable[i + 1, depth]
             [] OTHER -> Delegable[i + 1, depth]

can_delegate == pat # <<>> /\ Delegable[0, 0]

(* An exclamation mark behind a bracket that is not escaped is rewritten.  *)
regex_pattern ==
  [i \in DOMAIN pat |->
     IF /\ pat[i] = "!" /\ i > 1 /\ pat[i - 1] = "["
        /\ BackslashesBefore(i - 2, 0) % 2 = 0
     THEN "^" ELSE pat[i]]

is_simple_glob == \A i \in DOMAIN pat : pat[i] \notin {"[", "(", "\\"}
has_escape == \E i \in DOMAIN pat : pat[i] = "\\"

(* The literal parts at both ends that are compared ahead of the matcher.  *)
Prefix == ChunkEnd(0, Size)
pref_len == IF has_escape THEN 0 ELSE Prefix
LastStar == {i \in 0 .. Size - 1 : P(i) = "*" /\ \A j \in i + 1 .. Size - 1 : P(j) # "*"}
suff_start ==
  IF has_escape THEN Size
  ELSE FirstOf({i + 1 : i \in {i \in LastStar : \A j \in i + 1 .. Size - 1 :
                                 P(j) \notin {"?", "[", "(", ")", "|", "]"}}})

StandsAt(from, to, k) ==
  /\ 0 <= k /\ k + (to - from) <= Len(text)
  /\ \A i \in from .. to - 1 : T(k + (i - from)) = P(i)

(* Mutant: the matcher may use the characters of the suffix once more.     *)
whole_text == Len(text)
suff_at == Len(text) - (Size - suff_start)
middle == suff_at
Plausible == StandsAt(0, pref_len, 0) /\ StandsAt(suff_start, Size, suff_at)
-----------------------------------------------------------------------------
GlobStart == [ti |-> 0, pi |-> 0, star_pi |-> NPOS, retry_ti |-> 0]

Init ==
  /\ pat \in Patterns
  /\ plan = make_metadata
  /\ regex = [can_delegate |-> can_delegate,
              keys |-> IF can_delegate /\ Compiles(regex_pattern) THEN keys(regex_pattern) ELSE {}]
  /\ text \in Texts
  /\ calls = <<>> /\ ret = NoRet /\ memo = {}
  /\ phase = "ready" /\ glob = GlobStart /\ starts = <<>>
  /\ hit = [start |-> 0, end |-> 0]
  /\ answer = "none"

Answer(yes) == phase' = "done" /\ answer' = IF yes THEN "yes" ELSE "no"

(* A program whose pattern frozen_regex refuses does not compile.          *)
Delegate ==
  /\ phase = "ready" /\ regex.can_delegate /\ regex.keys # {}
  /\ Answer(contains(regex.keys, text))
  /\ UNCHANGED <<inputs, calls, ret, memo, glob, starts, hit>>

StartGlob ==
  /\ phase = "ready" /\ ~regex.can_delegate /\ is_simple_glob
  /\ phase' = "glob"
  /\ UNCHANGED <<inputs, calls, ret, memo, glob, starts, hit, answer>>

Reject ==
  /\ phase = "ready" /\ ~regex.can_delegate /\ ~is_simple_glob /\ ~Plausible
  /\ Answer(FALSE)
  /\ UNCHANGED <<inputs, calls, ret, memo, glob, starts, hit>>

StartMatcher ==
  /\ phase = "ready" /\ ~regex.can_delegate /\ ~is_simple_glob /\ Plausible
  /\ phase' = "match"
  /\ Enter(Call(middle, pref_len, pref_len, suff_start, FALSE))
  /\ UNCHANGED <<inputs, glob, starts, hit, answer>>

MatchEnds ==
  /\ phase = "match" /\ calls = <<>>
  /\ Answer(ret.matched)
  /\ UNCHANGED <<inputs, calls, ret, memo, glob, starts, hit>>
-----------------------------------------------------------------------------
(* wildcard_match_simple_glob.                                             *)
GlobLeft == phase = "glob" /\ glob.ti < Len(text)
GlobKeeps == UNCHANGED <<inputs, calls, ret, memo, starts, hit>>

GlobStar ==
  /\ GlobLeft /\ CharIn(glob.pi, {"*"})
  /\ LET pi == AfterStars(glob.pi, Size)
     IN  /\ glob' = [glob EXCEPT !.pi = pi, !.star_pi = pi, !.retry_ti = glob.ti]
         /\ IF pi = Size THEN Answer(TRUE) ELSE UNCHANGED <<phase, answer>>
  /\ GlobKeeps

GlobHere == CharIn(glob.pi, {"?", T(glob.ti)})

GlobChar ==
  /\ GlobLeft /\ ~CharIn(glob.pi, {"*"}) /\ GlobHere
  /\ glob' = [glob EXCEPT !.ti = @ + 1, !.pi = @ + 1]
  /\ GlobKeeps /\ UNCHANGED <<phase, answer>>

GlobRetry ==
  /\ GlobLeft /\ ~CharIn(glob.pi, {"*"}) /\ ~GlobHere /\ glob.star_pi # NPOS
  /\ glob' = [glob EXCEPT !.pi = glob.star_pi, !.ti = glob.retry_ti + 1, !.retry_ti = @ + 1]
  /\ GlobKeeps /\ UNCHANGED <<phase, answer>>

GlobFails ==
  /\ GlobLeft /\ ~CharIn(glob.pi, {"*"}) /\ ~GlobHere /\ glob.star_pi = NPOS
  /\ Answer(FALSE)
  /\ GlobKeeps /\ UNCHANGED glob

GlobEnds ==
  /\ phase = "glob" /\ glob.ti >= Len(text)
  /\ Answer(AfterStars(glob.pi, Size) = Size)
  /\ GlobKeeps /\ UNCHANGED glob
-----------------------------------------------------------------------------
(* wildcard_find_from: the starts it tries from a position on, in order.   *)
EveryStart(from) == [k \in 1 .. Len(text) - from + 1 |-> from + k - 1]

AnchorMissing(from) ==
  LET start == AfterStars(0, Size)
      end == ChunkEnd(start, Size)
  IN  end > start /\ Found(start, end, from, Len(text)) = <<>>

(* Mutant: every pattern that begins with a star is tried once.            *)
StartsOnce(from) ==
  IF pat = <<>> THEN <<>>
  ELSE IF Prefix > 0 THEN Found(0, Prefix, from, Len(text))
  ELSE IF P(0) = "*" THEN <<from>>
  ELSE EveryStart(from)

Starts(from) ==
  IF pat = <<>> THEN <<>>
  ELSE IF Prefix > 0 THEN Found(0, Prefix, from, Len(text))
  ELSE IF is_simple_glob /\ P(0) = "*" THEN IF AnchorMissing(from) THEN <<>> ELSE <<from>>
  ELSE EveryStart(from)

StartFind ==
  /\ phase = "ready"
  /\ phase' = "find" /\ starts' = Starts(0)
  /\ UNCHANGED <<inputs, calls, ret, memo, glob, hit, answer>>

FindReady == phase = "find" /\ calls = <<>>

TryStart ==
  /\ FindReady /\ ret = NoRet /\ starts # <<>>
  /\ calls' = <<Call(Len(text), Head(starts), 0, Size, TRUE)>> /\ memo' = {}
  /\ UNCHANGED <<inputs, ret, phase, glob, starts, hit, answer>>

(* Mutant: an empty match is a match.                                      *)
IsHitEvenEmpty == ret.matched
IsHit == ret.matched /\ ret.pos > Head(starts)

(* Mutant: the next match may begin inside the last one.                   *)
StartFoundOverlapping ==
  /\ FindReady /\ ret # NoRet /\ IsHit
  /\ hit' = [start |-> Head(starts), end |-> ret.pos]
  /\ starts' = Starts(Head(starts) + 1)
  /\ ret' = NoRet
  /\ UNCHANGED <<inputs, calls, memo, phase, glob, answer>>

StartFound ==
  /\ FindReady /\ ret # NoRet /\ IsHit
  /\ hit' = [start |-> Head(starts), end |-> ret.pos]
  /\ starts' = Starts(ret.pos)
  /\ ret' = NoRet
  /\ UNCHANGED <<inputs, calls, memo, phase, glob, answer>>

StartMissed ==
  /\ FindReady /\ ret # NoRet /\ ~IsHit
  /\ starts' = Tail(starts)
  /\ ret' = NoRet
  /\ UNCHANGED <<inputs, calls, memo, phase, glob, hit, answer>>

FindEnds ==
  /\ FindReady /\ ret = NoRet /\ starts = <<>>
  /\ phase' = "done"
  /\ UNCHANGED <<inputs, calls, ret, memo, glob, starts, hit, answer>>

Next ==
  \/ Delegate \/ StartGlob \/ Reject \/ StartMatcher \/ MatchEnds
  \/ GlobStar \/ GlobChar \/ GlobRetry \/ GlobFails \/ GlobEnds
  \/ StartFind \/ TryStart \/ StartFound \/ StartMissed \/ FindEnds
  \/ Matcher /\ UNCHANGED <<regex, phase, glob, starts, hit, answer>>

Spec == Init /\ [][Next]_vars /\ WF_vars(Next)
-----------------------------------------------------------------------------

(* Brackets that hold no mark of a group: frozen_regex reads such a        *)
(* pattern as the matcher does.                                            *)
BracketsPlain ==
  \A i \in Unescaped(0, Size) :
    P(i) = "[" => \A j \in i + 1 .. find_matching_close_bracket(i) - 1 :
                    j < Size => P(j) \notin {"(", ")", "|", "["}

(* wildcard_match answers whether the whole text is one the pattern stands *)
(* for, by whichever of its four ways: delegation, greedy loop, rejection  *)
(* by prefix and suffix, or backtracking; and what the memo remembers has  *)
(* really failed: no text the call was about ends where it should,         *)
(* whichever call comes there again.                                       *)
MatchIsRight ==
  /\ answer # "none" /\ (regex.can_delegate => BracketsPlain) => (answer = "yes" <=> Full)
  /\ calls = <<>> =>
       \A entry \in memo :
         LET ends == Ends[<<entry[1][1], entry[1][2], Size>>]
         IN  IF entry[2] THEN ends = <<>> ELSE ~Contains(ends, Len(text))

EndsFrom(start) == Ends[<<start, 0, Size>>]

(* A start counts when what the matcher should find there is not empty.    *)
Counts(start) == pat # <<>> /\ EndsFrom(start) # <<>> /\ Head(EndsFrom(start)) > start

(* wildcard_find_all gives the matches from left to right: each one is the *)
(* preferred match of the first start behind the last match that counts,   *)
(* and when the search ends, no start behind the last match counts.        *)
HitsAreNext ==
  [][/\ hit' # hit =>
          /\ hit'.start >= hit.end /\ Counts(hit'.start)
          /\ hit'.end = Head(EndsFrom(hit'.start))
          /\ \A start \in hit.end .. hit'.start - 1 : ~Counts(start)
     /\ phase = "find" /\ phase' = "done" =>
          \A start \in hit.end .. Len(text) : ~Counts(start)]_vars

(* Every match and every search comes to its end.                          *)
Returns == <>(phase = "done")
=============================================================================
