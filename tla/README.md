# frozenchars: a TLA+ verification project

frozenchars is a header-only C++23 library of compile-time strings, lookup
tables and text transformations. This directory holds TLA+ models of its
algorithms, TLC configurations that model-check them on small instances, and
TLAPS proofs that hold for every value of the constants. Paths below are those
of `src/include/frozenchars/` unless they say otherwise.

The library starts no thread, does no input or output and stores nothing: what
is hard in it is not concurrency but search loops that must end with a table
that is right for every key, recursions that write into arrays of a size
estimated beforehand, backtracking with memory, scanners whose mode is
changed by single characters, transformations that must be undone exactly, and
narrow integer types. Most of this code runs inside the compiler, where a
wrong answer is silent and a wrong refusal is a program that does not build. A
step below is a round of a loop, a call or return of a recursion, a stage of a
pipe, or a call of a public function.

## Inventory

| component | state | operations | hard behaviour | what makes it correct |
|---|---|---|---|---|
| `hash_impl`, `index_type_t` (map.hpp) | none | seeded CRC32C and a finaliser; choice of index type | software and hardware CRC; number of keys at the edge of a type | both give the same; no index turns negative |
| `build_chd`, `chd_find` (map.hpp) | buckets by size, slots, seed per bucket, position of the two-pass search | place a bucket, advance the seed, give up | a bucket failing half way; what the second pass covers; loop left at the first empty bucket | every key is found at its index (perfect hash) |
| `find_lookup_seed` (map.hpp) | seed, last colliding seed, table | try a seed, give up | a seed and a table of different tries; end of both passes | the table is a perfect hash |
| `lookup_index` (map.hpp) | strategy, length tables, sorted keys, one of the tables above | `find_index_raw` | four strategies must answer alike; empty, long and unknown texts | a key gives its declaration index, anything else `size()` |
| `frozen_map`, `frozen_trie_map`, `frozen_bimap`, `frozen_multimap` | values by slot, the entry being placed | `try_make`, `reorder_entries`, `equal_range` | entries in any order, twice, missing; equal keys | no value lost, moved or under another key; equal keys in order |
| `frozen_trie_index` (trie_index.hpp) | flat nodes, labels, children and their counters; calls under way; a search | build, `find` | recursion sharing counters, 8-bit links, keys that are prefixes of keys | the right answer, through table and scan |
| `constexpr_log` (log.hpp) | buffer, starts, length, count | `log`, `log_format`, `message`, `messages` | buffer full, line ends in messages | whole lines only, never changed |
| `json::crush`, `uncrush` (json/crush.hpp, json/detail/crush_detail.hpp) | text with entries, candidates, replacement characters | swap, round, expand | entries rewritten by later rounds, hash collisions, surrogate pairs | expanding undoes crushing; no round lengthens |
| `json::compress`, `decompress`, `validate_json` (json/compress.hpp, json/detail/compress_detail.hpp) | position, open containers, value table | parse, replace, restore | depth limit, value table growing, damaged texts | exactly the valid texts are read; restoring undoes compressing |
| `wildcard_match`, `wildcard_find`, `wildcard_find_all` (wildcard.hpp) | plan of a pattern, call stack of the matcher, memo, greedy loop, last match | match, find | four ways to match, backtracking into groups, memo, starts skipped | a match exactly when the pattern stands for the text; matches from left to right |
| `frozen_regex` (frozen_regex.hpp) | position, texts enumerated | parse, enumerate, `contains` | refusals, limit of the enumeration | the keys are the texts of the pattern |
| minifiers (minify.hpp) | mode of a scanner, position, what is held back, output; for pages the scanner of a script inside | HTML and XML, JSON, JavaScript, SQL, Cypher, Lua, YAML | quotes, comments and brackets inside one another; two tokens that fuse; line breaks that end a statement | tokens, words, attributes and lines are kept; the result fits its buffer; every call ends |
| FrozenString (string.hpp), string operations (string_ops.hpp, case_conv.hpp), multi-line texts (multiline.hpp), splitting (split.hpp), paths (path.hpp), pattern comments (regex_comment.hpp) | buffer of a size computed by the template, length | about a hundred functions from text to text | sizes counted in one pass and written in another, the edge of a line or a width | the text fits its buffer; words and lines are kept; pieces join again |
| encodings (encoding.hpp) | none | hex, Base64, URL, HTML entities, JSON and C escapes, UTF-8 | truncated and overlong input, encodings inside encodings | decoding undoes encoding, damage is refused |
| pipe adaptors (ops.hpp, detail/pipe.hpp) | none | forward to the above, in any order | what one stage leaves is what the next is given | the above, at every stage |
| numbers (number_conv.hpp), formatting (frozen_format.hpp), dates (chrono.hpp), `suggest` (string_ops.hpp) | accumulator, buffer position, best candidate with its cutoff | one call | limits of integer types, full buffers, ends of days, months and years, giving up early | agree with a definition |
| single headers (src/tools/amalgamate.py) | visited headers, open headers, output | resolve an entry | headers that include each other, several entries | every header once, definitions before uses |

How they interact: `frozen_map`, `frozen_set`, `frozen_bimap`, `frozen_multimap`
and the reader of Glaze own a `lookup_index` or a `multimap_index`; `frozen_regex` and `lookup_index`
both use `build_chd`; `wildcard_match` hands some patterns to `frozen_regex`;
`frozen_trie_map` and `frozen_trie_set` own a `frozen_trie_index`;
`crush_compress` is `crush` behind `compress`; `minify_markup` hands scripts to
`minify_js` and `minify_json`, which write to the same output; a pipe hands the
text of one function to the next. All these are calls whose result
is used at once. There are no callbacks into state that is being changed, save
the recursions named above.

`PROJECT.json` lists the components with what is and is not modelled, and under
`hazards` each of the hard behaviours at its line with the properties aimed at it.

## Modules

Hash tables (map.hpp):

- `KeyHash`: the constants all table builders share: texts, key list, seeds, and
  `HashFamily`, the hash functions considered. A behaviour picks one of them and
  keeps it. Nothing rests on CRC32C: the proofs hold for every function of
  text and seed. `ToIndex` is the cast to the narrow index type.
- `ChdTable`: `build_chd` and `chd_find`. `PickBucket` is one turn of the outer
  loop, `CoarseHit`/`CoarseMiss`/`CoarseEnd` and `FineHit`/`FineMiss`/`GiveUp`
  one seed of the first and of the second pass, `Finish` the `break` at an empty bucket.
  `std::ranges::sort` is not stable, so any bucket of the largest size may be next.
- `LookupTable`: `find_lookup_seed` in the same way.
- `LookupIndex`: extends both; chooses a strategy by the thresholds, builds its
  tables (`SearchSeed`, `BuildChd`, `TablesReady`, or `CompileStops` where the
  code reaches `std::unreachable()`), then answers `Find` by `find_index_raw`.
- `KeyIndex`: what `lookup_index` promises its users; the abstract specification
  `LookupIndex` implements (`IndexPromise`, by an INSTANCE with the phases
  renamed).
- `Crc32c`: the one part that `KeyHash` leaves open, by itself: the CRC of a key by
  table, as the compiler computes it, and by the processor's instruction, eight
  bytes at a time (`TakeEight`, `TakeOne`). The instruction is external and
  modelled from its definition, the division by the Castagnoli polynomial.

Containers and log:

- `EntryPlacement`: the placing loops. `PlaceByKey` is a round for containers with
  distinct keys, `PlaceInFirstFree`/`NoFreeSlot`/`Finish` those of the multimap,
  whose `reorder_entries` skips an entry without a slot. Each value is named by
  the entry it came with, so that a lost or moved one shows.
- `ConstexprLog`: buffer, starts and counters of log.hpp with `Log` (all levels and
  `log_format`, which appends an already formatted line). `LineLog` is its
  abstract specification: a sequence of lines.

Trie (trie_index.hpp): `TrieIndex` keeps the recursion of `build_trie_impl` as a
stack of calls (`BuildTrie`, `BuildChild`, `Return`) writing into the flat arrays,
and `find` as a loop (`Find`, `Mismatch`, `KeyEnds`, `Descend`). A call has the set of the
keys it builds a node for; the groups of a node are the sets of those with the same next
character. The casts to narrow types wrap around.

JSON:

- `JsonCompress`: the recursive descent of the parser with a stack of open
  containers, a text being a sequence of lexemes; behind it the value table, one
  scalar a step (`Replace`), base 62 numbers, and `decompress`.
- `JsonCrush`: the exchange of frequent structure characters, an operator, and one
  step a round of `js_crush_utf16` with all its candidates;
  where the code iterates an unordered map the first best candidate may be any.

Patterns:

- `FrozenRegex`: parser and enumerator as recursive functions: a rule at a position
  gives its texts and the position behind it, or `Refused`.
- `Wildcard`: `wildcard_plan` as a record computed when a behaviour starts (as the
  compiler does), the matcher with its calls as a stack, one token, call or
  return a step, and `wildcard_memo`; around it delegation, the greedy loop, prefix and
  suffix tests, and the search for starts that drives the matcher. `Ends` is the
  reference: all ends of a match in the order of preference, by recursion over the pattern.

Minifiers (minify.hpp). A text is a sequence of symbols: a word, a tag name or a
punctuation mark is one symbol, since no property tells letters apart.

- `MinifyScript`: the position, the output and the locals that all the loops share;
  `minify_json` and `minify_js`, an action a branch of the loop
  (`JsHole` and `JsInside` for template literals, `JsBlank` for a line break that may
  end a statement, `JsSemicolon` for the redundant one).
- `MinifyQuery`: `minify_sql` with its shortened types and optional words,
  `minify_cypher`, `minify_lua` with its long brackets, and `minify_yaml`, a line a step.
- `MinifyMarkup`: `minify_markup` with tags, attributes, template tags, comments,
  style sheets, and the call of `minify_js` or `minify_json` for a script
  (`TagClose`, `ScriptReturns`).
- `Minify`: one call of one of them; the references, written from the languages and not
  from the code (the tokens of a text and the line breaks that matter, the items of a
  page, the meaning of a YAML text line by line); and the properties.

Texts (a text is a sequence of bytes; a FrozenString is its text and the size of
its buffer):

- `Characters`: bytes, predicates, digits of every base. `Encodings`, `StringOps` (whole
  strings, then lines, then words and names): one operator a function, each computing the result
  and the size of its buffer as the template does.
- `TextPipe`: `text | ops::a | ops::b | ...`. The state is the text that the last
  stage returned and a stack of what is encoded; `Encode`, `Handle` (a stage that does an
  encoded text no harm), `Decode` and `Clean` are the stages.

Single values:

- `OneCall`: the state of a call of a function with a loop: arguments, locals, result.
- `NumberReader` (`parse_number` for integers, in the build with `std::from_chars`
  and digit by digit in the one without, and the writers of detail/number_conv.hpp),
  `FieldFormat` (`frozen_format`, a character or a field a step), `Suggest` (a candidate, and
  a row of the table of distances, a step), `Crc32c`, `Dates`, `Amalgamate` (a line a step).
- `Calls`: one call of one of them, with reference definitions.

Each `MC...` module gives the constants of a component for its runs. Operators
marked "Mutant" in a comment are plausible mistakes; putting one in the place of
the definition named in PROJECT.json makes TLC report the property violated.

## Runs

| run | question | bounds and why they are enough |
|---|---|---|
| `index_table` | does `find_lookup_seed` end with a perfect table or after all seeds of its passes, and are lookups right | four keys, two pairs of equal length, seven texts (empty, longer, same lengths), six seeds with four hash patterns each: separate, paired, crossing the table size, equal. Every combination of failing and fitting seeds in both passes occurs; the index type is narrowed to eight values so that four keys meet its limit |
| `index_chd` | is the CHD table a perfect hash, do seeds run out only when all were tried, are lookups right | four keys in four buckets, so that buckets of one, two and all keys and empty ones occur; five seeds, coarse step 2 |
| `placement` | are entries placed, lost, refused rightly | three keys of four texts, every array of three entries, both kinds of container and both calls; three is enough for one duplicate next to another key |
| `log_plain` | does the log keep whole lines | capacity 7, three messages, every message of up to two characters with line ends among them and one that never fits; both limits are reached |
| `trie` | is every trie built within its arrays, each link to the node it was made for, and are lookups right through both the table and the scan | all lists of up to three keys out of nine texts, prefixes of one another, and lists of five that the assertions refuse; types narrowed to eight values, child tables from three children on |
| `crush_words` | does every crushing come back, each entry undoing its round | texts of two to five out of five words that overlap and repeat, a surrogate pair and a replacement character among them, and JSON members next to all marks that are swapped; candidates up to seven characters, three replacement characters |
| `json_compress` | are exactly the valid texts read, to their end, and do they come back | every sequence of up to four lexemes, documents up to and beyond a depth limit of 4, nested ones also with any one lexeme replaced; two digits instead of 62, so that numbers have two digits already for the third value |
| `wildcard` | do all four ways of matching agree with what the pattern stands for, does the memo hold failures only, and are the matches of a search the next ones, none left out | some six hundred patterns: all pairs of seventeen pieces (broken brackets, lone backslashes, empty branches), all triples of seven, and longer ones; texts of up to three characters; the memo covers two text positions so that remembered and unremembered ones occur |
| `minify` | is what a text says kept, in seven languages, and does every call end within its buffer | every text of up to three (JSON: four) of ten to twenty-one pieces a language. A piece is chosen for the mode it opens: quotes in comments, comment marks in literals, escapes, open comments, brackets of different levels, template literals with a hole that holds a brace, block scalars. Three pieces put any mode between any two others |
| `page_lead` | (violation) does a page that begins with a space keep its words | two pieces behind the space |
| `pipe` | does decoding undo encoding inside other encodings and behind harmless stages, does every text fit its buffer, are words, lines and pieces kept | single awkward bytes through four stages, five of them through five (two encodings, two decodings and a stage between), pairs through two or three; all two, three and some four byte sequences at the limits of UTF-8; pairs of C escapes at their limits (surrogates in both forms, 0x10FFFF and beyond, digits cut short), unescaped and escaped through three stages; lines of two of fourteen pieces or three of eight, also through two stages; words of two of nineteen or three of eleven. All about forty adaptors with their arguments |
| `calls` | do the readers and makers of single values agree with their definitions | see below |

`calls` in detail. The machine word has six bits, types have four or six, signed and not: every value of every type is written in all bases, and one
beyond each limit, with signs, prefixes and characters that do not belong, in
both builds. Formats: one field or two, every combination of filling, alignment,
sign, zero, width below and above the argument, precision and type, into buffers
that end before, in and behind the field. Suggestions: seven words of up to three letters, up to three
candidates, limits 0 to 3 and none. Keys of 0 to 26 bytes, so that every remainder
by eight occurs behind none to three chunks, with one bit at each place or with
mixed bytes, and three seeds; the finaliser behind the CRC is the same function in both
builds and left out. Dates from 1970 to 2101 around the ends of months, leap years (2000,
2024, 2100) and years, offsets to ±23:59. Headers: every way in which three headers
include up to two each, themselves and cycles among them, with one to three entries.

The length table and the sorted keys, the two strategies without a search, have
no run of their own: the theorem `IndexKeepsPromise` covers all four. The
same holds for a log with time stamps, which is one with a longer `Prefix`.

Deadlock is checked where a call ends in a state of its own that may be repeated
(`minify`, `pipe`, `calls`) or where the system takes calls for ever (trie, log): there it
also shows that no loop is stuck. The other runs turn it off: a compilation ends.

What the inputs leave out:

- Pages do not begin with a space or a comment (finding 1), and no attribute
  value ends in front of `/>` without a space (see "Noticed").
- Directives of Lua stand at the beginning of the text only; a script has no
  regular expression literals (the code does not know them either); YAML
  comments stand in front of a key, not inside a quoted scalar of several lines.
- `Encodable` in `TextPipe` says which texts an encoder can be asked to bring back
  where it cannot be all: line breaks of one kind only, lines without a common
  indentation, names of letters, valid UTF-8 for `utf8_reverse`.

### Fairness

Liveness is stated under weak fairness of the next step (`CompileFinishes` of the
compiler's steps only, `ReadyAgain`, `Returns`): the code is sequential
and nothing else competes with it, so the compiler or program that evaluates it
always takes the next step, and no step needs anything from outside. Calls of
the user are not fair: `LookupIndex` and `TrieIndex` do not assume that anybody looks anything up.
`MovesOn` says the same of the minifiers without fairness: every step brings the place in the text
forward, or stays and ends a loop inside another.

## Proofs

All are safety theorems for every value of the constants under their named
assumptions: distinct keys (a static_assert of the containers, the deduplication
of `frozen_regex`), positive table sizes, at least one seed, indices that fit the
wide type, hash functions that are functions from texts and seeds to numbers, and calls
that are given what their types allow (`JobsAssumption`: headers of lines, keys of bytes,
seeds of 32 bits, texts of bytes and types no wider than the machine word, a limit
that is a number; `WordsAssumption`: the words suggested are texts). `CharsAssumption` says that
patterns and texts of the matcher are made of the characters there are, `UnitsAssumption` that texts and marks
of a crush are made of the units there are, that the delimiter is no replacement character, and that
none of these is a surrogate. For the minifiers `WordsAssumption` says that the symbols that stand for words are not
those for blanks, `>` or `=`, and `InputsAssumption` that a text is a sequence of symbols in one of the
seven languages. `YearsAssumption` keeps dates to the years
1970 to 9999, which have four digits; `CodesAssumption` and `MonthsAssumption` say which bytes stand for the characters of a
date, and that the names of months are twelve different texts of three small letters. They, and `WordAssumption` about
powers of two, are facts that the provers cannot compute and that TLC evaluates.

- `LookupIndexProofs`. First the facts about `KeyHash` (casts of indices are exact for
  every list that an index type was chosen for). The invariant `ChdIInv` adds to
  the types and to "keys of placed
  buckets are found" its converse, "a taken slot has an owner whose bucket is placed":
  without it a bucket placed later could not be shown to leave older keys
  alone. `DoneInv` says that only empty buckets are pending when the outer loop
  breaks; it follows from picking a largest bucket each time. From these:
  `ChdTypeCorrect`, `SettledKeysStayFound`, `SlotsHaveOwners`, `BuildIsPerfectHash`
  and the action property `TakenSlotsStay`. `SearchedInv` remembers the search: every
  coarse candidate and every candidate of the second pass behind it that the seed has gone past
  collides with the slots as they are now (they are not touched while a bucket is searched),
  so that `SeedsAreExhausted`.
  Then the lookup table: `FoundInv`: a returned table is the
  one of a seed without
  collision. From it `SeedTypeCorrect`, `SeedIsPerfect`, `OnlyKeysInTable`.
  Then the refinement of `KeyIndex`: `CheckedCandidate` reduces every
  strategy to "its candidate for a key is the key's index", because the
  comparison with the key rejects everything else. The length table, the sorted
  keys (by counting the keys before each one, with the cardinality theorems of
  the library) and both hash tables are shown to have that property, the latter from the
  invariants above. `IndexKeepsPromise` is the result, `ProgramsTablesHold` the same for the
  tables of the program that is compiled.
- `ConstexprLogProofs`. `LinesInv`: each stored message ends with a line end of its own
  within the used part, so that `message(i)`, which strips one line end, never
  eats one that belongs to the text. From it `LogTypeCorrect`,
  `StoredMessagesStayPut` and the refinement `LogKeepsPromise` of `LineLog`.
- `TrieIndexProofs`, the largest. `TrieFits` says that the arrays, whose sizes are estimated
  from the keys beforehand, are large enough for every list of keys, however the recursion
  shares them. `PlacesInv` and `LabelsInv` are an accounting: a child place is paid
  for by one of two tokens that every key but the first has, a label place by a character of
  a key, and of a group that waits only the first key has paid,
  so that a new node always finds enough left. `TreeInv` relates the arrays to the tree
  they stand for: the node of every set of keys that share a prefix has their
  label, its links lead to the nodes of its groups, none was overwritten by a
  call made since. `Seeking` follows a search down that tree: the keys below the
  current node are exactly those that begin with what was read. `TrieAnswersRight` follows, for the
  table and the scan, for every text, whether it is a key, a prefix of one, longer than all or unknown.
- `EntryPlacementProofs`. `PlacedInv` bounds the entries placed so far; the last
  step is the pigeonhole principle: an injective map from the slots of a full container to the
  entries hits every entry. Hence `NoValueIsLost`; also `ValuesStandInOwnSlots`
  and `PlacedValuesStay`. `MatchInv` (an entry the loop has passed stands in a slot, or its key had
  none left) makes the refusals exact: `AcceptsExactlyMatching`. `OrderInv` (in the range of a key the
  slots are filled from the front, by entries in their order) gives `RangesKeepEntryOrder`.
- `CallsProofs`, about the calls of `Calls` for all arguments.
  `HeadersWrittenOnce`: the invariant `ScriptInv` has four parts. `OpenInv`: the open headers
  are all visited, all different, and each is included by the one around it. `VisitedInv`: only
  needed headers are visited, and whatever a line already passed includes is visited. `WrittenInv`:
  the output is exactly the code of visited headers on passed lines, each once. `TimelyInv`: behind
  every line of code written, all code that its earlier includes need stands in front of it. The
  argument for the last: when a header is left, a header that it needs
  and that is not all written would be open, hence includes the one that is left through
  those between them; that is the cycle the property excepts.
  `HashesAgree`: `HashInv` says that the register holds what the compiler has
  after as many bytes. A chunk of eight bytes takes sixty-four shifts of the instruction;
  `ShiftsApart` (shifting distributes over exclusive or, and leaves alone the bits it does not reach)
  lets every eight of them take the byte in front, as `update_byte` does with its table, and the
  rest of the chunk moves down.
  `NumbersReadExactly`: `OverflowsExactly` says that the check before
  each multiplication stops a digit exactly when the number with it is no machine
  word, for words of every width above four bits and all four bases. `ReaderInv` says that `acc` is the
  value of the digits read so far, so that the product never wraps around; the values only grow
  (`ValuesGrow`), so that a digit stopped early is out of range with all of them, as
  `std::from_chars`, which reads them all first, answers. The value read from the front is the sum that the
  reference takes from the back (`SumIs`).
  `NearestIsSuggested`: the reference counts changes (characters put in, taken out or
  replaced, step by step from the input), the code fills a table row by row. `NearIsReached`: an entry
  of the table is enough changes, on a way through texts that begin like the candidate and end like
  the input; `ReachedIsNear`: fewer are not, because one change moves no entry by more than one
  (`EditIsOne`, with `AlikeBehind` for the characters behind the change). `RowsBeyond` says that a row
  above the cutoff stays above it, `GapIsNear` that the difference of the lengths is never more than the
  distance; with these `SuggestInv` keeps "the first of the nearest so far" through every candidate
  that is passed over, given up or compared.
  `DatesReadBack`: `DatesComeBack` for every call whose text is what its date is written as (`WrittenDate`: an
  ISO date, the text of `__DATE__`, a local time with or without the zone of Greenwich, or with any offset of less
  than a day). There is no loop to find an invariant of; the work is the calendar and the texts. `DayIsDated`: the
  years and the months behind one another leave no day out and share none (`YearsFollow`, `MonthsFollow`, by the rule of leap years), so
  that the day of the date of a day is that day. `PointBack`: adding an offset and taking it away again
  gives the point in time back, wherever the day changes between. `MomentWritten`, `OffsetWritten` and `MacroWritten` say
  which characters stand where in a text, `MomentRead`, `OffsetRead` and `MacroRead` that the readers find
  them there; the sign stands for hours and minutes alike, and a day below ten is found behind a blank.
- `WildcardProofs`, what `wildcard_match` answers for every pattern, broken ones included, and every
  text. Its invariant was checked by TLC on the instance of the run before it was proved.
  `PlanMade`: brackets close behind where they open and branches lie inside their group.
  `EndsDefined`: the reference, the list of ends of a part of the pattern, exists and is unique, because a
  part asks only for shorter ones; from it one lemma per rule (`StarWants`, `GroupWants`, `CharWants`,
  `EmptyWants`) says what a call wants: the end it was asked for, or with `partial` the first one.
  The code departs from these rules to be fast, and each departure is a lemma: a star tries only the
  places where the literal part behind it stands, of several stars the last one counts (`StarTries`), stars at
  the end take the rest (`StarsAtEnd`), a branch without a star is asked only for ends within its own
  length (`Bounded`), and a group at a position behind the text left for it, where a difference of
  sizes has wrapped around, finds nothing (`BranchTriesStuck`).
  `MatcherOK` is the invariant of the stack: every frame was made for the call the frame below waits for;
  what it has left to do wants what that call wants, or the first call on its list that has something has what is
  wanted; and every entry of the memo has really failed for every call that can find it there. The
  last part would be lost if branches, which see a shortened text, were remembered too.
  `EndsCompared`: prefix and suffix, compared before, split the text as they split the pattern,
  so that a rejection is right and the matcher is asked for the middle. `GlobOK` is the invariant of the greedy loop: the
  text matches exactly when what follows the last star matches from the present start or a later one, and
  whatever start works, works behind what was read since (no longer star has to be tried again).
  `SearchInv` is the invariant of a search: of the starts behind the last match none that counts comes before
  the first that counts and is left to try (`LeftToTry`). That `Starts` leaves out none too many
  (`StartsSuffice`) has three arguments: a match begins where the literal beginning stands; a glob with
  a star has at its first start whatever it has at a later one, unless it is stars alone, which match nothing
  everywhere (`OneStart`); and nowhere a match when what must follow the star is nowhere.
  Results: `MatchesRight` (`MatchIsRight` wherever the pattern is not delegated),
  `WhatIsRememberedFailed` (its second half, in searches too) and `MatchesAreNext` (`HitsAreNext`, for all patterns).
  A delegated pattern is answered by the keys of `FrozenRegex`, which is left to the run.

- `JsonCrushProofs`, that `uncrush` undoes `crush`. `Pass`, one reading of a text with two
  rules, is shown to be a function with the four cases one expects (`PassDefined`, `PassUnfolds`); then,
  by the length of the text: replacing a substring by a character that does not stand in the text is undone
  by replacing it back (`ReplacedIsRestored`), and a swap of a pair undoes itself
  (`ApplyIsUndone`: a mark that stands for two characters could run into a second one behind
  it; `SecondStaysBehind` says that none comes there). So the five swaps in the other order undo the five
  (`SwapIsUndone`). `CrushInv` says that the entries can be taken off at any time,
  and, to keep that, two things a round relies on without testing: that a candidate with a count stands
  in the text, so that a character not in the text is not in the candidate either, and that
  nothing in the text, the entries or the split characters is the delimiter, so that the last one found is the one `crush`
  put there. Neither depends on the counts being right, so that collisions of hash values, which only
  make counts wrong, do no harm. `CrushRoundTrip` follows. For `CrushKeepsPairs`, `WholeInv`: candidates are whole.
  A rest of a whole text may begin with a low surrogate and is no whole text then (`IsHalf`); a pass keeps
  that as it is (`PassTearsNoPair`), since what stands behind a whole substring is whole (`FrontSplits`).

- `MinifyProofs`, that every minifier gets through every text and how much it may write. Every action of
  the seven loops, those of a script inside a page included, is shown to do one of three things. It reads on
  (`Advances`): the place in the text goes up, and what is written, with the space
  that is held back, grows by no more than the place. It reads one symbol and writes that and a space
  before or behind it: only the `/` inside a tag and the line break of a directive of Lua do that. Or it ends or
  enters a loop inside another and keeps the place, with a smaller rank. The place and not `at` is what counts, because a script
  runs on a part of the page that its end tag closes and hands it back. What the operators that look ahead compute
  (the end of a tag, of a style sheet, of a long bracket, the next token behind comments)
  matters only by where it leads, so each has a lemma that says so, for an open comment or bracket too.
  `IInv` adds to the bounds of the place which loop runs inside which
  (`Locals`) and the account of what was written up to the place (`Allowed`). `EveryRoundMovesOn` is `MovesOn`
  for every text. `PlainTextsFit`: the result fits its buffer whatever the text is, in every language but two. For
  pages and for Lua with its directives kept that is not so (see "Noticed"), and `NothingElseGrows` says that
  those two branches are the only ones at fault: the result exceeds the text by at most one
  space for each `/` of a page, or each line break of the Lua text.

What a recursive definition computes is proved in this project where its recursion is a
function over numbers (`NatRecursion` and `NatSetInduction`, from the well-foundedness theorems
of the library: a set of numbers that holds 0 and every successor holds all); the
library's induction theorems themselves take an operator as a parameter, which the provers
here cannot instantiate.

Model-checked only:

- all liveness (temporal induction under fairness is beyond the prover);
- what the minifiers keep (`TokensKept`, `PageKept`, `OutlineKept`) and the three properties of
  `JsonCompress`: the references read a text by RECURSIVE operators, and the statements are inductions over texts;
- `FitsItsBuffer` for pages and for Lua with directives: it is false for some texts, so what is proved is the
  bound above, and the run shows the rest for the texts it tries;
- `RoundsNeverLengthen`: the gain of a candidate is computed from its count, and two candidates with the
  same hash share a count, so that for some hash functions and texts it may be overstated;
- what `frozen_regex` makes of a pattern delegated to it;
- the pipes and the formats; that texts which are no dates are refused.

## Findings

One run must find its property violated:

1. `page_lead`: a space at the beginning of a page is held back and written
   behind the first character: `minify_html(" hello")` is `"h ello"` (minify.hpp:1041,
   src/README.md:1037).

Noticed on the way. Each is a place where the code and its documentation disagree, or where the code does what
nobody can have meant. Where a passing run meets such a case its property says what the code does (the entry
names the property); elsewhere the inputs avoid it.

Tables, JSON and patterns:

- map.hpp:321: the dense pass of `build_chd` tries the seeds behind the last coarse
  candidate only; the comments at 293 and 320 say before and behind. A key set may be
  refused although a seed fits. With a million seeds this is of little weight. `GivesUpExhausted`
  speaks of the seeds the code does try.
- json/detail/crush_detail.hpp:494, 501: the gain of a candidate leaves out the
  character added to the split string, so that a last round may save nothing
  ("ccccccccc").
- json/detail/compress_detail.hpp:498: a document exactly as deep as `max_depth` is read and
  compressed, and the result is one level too deep for `decompress` and
  `validate_json` (src/README.md:1164, 1168).
- wildcard.hpp:278, 450: patterns handed to `frozen_regex` that it reads otherwise
  (`([)])`, `[a[!]`) or refuses to compile (`[abc-]`, `(a|)`, `[b-a]`); src/README.md:2236.
  `MatchIsRight` leaves out delegated patterns with `(`, `)`, `|` or `[` in brackets.
- wildcard.hpp:609, 646 and 715 promise the shortest match, which is so without
  groups only: `(ab|a)` finds "ab" in "ab" because the first branch that matches is taken.
  `HitsAreNext` therefore states the preferred match, and its run has inputs where that is not
  the shortest one (`(a|)a` on "aa").
- json/detail/crush_detail.hpp:460 describes the entries as apart from the text,
  while line 511 moves the end of the data so that later rounds rewrite them (which `uncrush` undoes
  in reverse order).

Minifiers (minify.hpp):

- line 479: `<img alt="a b"/>` is written with a space more than it had; with nothing to save elsewhere the result
  is longer than its buffer (src/README.md:1058).
- lines 2236-2242: the line break that ends a directive of Lua is written and also held back as a space, which a
  long string (2108-2121) leaves waiting: with directives kept, `"--!x\n[[a]]b"` becomes `"--!x\n[[a]] b"`, one longer than
  its buffer, and `write_char` drops the `b` without a word. The proof of `PlainTextsFit` failed
  here; compiled, the program gives `"--!x\n[[a]] "`. By `NothingElseGrows` there is no third case.
- lines 131-146: `<script type="module">` loses its type, unlike the comment at 128 says.
- line 1208 and src/README.md:1042: YAML `#` and empty lines inside a quoted scalar of several
  lines go; `it's: | # c` is not seen as the header of a block scalar.
- Lua `{[ [[a]] ] = 1}` becomes `{[[[a]]]=1}`, which is another token; an open `--[[` is taken for a
  line comment; a directive behind `-` is joined to it.
- Cypher: src/README.md says that `--` comments go; the code drops `//` comments.
- JavaScript: the empty statement of `if` with a line break before `(x);}` is dropped.
- HTML: words apart by ` / ` or ` = ` lose the spaces; an open `<!--` leaves its last two characters; names that
  are cut short in the tables ("optgrou", "application/javascr", "opened", "autopl"); a quote left open at the end makes
  a length underflow.

Texts and values:

- encoding.hpp:1187: `utf8_reverse` of invalid UTF-8 may write more than it read, beyond the buffer (an error
  at compile time).
- encoding.hpp:1150, 1221: the forms of `utf8_substr` and `utf8_reverse` for a template
  argument return a FrozenString smaller than its text, which string.hpp:50-52 refuses; no test calls them.
- `shrink_to_fit` ends at the first NUL, so that `hex_decode`, the HTML and JSON forms and
  `replace_all` of a template argument cut a text with a NUL, while `url_decode` and `base64_decode` do not.
- `utf8_length` skips two to four bytes for a lead byte whose continuation is bad, although the comment says
  one each.
- encoding.hpp:1631-1633: `unescape_c` refuses a surrogate behind `\u` but not behind `\U`, where it checks for eight
  digits and for 0x10FFFF only: `\U0000D800` becomes the bytes ED A0 80, which are no UTF-8. The comment
  (1567-1568) says that invalid `\u` and `\U` sequences, surrogates among them, are kept as they are; the check of
  template arguments (246-275) has the same gap. `TakesBack`, `Holds` and `ValidExactly` are checked with such
  texts.
- encoding.hpp:246-270: `unescape_c<escape_c("\\uD800")>` does not compile, because the check does not skip escaped
  backslashes.
- `word_wrap`: a space in front of a line break at the width adds an empty line ("abc \nd", width 3).
- frozen_format.hpp:367-368: `-(v + 1) + 1` overflows for the least long long, before the cast.
- frozen_format.hpp: `{:<<5}` is not read as filling with `<`; `{:c}` of an empty text reads its first character;
  line 21 names `#` for the alignment to the right.
- chrono.hpp: the readers take characters that are no digits; `parse_iso_datetime` at run time checks
  neither month nor day nor offset (the compile-time form checks the offset); a text of 20 characters may end in a sign.
- `count_occurrences` of an empty text does not end.

## Not modelled, and why

- Floating point (parsing, writing and the format types `f`, `e`, `g`): TLC has no reals and the
  code's own digits depend on the rounding of a double.
- The finaliser of the hash: arithmetic on 64 bits, and the tables do not depend on it.
- `std::chrono`, `std::from_chars` and the CRC instruction are external, modelled from their definition.
- The number of steps of the matcher inside groups, which is exponential: a
  statement about runs rather than states.
- `parse_string` and the words of the JSON parser (lexemes come with their verdict),
  the UTF-8 codecs around `crush`, and `crush_compress`, which is a composition.
- Of the string operations those that return a position or a truth value and no
  text (`contains`, `starts_with`, `find_first_of`, `lcp_length`), overloads for literals, aliases,
  the adaptors that end a pipe with a number.
- Iterators, `at`, `operator[]`, `get`, conversions, `frozen_set` and the wrappers for Glaze: an
  index into an array whose index is what is proved, or code of another project. Glaze,
  ctre and Catch are other projects.
- `src/single_include/` holds two headers of 37 400 lines, almost two thirds of the
  code of the repository, which src/tools/amalgamate.py makes of the headers modelled
  here, line by line. What is modelled of them is how they are made (`Amalgamate`); their
  lines are not counted a second time.

## Plan

1. Proofs: `FormatsAsMeant`, from an invariant of its loop; `ExactSizes` of the pipes, one
   lemma a function of `StringOps`.
2. Compose `JsonCrush` behind `JsonCompress` as `crush_compress` does, with the UTF-8
   codecs of `Encodings` around `crush`.
