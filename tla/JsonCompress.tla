---------------------------- MODULE JsonCompress ----------------------------
(***************************************************************************)
(* parse_json, json::compress and json::decompress. A text is a sequence   *)
(* of lexemes: marks, spaces, strings with their quotes, literals          *)
(* (numbers, true, false, null), and Bad for whatever parse_string,        *)
(* parse_number and the first-character test refuse. The recursion of      *)
(* parse_value, parse_array and parse_object is a stack of the containers  *)
(* that are open; the depth a call is given is the height of the stack.    *)
(*                                                                         *)
(* compress parses a text, walks the tree in the order in which it is      *)
(* written and puts a reference to a table of values in the place of every *)
(* scalar; the result is parsed by decompress, which puts the values back. *)
(* Both run in the compiler: an error is the end of the compilation.       *)
(***************************************************************************)
EXTENDS Integers, SequencesExt

CONSTANT MaxDepth  \* frozenchars::json::max_depth (512)

VARIABLES
  s,       \* the text
  p,       \* the position in it
  frames,  \* containers being read, the outermost first
  expect,  \* "value", "key", "after" an item, "end"; "accepted", "invalid"
  value    \* the root, once it is read

parseVars == <<s, p, frames, expect, value>>
-----------------------------------------------------------------------------
Mark(c) == [kind |-> "mark", text |-> <<c>>]
Space == [kind |-> "space", text |-> <<>>]
Str(chars) == [kind |-> "string", text |-> chars]
Lit(chars) == [kind |-> "literal", text |-> chars]
Bad == [kind |-> "bad", text |-> <<>>]

Comma == Mark(",")
Colon == Mark(":")
Open == [array |-> Mark("["), object |-> Mark("{")]
Close == [array |-> Mark("]"), object |-> Mark("}")]

IsScalar(lexeme) == lexeme.kind \in {"string", "literal"}

(* json_value: containers hold keys and values in parallel sequences.      *)
Scalar(lexeme) == [type |-> "scalar", lexeme |-> lexeme, keys |-> <<>>, arr |-> <<>>]
Container(type) == [type |-> type, lexeme |-> Space, keys |-> <<>>, arr |-> <<>>]

Depth == Len(frames) + 1

skip_ws(q) ==
  CHOOSE i \in q .. Len(s) + 1 :
    /\ \A j \in q .. i - 1 : s[j] = Space
    /\ i = Len(s) + 1 \/ s[i] # Space

Here == skip_ws(p)
At(q, lexeme) == q <= Len(s) /\ s[q] = lexeme
-----------------------------------------------------------------------------
ParseInit ==
  /\ p = 1
  /\ frames = <<>>
  /\ expect = "value"
  /\ value = Scalar(Bad)

(* parse_value hands v to the container in which it was called.            *)
Return(v, outer) ==
  IF outer = <<>>
  THEN frames' = <<>> /\ value' = v /\ expect' = "end"
  ELSE /\ frames' = [outer EXCEPT ![Len(outer)].arr = Append(@, v)]
       /\ expect' = "after"
       /\ UNCHANGED value

(* Mutant: the depth is not checked.                                       *)
ValueDueUnchecked == expect = "value"

ValueDue == expect = "value" /\ Depth <= MaxDepth

ReadScalar ==
  /\ ValueDue
  /\ Here <= Len(s) /\ IsScalar(s[Here])
  /\ p' = Here + 1
  /\ Return(Scalar(s[Here]), frames)
  /\ UNCHANGED s

FirstOf(type) == IF type = "object" THEN "key" ELSE "value"

OpenContainer(type) ==
  LET inside == skip_ws(Here + 1)
  IN  /\ ValueDue
      /\ At(Here, Open[type])
      /\ \/ /\ At(inside, Close[type])
            /\ p' = inside + 1
            /\ Return(Container(type), frames)
         \/ /\ ~At(inside, Close[type])
            /\ p' = inside
            /\ frames' = Append(frames, Container(type))
            /\ expect' = FirstOf(type)
            /\ UNCHANGED value
      /\ UNCHANGED s

KeyAndColon == Here <= Len(s) /\ s[Here].kind = "string" /\ At(skip_ws(Here + 1), Colon)

ReadKey ==
  /\ expect = "key" /\ KeyAndColon
  /\ p' = skip_ws(Here + 1) + 1
  /\ frames' = [frames EXCEPT ![Len(frames)].keys = Append(@, s[Here])]
  /\ expect' = "value"
  /\ UNCHANGED <<s, value>>

NextItem ==
  /\ expect = "after" /\ At(Here, Comma)
  /\ p' = Here + 1
  /\ expect' = FirstOf(Last(frames).type)
  /\ UNCHANGED <<s, frames, value>>

CloseContainer ==
  /\ expect = "after" /\ At(Here, Close[Last(frames).type])
  /\ p' = Here + 1
  /\ Return(Last(frames), Front(frames))
  /\ UNCHANGED s

Accept ==
  /\ expect = "end" /\ Here = Len(s) + 1
  /\ expect' = "accepted"
  /\ UNCHANGED <<s, p, frames, value>>

StartsValue(q) ==
  q <= Len(s) /\ (IsScalar(s[q]) \/ \E type \in DOMAIN Open : s[q] = Open[type])

(* Every error is invalid_argument, handed up through all calls.           *)
Reject ==
  /\ \/ expect = "value" /\ ~(ValueDue /\ StartsValue(Here))
     \/ expect = "key" /\ ~KeyAndColon
     \/ expect = "after" /\ ~At(Here, Comma) /\ ~At(Here, Close[Last(frames).type])
     \/ expect = "end" /\ Here <= Len(s)
  /\ expect' = "invalid"
  /\ UNCHANGED <<s, p, frames, value>>

ParseNext ==
  \/ ReadScalar
  \/ \E type \in DOMAIN Open : OpenContainer(type)
  \/ ReadKey \/ NextItem \/ CloseContainer
  \/ Accept \/ Reject
-----------------------------------------------------------------------------
(* value_to_string, lexeme by lexeme.                                      *)
RECURSIVE Text(_)
Text(v) ==
  IF v.type = "scalar" THEN <<v.lexeme>>
  ELSE LET item(i) == (IF i > 1 THEN <<Comma>> ELSE <<>>)
                      \o (IF v.type = "object" THEN <<v.keys[i], Colon>> ELSE <<>>)
                      \o Text(v.arr[i])
       IN  <<Open[v.type]>> \o FlattenSeq([i \in DOMAIN v.arr |-> item(i)]) \o <<Close[v.type]>>

(* The JSON grammar over lexemes, values nested at most d deep.            *)
RECURSIVE IsValue(_, _), IsItems(_, _, _)
IsItem(t, d, type) ==
  IF type = "array" THEN IsValue(t, d)
  ELSE Len(t) > 2 /\ t[1].kind = "string" /\ t[2] = Colon /\ IsValue(SubSeq(t, 3, Len(t)), d)

IsItems(t, d, type) ==
  \/ IsItem(t, d, type)
  \/ \E k \in DOMAIN t : t[k] = Comma /\ IsItem(SubSeq(t, 1, k - 1), d, type)
                                     /\ IsItems(SubSeq(t, k + 1, Len(t)), d, type)

IsValue(t, d) ==
  /\ d > 0 /\ Len(t) > 0
  /\ \/ Len(t) = 1 /\ IsScalar(t[1])
     \/ \E type \in DOMAIN Open :
          /\ Len(t) > 1 /\ t[1] = Open[type] /\ Last(t) = Close[type]
          /\ LET inner == SubSeq(t, 2, Len(t) - 1)
             IN  inner = <<>> \/ IsItems(inner, d - 1, type)

NoSpaces(t) == SelectSeq(t, LAMBDA lexeme : lexeme # Space)

(* RFC 8259 as compress_detail.hpp cites it, and the depth limit of        *)
(* max_depth: the parser accepts exactly the texts of the grammar whose    *)
(* values, scalars counted, are nested at most MaxDepth deep, and what it  *)
(* read is the whole text: every key and value, in order, doubles          *)
(* included, and nothing but spaces left out.                              *)
AcceptsExactly ==
  /\ expect = "accepted" => IsValue(NoSpaces(s), MaxDepth) /\ Text(value) = NoSpaces(s)
  /\ expect = "invalid" => ~IsValue(NoSpaces(s), MaxDepth)

-----------------------------------------------------------------------------
CONSTANTS
  Documents,    \* texts given to compress
  Foreign,      \* texts given to decompress that compress did not make
  Base62Chars,  \* BASE62_CHARS
  WordSize      \* 2^64

VARIABLES
  stage,     \* "compress", "encode", "decompress", "done" or "failed"
  rest,      \* lexemes of the tree that are not encoded yet
  values,    \* CompressMemory::values
  encoded,   \* the root of the result
  original,  \* the tree compress read, as its lexemes
  result     \* what decompress returns

vars == <<parseVars, stage, rest, values, encoded, original, result>>

(* Mutant: the digits come out with the lowest first.                      *)
to_base62_unreversed(n) ==
  LET base == Len(Base62Chars)
      digits[k \in 0 .. n] == IF k < base THEN <<Base62Chars[k + 1]>>
                              ELSE <<Base62Chars[(k % base) + 1]>> \o digits[k \div base]
  IN  digits[n]

to_base62(n) ==
  LET base == Len(Base62Chars)
      digits[k \in 0 .. n] == IF k < base THEN <<Base62Chars[k + 1]>>
                              ELSE Append(digits[k \div base], Base62Chars[(k % base) + 1])
  IN  digits[n]

IsBase62(chars) == Range(chars) \subseteq Range(Base62Chars)

from_base62(chars) ==
  FoldLeft(LAMBDA n, c : (n * Len(Base62Chars)
                          + (CHOOSE i \in DOMAIN Base62Chars : Base62Chars[i] = c) - 1) % WordSize,
           0, chars)
-----------------------------------------------------------------------------
Init ==
  /\ \/ s \in Documents /\ stage = "compress"
     \/ s \in Foreign /\ stage = "decompress"
  /\ ParseInit
  /\ rest = <<>> /\ values = <<>> /\ encoded = <<>> /\ original = <<>> /\ result = <<>>

Parse ==
  /\ stage \in {"compress", "decompress"}
  /\ ParseNext
  /\ UNCHANGED <<stage, rest, values, encoded, original, result>>

BeginEncoding ==
  /\ stage = "compress" /\ expect = "accepted"
  /\ stage' = "encode"
  /\ rest' = Text(value)
  /\ original' = Text(value)
  /\ UNCHANGED <<parseVars, values, encoded, result>>

(* Marks and keys, a string before a colon, stay; the rest are values.     *)
IsReplaced == IsScalar(Head(rest)) /\ ~(Len(rest) > 1 /\ rest[2] = Colon)

Copy ==
  /\ stage = "encode" /\ rest # <<>> /\ ~IsReplaced
  /\ encoded' = Append(encoded, Head(rest))
  /\ rest' = Tail(rest)
  /\ UNCHANGED <<parseVars, stage, values, original, result>>

(* Mutant: a value in the table is found by its characters alone.          *)
FoundByCharacters == {i \in DOMAIN values : values[i].text = Head(rest).text}

Found == {i \in DOMAIN values : values[i] = Head(rest)}

(* get_or_add_value.                                                       *)
Replace ==
  /\ stage = "encode" /\ rest # <<>> /\ IsReplaced
  /\ \/ \E i \in Found :
          /\ encoded' = Append(encoded, Str(to_base62(i - 1)))
          /\ \A j \in Found : i <= j
          /\ UNCHANGED values
     \/ /\ Found = {}
        /\ values' = Append(values, Head(rest))
        /\ encoded' = Append(encoded, Str(to_base62(Len(values))))
  /\ rest' = Tail(rest)
  /\ UNCHANGED <<parseVars, stage, original, result>>

(* compress_to_string: {"values":[...],"root":...}.                        *)
Compressed ==
  <<Open.object, Str(<<"values">>), Colon>>
  \o Text([Container("array") EXCEPT !.arr = [i \in DOMAIN values |-> Scalar(values[i])]])
  \o <<Comma, Str(<<"root">>), Colon>> \o encoded \o <<Close.object>>

(* compress returns its text and decompress parses it.                     *)
Decompress ==
  /\ stage = "encode" /\ rest = <<>>
  /\ stage' = "decompress"
  /\ s' = Compressed
  /\ p' = 1 /\ frames' = <<>> /\ expect' = "value" /\ value' = Scalar(Bad)
  /\ UNCHANGED <<rest, values, encoded, original, result>>
-----------------------------------------------------------------------------
Members(v, name) ==
  LET at == SelectSeq([i \in DOMAIN v.keys |-> i], LAMBDA i : v.keys[i] = Str(<<name>>))
  IN  [n \in DOMAIN at |-> v.arr[at[n]]]

(* All members "values" are read, the last "root" counts.                  *)
Table == FlattenSeq([n \in DOMAIN Members(value, "values") |-> Members(value, "values")[n].arr])

RECURSIVE Leaves(_)
Leaves(v) ==
  IF v.type = "scalar" THEN {v.lexeme} ELSE UNION {Leaves(v.arr[i]) : i \in DOMAIN v.arr}

Resolves(lexeme) ==
  /\ lexeme.kind = "string" /\ IsBase62(lexeme.text)
  /\ from_base62(lexeme.text) < Len(Table)

Restorable ==
  /\ value.type = "object" /\ Members(value, "root") # <<>>
  /\ \A i \in DOMAIN Table : Table[i].type = "scalar"
  /\ \A lexeme \in Leaves(Last(Members(value, "root"))) : Resolves(lexeme)

RECURSIVE rebuild(_)
rebuild(v) ==
  IF v.type = "scalar" THEN Table[from_base62(v.lexeme.text) + 1]
  ELSE [v EXCEPT !.arr = [i \in DOMAIN v.arr |-> rebuild(v.arr[i])]]

Restore ==
  /\ stage = "decompress" /\ expect = "accepted" /\ Restorable
  /\ stage' = "done"
  /\ result' = Text(rebuild(Last(Members(value, "root"))))
  /\ UNCHANGED <<parseVars, rest, values, encoded, original>>

(* An error is dereferenced or std::unreachable() reached.                 *)
Fail ==
  /\ \/ stage \in {"compress", "decompress"} /\ expect = "invalid"
     \/ stage = "decompress" /\ expect = "accepted" /\ ~Restorable
  /\ stage' = "failed"
  /\ UNCHANGED <<parseVars, rest, values, encoded, original, result>>

Next == Parse \/ BeginEncoding \/ Copy \/ Replace \/ Decompress \/ Restore \/ Fail

(* Both functions are evaluated to their end by the compiler.              *)
Spec == Init /\ [][Next]_vars /\ WF_vars(Next)
-----------------------------------------------------------------------------
(* README.md:1168: decompress gives back what compress was given, up to    *)
(* spaces; it fails on the result of compress only when the text was       *)
(* nested as deep as the parser allows.                                    *)
RoundTrip ==
  original # <<>> =>
    /\ stage = "done" => result = original
    /\ stage = "failed" => ~IsValue(original, MaxDepth - 1)

(* The table has every value once, and what is encoded so far stands for   *)
(* what was walked so far, whichever values the table got before or since. *)
TableStandsForValues ==
  stage = "encode" =>
    /\ \A i, j \in DOMAIN values : values[i] = values[j] => i = j
    /\ LET walked == SubSeq(original, 1, Len(original) - Len(rest))
       IN  /\ Len(encoded) = Len(walked)
           /\ \A k \in DOMAIN walked :
                \/ encoded[k] = walked[k] /\ ~(IsScalar(walked[k]) /\ original[k + 1] # Colon)
                \/ values[from_base62(encoded[k].text) + 1] = walked[k]

=============================================================================
