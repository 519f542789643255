----------------------------- MODULE TrieIndex -----------------------------
(***************************************************************************)
(* frozen_trie_index of trie_index.hpp: the compressed trie that is built, *)
(* while the program is compiled, by a recursive function into three flat  *)
(* arrays with narrow index types, and the search that walks them.  A call *)
(* and a return of build_trie_impl are a step each, and so is one round of *)
(* the loop of find.                                                       *)
(***************************************************************************)
EXTENDS Integers, Sequences, FiniteSets

CONSTANTS
  KeyLists,      \* the key lists that are tried
  Queries,       \* the texts that are looked up
  Byte,          \* 256, the values of uint8_t; int8_t has as many
  LutThreshold   \* 8, the children a node may have without a table

ASSUME TrieAssumption ==
  /\ KeyLists \subseteq Seq(Seq(Nat)) /\ Queries \subseteq Seq(Nat)
  /\ Byte \in Nat \ {0}

VARIABLES
  keys,      \* Keys...
  nodes,     \* trie_storage::nodes
  labels,    \* trie_storage::labels
  children,  \* trie_storage::children
  next,      \* next_node, next_label_offset, next_child_offset
  calls,     \* the calls of build_trie_impl under way, the innermost last
  find       \* key, pos and node_idx of the lookup under way, and its answer

buildVars == <<nodes, labels, children, next, calls>>
vars == <<keys, nodes, labels, children, next, calls, find>>
-----------------------------------------------------------------------------
Distinct(list) == \A i, j \in DOMAIN list : list[i] = list[j] => i = j

(* Mutant: two keys more than there are indices for.                       *)
StaticAssertsWide(list) ==
  /\ list # <<>> /\ Distinct(list)
  /\ Len(list) <= Byte \div 2 + 1
  /\ \A i \in DOMAIN list : Len(list[i]) <= Byte - 1

(* The static_asserts of frozen_trie_index.                                *)
StaticAsserts(list) ==
  /\ list # <<>> /\ Distinct(list)
  /\ Len(list) <= Byte \div 2 - 1
  /\ \A i \in DOMAIN list : Len(list[i]) <= Byte - 1

(* A key goes by its place in the list; its value is one less.             *)
Numbers == DOMAIN keys
NPOS == Len(keys)
MaxNodes == 2 * Len(keys)
MaxLabels == Cardinality(UNION {{i} \X (1 .. Len(keys[i])) : i \in Numbers})
MaxChildren == 2 * Len(keys)

Narrow(n) == n % Byte
Offset(n) == n % (Byte * Byte)
Signed(n) == ((n + Byte \div 2) % Byte) - Byte \div 2

Zero == 0   \* what storage_type{} fills its arrays with
Leaf == [label_offset |-> 0, label_length |-> 0, first_child |-> 0, child_count |-> 0,
         value_index |-> 0]

(* A group is the set of its keys, of which the characters up to a depth   *)
(* are used up; the code keeps them in the order of declaration.           *)
First(group) == CHOOSE i \in group : \A j \in group : i <= j
Last(group) == CHOOSE i \in group : \A j \in group : j <= i

Shared(group, depth, n) ==
  \A i \in group : /\ depth + n <= Len(keys[i])
                   /\ \A k \in depth + 1 .. depth + n : keys[i][k] = keys[First(group)][k]
longest_common_prefix(group, depth) ==
  LET lengths == 0 .. Len(keys[First(group)]) - depth
  IN  CHOOSE n \in lengths : /\ Shared(group, depth, n)
                             /\ \A m \in lengths : Shared(group, depth, m) => m <= n

(* The keys with characters left behind the common prefix, the value of    *)
(* the one the prefix uses up, and the first characters of the others.     *)
Remaining(group, deep) == {i \in group : Len(keys[i]) > deep}
ConsumedValue(group, deep) ==
  LET consumed == {i \in group : Len(keys[i]) = deep}
  IN  IF First(group) \in consumed THEN First(group) - 1
      ELSE IF consumed = {} THEN -1 ELSE Last(consumed) - 1
FirstChars(rest, deep) == {keys[i][deep + 1] : i \in rest}

(* The keys with the first character that comes next: the groups are taken *)
(* in the order in which their characters first occur.                     *)
NextGroup(call) ==
  {i \in call.left : keys[i][call.depth + 1] = keys[First(call.left)][call.depth + 1]}
-----------------------------------------------------------------------------
Idle == [active |-> FALSE, asked |-> FALSE, key |-> <<>>, pos |-> 0, node |-> 0, answer |-> 0]

Init ==
  /\ keys \in {list \in KeyLists : StaticAsserts(list)}
  /\ nodes = [i \in 0 .. MaxNodes - 1 |-> Leaf]
  /\ labels = [i \in 0 .. MaxLabels - 1 |-> Zero]
  /\ children = [i \in 0 .. MaxChildren - 1 |-> 0]
  /\ next = [node |-> 0, label |-> 0, child |-> 0]
  /\ calls = <<>>
  /\ find = Idle

(* build_trie_impl up to the recursive calls: the node, its label and the  *)
(* places of its children, taken at once before any child is built.        *)
Enter(group, depth, callers) ==
  LET lcp == longest_common_prefix(group, depth)
      deep == depth + lcp
      rest == Remaining(group, deep)
      chars == Cardinality(FirstChars(rest, deep))
  IN  /\ nodes' = [nodes EXCEPT ![next.node] =
                     [label_offset |-> Offset(next.label),
                      label_length |-> Narrow(lcp),
                      first_child |-> IF rest = {} THEN 0 ELSE Narrow(next.child),
                      child_count |-> Narrow(chars),
                      value_index |-> Signed(ConsumedValue(group, deep))]]
      /\ labels' = [a \in DOMAIN labels |->
                      IF a \in next.label .. next.label + lcp - 1
                      THEN keys[First(group)][depth + a - next.label + 1] ELSE labels[a]]
      /\ next' = [node |-> next.node + 1, label |-> next.label + lcp, child |-> next.child + chars]
      /\ calls' = Append(callers, [node |-> next.node, depth |-> deep, left |-> rest, g |-> 0])
      /\ UNCHANGED <<keys, children, find>>

BuildTrie == next.node = 0 /\ Enter(Numbers, 0, <<>>)

Innermost == calls[Len(calls)]

BuildChild ==
  /\ calls # <<>> /\ Innermost.left # {}
  /\ LET group == NextGroup(Innermost)
     IN  Enter(group, Innermost.depth, [calls EXCEPT ![Len(calls)].left = @ \ group])

(* Mutant: what the innermost call returns is the newest node.             *)
NewestNode == next.node - 1

(* What the innermost call returns.                                        *)
NodeReturned == Innermost.node

(* The return of a call: its caller writes the child down and takes the    *)
(* next group.                                                             *)
Return ==
  /\ calls # <<>> /\ Innermost.left = {}
  /\ LET callers == SubSeq(calls, 1, Len(calls) - 1)
         caller == calls[Len(calls) - 1]
         place == Narrow(nodes[caller.node].first_child + Narrow(caller.g))
     IN  IF Len(calls) = 1 THEN calls' = <<>> /\ UNCHANGED children
         ELSE /\ calls' = [callers EXCEPT ![Len(calls) - 1].g = @ + 1]
              /\ children' = [children EXCEPT ![place] = Narrow(NodeReturned)]
  /\ UNCHANGED <<keys, nodes, labels, next, find>>

Build == BuildTrie \/ BuildChild \/ Return

Built == next.node > 0 /\ calls = <<>>
-----------------------------------------------------------------------------
(* The children of a node in their order, and the first character of one.  *)
ChildAt(n, c) == children[Narrow(nodes[n].first_child + Narrow(c))]
FirstChar(child) == labels[nodes[child].label_offset]
ChildPlaces(n) == 0 .. nodes[n].child_count - 1

NoChild == Byte - 1   \* 0xFF

UseChildLut == \E n \in DOMAIN nodes : nodes[n].child_count > LutThreshold

(* k_child_lut: the entry a later child of the same character overwrites.  *)
ChildLut(n, char) ==
  LET places == {c \in ChildPlaces(n) : FirstChar(ChildAt(n, c)) = char}
  IN  IF places = {} THEN NoChild
      ELSE ChildAt(n, CHOOSE c \in places : \A d \in places : d <= c)

(* The linear scan: the first child of that character.                     *)
ScanChildren(n, char) ==
  LET places == {c \in ChildPlaces(n) : FirstChar(ChildAt(n, c)) = char}
  IN  IF places = {} THEN NoChild
      ELSE ChildAt(n, CHOOSE c \in places : \A d \in places : c <= d)

FindChild(n, char) == IF UseChildLut THEN ChildLut(n, char) ELSE ScanChildren(n, char)

(* Mutant: only the first character of the label is compared.              *)
LabelMatchesFirst(key, pos, n) ==
  /\ Len(key) - pos >= nodes[n].label_length
  /\ nodes[n].label_length > 0 => key[pos + 1] = labels[nodes[n].label_offset]

LabelMatches(key, pos, n) ==
  /\ Len(key) - pos >= nodes[n].label_length
  /\ \A i \in 0 .. nodes[n].label_length - 1 :
       key[pos + i + 1] = labels[nodes[n].label_offset + i]

Find(key) ==
  /\ Built /\ ~find.active
  /\ find' = [Idle EXCEPT !.active = TRUE, !.asked = TRUE, !.key = key]
  /\ UNCHANGED <<keys, buildVars>>

Answer(index) ==
  /\ find' = [find EXCEPT !.active = FALSE, !.answer = index]
  /\ UNCHANGED <<keys, buildVars>>

Mismatch ==
  /\ find.active
  /\ ~LabelMatches(find.key, find.pos, find.node)
  /\ Answer(NPOS)

KeyEnds ==
  LET node == nodes[find.node]
  IN  /\ find.active
      /\ LabelMatches(find.key, find.pos, find.node)
      /\ find.pos + node.label_length = Len(find.key)
      /\ Answer(IF node.value_index >= 0 THEN node.value_index ELSE NPOS)

(* Mutant: a text without a matching child is looked for again.            *)
DescendAgain ==
  LET pos == find.pos + nodes[find.node].label_length
      child == FindChild(find.node, find.key[pos + 1])
  IN  /\ find.active
      /\ LabelMatches(find.key, find.pos, find.node)
      /\ pos < Len(find.key)
      /\ find' = [find EXCEPT !.pos = IF child = NoChild THEN 0 ELSE pos,
                             !.node = IF child = NoChild THEN 0 ELSE child]
      /\ UNCHANGED <<keys, buildVars>>

Descend ==
  LET pos == find.pos + nodes[find.node].label_length
      child == FindChild(find.node, find.key[pos + 1])
  IN  /\ find.active
      /\ LabelMatches(find.key, find.pos, find.node)
      /\ pos < Len(find.key)
      /\ IF child = NoChild THEN Answer(NPOS)
         ELSE /\ find' = [find EXCEPT !.pos = pos, !.node = child]
              /\ UNCHANGED <<keys, buildVars>>

Loop == Mismatch \/ KeyEnds \/ Descend

Next == Build \/ Loop \/ \E key \in Queries : Find(key)

(* The compiler and a lookup run to their end.                             *)
Spec == Init /\ [][Next]_vars /\ WF_vars(Build) /\ WF_vars(Loop)
-----------------------------------------------------------------------------
(* Each node but the root is the child of one node.                        *)
Linked ==
  \A child \in 1 .. next.node - 1 :
    \E n \in 0 .. next.node - 1 : \E c \in ChildPlaces(n) :
      /\ ChildAt(n, c) = child
      /\ \A m \in 0 .. next.node - 1 : \A d \in ChildPlaces(m) :
           ChildAt(m, d) = child => m = n /\ d = c

(* The arrays are large enough for every key list that compiles: indices   *)
(* are allocated within them, and those stored in the nodes fit the        *)
(* uint8_t, uint16_t and int8_t of trie_flat_node unchanged.               *)
TrieTypeOK ==
  /\ Built => Linked
  /\ next.node \in 0 .. MaxNodes /\ next.label \in 0 .. MaxLabels
  /\ next.child \in 0 .. MaxChildren
  /\ \A n \in 0 .. next.node - 1 :
       /\ nodes[n].label_offset + nodes[n].label_length <= next.label
       /\ nodes[n].first_child + nodes[n].child_count <= next.child
       /\ nodes[n].value_index \in -1 .. NPOS - 1
  /\ \A c \in 0 .. next.child - 1 : children[c] < next.node /\ children[c] < NoChild
  /\ find.node < MaxNodes /\ find.answer \in 0 .. NPOS

(* trie_index.hpp:338: a lookup answers the declaration index of a key and *)
(* size() for every other text, prefixes and extensions of keys included,  *)
(* and the table and the scan find the same child of every node: children  *)
(* of a node start with different characters.                              *)
AnswersRight ==
  /\ find.asked /\ ~find.active =>
       \/ \E i \in Numbers : keys[i] = find.key /\ find.answer = i - 1
       \/ (\A i \in Numbers : keys[i] # find.key) /\ find.answer = NPOS
  /\ Built => \A n \in 0 .. next.node - 1 : \A c, d \in ChildPlaces(n) :
                /\ nodes[ChildAt(n, c)].label_length > 0
                /\ FirstChar(ChildAt(n, c)) = FirstChar(ChildAt(n, d)) => c = d

(* The recursion ends, and so does every lookup.                           *)
ReadyAgain == []<>(Built /\ ~find.active)
=============================================================================
