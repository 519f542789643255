----------------------------- MODULE CallsProofs ----------------------------
(***************************************************************************)
(* Proofs about the calls of Calls.tla, for all arguments: the script that *)
(* makes the single headers writes every header once and in time, the      *)
(* processor hashes every key to what the compiler hashes it to, a text is *)
(* read as the number it is, the nearest candidate is suggested, and a     *)
(* written date is read as itself.                                         *)
(***************************************************************************)
EXTENDS Calls, SequenceTheorems, WellFoundedInduction, TLAPS

(* H: the headers, E: the entries, s: the locals of the script.            *)
Spots(H) == [header : DOMAIN H, line : Nat \ {0}]
LocalsInv(H, s) ==
  s \in [entry : Nat \ {0}, open : Seq(Spots(H)), visited : SUBSET DOMAIN H, out : Seq(Spots(H))]

(* The lines of a header that have been gone through.                      *)
PassedLines(H, open, h) ==
  {k \in DOMAIN H[h] : \A p \in DOMAIN open : open[p].header = h => k < open[p].line}

(* The headers that are open include one another, and no header is opened  *)
(* twice.                                                                  *)
OpenInv(H, open, visited) ==
  /\ \A p \in DOMAIN open : open[p].header \in visited
  /\ \A p, q \in DOMAIN open : open[p].header = open[q].header => p = q
  /\ \A p \in DOMAIN open : p # 1 => open[p - 1].header \in Included(H, open[p].header)

(* Only what is needed is visited, and what a line that was gone through   *)
(* includes, and the entries that were: so nothing needed is left out.     *)
Followed(H, open, headers, visited) ==
  \A h \in headers : \A k \in PassedLines(H, open, h) : H[h][k].kind = "include" => H[h][k].to \in visited
VisitedInv(H, E, entry, open, visited) ==
  /\ visited \subseteq Needs(H, Range(E))
  /\ \A i \in DOMAIN E : i < entry => E[i] \in visited
  /\ Followed(H, open, visited, visited)

(* The code of the lines that were gone through is written, once.          *)
WrittenInv(H, open, visited, out) ==
  /\ \A i, j \in DOMAIN out : out[i] = out[j] => i = j
  /\ \A i \in DOMAIN out :
       /\ out[i].header \in visited
       /\ out[i].line \in PassedLines(H, open, out[i].header)
       /\ H[out[i].header][out[i].line].kind = "code"
  /\ \A h \in visited : \A k \in PassedLines(H, open, h) :
       H[h][k].kind = "code" => \E i \in DOMAIN out : out[i] = [header |-> h, line |-> k]

(* Code behind the line that includes t stands behind the code of all that *)
(* t needs.                                                                *)
Precedes(H, out, t, n) ==
  \A g \in Needs(H, {t}) : \A l \in DOMAIN H[g] : H[g][l].kind = "code" =>
    \E j \in DOMAIN out : j < n /\ out[j] = [header |-> g, line |-> l]
TimelyInv(H, out) ==
  \A i \in DOMAIN out : \A k \in 1 .. out[i].line - 1 :
    H[out[i].header][k].kind = "include" /\ out[i].header \notin Needs(H, {H[out[i].header][k].to})
      => Precedes(H, out, H[out[i].header][k].to, i)

ScriptInv(H, E, s) ==
  /\ LocalsInv(H, s)
  /\ OpenInv(H, s.open, s.visited)
  /\ VisitedInv(H, E, s.entry, s.open, s.visited)
  /\ WrittenInv(H, s.open, s.visited, s.out)
  /\ TimelyInv(H, s.out)

AmalgamateInv ==
  job.function = "amalgamate" =>
    /\ IsHeaderJob(job)
    /\ ScriptInv(job.headers, job.entries, st)
    /\ \/ result = Running
       \/ result = <<"not found">>
       \/ result = <<st.out>> /\ st.open = <<>> /\ st.entry > Len(job.entries)
-----------------------------------------------------------------------------
LEMMA LeastPosition ==
  ASSUME NEW S \in SUBSET Nat, S # {}
  PROVE  \E m \in S : \A n \in S : m <= n
<1>1. IsWellFoundedOn(OpToRel(<, Nat), Nat)
  BY NatLessThanWellFounded
<1>2. PICK m \in S : \A n \in S : ~(<<n, m>> \in OpToRel(<, Nat))
  BY <1>1, WFMin
<1>3. ASSUME NEW n \in S PROVE m <= n
  <2>1. m \in Nat /\ n \in Nat
    OBVIOUS
  <2>2. ~(n < m)
    BY <1>2, <2>1 DEF OpToRel
  <2> QED BY <2>1, <2>2
<1> QED BY <1>3

(* What is needed is complete, and the least that is.                      *)
LEMMA NeedsAreComplete ==
  ASSUME NEW H, NEW S
  PROVE  /\ Needs(H, S) \subseteq DOMAIN H
         /\ S \cap DOMAIN H \subseteq Needs(H, S)
         /\ \A g \in Needs(H, S) : Included(H, g) \subseteq Needs(H, S)
<1>1. Needs(H, S) \subseteq DOMAIN H
  BY DEF Needs
<1>2. S \cap DOMAIN H \subseteq Needs(H, S)
  BY DEF Needs
<1>3. ASSUME NEW g \in Needs(H, S), NEW h \in Included(H, g) PROVE h \in Needs(H, S)
  <2>1. h \in DOMAIN H
    BY <1>3 DEF Included
  <2>2. ASSUME NEW C \in SUBSET DOMAIN H, S \subseteq C, Complete(H, C) PROVE h \in C
    <3>1. g \in C
      BY <2>2 DEF Needs
    <3> QED BY <2>2, <3>1, <1>3 DEF Complete
  <2> QED BY <2>1, <2>2 DEF Needs
<1> QED BY <1>1, <1>2, <1>3

LEMMA NeedsAreLeast ==
  ASSUME NEW H, NEW S, NEW C \in SUBSET DOMAIN H, S \subseteq C,
         \A g \in C : Included(H, g) \subseteq C
  PROVE  Needs(H, S) \subseteq C
BY DEF Needs, Complete

(* Sequences by their items: the first replaced, one put in front, the     *)
(* first taken away, one put behind.                                       *)
LEMMA SeqItems ==
  ASSUME NEW T, NEW s \in Seq(T)
  PROVE  /\ Len(s) \in Nat /\ DOMAIN s = 1 .. Len(s) /\ \A p \in DOMAIN s : p \in Nat /\ p >= 1 /\ s[p] \in T
         /\ s # <<>> => Len(s) > 0 /\ 1 \in DOMAIN s /\ s[1] \in T
<1>1. Len(s) \in Nat /\ DOMAIN s = 1 .. Len(s)
  OBVIOUS
<1>2. \A p \in DOMAIN s : p \in Nat /\ p >= 1 /\ s[p] \in T
  OBVIOUS
<1>3. s # <<>> => Len(s) > 0
  OBVIOUS
<1>4. Len(s) > 0 => 1 \in DOMAIN s
  BY <1>1
<1> QED BY <1>1, <1>2, <1>3, <1>4

LEMMA PutInFront ==
  ASSUME NEW T, NEW s \in Seq(T), NEW x \in T
  PROVE  /\ <<x>> \o s \in Seq(T)
         /\ DOMAIN (<<x>> \o s) = 1 .. Len(s) + 1
         /\ (<<x>> \o s)[1] = x
         /\ \A p \in DOMAIN s : (<<x>> \o s)[p + 1] = s[p]
         /\ \A p \in DOMAIN (<<x>> \o s) : p = 1 \/ (p - 1 \in DOMAIN s /\ (<<x>> \o s)[p] = s[p - 1])
<1> DEFINE first == <<x>>
           both == first \o s
<1>1. first \in Seq(T) /\ Len(first) = 1 /\ first[1] = x
  OBVIOUS
<1>2. Len(s) \in Nat /\ DOMAIN s = 1 .. Len(s)
  BY SeqItems
<1> HIDE DEF first
<1>3. /\ both \in Seq(T) /\ Len(both) = 1 + Len(s)
      /\ \A i \in 1 .. 1 + Len(s) : both[i] = IF i <= 1 THEN first[i] ELSE s[i - 1]
  BY <1>1, ConcatProperties, SMTT(40)
<1>4. DOMAIN both = 1 .. Len(both)
  BY <1>3, SeqItems
<1> HIDE DEF both
<1>5. both[1] = x
  BY <1>1, <1>2, <1>3
<1>6. ASSUME NEW p \in DOMAIN s PROVE both[p + 1] = s[p]
  <2>1. p \in Nat /\ p + 1 \in 1 .. 1 + Len(s) /\ ~(p + 1 <= 1) /\ (p + 1) - 1 = p
    BY <1>2
  <2> QED BY <1>3, <2>1
<1>7. ASSUME NEW p \in DOMAIN both, p # 1 PROVE p - 1 \in DOMAIN s /\ both[p] = s[p - 1]
  <2>1. p \in Nat /\ p \in 1 .. 1 + Len(s) /\ ~(p <= 1) /\ p - 1 \in DOMAIN s
    BY <1>2, <1>3, <1>4, <1>7
  <2> QED BY <1>3, <2>1
<1> QED BY <1>2, <1>3, <1>4, <1>5, <1>6, <1>7 DEF both, first

LEMMA FirstReplaced ==
  ASSUME NEW T, NEW s \in Seq(T), s # <<>>, NEW x \in T
  PROVE  /\ <<x>> \o Tail(s) \in Seq(T)
         /\ DOMAIN (<<x>> \o Tail(s)) = DOMAIN s
         /\ (<<x>> \o Tail(s))[1] = x
         /\ \A p \in DOMAIN s : p # 1 => (<<x>> \o Tail(s))[p] = s[p]
<1>1. /\ Tail(s) \in Seq(T) /\ Len(Tail(s)) = Len(s) - 1
      /\ \A p \in 1 .. Len(Tail(s)) : Tail(s)[p] = s[p + 1]
  BY HeadTailProperties
<1>2. Len(s) \in Nat /\ DOMAIN s = 1 .. Len(s) /\ DOMAIN Tail(s) = 1 .. Len(s) - 1
  BY <1>1, SeqItems
<1> DEFINE tail == Tail(s)
           new == <<x>> \o tail
<1> HIDE DEF tail
<1>3. /\ new \in Seq(T) /\ DOMAIN new = 1 .. Len(tail) + 1 /\ new[1] = x
      /\ \A p \in DOMAIN tail : new[p + 1] = tail[p]
  BY <1>1, PutInFront DEF tail
<1> HIDE DEF new
<1>4. DOMAIN new = DOMAIN s
  BY <1>1, <1>2, <1>3 DEF tail
<1>5. ASSUME NEW p \in DOMAIN s, p # 1 PROVE new[p] = s[p]
  <2>1. p - 1 \in DOMAIN tail /\ (p - 1) + 1 = p /\ p - 1 \in 1 .. Len(Tail(s))
    BY <1>1, <1>2, <1>5 DEF tail
  <2>2. new[p] = tail[p - 1]
    BY <1>3, <2>1
  <2>3. tail[p - 1] = s[p]
    BY <1>1, <2>1 DEF tail
  <2> QED BY <2>2, <2>3
<1> QED BY <1>3, <1>4, <1>5 DEF new, tail

LEMMA FirstTaken ==
  ASSUME NEW T, NEW s \in Seq(T), s # <<>>
  PROVE  /\ Tail(s) \in Seq(T)
         /\ \A p \in DOMAIN Tail(s) : p + 1 \in DOMAIN s /\ Tail(s)[p] = s[p + 1]
         /\ \A p \in DOMAIN s : p # 1 => p - 1 \in DOMAIN Tail(s) /\ Tail(s)[p - 1] = s[p]
<1>1. Len(s) \in Nat /\ Len(s) > 0 /\ DOMAIN s = 1 .. Len(s)
  OBVIOUS
<1>2. Tail(s) \in Seq(T) /\ DOMAIN Tail(s) = 1 .. Len(s) - 1
  OBVIOUS
<1>3. \A p \in 1 .. Len(s) - 1 : Tail(s)[p] = s[p + 1]
  OBVIOUS
<1>4. \A p \in 1 .. Len(s) : p # 1 => p - 1 \in 1 .. Len(s) - 1 /\ (p - 1) + 1 = p
  BY <1>1
<1>5. \A p \in 1 .. Len(s) - 1 : p + 1 \in 1 .. Len(s)
  BY <1>1
<1> QED BY <1>1, <1>2, <1>3, <1>4, <1>5

LEMMA PutBehind ==
  ASSUME NEW T, NEW s \in Seq(T), NEW x \in T
  PROVE  /\ Append(s, x) \in Seq(T)
         /\ DOMAIN Append(s, x) = 1 .. Len(s) + 1
         /\ Append(s, x)[Len(s) + 1] = x
         /\ \A p \in DOMAIN s : p < Len(s) + 1 /\ p \in DOMAIN Append(s, x) /\ Append(s, x)[p] = s[p]
         /\ \A p \in DOMAIN Append(s, x) : p = Len(s) + 1 \/ p \in DOMAIN s
OBVIOUS

(* How the lines that have been gone through grow: by a line, not by a     *)
(* header that is opened, and not by one that is left at its end.          *)
IsHeaders(H) == H \in [DOMAIN H -> Seq(Lines)]

LEMMA PassedForward ==
  ASSUME NEW H, IsHeaders(H), NEW open \in Seq(Spots(H)), open # <<>>,
         open[1].line \in DOMAIN H[open[1].header],
         \A p, q \in DOMAIN open : open[p].header = open[q].header => p = q,
         NEW h \in DOMAIN H
  PROVE  PassedLines(H, Onwards(open), h) =
           PassedLines(H, open, h) \cup (IF h = open[1].header THEN {open[1].line} ELSE {})
<1> DEFINE x == [header |-> open[1].header, line |-> open[1].line + 1]
           new == <<x>> \o Tail(open)
<1>1. 1 \in DOMAIN open /\ open[1] \in Spots(H)
  BY SeqItems
<1>2. open[1].line \in Nat /\ open[1].header \in DOMAIN H /\ x \in Spots(H)
  BY <1>1 DEF Spots
<1> HIDE DEF x
<1>3. DOMAIN new = DOMAIN open /\ new[1] = x /\ \A p \in DOMAIN open : p # 1 => new[p] = open[p]
  BY <1>2, FirstReplaced
<1>4. x.header = open[1].header /\ x.line = open[1].line + 1 /\ Onwards(open) = new
  BY DEF x, Onwards
<1> HIDE DEF new
<1>5. DOMAIN H[h] \subseteq Nat
  BY DEF IsHeaders
<1>6. CASE h = open[1].header
  <2>1. \A p \in DOMAIN open : open[p].header = h <=> p = 1
    BY <1>1, <1>6
  <2>2. PassedLines(H, open, h) = {k \in DOMAIN H[h] : k < open[1].line}
    BY <1>1, <2>1 DEF PassedLines
  <2>3. \A p \in DOMAIN new : new[p].header = h <=> p = 1
    BY <1>3, <1>4, <2>1
  <2>4. PassedLines(H, new, h) = {k \in DOMAIN H[h] : k < open[1].line + 1}
    BY <1>1, <1>3, <1>4, <2>3 DEF PassedLines
  <2> QED BY <1>2, <1>4, <1>5, <1>6, <2>2, <2>4
<1>7. CASE h # open[1].header
  <2>1. \A p \in DOMAIN open : /\ new[p].header = h <=> open[p].header = h
                               /\ open[p].header = h => new[p] = open[p]
    BY <1>1, <1>3, <1>4, <1>7
  <2> QED BY <1>3, <1>4, <1>7, <2>1 DEF PassedLines
<1> QED BY <1>6, <1>7

LEMMA PassedOpened ==
  ASSUME NEW H, IsHeaders(H), NEW open \in Seq(Spots(H)), NEW g \in DOMAIN H,
         \A p \in DOMAIN open : open[p].header # g, NEW h \in DOMAIN H
  PROVE  PassedLines(H, <<[header |-> g, line |-> 1]>> \o open, h) = IF h = g THEN {} ELSE PassedLines(H, open, h)
<1> DEFINE x == [header |-> g, line |-> 1]
           new == <<x>> \o open
<1>1. x \in Spots(H) /\ x.header = g /\ x.line = 1
  BY DEF Spots
<1> HIDE DEF x
<1>2. /\ DOMAIN new = 1 .. Len(open) + 1 /\ new[1] = x
      /\ \A p \in DOMAIN open : new[p + 1] = open[p]
      /\ \A p \in DOMAIN new : p = 1 \/ (p - 1 \in DOMAIN open /\ new[p] = open[p - 1])
  BY <1>1, PutInFront
<1>3. DOMAIN H[h] \subseteq Nat \ {0}
  BY DEF IsHeaders
<1>4. Len(open) \in Nat /\ DOMAIN open = 1 .. Len(open)
  BY SeqItems
<1> HIDE DEF new
<1>5. CASE h = g
  <2>1. 1 \in DOMAIN new
    BY <1>2, <1>4
  <2>2. \A k \in PassedLines(H, new, h) : k \in DOMAIN H[h] /\ k < 1
    BY <1>1, <1>2, <1>5, <2>1 DEF PassedLines
  <2>3. PassedLines(H, new, h) = {}
    BY <1>3, <2>2
  <2> QED BY <1>5, <2>3 DEF new, x
<1>6. CASE h # g
  <2>1. \A p \in DOMAIN open : p + 1 \in DOMAIN new
    BY <1>2, <1>4
  <2>2. ASSUME NEW k \in DOMAIN H[h]
        PROVE (\A p \in DOMAIN new : new[p].header = h => k < new[p].line)
               <=> (\A p \in DOMAIN open : open[p].header = h => k < open[p].line)
    BY <1>1, <1>2, <1>6, <2>1
  <2>3. PassedLines(H, new, h) = PassedLines(H, open, h)
    BY <2>2 DEF PassedLines
  <2> QED BY <1>6, <2>3 DEF new, x
<1> QED BY <1>5, <1>6

LEMMA PassedLeft ==
  ASSUME NEW H, IsHeaders(H), NEW open \in Seq(Spots(H)), open # <<>>,
         open[1].line > Len(H[open[1].header]), NEW h \in DOMAIN H
  PROVE  PassedLines(H, Tail(open), h) = PassedLines(H, open, h)
<1>1. /\ \A p \in DOMAIN Tail(open) : p + 1 \in DOMAIN open /\ Tail(open)[p] = open[p + 1]
      /\ \A p \in DOMAIN open : p # 1 => p - 1 \in DOMAIN Tail(open) /\ Tail(open)[p - 1] = open[p]
  BY FirstTaken
<1>2. H[h] \in Seq(Lines) /\ \A k \in DOMAIN H[h] : k \in Nat /\ k <= Len(H[h]) /\ Len(H[h]) \in Nat
  BY DEF IsHeaders
<1>3. open[1] \in Spots(H)
  BY SeqItems
<1>4. open[1].line \in Nat
  BY <1>3 DEF Spots
<1>5. ASSUME NEW k \in DOMAIN H[h]
      PROVE (\A p \in DOMAIN Tail(open) : Tail(open)[p].header = h => k < Tail(open)[p].line)
             <=> (\A p \in DOMAIN open : open[p].header = h => k < open[p].line)
  <2>1. open[1].header = h => k < open[1].line
    BY <1>2, <1>4
  <2>2. ASSUME NEW p \in DOMAIN open, open[p].header = h,
               \A q \in DOMAIN Tail(open) : Tail(open)[q].header = h => k < Tail(open)[q].line
        PROVE  k < open[p].line
    BY <1>1, <2>1, <2>2
  <2>3. ASSUME NEW p \in DOMAIN Tail(open), Tail(open)[p].header = h,
               \A q \in DOMAIN open : open[q].header = h => k < open[q].line
        PROVE  k < Tail(open)[p].line
    BY <1>1, <2>3
  <2> QED BY <2>2, <2>3
<1> QED BY <1>5 DEF PassedLines

(* The headers that are open, when a line has been gone through, a header  *)
(* is opened, a header is left.                                            *)
LEMMA OpenForward ==
  ASSUME NEW H, NEW visited, NEW open \in Seq(Spots(H)), open # <<>>, OpenInv(H, open, visited)
  PROVE  /\ Onwards(open) \in Seq(Spots(H))
         /\ OpenInv(H, Onwards(open), visited)
         /\ Onwards(open) # <<>> /\ Onwards(open)[1].header = open[1].header
<1> DEFINE x == [header |-> open[1].header, line |-> open[1].line + 1]
           new == <<x>> \o Tail(open)
<1>1. 1 \in DOMAIN open /\ open[1] \in Spots(H)
  BY SeqItems
<1>2. x \in Spots(H) /\ x.header = open[1].header
  BY <1>1 DEF Spots
<1> HIDE DEF x
<1>3. /\ new \in Seq(Spots(H)) /\ DOMAIN new = DOMAIN open /\ new[1] = x
      /\ \A p \in DOMAIN open : p # 1 => new[p] = open[p]
  BY <1>2, FirstReplaced
<1>4. new # <<>>
  BY <1>1, <1>3
<1>5. Onwards(open) = new
  BY DEF Onwards, x
<1> HIDE DEF new
<1>6. \A p \in DOMAIN open : new[p].header = open[p].header
  BY <1>2, <1>3
<1>7. \A p \in DOMAIN open : p # 1 => p - 1 \in DOMAIN open
  BY SeqItems
<1>8. OpenInv(H, new, visited)
  <2>1. \A p \in DOMAIN new : new[p].header \in visited
    BY <1>3, <1>6 DEF OpenInv
  <2>2. \A p, q \in DOMAIN new : new[p].header = new[q].header => p = q
    BY <1>3, <1>6 DEF OpenInv
  <2>3. \A p \in DOMAIN new : p # 1 => new[p - 1].header \in Included(H, new[p].header)
    BY <1>3, <1>6, <1>7 DEF OpenInv
  <2> QED BY <2>1, <2>2, <2>3 DEF OpenInv
<1> QED BY <1>2, <1>3, <1>4, <1>5, <1>8

LEMMA OpenOpened ==
  ASSUME NEW H, NEW visited, NEW open \in Seq(Spots(H)), OpenInv(H, open, visited),
         NEW g \in DOMAIN H, g \notin visited, open # <<>> => g \in Included(H, open[1].header)
  PROVE  /\ <<[header |-> g, line |-> 1]>> \o open \in Seq(Spots(H))
         /\ OpenInv(H, <<[header |-> g, line |-> 1]>> \o open, visited \cup {g})
<1> DEFINE x == [header |-> g, line |-> 1]
           new == <<x>> \o open
<1>1. x \in Spots(H) /\ x.header = g
  BY DEF Spots
<1> HIDE DEF x
<1>2. /\ new \in Seq(Spots(H)) /\ new[1] = x
      /\ \A p \in DOMAIN open : new[p + 1] = open[p]
      /\ \A p \in DOMAIN new : p = 1 \/ (p - 1 \in DOMAIN open /\ new[p] = open[p - 1])
  BY <1>1, PutInFront
<1> HIDE DEF new
<1>3. \A p \in DOMAIN new : p \in Nat
  BY <1>2, SeqItems
<1>4. \A p \in DOMAIN new : new[p].header \in visited \cup {g}
  BY <1>1, <1>2 DEF OpenInv
<1>5. ASSUME NEW p \in DOMAIN new, NEW q \in DOMAIN new, new[p].header = new[q].header PROVE p = q
  <2>1. CASE p = 1 /\ q = 1
    BY <2>1
  <2>2. CASE p = 1 /\ q # 1
    BY <1>1, <1>2, <1>5, <2>2 DEF OpenInv
  <2>3. CASE p # 1 /\ q = 1
    BY <1>1, <1>2, <1>5, <2>3 DEF OpenInv
  <2>4. CASE p # 1 /\ q # 1
    <3>1. /\ p - 1 \in DOMAIN open /\ new[p] = open[p - 1] /\ q - 1 \in DOMAIN open /\ new[q] = open[q - 1]
      BY <1>2, <2>4
    <3>2. p - 1 = q - 1
      BY <1>5, <3>1 DEF OpenInv
    <3> QED BY <1>3, <3>2
  <2> QED BY <2>1, <2>2, <2>3, <2>4
<1>6. ASSUME NEW p \in DOMAIN new, p # 1 PROVE new[p - 1].header \in Included(H, new[p].header)
  <2>1. p \in Nat /\ p - 1 \in DOMAIN open /\ new[p] = open[p - 1]
    BY <1>2, <1>3, <1>6
  <2>2. CASE p = 2
    <3>1. p - 1 = 1 /\ open # <<>>
      BY <2>1, <2>2
    <3> QED BY <1>1, <1>2, <2>1, <3>1
  <2>3. CASE p # 2
    <3>1. (p - 1) - 1 \in DOMAIN open /\ ((p - 1) - 1) + 1 = p - 1 /\ p - 1 # 1
      BY <2>1, <2>3, SeqItems
    <3>2. new[p - 1] = open[(p - 1) - 1]
      BY <1>2, <3>1
    <3> QED BY <2>1, <3>1, <3>2 DEF OpenInv
  <2> QED BY <2>2, <2>3
<1>7. OpenInv(H, new, visited \cup {g})
  BY <1>4, <1>5, <1>6 DEF OpenInv
<1> QED BY <1>2, <1>7 DEF new, x

LEMMA OpenLeft ==
  ASSUME NEW H, NEW visited, NEW open \in Seq(Spots(H)), open # <<>>, OpenInv(H, open, visited)
  PROVE  Tail(open) \in Seq(Spots(H)) /\ OpenInv(H, Tail(open), visited)
<1> DEFINE new == Tail(open)
<1>1. new \in Seq(Spots(H)) /\ \A p \in DOMAIN new : p + 1 \in DOMAIN open /\ new[p] = open[p + 1]
  BY FirstTaken
<1> HIDE DEF new
<1>2. \A p \in DOMAIN new : p \in Nat /\ p >= 1 /\ (p # 1 => p - 1 \in DOMAIN new)
  BY <1>1, SeqItems
<1>3. \A p \in DOMAIN new : new[p].header \in visited
  BY <1>1 DEF OpenInv
<1>4. ASSUME NEW p \in DOMAIN new, NEW q \in DOMAIN new, new[p].header = new[q].header PROVE p = q
  <2>1. p + 1 = q + 1
    BY <1>1, <1>4 DEF OpenInv
  <2> QED BY <1>2, <2>1
<1>5. ASSUME NEW p \in DOMAIN new, p # 1 PROVE new[p - 1].header \in Included(H, new[p].header)
  <2>1. p + 1 \in DOMAIN open /\ new[p] = open[p + 1] /\ p + 1 # 1 /\ (p + 1) - 1 = p
    BY <1>1, <1>2
  <2>2. p - 1 \in DOMAIN new /\ (p - 1) + 1 = p
    BY <1>2, <1>5
  <2>3. new[p - 1] = open[p]
    BY <1>1, <2>2
  <2> QED BY <2>1, <2>3 DEF OpenInv
<1> QED BY <1>1, <1>3, <1>4, <1>5 DEF OpenInv, new

(* What the lines that have been gone through include.                     *)
LEMMA FollowedForward ==
  ASSUME NEW H, IsHeaders(H), NEW visited \in SUBSET DOMAIN H, NEW open \in Seq(Spots(H)), open # <<>>,
         open[1].line \in DOMAIN H[open[1].header], OpenInv(H, open, visited),
         NEW after, Followed(H, open, visited, after),
         H[open[1].header][open[1].line].kind = "include" => H[open[1].header][open[1].line].to \in after
  PROVE  Followed(H, Onwards(open), visited, after)
<1>1. \A p, q \in DOMAIN open : open[p].header = open[q].header => p = q
  BY DEF OpenInv
<1> SUFFICES ASSUME NEW h \in visited, NEW k \in PassedLines(H, Onwards(open), h), H[h][k].kind = "include"
             PROVE  H[h][k].to \in after
  BY DEF Followed
<1>2. k \in PassedLines(H, open, h) \/ (h = open[1].header /\ k = open[1].line)
  BY <1>1, PassedForward
<1> QED BY <1>2 DEF Followed

LEMMA FollowedOpened ==
  ASSUME NEW H, IsHeaders(H), NEW visited \in SUBSET DOMAIN H, NEW open \in Seq(Spots(H)),
         OpenInv(H, open, visited), NEW g \in DOMAIN H, g \notin visited,
         NEW after, Followed(H, open, visited, after)
  PROVE  Followed(H, <<[header |-> g, line |-> 1]>> \o open, visited \cup {g}, after)
<1> DEFINE new == <<[header |-> g, line |-> 1]>> \o open
<1>1. \A p \in DOMAIN open : open[p].header # g
  BY DEF OpenInv
<1>2. \A h \in DOMAIN H : PassedLines(H, new, h) = IF h = g THEN {} ELSE PassedLines(H, open, h)
  BY <1>1, PassedOpened
<1> HIDE DEF new
<1> QED BY <1>2 DEF Followed, new

LEMMA FollowedLeft ==
  ASSUME NEW H, IsHeaders(H), NEW visited \in SUBSET DOMAIN H, NEW open \in Seq(Spots(H)), open # <<>>,
         open[1].line > Len(H[open[1].header]), NEW after, Followed(H, open, visited, after)
  PROVE  Followed(H, Tail(open), visited, after)
<1>1. \A h \in visited : PassedLines(H, Tail(open), h) = PassedLines(H, open, h)
  BY PassedLeft
<1> QED BY <1>1 DEF Followed

(* What is written.                                                        *)
LEMMA WrittenSame ==
  ASSUME NEW H, NEW visited, NEW open, NEW new, NEW out, WrittenInv(H, open, visited, out),
         \A h \in visited : PassedLines(H, open, h) \subseteq PassedLines(H, new, h),
         \A h \in visited : \A k \in PassedLines(H, new, h) : H[h][k].kind = "code" => k \in PassedLines(H, open, h)
  PROVE  WrittenInv(H, new, visited, out)
<1>1. \A i, j \in DOMAIN out : out[i] = out[j] => i = j
  BY DEF WrittenInv
<1>2. ASSUME NEW i \in DOMAIN out
      PROVE  /\ out[i].header \in visited
             /\ out[i].line \in PassedLines(H, new, out[i].header)
             /\ H[out[i].header][out[i].line].kind = "code"
  <2>1. /\ out[i].header \in visited
        /\ out[i].line \in PassedLines(H, open, out[i].header)
        /\ H[out[i].header][out[i].line].kind = "code"
    BY DEF WrittenInv
  <2> QED BY <2>1
<1>3. \A h \in visited : \A k \in PassedLines(H, new, h) :
        H[h][k].kind = "code" => \E i \in DOMAIN out : out[i] = [header |-> h, line |-> k]
  BY DEF WrittenInv
<1> QED BY <1>1, <1>2, <1>3 DEF WrittenInv

LEMMA WrittenForward ==
  ASSUME NEW H, IsHeaders(H), NEW visited \in SUBSET DOMAIN H, NEW open \in Seq(Spots(H)), open # <<>>,
         open[1].line \in DOMAIN H[open[1].header], OpenInv(H, open, visited),
         NEW out, WrittenInv(H, open, visited, out),
         H[open[1].header][open[1].line].kind # "code"
  PROVE  WrittenInv(H, Onwards(open), visited, out)
<1>1. \A p, q \in DOMAIN open : open[p].header = open[q].header => p = q
  BY DEF OpenInv
<1>2. \A h \in visited : PassedLines(H, Onwards(open), h) =
           PassedLines(H, open, h) \cup (IF h = open[1].header THEN {open[1].line} ELSE {})
  BY <1>1, PassedForward
<1>3. \A h \in visited : PassedLines(H, open, h) \subseteq PassedLines(H, Onwards(open), h)
  BY <1>2
<1>4. ASSUME NEW h \in visited, NEW k \in PassedLines(H, Onwards(open), h), H[h][k].kind = "code"
      PROVE  k \in PassedLines(H, open, h)
  <2>1. k \in PassedLines(H, open, h) \/ (h = open[1].header /\ k = open[1].line)
    BY <1>2
  <2> QED BY <1>4, <2>1
<1> QED BY <1>3, <1>4, WrittenSame

LEMMA WrittenLeft ==
  ASSUME NEW H, IsHeaders(H), NEW visited \in SUBSET DOMAIN H, NEW open \in Seq(Spots(H)), open # <<>>,
         open[1].line > Len(H[open[1].header]), NEW out, WrittenInv(H, open, visited, out)
  PROVE  WrittenInv(H, Tail(open), visited, out)
<1>1. \A h \in visited : PassedLines(H, Tail(open), h) = PassedLines(H, open, h)
  BY PassedLeft
<1> QED BY <1>1, WrittenSame

LEMMA WrittenOpened ==
  ASSUME NEW H, IsHeaders(H), NEW visited \in SUBSET DOMAIN H, NEW open \in Seq(Spots(H)),
         OpenInv(H, open, visited), NEW g \in DOMAIN H, g \notin visited,
         NEW out, WrittenInv(H, open, visited, out)
  PROVE  WrittenInv(H, <<[header |-> g, line |-> 1]>> \o open, visited \cup {g}, out)
<1> DEFINE new == <<[header |-> g, line |-> 1]>> \o open
<1>1. \A p \in DOMAIN open : open[p].header # g
  BY DEF OpenInv
<1>2. \A h \in DOMAIN H : PassedLines(H, new, h) = IF h = g THEN {} ELSE PassedLines(H, open, h)
  BY <1>1, PassedOpened
<1> HIDE DEF new
<1>3. \A h \in visited : PassedLines(H, new, h) = PassedLines(H, open, h)
  BY <1>2
<1>4. WrittenInv(H, new, visited, out)
  BY <1>3, WrittenSame
<1>5. PassedLines(H, new, g) = {}
  BY <1>2
<1> QED BY <1>4, <1>5 DEF WrittenInv, new

LEMMA WrittenCopied ==
  ASSUME NEW H, IsHeaders(H), NEW visited \in SUBSET DOMAIN H, NEW open \in Seq(Spots(H)), open # <<>>,
         open[1].line \in DOMAIN H[open[1].header], OpenInv(H, open, visited),
         NEW out \in Seq(Spots(H)), WrittenInv(H, open, visited, out),
         H[open[1].header][open[1].line].kind = "code"
  PROVE  WrittenInv(H, Onwards(open), visited, Append(out, open[1]))
<1> DEFINE new == Append(out, open[1])
           last == Len(out) + 1
<1>1. \A p, q \in DOMAIN open : open[p].header = open[q].header => p = q
  BY DEF OpenInv
<1>2. \A h \in visited : PassedLines(H, Onwards(open), h) =
           PassedLines(H, open, h) \cup (IF h = open[1].header THEN {open[1].line} ELSE {})
  BY <1>1, PassedForward
<1>3. 1 \in DOMAIN open /\ open[1] \in Spots(H)
  BY SeqItems
<1>4. /\ open[1].header \in visited /\ open[1].line \in Nat
      /\ open[1] = [header |-> open[1].header, line |-> open[1].line]
  BY <1>3 DEF OpenInv, Spots
<1>5. /\ DOMAIN new = 1 .. Len(out) + 1 /\ new[last] = open[1] /\ last \in DOMAIN new
      /\ \A p \in DOMAIN out : p < last /\ p \in DOMAIN new /\ new[p] = out[p]
      /\ \A p \in DOMAIN new : p = last \/ p \in DOMAIN out
  <2>1. Len(out) \in Nat
    BY SeqItems
  <2> QED BY <1>3, <2>1, PutBehind
<1> HIDE DEF new, last
<1>6. open[1].line \notin PassedLines(H, open, open[1].header)
  BY <1>3, <1>4 DEF PassedLines
<1>7. \A i \in DOMAIN out : out[i] # open[1]
  BY <1>6 DEF WrittenInv
<1>8. \A i, j \in DOMAIN new : new[i] = new[j] => i = j
  <2> SUFFICES ASSUME NEW i \in DOMAIN new, NEW j \in DOMAIN new, new[i] = new[j] PROVE i = j
    OBVIOUS
  <2>1. CASE i \in DOMAIN out /\ j \in DOMAIN out
    BY <1>5, <2>1 DEF WrittenInv
  <2>2. CASE i \in DOMAIN out /\ j = last
    BY <1>5, <1>7, <2>2
  <2>3. CASE i = last /\ j \in DOMAIN out
    BY <1>5, <1>7, <2>3
  <2> QED BY <1>5, <2>1, <2>2, <2>3
<1>9. ASSUME NEW i \in DOMAIN new
      PROVE  /\ new[i].header \in visited
             /\ new[i].line \in PassedLines(H, Onwards(open), new[i].header)
             /\ H[new[i].header][new[i].line].kind = "code"
  <2>1. CASE i = last
    BY <1>2, <1>4, <1>5, <2>1
  <2>2. CASE i \in DOMAIN out
    <3>1. /\ out[i].header \in visited
          /\ out[i].line \in PassedLines(H, open, out[i].header)
          /\ H[out[i].header][out[i].line].kind = "code"
      BY <2>2 DEF WrittenInv
    <3>2. out[i].line \in PassedLines(H, Onwards(open), out[i].header)
      BY <1>2, <3>1
    <3> QED BY <1>5, <2>2, <3>1, <3>2
  <2> QED BY <1>5, <2>1, <2>2
<1>10. ASSUME NEW h \in visited, NEW k \in PassedLines(H, Onwards(open), h), H[h][k].kind = "code"
       PROVE  \E i \in DOMAIN new : new[i] = [header |-> h, line |-> k]
  <2>1. CASE k \in PassedLines(H, open, h)
    <3>1. PICK i \in DOMAIN out : out[i] = [header |-> h, line |-> k]
      BY <1>10, <2>1 DEF WrittenInv
    <3> QED BY <1>5, <3>1
  <2>2. CASE h = open[1].header /\ k = open[1].line
    BY <1>4, <1>5, <2>2, SMTT(40)
  <2> QED BY <1>2, <2>1, <2>2
<1> QED BY <1>8, <1>9, <1>10 DEF WrittenInv, new

(* A line of code is written: what the headers before it include, and is   *)
(* not above it, has been visited and left, so all its code is written.    *)
LEMMA TimelyCopied ==
  ASSUME NEW H, IsHeaders(H), NEW visited \in SUBSET DOMAIN H, NEW open \in Seq(Spots(H)), open # <<>>,
         open[1].line \in DOMAIN H[open[1].header], OpenInv(H, open, visited),
         Followed(H, open, visited, visited),
         NEW out \in Seq(Spots(H)), WrittenInv(H, open, visited, out), TimelyInv(H, out)
  PROVE  TimelyInv(H, Append(out, open[1]))
<1> DEFINE new == Append(out, open[1])
           last == Len(out) + 1
           top == open[1].header
<1>1. 1 \in DOMAIN open /\ open[1] \in Spots(H)
  BY SeqItems
<1>2. /\ DOMAIN new = 1 .. Len(out) + 1 /\ new[last] = open[1] /\ last \in DOMAIN new
      /\ \A p \in DOMAIN out : p < last /\ p \in DOMAIN new /\ new[p] = out[p]
      /\ \A p \in DOMAIN new : p = last \/ p \in DOMAIN out
  <2>1. Len(out) \in Nat
    BY SeqItems
  <2> QED BY <1>1, <2>1, PutBehind
<1> HIDE DEF new, last
<1>3. ASSUME NEW i \in DOMAIN out, NEW t, Precedes(H, out, t, i) PROVE Precedes(H, new, t, i)
  BY <1>2, <1>3 DEF Precedes
<1>4. ASSUME NEW k \in 1 .. open[1].line - 1, H[top][k].kind = "include", top \notin Needs(H, {H[top][k].to})
      PROVE  Precedes(H, new, H[top][k].to, last)
  <2> DEFINE t == H[top][k].to
             needed == Needs(H, {t})
             done == needed \cap visited
  <2>1. top \in visited /\ open[1].line \in Nat /\ H[top] \in Seq(Lines)
    BY <1>1 DEF OpenInv, Spots, IsHeaders
  <2>2. k \in PassedLines(H, open, top)
    <3>1. k \in DOMAIN H[top] /\ k < open[1].line
      BY <2>1
    <3>2. \A p \in DOMAIN open : open[p].header = top => p = 1
      BY <1>1 DEF OpenInv
    <3> QED BY <3>1, <3>2 DEF PassedLines
  <2>3. t \in visited
    BY <1>4, <2>1, <2>2 DEF Followed
  <2>4. /\ needed \subseteq DOMAIN H /\ t \in needed
        /\ \A g \in needed : Included(H, g) \subseteq needed
    BY <2>3, NeedsAreComplete
  <2> HIDE DEF t, needed
  <2>5. \A p \in DOMAIN open : open[p].header \notin needed
    <3> DEFINE inside == {p \in DOMAIN open : open[p].header \in needed}
    <3> SUFFICES ASSUME inside # {} PROVE FALSE
      OBVIOUS
    <3>1. inside \in SUBSET Nat
      BY SeqItems
    <3>2. PICK p \in inside : \A q \in inside : p <= q
      <4> HIDE DEF inside
      <4> QED BY <3>1, LeastPosition
    <3>3. p # 1
      BY <1>4, <3>2 DEF t, needed
    <3>4. p - 1 \in DOMAIN open /\ p \in Nat
      BY <3>2, <3>3, SeqItems
    <3>5. open[p - 1].header \in needed
      BY <2>4, <3>2, <3>3 DEF OpenInv
    <3> QED BY <3>2, <3>4, <3>5
  <2>6. \A g \in DOMAIN H : g \in needed => PassedLines(H, open, g) = DOMAIN H[g]
    BY <2>5 DEF PassedLines
  <2>7. ASSUME NEW g \in done PROVE Included(H, g) \subseteq done
    <3>1. PassedLines(H, open, g) = DOMAIN H[g]
      BY <2>6
    <3>2. Included(H, g) \subseteq visited
      BY <3>1 DEF Followed, Included
    <3> QED BY <2>4, <3>2
  <2>8. needed \subseteq visited
    <3>1. {t} \subseteq done /\ done \in SUBSET DOMAIN H
      BY <2>3, <2>4
    <3> HIDE DEF done
    <3>2. needed \subseteq done
      BY <2>7, <3>1, NeedsAreLeast DEF needed
    <3> QED BY <3>2 DEF done
  <2>9. ASSUME NEW g \in needed, NEW l \in DOMAIN H[g], H[g][l].kind = "code"
        PROVE  \E j \in DOMAIN new : j < last /\ new[j] = [header |-> g, line |-> l]
    <3>1. g \in visited /\ l \in PassedLines(H, open, g)
      BY <2>6, <2>8
    <3>2. PICK j \in DOMAIN out : out[j] = [header |-> g, line |-> l]
      BY <2>9, <3>1 DEF WrittenInv
    <3> QED BY <1>2, <3>2
  <2> QED BY <2>9 DEF Precedes, needed, t
<1>5. ASSUME NEW i \in DOMAIN new, NEW k \in 1 .. new[i].line - 1,
             H[new[i].header][k].kind = "include", new[i].header \notin Needs(H, {H[new[i].header][k].to})
      PROVE  Precedes(H, new, H[new[i].header][k].to, i)
  <2>1. CASE i = last
    BY <1>2, <1>4, <1>5, <2>1
  <2>2. CASE i \in DOMAIN out
    <3>1. new[i] = out[i]
      BY <1>2, <2>2
    <3>2. Precedes(H, out, H[out[i].header][k].to, i)
      BY <1>5, <2>2, <3>1 DEF TimelyInv
    <3> QED BY <1>3, <2>2, <3>1, <3>2
  <2> QED BY <1>2, <2>1, <2>2
<1> QED BY <1>5 DEF TimelyInv, new
-----------------------------------------------------------------------------
(* The steps of the script.                                                *)
LEMMA NextEntry ==
  ASSUME NEW A, NEW B, NEW C, NEW D, NEW s \in [entry : A, open : B, visited : C, out : D], NEW e \in A
  PROVE  LET t == [s EXCEPT !.entry = e]
         IN  t \in [entry : A, open : B, visited : C, out : D]
             /\ t.entry = e /\ t.open = s.open /\ t.visited = s.visited /\ t.out = s.out
OBVIOUS

LEMMA EntryWasVisited ==
  ASSUME NEW H, NEW E \in Seq(STRING), NEW s, ScriptInv(H, E, s), E[s.entry] \in s.visited
  PROVE  ScriptInv(H, E, [s EXCEPT !.entry = s.entry + 1])
<1> DEFINE t == [s EXCEPT !.entry = s.entry + 1]
<1>1. LocalsInv(H, t) /\ t.entry = s.entry + 1 /\ t.open = s.open /\ t.visited = s.visited /\ t.out = s.out
  <2>1. s \in [entry : Nat \ {0}, open : Seq(Spots(H)), visited : SUBSET DOMAIN H, out : Seq(Spots(H))]
    BY DEF ScriptInv, LocalsInv
  <2>2. s.entry + 1 \in Nat \ {0}
    BY <2>1
  <2> QED BY <2>1, <2>2, NextEntry DEF LocalsInv
<1> HIDE DEF t
<1>2. VisitedInv(H, E, t.entry, s.open, s.visited)
  <2>1. s.entry \in Nat
    BY DEF ScriptInv, LocalsInv
  <2>2. ASSUME NEW i \in DOMAIN E, i < s.entry + 1 PROVE E[i] \in s.visited
    <3>1. i < s.entry \/ i = s.entry
      BY <2>1, <2>2, SeqItems
    <3> QED BY <3>1 DEF ScriptInv, VisitedInv
  <2> QED BY <1>1, <2>2 DEF ScriptInv, VisitedInv
<1> QED BY <1>1, <1>2 DEF ScriptInv, t

LEMMA LocalsOfEntry ==
  ASSUME NEW A, NEW B, NEW C, NEW D, NEW s \in [entry : A, open : B, visited : C, out : D],
         NEW e \in A, NEW o \in B, NEW v \in C
  PROVE  LET t == [s EXCEPT !.entry = e, !.open = o, !.visited = v]
         IN  t \in [entry : A, open : B, visited : C, out : D]
             /\ t.entry = e /\ t.open = o /\ t.visited = v /\ t.out = s.out
OBVIOUS

LEMMA EntryIsOpened ==
  ASSUME NEW H, IsHeaders(H), NEW E \in Seq(STRING), NEW s, ScriptInv(H, E, s), s.open = <<>>, s.entry \in DOMAIN E,
         E[s.entry] \in DOMAIN H, E[s.entry] \notin s.visited
  PROVE  ScriptInv(H, E, [s EXCEPT !.entry = s.entry + 1, !.open = <<[header |-> E[s.entry], line |-> 1]>>,
                                   !.visited = s.visited \cup {E[s.entry]}])
<1> DEFINE g == E[s.entry]
           one == <<[header |-> g, line |-> 1]>>
           after == s.visited \cup {g}
           t == [s EXCEPT !.entry = s.entry + 1, !.open = one, !.visited = after]
<1>1. /\ s.entry \in Nat \ {0} /\ s.open \in Seq(Spots(H)) /\ s.visited \in SUBSET DOMAIN H /\ s.out \in Seq(Spots(H))
  BY DEF ScriptInv, LocalsInv
<1>2. one = one \o s.open
  <2>1. one \in Seq(Spots(H))
    BY DEF Spots
  <2> QED BY <2>1, ConcatEmptySeq
<1>0. g \in DOMAIN H /\ g \notin s.visited /\ OpenInv(H, s.open, s.visited) /\ WrittenInv(H, s.open, s.visited, s.out)
  BY DEF ScriptInv
<1> HIDE DEF g
<1>3. one \in Seq(Spots(H)) /\ OpenInv(H, one, after)
  <2>1. one \o s.open \in Seq(Spots(H)) /\ OpenInv(H, one \o s.open, after)
    BY <1>0, <1>1, OpenOpened
  <2> HIDE DEF one
  <2> QED BY <1>2, <2>1
<1>4. after \in SUBSET DOMAIN H
  BY <1>0, <1>1
<1>5. WrittenInv(H, one, after, s.out)
  <2>1. WrittenInv(H, one \o s.open, after, s.out)
    BY <1>0, <1>1, WrittenOpened
  <2> HIDE DEF one
  <2> QED BY <1>2, <2>1
<1>6. Followed(H, one, after, after)
  <2>1. Followed(H, s.open, s.visited, after)
    BY DEF ScriptInv, VisitedInv, Followed
  <2> HIDE DEF one, after
  <2>2. Followed(H, one \o s.open, after, after)
    BY <1>0, <1>1, <2>1, FollowedOpened DEF one, after
  <2> QED BY <1>2, <2>2
<1> HIDE DEF one, after
<1>7. LocalsInv(H, t) /\ t.entry = s.entry + 1 /\ t.open = one /\ t.visited = after /\ t.out = s.out
  <2>1. LocalsInv(H, s) /\ s.entry + 1 \in Nat \ {0}
    BY <1>1 DEF ScriptInv
  <2> QED BY <1>3, <1>4, <2>1, LocalsOfEntry DEF LocalsInv
<1>8. VisitedInv(H, E, s.entry + 1, one, after)
  <2>1. \A i \in DOMAIN E : i \in Nat
    OBVIOUS
  <2>2. ASSUME NEW i \in DOMAIN E, i < s.entry + 1 PROVE E[i] \in after
    <3>1. i < s.entry \/ i = s.entry
      BY <1>1, <2>1, <2>2
    <3> QED BY <3>1 DEF ScriptInv, VisitedInv, after, g
  <2>3. g \in Range(E)
    BY DEF Range, g
  <2>4. g \in Needs(H, Range(E))
    BY <1>0, <2>3, NeedsAreComplete
  <2>5. after \subseteq Needs(H, Range(E))
    BY <2>4 DEF ScriptInv, VisitedInv, after
  <2> QED BY <1>6, <2>2, <2>5 DEF VisitedInv
<1> HIDE DEF t
<1>9. ScriptInv(H, E, t)
  BY <1>3, <1>5, <1>7, <1>8 DEF ScriptInv
<1> QED BY <1>9 DEF t, one, after, g

(* A line that is passed, and the locals that only its place changes.      *)
LEMMA LineIsPassed ==
  ASSUME NEW H, IsHeaders(H), NEW E, NEW s, ScriptInv(H, E, s), s.open # <<>>,
         s.open[1].line \in DOMAIN H[s.open[1].header],
         H[s.open[1].header][s.open[1].line].kind # "code",
         H[s.open[1].header][s.open[1].line].kind = "include"
           => H[s.open[1].header][s.open[1].line].to \in s.visited
  PROVE  ScriptInv(H, E, [s EXCEPT !.open = Onwards(s.open)])
<1> DEFINE new == Onwards(s.open)
           t == [s EXCEPT !.open = new]
<1>1. /\ s.entry \in Nat \ {0} /\ s.open \in Seq(Spots(H)) /\ s.visited \in SUBSET DOMAIN H /\ s.out \in Seq(Spots(H))
  BY DEF ScriptInv, LocalsInv
<1>2. new \in Seq(Spots(H)) /\ OpenInv(H, new, s.visited)
  BY <1>1, OpenForward DEF ScriptInv
<1>3. Followed(H, new, s.visited, s.visited)
  BY <1>1, FollowedForward, SMTT(40) DEF ScriptInv, VisitedInv
<1>4. WrittenInv(H, new, s.visited, s.out)
  BY <1>1, WrittenForward DEF ScriptInv
<1> HIDE DEF new
<1>5. LocalsInv(H, t) /\ t.entry = s.entry /\ t.open = new /\ t.visited = s.visited /\ t.out = s.out
  BY <1>1, <1>2 DEF ScriptInv, LocalsInv
<1> HIDE DEF t
<1>6. ScriptInv(H, E, t)
  BY <1>2, <1>3, <1>4, <1>5 DEF ScriptInv, VisitedInv
<1> QED BY <1>6 DEF t, new

LEMMA LineIsCopied ==
  ASSUME NEW H, IsHeaders(H), NEW E, NEW s, ScriptInv(H, E, s), s.open # <<>>,
         s.open[1].line \in DOMAIN H[s.open[1].header],
         H[s.open[1].header][s.open[1].line].kind = "code"
  PROVE  ScriptInv(H, E, [s EXCEPT !.open = Onwards(s.open), !.out = Append(s.out, s.open[1])])
<1> DEFINE new == Onwards(s.open)
           out == Append(s.out, s.open[1])
           t == [s EXCEPT !.open = new, !.out = out]
<1>1. /\ s.entry \in Nat \ {0} /\ s.open \in Seq(Spots(H)) /\ s.visited \in SUBSET DOMAIN H /\ s.out \in Seq(Spots(H))
  BY DEF ScriptInv, LocalsInv
<1>2. new \in Seq(Spots(H)) /\ OpenInv(H, new, s.visited)
  BY <1>1, OpenForward DEF ScriptInv
<1>3. Followed(H, new, s.visited, s.visited)
  BY <1>1, FollowedForward DEF ScriptInv, VisitedInv
<1>4. WrittenInv(H, new, s.visited, out)
  BY <1>1, WrittenCopied DEF ScriptInv
<1>5. TimelyInv(H, out)
  BY <1>1, TimelyCopied DEF ScriptInv, VisitedInv
<1>6. out \in Seq(Spots(H))
  <2>1. s.open[1] \in Spots(H)
    BY <1>1, SeqItems
  <2> QED BY <1>1, <2>1, PutBehind
<1> HIDE DEF new, out
<1>7. LocalsInv(H, t) /\ t.entry = s.entry /\ t.open = new /\ t.visited = s.visited /\ t.out = out
  BY <1>1, <1>2, <1>6 DEF ScriptInv, LocalsInv
<1> HIDE DEF t
<1>8. ScriptInv(H, E, t)
  BY <1>2, <1>3, <1>4, <1>5, <1>7 DEF ScriptInv, VisitedInv
<1> QED BY <1>8 DEF t, new, out

LEMMA HeaderIsOpened ==
  ASSUME NEW H, IsHeaders(H), NEW E, NEW s, ScriptInv(H, E, s), s.open # <<>>,
         s.open[1].line \in DOMAIN H[s.open[1].header],
         NEW g \in DOMAIN H, g \notin s.visited,
         H[s.open[1].header][s.open[1].line].kind = "include",
         H[s.open[1].header][s.open[1].line].to = g
  PROVE  ScriptInv(H, E, [s EXCEPT !.open = <<[header |-> g, line |-> 1]>> \o Onwards(s.open),
                                   !.visited = s.visited \cup {g}])
<1> DEFINE mid == Onwards(s.open)
           new == <<[header |-> g, line |-> 1]>> \o mid
           after == s.visited \cup {g}
           t == [s EXCEPT !.open = new, !.visited = after]
<1>1. /\ s.entry \in Nat \ {0} /\ s.open \in Seq(Spots(H)) /\ s.visited \in SUBSET DOMAIN H /\ s.out \in Seq(Spots(H))
  BY DEF ScriptInv, LocalsInv
<1>2. /\ mid \in Seq(Spots(H)) /\ OpenInv(H, mid, s.visited)
      /\ mid # <<>> /\ mid[1].header = s.open[1].header
  BY <1>1, OpenForward, ZenonT(60) DEF ScriptInv
<1>3. Followed(H, mid, s.visited, after)
  <2>1. Followed(H, s.open, s.visited, after)
    BY DEF ScriptInv, VisitedInv, Followed
  <2>2. g \in after
    OBVIOUS
  <2> HIDE DEF after
  <2> QED BY <1>1, <2>1, <2>2, FollowedForward DEF ScriptInv
<1>4. WrittenInv(H, mid, s.visited, s.out)
  BY <1>1, WrittenForward DEF ScriptInv
<1>5. g \in Included(H, s.open[1].header)
  BY DEF Included
<1> HIDE DEF mid
<1>6. new \in Seq(Spots(H)) /\ OpenInv(H, new, after)
  BY <1>1, <1>2, <1>5, OpenOpened
<1>7. Followed(H, new, after, after)
  BY <1>1, <1>2, <1>3, FollowedOpened
<1>8. WrittenInv(H, new, after, s.out)
  BY <1>1, <1>2, <1>4, WrittenOpened
<1>9. after \in SUBSET DOMAIN H
  BY <1>1
<1>10. after \subseteq Needs(H, Range(E))
  <2>1. s.open[1].header \in s.visited
    BY <1>1, SeqItems DEF ScriptInv, OpenInv
  <2>2. s.open[1].header \in Needs(H, Range(E))
    BY <2>1 DEF ScriptInv, VisitedInv
  <2>3. g \in Needs(H, Range(E))
    BY <1>5, <2>2, NeedsAreComplete
  <2> QED BY <2>3 DEF ScriptInv, VisitedInv
<1>11. \A i \in DOMAIN E : i < s.entry => E[i] \in after
  BY DEF ScriptInv, VisitedInv
<1> HIDE DEF new, after
<1>12. LocalsInv(H, t) /\ t.entry = s.entry /\ t.open = new /\ t.visited = after /\ t.out = s.out
  BY <1>1, <1>6, <1>9 DEF ScriptInv, LocalsInv
<1> HIDE DEF t
<1>13. VisitedInv(H, E, s.entry, new, after)
  BY <1>7, <1>10, <1>11 DEF VisitedInv
<1>14. ScriptInv(H, E, t)
  BY <1>6, <1>8, <1>12, <1>13 DEF ScriptInv
<1> QED BY <1>14 DEF t, new, after, mid

LEMMA HeaderIsLeft ==
  ASSUME NEW H, IsHeaders(H), NEW E, NEW s, ScriptInv(H, E, s), s.open # <<>>,
         s.open[1].line > Len(H[s.open[1].header])
  PROVE  ScriptInv(H, E, [s EXCEPT !.open = Tail(s.open)])
<1> DEFINE new == Tail(s.open)
           t == [s EXCEPT !.open = new]
<1>1. /\ s.entry \in Nat \ {0} /\ s.open \in Seq(Spots(H)) /\ s.visited \in SUBSET DOMAIN H /\ s.out \in Seq(Spots(H))
  BY DEF ScriptInv, LocalsInv
<1>2. new \in Seq(Spots(H)) /\ OpenInv(H, new, s.visited)
  BY <1>1, OpenLeft DEF ScriptInv
<1>3. Followed(H, new, s.visited, s.visited)
  BY <1>1, FollowedLeft DEF ScriptInv, VisitedInv
<1>4. WrittenInv(H, new, s.visited, s.out)
  BY <1>1, WrittenLeft DEF ScriptInv
<1> HIDE DEF new
<1>5. LocalsInv(H, t) /\ t.entry = s.entry /\ t.open = new /\ t.visited = s.visited /\ t.out = s.out
  BY <1>1, <1>2 DEF ScriptInv, LocalsInv
<1> HIDE DEF t
<1>6. ScriptInv(H, E, t)
  BY <1>2, <1>3, <1>4, <1>5 DEF ScriptInv, VisitedInv
<1> QED BY <1>6 DEF t, new

(* Before the first step.                                                  *)
LEMMA ScriptStarts ==
  ASSUME NEW H, NEW E \in Seq(STRING)
  PROVE  ScriptInv(H, E, AmalgamateStart)
<1> DEFINE s == AmalgamateStart
           none == <<>>
<1>1. s.entry = 1 /\ s.open = none /\ s.visited = {} /\ s.out = none
  BY DEF AmalgamateStart
<1>2. DOMAIN none = {} /\ none \in Seq(Spots(H))
  <2>1. Len(none) = 0 /\ none \in Seq(Spots(H))
    BY EmptySeq
  <2> QED BY <2>1, SeqItems
<1>3. LocalsInv(H, s)
  <2> HIDE DEF none
  <2>1. s = [entry |-> 1, open |-> none, visited |-> {}, out |-> none]
    BY DEF AmalgamateStart, none
  <2> QED BY <1>2, <2>1 DEF LocalsInv
<1> HIDE DEF s, none
<1>4. OpenInv(H, none, {}) /\ WrittenInv(H, none, {}, none) /\ TimelyInv(H, none)
  BY <1>2 DEF OpenInv, WrittenInv, TimelyInv
<1>5. VisitedInv(H, E, 1, none, {})
  <2>1. \A i \in DOMAIN E : i \in Nat /\ i >= 1
    BY SeqItems
  <2> QED BY <2>1 DEF VisitedInv, Followed
<1> QED BY <1>1, <1>3, <1>4, <1>5 DEF ScriptInv, s

LEMMA ScriptStep ==
  ASSUME job.function = "amalgamate", AmalgamateInv, AmalgamateNext
  PROVE  /\ job' = job /\ ScriptInv(job.headers, job.entries, st')
         /\ \/ result' = Running
            \/ result' = <<"not found">>
            \/ result' = <<st'.out>> /\ st'.open = <<>> /\ st'.entry > Len(job.entries)
<1>1. PICK H, E, s : H = job.headers /\ E = job.entries /\ s = st
  OBVIOUS
<1>2. result = Running
  BY DEF AmalgamateNext, EnterEntry, Inline, Copy, LeaveHeader, Written, Reading, Amalgamates, Runs
<1>3. IsHeaders(H) /\ E \in Seq(STRING) /\ ScriptInv(H, E, s)
  BY <1>1 DEF AmalgamateInv, IsHeaderJob, IsHeaders
<1>4. s.open \in Seq(Spots(H)) /\ s.entry \in Nat \ {0}
  BY <1>3 DEF ScriptInv, LocalsInv
<1>5. DOMAIN E = 1 .. Len(E) /\ Len(E) \in Nat
  BY <1>3
<1>6. CASE st' = st /\ job' = job /\ result' = <<"not found">>
  BY <1>1, <1>3, <1>6
<1>7. ASSUME NEW t, ScriptInv(H, E, t), Goes(t) PROVE job' = job /\ ScriptInv(H, E, st') /\ result' = Running
  BY <1>2, <1>7 DEF Goes
<1>8. CASE EnterEntry
  <2>1. s.open = <<>> /\ s.entry \in DOMAIN E
    <3>1. s.open = <<>> /\ s.entry <= Len(E)
      BY <1>1, <1>8 DEF EnterEntry
    <3> QED BY <1>4, <1>5, <3>1
  <2>2. CASE E[s.entry] \in s.visited
    <3>1. ScriptInv(H, E, [s EXCEPT !.entry = s.entry + 1])
      BY <1>3, <2>2, EntryWasVisited
    <3>2. Goes([s EXCEPT !.entry = s.entry + 1])
      BY <1>1, <1>8, <2>2 DEF EnterEntry, VisitedAfter
    <3> QED BY <1>1, <1>7, <3>1, <3>2
  <2>3. CASE E[s.entry] \notin s.visited /\ E[s.entry] \notin DOMAIN H
    <3>1. Returns("not found")
      BY <1>1, <1>8, <2>3 DEF EnterEntry, VisitedAfter, Include
    <3> QED BY <1>6, <3>1 DEF Returns
  <2>4. CASE E[s.entry] \notin s.visited /\ E[s.entry] \in DOMAIN H
    <3> DEFINE t == [s EXCEPT !.entry = s.entry + 1, !.open = <<[header |-> E[s.entry], line |-> 1]>>,
                              !.visited = s.visited \cup {E[s.entry]}]
    <3>1. ScriptInv(H, E, t)
      BY <1>3, <2>1, <2>4, EntryIsOpened
    <3>2. Goes(t)
      BY <1>1, <1>8, <2>4 DEF EnterEntry, VisitedAfter, Include
    <3> HIDE DEF t
    <3> QED BY <1>1, <1>7, <3>1, <3>2
  <2> QED BY <2>2, <2>3, <2>4
<1>9. ASSUME Reading
      PROVE  /\ s.open # <<>> /\ s.open[1] \in Spots(H)
             /\ H[s.open[1].header] \in Seq(Lines)
             /\ s.open[1].line \in DOMAIN H[s.open[1].header]
             /\ TheLine = H[s.open[1].header][s.open[1].line]
             /\ TheLine \in Lines
  <2>1. s.open # <<>> /\ s.open[1].line <= Len(H[s.open[1].header])
    BY <1>1, <1>9 DEF Reading, Top, Include
  <2>2. s.open[1] \in Spots(H)
    BY <1>4, <2>1, SeqItems
  <2>3. s.open[1].header \in DOMAIN H /\ s.open[1].line \in Nat \ {0}
    BY <2>2 DEF Spots
  <2>4. H[s.open[1].header] \in Seq(Lines)
    BY <1>3, <2>3 DEF IsHeaders
  <2>5. s.open[1].line \in DOMAIN H[s.open[1].header]
    BY <2>1, <2>3, <2>4
  <2>6. TheLine = H[s.open[1].header][s.open[1].line]
    BY <1>1 DEF TheLine, Top, Include
  <2>7. TheLine \in Lines
    BY <2>4, <2>5, <2>6, SeqItems
  <2> QED BY <2>1, <2>2, <2>4, <2>5, <2>6, <2>7
<1>10. CASE Inline
  <2>1. Reading /\ TheLine.kind = "include"
    BY <1>10 DEF Inline
  <2>2. /\ s.open # <<>> /\ s.open[1].line \in DOMAIN H[s.open[1].header]
        /\ TheLine = H[s.open[1].header][s.open[1].line]
    BY <1>9, <2>1
  <2>3. CASE TheLine.to \notin DOMAIN H
    <3>1. Returns("not found")
      BY <1>1, <1>10, <2>3, ZenonT(60) DEF Inline, Include
    <3> QED BY <1>6, <3>1 DEF Returns
  <2>4. CASE TheLine.to \in DOMAIN H /\ TheLine.to \in s.visited
    <3> DEFINE t == [s EXCEPT !.open = Onwards(s.open)]
    <3>1. ScriptInv(H, E, t)
      BY <1>3, <2>1, <2>2, <2>4, LineIsPassed, Zenon
    <3>2. Goes(t)
      BY <1>1, <1>10, <2>4 DEF Inline, Include
    <3> HIDE DEF t
    <3> QED BY <1>1, <1>7, <3>1, <3>2
  <2>5. CASE TheLine.to \in DOMAIN H /\ TheLine.to \notin s.visited
    <3>1. PICK g \in DOMAIN H : g = TheLine.to
      BY <2>5, SMTT(40)
    <3> DEFINE t == [s EXCEPT !.open = <<[header |-> g, line |-> 1]>> \o Onwards(s.open),
                              !.visited = s.visited \cup {g}]
    <3>2. ScriptInv(H, E, t)
      BY <1>3, <2>1, <2>2, <2>5, <3>1, HeaderIsOpened, ZenonT(60)
    <3>3. Goes(t)
      BY <1>1, <1>10, <2>5, <3>1 DEF Inline, Include
    <3> HIDE DEF t
    <3> QED BY <1>1, <1>7, <3>2, <3>3
  <2> QED BY <2>3, <2>4, <2>5
<1>11. CASE Copy
  <2>1. Reading /\ TheLine.kind # "include"
    BY <1>11 DEF Copy
  <2>2. /\ s.open # <<>> /\ s.open[1].line \in DOMAIN H[s.open[1].header]
        /\ TheLine = H[s.open[1].header][s.open[1].line] /\ TheLine \in Lines
    BY <1>9, <2>1
  <2>3. CASE TheLine.kind = "pragma"
    <3> DEFINE t == [s EXCEPT !.open = Onwards(s.open)]
    <3>1. ScriptInv(H, E, t)
      BY <1>3, <2>1, <2>2, <2>3, LineIsPassed
    <3>2. Goes(t)
      <4>1. t = [s EXCEPT !.open = Onwards(s.open), !.out = s.out]
        BY <1>3, ZenonT(60) DEF ScriptInv, LocalsInv
      <4>2. Goes([s EXCEPT !.open = Onwards(s.open), !.out = s.out])
        BY <1>1, <1>11, <2>3 DEF Copy
      <4> QED BY <4>1, <4>2
    <3> HIDE DEF t
    <3> QED BY <1>1, <1>7, <3>1, <3>2
  <2>4. CASE TheLine.kind = "code"
    <3> DEFINE t == [s EXCEPT !.open = Onwards(s.open), !.out = Append(s.out, s.open[1])]
    <3>1. ScriptInv(H, E, t)
      BY <1>3, <2>2, <2>4, LineIsCopied, Zenon
    <3>2. Goes(t)
      BY <1>1, <1>11, <2>4 DEF Copy, Top
    <3> HIDE DEF t
    <3> QED BY <1>1, <1>7, <3>1, <3>2
  <2> QED BY <2>1, <2>2, <2>3, <2>4 DEF Lines
<1>12. CASE LeaveHeader
  <2> DEFINE t == [s EXCEPT !.open = Tail(s.open)]
  <2>1. s.open # <<>> /\ s.open[1].line > Len(H[s.open[1].header])
    BY <1>1, <1>12 DEF LeaveHeader, Top, Include
  <2>2. ScriptInv(H, E, t)
    BY <1>3, <2>1, HeaderIsLeft
  <2>3. Goes(t)
    BY <1>1, <1>12 DEF LeaveHeader
  <2> HIDE DEF t
  <2> QED BY <1>1, <1>7, <2>2, <2>3
<1>13. CASE Written
  BY <1>1, <1>3, <1>13 DEF Written, Returns
<1> QED BY <1>8, <1>10, <1>11, <1>12, <1>13 DEF AmalgamateNext

(* No step of another function is a step of the script, or changes the     *)
(* call that was made.                                                     *)
LEMMA OtherSteps ==
  ASSUME Next, ~AmalgamateNext
  PROVE  (job.function # "amalgamate" /\ job' = job) \/ UNCHANGED callVars
<1>1. CASE ReadNext
  BY <1>1 DEF ReadNext, RefuseText, TakeBase, Convert, RefuseDigit, RefuseValue, TakeDigit, Finish, Reads, Scanning,
              Runs, Goes, Returns
<1>2. CASE FormatNext
  BY <1>2 DEF FormatNext, RefuseFormat, Literally, Brace, Field, Formatted, Formats, Writing, Runs, Goes, Returns
<1>3. CASE SuggestNext
  BY <1>3 DEF SuggestNext, Finished, PassOver, Consider, Row, Compare, Skip, Suggests, Runs, Goes, Returns
<1>4. CASE HashNext
  BY <1>4 DEF HashNext, TakeEight, TakeOne, Hashed, Hashes, Runs, Goes, Returns
<1>5. CASE DateNext
  BY <1>5 DEF DateNext, parse_iso_date, parse_date_macro, parse_iso_datetime, Runs, Returns
<1>6. CASE Terminated
  BY <1>6 DEF Terminated
<1> QED BY <1>1, <1>2, <1>3, <1>4, <1>5, <1>6 DEF Next

LEMMA ScriptInvariant ==
  Spec => []AmalgamateInv
<1>1. Init => AmalgamateInv
  <2> SUFFICES ASSUME Init, job.function = "amalgamate" PROVE AmalgamateInv
    BY DEF AmalgamateInv
  <2>1. IsHeaderJob(job)
    BY JobsAssumption DEF Init
  <2>2. job.entries \in Seq(STRING)
    BY <2>1 DEF IsHeaderJob
  <2>3. st = AmalgamateStart /\ result = Running
    BY DEF Init, Start
  <2>4. ScriptInv(job.headers, job.entries, st)
    BY <2>2, <2>3, ScriptStarts
  <2> QED BY <2>1, <2>3, <2>4 DEF AmalgamateInv
<1>2. AmalgamateInv /\ [Next]_callVars => AmalgamateInv'
  <2> SUFFICES ASSUME AmalgamateInv, [Next]_callVars PROVE AmalgamateInv'
    OBVIOUS
  <2>1. CASE UNCHANGED callVars
    BY <2>1 DEF AmalgamateInv, callVars
  <2>2. CASE AmalgamateNext /\ job.function = "amalgamate"
    <3>1. /\ job' = job /\ ScriptInv(job.headers, job.entries, st')
          /\ \/ result' = Running
             \/ result' = <<"not found">>
             \/ result' = <<st'.out>> /\ st'.open = <<>> /\ st'.entry > Len(job.entries)
      BY <2>2, ScriptStep
    <3> QED BY <2>2, <3>1 DEF AmalgamateInv
  <2>3. CASE job.function # "amalgamate" /\ job' = job
    BY <2>3 DEF AmalgamateInv
  <2>4. AmalgamateNext => job.function = "amalgamate"
    BY DEF AmalgamateNext, EnterEntry, Inline, Copy, LeaveHeader, Written, Reading, Amalgamates, Runs
  <2> QED BY <2>1, <2>2, <2>3, <2>4, OtherSteps
<1> QED BY <1>1, <1>2, PTL DEF Spec

(* When the script is done: nothing is open, so all lines of what was      *)
(* visited have been gone through, and what was visited is what is needed. *)
LEMMA AllIsWritten ==
  ASSUME NEW H, IsHeaders(H), NEW E \in Seq(STRING), NEW s, ScriptInv(H, E, s), s.open = <<>>, s.entry > Len(E)
  PROVE  Range(s.out) = CodeOf(H, Needs(H, Range(E)))
<1>1. s.visited \in SUBSET DOMAIN H /\ s.out \in Seq(Spots(H)) /\ s.entry \in Nat
  BY DEF ScriptInv, LocalsInv
<1>2. \A h \in s.visited : PassedLines(H, s.open, h) = DOMAIN H[h]
  <2>1. DOMAIN s.open = {}
    OBVIOUS
  <2> QED BY <2>1 DEF PassedLines
<1>3. \A h \in s.visited : Included(H, h) \subseteq s.visited
  BY <1>2 DEF ScriptInv, VisitedInv, Followed, Included
<1>4. Range(E) \subseteq s.visited
  <2>1. \A i \in DOMAIN E : i < s.entry
    BY <1>1
  <2> QED BY <2>1 DEF ScriptInv, VisitedInv, Range
<1>5. Needs(H, Range(E)) = s.visited
  <2>1. Needs(H, Range(E)) \subseteq s.visited
    BY <1>1, <1>3, <1>4, NeedsAreLeast
  <2> QED BY <2>1 DEF ScriptInv, VisitedInv
<1>6. ASSUME NEW c \in Range(s.out) PROVE c \in CodeOf(H, s.visited)
  <2>1. PICK i \in DOMAIN s.out : c = s.out[i]
    BY <1>6 DEF Range
  <2>2. c.header \in s.visited /\ c.line \in DOMAIN H[c.header] /\ H[c.header][c.line].kind = "code"
    BY <1>2, <2>1 DEF ScriptInv, WrittenInv
  <2>3. c \in Spots(H)
    BY <1>1, <2>1, SeqItems
  <2>4. c = [header |-> c.header, line |-> c.line]
    BY <2>3 DEF Spots
  <2> QED BY <2>2, <2>4 DEF CodeOf
<1>7. ASSUME NEW c \in CodeOf(H, s.visited) PROVE c \in Range(s.out)
  <2>1. PICK h \in s.visited : \E l \in DOMAIN H[h] : H[h][l].kind = "code" /\ c = [header |-> h, line |-> l]
    BY <1>7 DEF CodeOf
  <2>2. PICK l \in DOMAIN H[h] : H[h][l].kind = "code" /\ c = [header |-> h, line |-> l]
    BY <2>1
  <2>3. l \in PassedLines(H, s.open, h)
    BY <1>2, <2>2
  <2>4. PICK i \in DOMAIN s.out : s.out[i] = [header |-> h, line |-> l]
    BY <2>2, <2>3 DEF ScriptInv, WrittenInv
  <2> QED BY <2>2, <2>4 DEF Range
<1> QED BY <1>5, <1>6, <1>7

LEMMA InjectivePlace ==
  ASSUME NEW out, \A i, j \in DOMAIN out : out[i] = out[j] => i = j, NEW i \in DOMAIN out
  PROVE  (CHOOSE j \in DOMAIN out : out[j] = out[i]) = i
OBVIOUS

(* What HeadersOnce says of the lines that are written.                    *)
WritesOnce(H, E, out) ==
  LET place == [c \in Range(out) |-> CHOOSE i \in DOMAIN out : out[i] = c]
      before(c, k) == Needs(H, {H[c.header][k].to})
  IN  /\ IsInjective(out)
      /\ Range(out) = CodeOf(H, Needs(H, Range(E)))
      /\ \A c \in Range(out) : \A k \in 1 .. c.line - 1 :
           H[c.header][k].kind = "include" /\ c.header \notin before(c, k)
             => \A d \in CodeOf(H, before(c, k)) : place[d] < place[c]

LEMMA ScriptWritesOnce ==
  ASSUME NEW H, IsHeaders(H), NEW E \in Seq(STRING), NEW s, ScriptInv(H, E, s), s.open = <<>>, s.entry > Len(E)
  PROVE  WritesOnce(H, E, s.out)
<1>1. PICK out : out = s.out
  OBVIOUS
<1>2. \A i, j \in DOMAIN out : out[i] = out[j] => i = j
  BY <1>1 DEF ScriptInv, WrittenInv
<1>3. Range(out) = CodeOf(H, Needs(H, Range(E)))
  BY <1>1, AllIsWritten
<1> DEFINE place == [c \in Range(out) |-> CHOOSE i \in DOMAIN out : out[i] = c]
           before(c, k) == Needs(H, {H[c.header][k].to})
<1>4. ASSUME NEW c \in Range(out), NEW k \in 1 .. c.line - 1,
             H[c.header][k].kind = "include" /\ c.header \notin before(c, k),
             NEW d \in CodeOf(H, before(c, k))
      PROVE  place[d] < place[c]
  <2>1. PICK i \in DOMAIN out : c = out[i]
    BY SMTT(40) DEF Range
  <2>2. place[c] = i
    BY <1>2, <2>1, InjectivePlace, SMTT(40)
  <2>3. PICK t : t = H[c.header][k].to
    BY SMTT(40)
  <2>4. Precedes(H, out, t, i)
    BY <1>1, <1>4, <2>1, <2>3 DEF ScriptInv, TimelyInv
  <2>5. \E g \in Needs(H, {t}) : \E l \in DOMAIN H[g] : H[g][l].kind = "code" /\ d = [header |-> g, line |-> l]
    BY <1>4, <2>3 DEF CodeOf
  <2>6. PICK j \in DOMAIN out : j < i /\ out[j] = d
    <3>1. PICK g \in Needs(H, {t}) : \E l \in DOMAIN H[g] : H[g][l].kind = "code" /\ d = [header |-> g, line |-> l]
      BY <2>5
    <3>2. PICK l \in DOMAIN H[g] : H[g][l].kind = "code" /\ d = [header |-> g, line |-> l]
      BY <3>1
    <3>3. PICK j \in DOMAIN out : j < i /\ out[j] = [header |-> g, line |-> l]
      BY <2>4, <3>2 DEF Precedes
    <3> QED BY <3>2, <3>3
  <2>7. d \in Range(out) /\ place[d] = j
    <3>1. d \in Range(out)
      BY <2>6 DEF Range
    <3> QED BY <1>2, <2>6, <3>1, InjectivePlace
  <2> HIDE DEF place
  <2> QED BY <2>2, <2>6, <2>7
<1>5. IsInjective(out)
  BY <1>2 DEF IsInjective
<1> HIDE DEF place
<1>6. \A c \in Range(out) : \A k \in 1 .. c.line - 1 :
        H[c.header][k].kind = "include" /\ c.header \notin before(c, k)
          => \A d \in CodeOf(H, before(c, k)) : place[d] < place[c]
  BY <1>4
<1>7. WritesOnce(H, E, out)
  BY <1>3, <1>5, <1>6 DEF WritesOnce, place
<1> QED BY <1>1, <1>7

LEMMA ScriptIsRight ==
  AmalgamateInv => HeadersOnce
<1> SUFFICES ASSUME AmalgamateInv, Returned("amalgamate"), Answer # "not found"
             PROVE  WritesOnce(job.headers, job.entries, Answer)
  BY DEF HeadersOnce, WritesOnce, Include
<1>1. job.function = "amalgamate" /\ result # Running
  BY DEF Returned
<1>2. result # <<"not found">>
  <2> DEFINE answer == "not found"
             returned == <<answer>>
  <2>1. returned[1] = answer
    <3> HIDE DEF answer
    <3> QED OBVIOUS
  <2> HIDE DEF returned
  <2>2. result = returned => Answer = answer
    BY <2>1 DEF Answer
  <2> QED BY <2>2 DEF returned
<1>3. /\ IsHeaders(job.headers) /\ job.entries \in Seq(STRING) /\ ScriptInv(job.headers, job.entries, st)
      /\ result = <<st.out>> /\ st.open = <<>> /\ st.entry > Len(job.entries)
  BY <1>1, <1>2 DEF AmalgamateInv, IsHeaderJob, IsHeaders
<1>4. Answer = st.out
  BY <1>3 DEF Answer
<1> QED BY <1>3, <1>4, ScriptWritesOnce

(* A single header holds the code of every header that the entries need,   *)
(* once, and what a line includes stands before the code behind that line, *)
(* unless the headers include each other: for all headers, also those that *)
(* include themselves, and all entries.                                    *)
THEOREM HeadersWrittenOnce ==
  Spec => []HeadersOnce
BY ScriptInvariant, ScriptIsRight, PTL
-----------------------------------------------------------------------------
(* Induction and recursion over the naturals, for sets and functions.      *)
LEMMA NatSetInduction ==
  ASSUME NEW S, 0 \in S, \A n \in Nat : n \in S => n + 1 \in S
  PROVE  Nat \subseteq S
<1> SUFFICES ASSUME Nat \ S # {} PROVE FALSE
  OBVIOUS
<1>1. PICK m \in Nat \ S : \A n \in Nat \ S : m <= n
  BY LeastPosition
<1>2. m # 0 /\ m - 1 \in Nat /\ m - 1 \in S
  BY <1>1
<1> QED
  BY <1>1, <1>2

IsDefined(S, base, step) ==
  \E f \in [Nat -> S] : f[0] = base /\ \A n \in Nat : f[n + 1] = step[n][f[n]]

LEMMA NatRecursion ==
  ASSUME NEW S, NEW base \in S, NEW step \in [Nat -> [S -> S]]
  PROVE  IsDefined(S, base, step)
<1> DEFINE Part(n, f) == f \in [0 .. n -> S] /\ f[0] = base
                          /\ \A i \in 0 .. n - 1 : f[i + 1] = step[i][f[i]]
<1> DEFINE Have == {n \in Nat : \E f \in [0 .. n -> S] : Part(n, f)}
<1>1. 0 \in Have
  <2> DEFINE f == [i \in 0 .. 0 |-> base]
  <2>1. f \in [0 .. 0 -> S] /\ Part(0, f)
    OBVIOUS
  <2> HIDE DEF f
  <2> QED BY <2>1
<1>2. ASSUME NEW n \in Nat, n \in Have PROVE n + 1 \in Have
  <2>1. PICK f \in [0 .. n -> S] : Part(n, f)
    BY <1>2
  <2> DEFINE g == [i \in 0 .. n + 1 |-> IF i = n + 1 THEN step[n][f[n]] ELSE f[i]]
  <2>2. step[n][f[n]] \in S
    BY <2>1
  <2>3. g \in [0 .. n + 1 -> S]
    BY <2>1, <2>2
  <2>4. g[0] = base
    BY <2>1
  <2>5. ASSUME NEW i \in 0 .. n PROVE g[i + 1] = step[i][g[i]]
    <3>1. CASE i = n
      BY <3>1
    <3>2. CASE i # n
      <4>1. i \in 0 .. n - 1 /\ i + 1 \in 0 .. n + 1 /\ i + 1 # n + 1 /\ i \in 0 .. n + 1 /\ i # n + 1
        BY <3>2
      <4> QED BY <2>1, <4>1
    <3> QED BY <3>1, <3>2
  <2> HIDE DEF g
  <2>6. Part(n + 1, g)
    BY <2>3, <2>4, <2>5
  <2> QED BY <2>3, <2>6, SMTT(40)
<1>3. Nat \subseteq Have
  <2> HIDE DEF Have
  <2> QED BY <1>1, <1>2, NatSetInduction
<1>4. \A n \in Nat : \E f \in [0 .. n -> S] : Part(n, f)
  BY <1>3
<1> DEFINE p == [n \in Nat |-> CHOOSE f \in [0 .. n -> S] : Part(n, f)]
<1>5. \A n \in Nat : Part(n, p[n])
  BY <1>4
<1>6. ASSUME NEW n \in Nat PROVE p[n + 1][n] = p[n][n]
  <2> HIDE DEF p
  <2> DEFINE Agree == {i \in Nat : i <= n => p[n + 1][i] = p[n][i]}
  <2>1. 0 \in Agree
    BY <1>5
  <2>2. ASSUME NEW i \in Nat, i \in Agree PROVE i + 1 \in Agree
    <3> SUFFICES ASSUME i + 1 <= n PROVE p[n + 1][i + 1] = p[n][i + 1]
      OBVIOUS
    <3>1. i \in 0 .. n - 1 /\ i \in 0 .. (n + 1) - 1
      OBVIOUS
    <3>2. p[n + 1][i + 1] = step[i][p[n + 1][i]] /\ p[n][i + 1] = step[i][p[n][i]]
      BY <1>5, <3>1
    <3> QED BY <2>2, <3>2
  <2>3. n \in Agree
    <3> HIDE DEF Agree
    <3> QED BY <2>1, <2>2, NatSetInduction
  <2> QED BY <2>3
<1> DEFINE h == [n \in Nat |-> p[n][n]]
<1> HIDE DEF p
<1>7. \A n \in Nat : p[n][n] \in S
  <2> TAKE n \in Nat
  <2>1. p[n] \in [0 .. n -> S] /\ n \in 0 .. n
    BY <1>5
  <2> QED BY <2>1
<1>8. h[0] = base
  BY <1>5
<1>9. ASSUME NEW n \in Nat PROVE h[n + 1] = step[n][h[n]]
  <2>1. n \in 0 .. (n + 1) - 1 /\ n + 1 \in Nat
    OBVIOUS
  <2>2. p[n + 1][n + 1] = step[n][p[n + 1][n]]
    BY <1>5, <2>1
  <2>3. h[n + 1] = p[n + 1][n + 1] /\ h[n] = p[n][n]
    BY <2>1
  <2> QED BY <2>2, <2>3, <1>6
<1>10. h \in [Nat -> S]
  BY <1>7
<1> HIDE DEF h
<1> QED BY <1>8, <1>9, <1>10 DEF IsDefined

-----------------------------------------------------------------------------
(* The bits of words.                                                      *)
LEMMA DownBits ==
  ASSUME NEW a \in SUBSET Nat, NEW n \in Nat
  PROVE  Down(a, n) \in SUBSET Nat /\ \A x \in Nat : x \in Down(a, n) <=> x + n \in a
<1>1. \A b \in a : b >= n => b - n \in Nat /\ (b - n) + n = b
  OBVIOUS
<1>2. \A x \in Nat : x + n >= n /\ (x + n) - n = x
  OBVIOUS
<1> QED BY <1>1, <1>2 DEF Down

LEMMA ShiftBits ==
  ASSUME NEW a \in SUBSET Nat
  PROVE  Shift(a) \in SUBSET Nat
<1>1. k_polynomial \in SUBSET Nat
  BY DEF k_polynomial
<1>2. Down(a, 1) \in SUBSET Nat
  BY DownBits
<1> HIDE DEF k_polynomial
<1> QED BY <1>1, <1>2 DEF Shift, Xor

(* A bit other than the lowest only moves.                                 *)
LEMMA ShiftMoves ==
  ASSUME NEW x \in SUBSET Nat, NEW y \in SUBSET Nat, 0 \notin y
  PROVE  Shift(Xor(x, y)) = Xor(Shift(x), Down(y, 1))
<1> DEFINE P == IF 0 \in x THEN k_polynomial ELSE {}
<1>1. 0 \in Xor(x, y) <=> 0 \in x
  BY DEF Xor
<1>2. Xor(x, y) \in SUBSET Nat
  BY DEF Xor
<1>3. Down(Xor(x, y), 1) = Xor(Down(x, 1), Down(y, 1))
  <2>1. Down(Xor(x, y), 1) \in SUBSET Nat /\ \A z \in Nat : z \in Down(Xor(x, y), 1) <=> z + 1 \in Xor(x, y)
    BY <1>2, DownBits
  <2>2. Down(x, 1) \in SUBSET Nat /\ \A z \in Nat : z \in Down(x, 1) <=> z + 1 \in x
    BY DownBits
  <2>3. Down(y, 1) \in SUBSET Nat /\ \A z \in Nat : z \in Down(y, 1) <=> z + 1 \in y
    BY DownBits
  <2> QED BY <2>1, <2>2, <2>3 DEF Xor
<1>4. Shift(x) = Xor(Down(x, 1), P)
  BY DEF Shift
<1>5. Shift(Xor(x, y)) = Xor(Down(Xor(x, y), 1), P)
  BY <1>1 DEF Shift
<1> HIDE DEF P
<1> QED BY <1>3, <1>4, <1>5 DEF Xor

(* n shifts of a word.                                                     *)
IsShifts(a, f) == f \in [Nat -> SUBSET Nat] /\ f[0] = a /\ \A n \in Nat : f[n + 1] = Shift(f[n])
Shifts(a) == CHOOSE f \in [Nat -> SUBSET Nat] : IsShifts(a, f)

LEMMA ShiftsExist ==
  ASSUME NEW a \in SUBSET Nat
  PROVE  IsShifts(a, Shifts(a))
<1> DEFINE S == SUBSET Nat
           once == [b \in S |-> Shift(b)]
           step == [n \in Nat |-> once]
<1>1. once \in [S -> S]
  BY ShiftBits
<1>2. step \in [Nat -> [S -> S]]
  <2> HIDE DEF once
  <2> QED BY <1>1
<1>3. \A n \in Nat : \A b \in S : step[n][b] = Shift(b)
  OBVIOUS
<1> HIDE DEF step, S, once
<1>4. PICK f \in [Nat -> S] : f[0] = a /\ \A n \in Nat : f[n + 1] = step[n][f[n]]
  <2>1. a \in S
    BY DEF S
  <2>2. IsDefined(S, a, step)
    BY <1>2, <2>1, NatRecursion
  <2> QED BY <2>2 DEF IsDefined
<1>5. IsShifts(a, f)
  BY <1>3, <1>4 DEF IsShifts, S
<1> QED BY <1>4, <1>5 DEF Shifts, S

LEMMA XorBits ==
  ASSUME NEW x \in SUBSET Nat, NEW y \in SUBSET Nat
  PROVE  Xor(x, y) \in SUBSET Nat
BY DEF Xor

LEMMA ShiftsApart ==
  ASSUME NEW x \in SUBSET Nat, NEW y \in SUBSET Nat, NEW n \in Nat, \A b \in y : b >= n
  PROVE  Shifts(Xor(x, y))[n] = Xor(Shifts(x)[n], Down(y, n))
<1> DEFINE f == Shifts(Xor(x, y))
           g == Shifts(x)
           same == {i \in Nat : i <= n => f[i] = Xor(g[i], Down(y, i))}
<1>1. /\ f \in [Nat -> SUBSET Nat] /\ f[0] = Xor(x, y) /\ \A i \in Nat : f[i + 1] = Shift(f[i])
  BY ShiftsExist, XorBits DEF IsShifts
<1>2. /\ g \in [Nat -> SUBSET Nat] /\ g[0] = x /\ \A i \in Nat : g[i + 1] = Shift(g[i])
  BY ShiftsExist DEF IsShifts
<1> HIDE DEF f, g
<1>3. 0 \in same
  <2>1. Down(y, 0) = y
    <3>1. 0 \in Nat /\ \A z \in Nat : z + 0 = z
      OBVIOUS
    <3>2. Down(y, 0) \in SUBSET Nat /\ \A z \in Nat : z \in Down(y, 0) <=> z + 0 \in y
      BY <3>1, DownBits
    <3> QED BY <3>1, <3>2
  <2> QED BY <1>1, <1>2, <2>1
<1>4. ASSUME NEW i \in Nat, i \in same PROVE i + 1 \in same
  <2> SUFFICES ASSUME i + 1 <= n PROVE f[i + 1] = Xor(g[i + 1], Down(y, i + 1))
    OBVIOUS
  <2>1. f[i] = Xor(g[i], Down(y, i))
    BY <1>4
  <2>2. Down(y, i) \in SUBSET Nat /\ \A z \in Nat : z \in Down(y, i) <=> z + i \in y
    BY DownBits
  <2>3. 0 \notin Down(y, i)
    BY <2>2
  <2>4. Shift(Xor(g[i], Down(y, i))) = Xor(Shift(g[i]), Down(Down(y, i), 1))
    <3>1. g[i] \in SUBSET Nat
      BY <1>2
    <3> QED BY <2>2, <2>3, <3>1, ShiftMoves
  <2>5. Down(Down(y, i), 1) = Down(y, i + 1)
    <3>1. Down(Down(y, i), 1) \in SUBSET Nat /\ \A z \in Nat : z \in Down(Down(y, i), 1) <=> z + 1 \in Down(y, i)
      BY <2>2, DownBits
    <3>2. Down(y, i + 1) \in SUBSET Nat /\ \A z \in Nat : z \in Down(y, i + 1) <=> z + (i + 1) \in y
      <4>1. i + 1 \in Nat
        OBVIOUS
      <4> HIDE DEF same
      <4> QED BY <4>1, DownBits
    <3>3. \A z \in Nat : z + 1 \in Nat /\ (z + 1) + i = z + (i + 1)
      OBVIOUS
    <3> QED BY <2>2, <3>1, <3>2, <3>3
  <2> QED BY <1>1, <1>2, <2>1, <2>4, <2>5
<1> HIDE DEF same
<1>5. n \in same
  BY <1>3, <1>4, NatSetInduction
<1> QED BY <1>5 DEF same, f, g

LEMMA ShiftsAdd ==
  ASSUME NEW a \in SUBSET Nat, NEW m \in Nat, NEW n \in Nat
  PROVE  Shifts(Shifts(a)[m])[n] = Shifts(a)[m + n]
<1> DEFINE g == Shifts(a)
           f == Shifts(g[m])
           same == {i \in Nat : f[i] = g[m + i]}
<1>1. g \in [Nat -> SUBSET Nat] /\ \A i \in Nat : g[i + 1] = Shift(g[i])
  BY ShiftsExist DEF IsShifts
<1> HIDE DEF g
<1>2. g[m] \in SUBSET Nat
  BY <1>1
<1>3. f[0] = g[m] /\ \A i \in Nat : f[i + 1] = Shift(f[i])
  BY <1>2, ShiftsExist DEF IsShifts
<1> HIDE DEF f
<1>4. 0 \in same
  BY <1>3
<1>5. ASSUME NEW i \in Nat, i \in same PROVE i + 1 \in same
  <2>1. m + i \in Nat /\ (m + i) + 1 = m + (i + 1)
    OBVIOUS
  <2> QED BY <1>1, <1>3, <1>5, <2>1
<1> HIDE DEF same
<1>6. n \in same
  BY <1>4, <1>5, NatSetInduction
<1> QED BY <1>6 DEF same, f, g

(* The table and the instruction both shift.                               *)
IsLoop(f, n, a) == f = [i \in 0 .. n |-> IF i = 0 THEN a ELSE Shift(f[i - 1])]

LEMMA LoopIsShifts ==
  ASSUME NEW a \in SUBSET Nat, NEW n \in Nat
  PROVE  (CHOOSE f : IsLoop(f, n, a))[n] = Shifts(a)[n]
<1>1. Shifts(a) \in [Nat -> SUBSET Nat] /\ Shifts(a)[0] = a /\ \A i \in Nat : Shifts(a)[i + 1] = Shift(Shifts(a)[i])
  BY ShiftsExist DEF IsShifts
<1>2. IsLoop([i \in 0 .. n |-> Shifts(a)[i]], n, a)
  <2> DEFINE g == [i \in 0 .. n |-> Shifts(a)[i]]
  <2>1. ASSUME NEW i \in 0 .. n PROVE g[i] = IF i = 0 THEN a ELSE Shift(g[i - 1])
    <3>1. CASE i = 0
      BY <1>1, <3>1
    <3>2. CASE i # 0
      <4>1. i - 1 \in Nat /\ i - 1 \in 0 .. n /\ (i - 1) + 1 = i
        BY <3>2
      <4>2. Shifts(a)[i] = Shift(Shifts(a)[i - 1])
        BY <1>1, <4>1
      <4> QED BY <3>2, <4>1, <4>2
    <3> QED BY <3>1, <3>2
  <2>2. g = [i \in 0 .. n |-> g[i]]
    OBVIOUS
  <2> HIDE DEF g
  <2>3. g = [i \in 0 .. n |-> IF i = 0 THEN a ELSE Shift(g[i - 1])]
    BY <2>1, <2>2
  <2> QED BY <2>3 DEF IsLoop, g
<1>3. PICK f : f = (CHOOSE h : IsLoop(h, n, a)) /\ IsLoop(f, n, a)
  BY <1>2
<1>4. /\ DOMAIN f = 0 .. n /\ \A i \in 0 .. n : f[i] = IF i = 0 THEN a ELSE Shift(f[i - 1])
  BY <1>3 DEF IsLoop
<1>5. f[0] = a /\ \A i \in 1 .. n : f[i] = Shift(f[i - 1])
  BY <1>4
<1> DEFINE same == {i \in Nat : i <= n => f[i] = Shifts(a)[i]}
<1>6. 0 \in same
  BY <1>1, <1>5
<1>7. ASSUME NEW i \in Nat, i \in same PROVE i + 1 \in same
  <2> SUFFICES ASSUME i + 1 <= n PROVE f[i + 1] = Shifts(a)[i + 1]
    OBVIOUS
  <2>1. i + 1 \in 1 .. n /\ (i + 1) - 1 = i /\ i <= n
    OBVIOUS
  <2>2. f[i + 1] = Shift(f[i])
    BY <1>5, <2>1
  <2>3. f[i] = Shifts(a)[i]
    BY <1>7, <2>1
  <2> QED BY <1>1, <2>2, <2>3
<1> HIDE DEF same
<1>8. n \in same
  BY <1>6, <1>7, NatSetInduction
<1> QED BY <1>3, <1>8 DEF same

LEMMA TableShifts ==
  ASSUME NEW b \in SUBSET (0 .. 7)
  PROVE  k_table[b] = Shifts(b)[8]
<1>1. b \in SUBSET Nat /\ 8 \in Nat
  OBVIOUS
<1>2. k_table[b] = (CHOOSE f : IsLoop(f, 8, b))[8]
  BY DEF k_table, IsLoop
<1> QED BY <1>1, <1>2, LoopIsShifts

LEMMA SamePolynomial == Castagnoli = k_polynomial
<1> DEFINE P == {28, 27, 26, 25, 23, 22, 20, 19, 18, 14, 13, 11, 10, 9, 8, 6, 0}
<1>1. ASSUME NEW b \in k_polynomial PROVE b \in Int /\ 31 - b \in P /\ 31 - (31 - b) = b
  BY DEF k_polynomial
<1>2. ASSUME NEW p \in P PROVE 31 - p \in k_polynomial
  BY DEF k_polynomial
<1>3. Castagnoli = {31 - p : p \in P}
  BY DEF Castagnoli
<1> HIDE DEF P
<1> QED BY <1>1, <1>2, <1>3

LEMMA InstructionShifts ==
  ASSUME NEW crc \in SUBSET Nat, NEW word \in SUBSET Nat, NEW n \in Nat
  PROVE  crc32_instruction(crc, word, n) = Shifts(Xor(crc, word))[n]
<1>1. crc32_instruction(crc, word, n) = (CHOOSE f : IsLoop(f, n, Xor(crc, word)))[n]
  BY SamePolynomial DEF crc32_instruction, IsLoop, Shift
<1>2. Xor(crc, word) \in SUBSET Nat
  BY XorBits
<1> QED BY <1>1, <1>2, LoopIsShifts

(* A byte by table is eight shifts of the word with the byte in it; so is  *)
(* a byte that stands in front of others.                                  *)
LEMMA ByteBits ==
  ASSUME NEW byte
  PROVE  Bits(byte) \in SUBSET (0 .. 7) /\ Bits(byte) \in SUBSET Nat
BY DEF Bits

LEMMA UpdateShifts ==
  ASSUME NEW crc \in SUBSET Nat, NEW byte
  PROVE  update_byte(crc, byte) = Shifts(Xor(crc, Bits(byte)))[8] /\ update_byte(crc, byte) \in SUBSET Nat
<1> DEFINE B == Bits(byte)
           a == Xor(crc, B)
           x == Low(a, 8)
           y == a \ x
<1>1. B \in SUBSET (0 .. 7) /\ B \in SUBSET Nat
  BY ByteBits
<1> HIDE DEF B
<1>2. a \in SUBSET Nat /\ \A z \in Nat : z >= 8 => (z \in a <=> z \in crc)
  BY <1>1 DEF Xor
<1>3. update_byte(crc, byte) = Xor(Down(crc, 8), k_table[x])
  BY DEF update_byte, B
<1> HIDE DEF a
<1>4. x \in SUBSET (0 .. 7) /\ x \in SUBSET Nat /\ \A b \in a : b < 8 <=> b \in x
  <2>1. x = {b \in a : b < 8}
    BY DEF Low
  <2> HIDE DEF x
  <2>2. \A b \in x : b \in a /\ b \in Nat /\ b < 8
    BY <1>2, <2>1
  <2>3. \A b \in x : b \in 0 .. 7
    BY <2>2
  <2> QED BY <2>1, <2>2, <2>3
<1> HIDE DEF x
<1>5. y \in SUBSET Nat /\ (\A b \in y : b >= 8) /\ \A z \in Nat : z >= 8 => (z \in y <=> z \in crc)
  BY <1>2, <1>4
<1>6. a = Xor(x, y)
  <2>1. x \in SUBSET a
    BY DEF x, Low
  <2> QED BY <2>1 DEF Xor
<1> HIDE DEF y
<1>7. Shifts(a)[8] = Xor(Shifts(x)[8], Down(y, 8))
  BY <1>4, <1>5, <1>6, ShiftsApart
<1>8. Down(y, 8) = Down(crc, 8)
  <2>1. Down(y, 8) \in SUBSET Nat /\ \A z \in Nat : z \in Down(y, 8) <=> z + 8 \in y
    BY <1>5, DownBits
  <2>2. Down(crc, 8) \in SUBSET Nat /\ \A z \in Nat : z \in Down(crc, 8) <=> z + 8 \in crc
    BY DownBits
  <2>3. \A z \in Nat : z + 8 \in Nat /\ z + 8 >= 8
    OBVIOUS
  <2> QED BY <1>5, <2>1, <2>2, <2>3
<1>9. k_table[x] = Shifts(x)[8]
  BY <1>4, TableShifts
<1>10. update_byte(crc, byte) = Shifts(a)[8]
  BY <1>3, <1>7, <1>8, <1>9 DEF Xor
<1>11. Shifts(a) \in [Nat -> SUBSET Nat]
  BY <1>2, ShiftsExist DEF IsShifts
<1> QED BY <1>10, <1>11 DEF a, B

LEMMA ByteTaken ==
  ASSUME NEW crc \in SUBSET Nat, NEW t \in SUBSET Nat, NEW byte, Low(t, 8) = Bits(byte)
  PROVE  Shifts(Xor(crc, t))[8] = Xor(update_byte(crc, byte), Down(t, 8))
<1> DEFINE B == Bits(byte)
           x == Xor(crc, B)
           y == t \ B
<1>1. B \in SUBSET Nat /\ B \in SUBSET (0 .. 7) /\ B \subseteq t
  BY ByteBits DEF Low
<1>2. update_byte(crc, byte) = Shifts(x)[8]
  BY UpdateShifts
<1>3. B = Low(t, 8)
  OBVIOUS
<1> HIDE DEF B
<1>4. x \in SUBSET Nat /\ y \in SUBSET Nat
  BY <1>1, XorBits
<1>5. \A b \in y : b >= 8
  BY <1>3 DEF Low
<1>6. Xor(crc, t) = Xor(x, y)
  BY <1>1 DEF Xor
<1>7. \A z \in Nat : z + 8 \in y <=> z + 8 \in t
  BY <1>1
<1> HIDE DEF x, y
<1>8. Shifts(Xor(crc, t))[8] = Xor(Shifts(x)[8], Down(y, 8))
  BY <1>4, <1>5, <1>6, ShiftsApart
<1>9. Down(y, 8) = Down(t, 8)
  <2>1. Down(y, 8) \in SUBSET Nat /\ \A z \in Nat : z \in Down(y, 8) <=> z + 8 \in y
    BY <1>4, DownBits
  <2>2. Down(t, 8) \in SUBSET Nat /\ \A z \in Nat : z \in Down(t, 8) <=> z + 8 \in t
    BY DownBits
  <2> QED BY <1>7, <2>1, <2>2
<1> QED BY <1>2, <1>8, <1>9

(* The hash of the compiler after each byte.                               *)
IsHash(f, key, seed) ==
  f = [i \in 0 .. Len(key) |-> IF i = 0 THEN seed ELSE update_byte(f[i - 1], key[i])]
HashAfter(key, seed) == CHOOSE f : IsHash(f, key, seed)

LEMMA HashesExist ==
  ASSUME NEW key \in Seq(0 .. 255), NEW seed \in SUBSET Nat
  PROVE  /\ HashAfter(key, seed)[0] = seed
         /\ \A i \in 0 .. Len(key) : HashAfter(key, seed)[i] \in SUBSET Nat
         /\ \A i \in 1 .. Len(key) : HashAfter(key, seed)[i] = update_byte(HashAfter(key, seed)[i - 1], key[i])
         /\ hash_software(key, seed) = HashAfter(key, seed)[Len(key)]
<1>0. Len(key) \in Nat
  OBVIOUS
<1> DEFINE S == SUBSET Nat
           step == [n \in Nat |-> [a \in S |-> update_byte(a, key[n + 1])]]
<1>1. step \in [Nat -> [S -> S]] /\ \A n \in Nat : \A a \in S : step[n][a] = update_byte(a, key[n + 1])
  BY UpdateShifts
<1> HIDE DEF step, S
<1>2. PICK f \in [Nat -> S] : f[0] = seed /\ \A n \in Nat : f[n + 1] = step[n][f[n]]
  <2>1. seed \in S
    BY DEF S
  <2>2. IsDefined(S, seed, step)
    BY <1>1, <2>1, NatRecursion
  <2> QED BY <2>2 DEF IsDefined
<1> DEFINE g == [i \in 0 .. Len(key) |-> f[i]]
<1>3. ASSUME NEW i \in 0 .. Len(key) PROVE g[i] = IF i = 0 THEN seed ELSE update_byte(g[i - 1], key[i])
  <2>1. CASE i = 0
    BY <1>2, <2>1
  <2>2. CASE i # 0
    <3>1. i - 1 \in Nat /\ i - 1 \in 0 .. Len(key) /\ (i - 1) + 1 = i
      BY <1>0, <2>2
    <3>2. f[i] = update_byte(f[i - 1], key[i])
      BY <1>1, <1>2, <3>1
    <3> QED BY <2>2, <3>1, <3>2
  <2> QED BY <2>1, <2>2
<1>4. IsHash(g, key, seed)
  <2>1. g = [i \in 0 .. Len(key) |-> g[i]]
    OBVIOUS
  <2> HIDE DEF g
  <2> QED BY <1>3, <2>1 DEF IsHash
<1>5. PICK h : h = HashAfter(key, seed) /\ IsHash(h, key, seed)
  BY <1>4 DEF HashAfter
<1>6. \A i \in 0 .. Len(key) : h[i] = IF i = 0 THEN seed ELSE update_byte(h[i - 1], key[i])
  BY <1>5 DEF IsHash
<1>7. h[0] = seed
  BY <1>0, <1>6
<1>8. \A i \in 1 .. Len(key) : h[i] = update_byte(h[i - 1], key[i])
  BY <1>6
<1> DEFINE words == {i \in Nat : i <= Len(key) => h[i] \in SUBSET Nat}
<1>9. 0 \in words
  BY <1>7
<1>10. ASSUME NEW i \in Nat, i \in words PROVE i + 1 \in words
  <2> SUFFICES ASSUME i + 1 <= Len(key) PROVE h[i + 1] \in SUBSET Nat
    OBVIOUS
  <2>1. i + 1 \in 1 .. Len(key) /\ (i + 1) - 1 = i /\ i <= Len(key)
    BY <1>0
  <2>2. h[i + 1] = update_byte(h[i], key[i + 1])
    BY <1>8, <2>1
  <2>3. h[i] \in SUBSET Nat
    BY <1>10, <2>1
  <2> QED BY <2>2, <2>3, UpdateShifts
<1> HIDE DEF words
<1>11. Nat \subseteq words
  BY <1>9, <1>10, NatSetInduction
<1>12. \A i \in 0 .. Len(key) : h[i] \in SUBSET Nat
  BY <1>0, <1>11 DEF words
<1>13. hash_software(key, seed) = HashAfter(key, seed)[Len(key)]
  BY DEF hash_software, HashAfter, IsHash
<1> QED BY <1>5, <1>7, <1>8, <1>12, <1>13

(* Eight bytes in one word: the next of them is in front, and eight shifts *)
(* take it.                                                                *)
LEMMA ChunkBits ==
  ASSUME NEW key \in Seq(0 .. 255), NEW i \in Nat
  PROVE  /\ Chunk(key, i) \in SUBSET Nat
         /\ \A z \in Nat : z \in Chunk(key, i) <=> \E j \in 0 .. 7 : \E b \in Bits(key[i + 1 + j]) : z = b + 8 * j
<1>1. \A j \in 0 .. 7 : Bits(key[i + 1 + j]) \in SUBSET Nat
  BY ByteBits
<1>2. \A j \in 0 .. 7 : Up(Bits(key[i + 1 + j]), 8 * j) \in SUBSET Nat
  BY <1>1, SMTT(40) DEF Up
<1>3. \A z : z \in Chunk(key, i) <=> \E j \in 0 .. 7 : z \in Up(Bits(key[i + 1 + j]), 8 * j)
  BY DEF Chunk
<1>4. \A z : \A j \in 0 .. 7 : z \in Up(Bits(key[i + 1 + j]), 8 * j) <=> \E b \in Bits(key[i + 1 + j]) : z = b + 8 * j
  BY DEF Up
<1> QED BY <1>2, <1>3, <1>4

LEMMA ChunkFront ==
  ASSUME NEW key \in Seq(0 .. 255), NEW i \in Nat, NEW j \in 0 .. 7
  PROVE  Low(Down(Chunk(key, i), 8 * j), 8) = Bits(key[i + 1 + j])
<1> DEFINE t == Chunk(key, i)
           B == Bits(key[i + 1 + j])
<1>1. 8 * j \in Nat
  OBVIOUS
<1>2. t \in SUBSET Nat
  BY ChunkBits
<1>3. \A m \in 0 .. 7 : \A b \in Bits(key[i + 1 + m]) : b \in 0 .. 7
  BY ByteBits
<1>4. Down(t, 8 * j) \in SUBSET Nat /\ \A z \in Nat : z \in Down(t, 8 * j) <=> z + 8 * j \in t
  BY <1>1, <1>2, DownBits
<1>5. ASSUME NEW z \in Nat, z < 8, z + 8 * j \in t PROVE z \in B
  <2>1. PICK m \in 0 .. 7 : \E b \in Bits(key[i + 1 + m]) : z + 8 * j = b + 8 * m
    <3>1. z + 8 * j \in Nat
      BY <1>1
    <3> QED BY <1>5, <3>1, ChunkBits
  <2>2. PICK b \in Bits(key[i + 1 + m]) : z + 8 * j = b + 8 * m
    BY <2>1
  <2>3. b \in 0 .. 7
    BY <1>3
  <2>4. m = j /\ b = z
    BY <1>5, <2>2, <2>3
  <2> QED BY <2>2, <2>4
<1>6. ASSUME NEW z \in B PROVE z \in Nat /\ z < 8 /\ z + 8 * j \in t
  <2>1. z \in 0 .. 7
    BY <1>3
  <2>2. z + 8 * j \in Nat
    BY <1>1, <2>1
  <2>3. \E m \in 0 .. 7 : \E b \in Bits(key[i + 1 + m]) : z + 8 * j = b + 8 * m
    OBVIOUS
  <2>4. z + 8 * j \in t
    BY <2>2, <2>3, ChunkBits
  <2> QED BY <2>1, <2>4
<1> HIDE DEF t, B
<1> QED BY <1>4, <1>5, <1>6 DEF Low, t, B

LEMMA ChunkEnds ==
  ASSUME NEW key \in Seq(0 .. 255), NEW i \in Nat
  PROVE  Down(Chunk(key, i), 64) = {}
<1>1. Chunk(key, i) \in SUBSET Nat
  BY ChunkBits
<1>2. Down(Chunk(key, i), 64) \in SUBSET Nat /\ \A z \in Nat : z \in Down(Chunk(key, i), 64) <=> z + 64 \in Chunk(key, i)
  <2>1. 64 \in Nat
    OBVIOUS
  <2> QED BY <1>1, <2>1, DownBits
<1>3. ASSUME NEW z \in Nat, z + 64 \in Chunk(key, i) PROVE FALSE
  <2>1. z + 64 \in Nat
    OBVIOUS
  <2>2. PICK m \in 0 .. 7 : \E b \in Bits(key[i + 1 + m]) : z + 64 = b + 8 * m
    BY <1>3, <2>1, ChunkBits
  <2>3. PICK b \in Bits(key[i + 1 + m]) : z + 64 = b + 8 * m
    BY <2>2
  <2>4. b \in 0 .. 7
    BY ByteBits
  <2> QED BY <2>3, <2>4
<1> QED BY <1>2, <1>3

LEMMA EightAreTaken ==
  ASSUME NEW key \in Seq(0 .. 255), NEW seed \in SUBSET Nat, NEW i \in Nat, i + 8 <= Len(key)
  PROVE  crc32_instruction(HashAfter(key, seed)[i], Chunk(key, i), 64) = HashAfter(key, seed)[i + 8]
<1> DEFINE h == HashAfter(key, seed)
           t == Chunk(key, i)
           a == Xor(h[i], t)
           Reached(j) == Shifts(a)[8 * j] = Xor(h[i + j], Down(t, 8 * j))
<1>1. /\ \A k \in 0 .. Len(key) : h[k] \in SUBSET Nat
      /\ \A k \in 1 .. Len(key) : h[k] = update_byte(h[k - 1], key[k])
  BY HashesExist
<1>2. t \in SUBSET Nat
  BY ChunkBits
<1>3. \A j \in 0 .. 8 : i + j \in 0 .. Len(key) /\ 8 * j \in Nat
  OBVIOUS
<1>4. h[i] \in SUBSET Nat
  <2>1. i \in 0 .. Len(key)
    OBVIOUS
  <2> QED BY <1>1, <2>1
<1> HIDE DEF h
<1>5. a \in SUBSET Nat
  BY <1>2, <1>4, XorBits
<1>6. Reached(0)
  <2>1. Down(t, 0) = t
    <3>1. 0 \in Nat /\ \A z \in Nat : z + 0 = z
      OBVIOUS
    <3>2. Down(t, 0) \in SUBSET Nat /\ \A z \in Nat : z \in Down(t, 0) <=> z + 0 \in t
      BY <1>2, <3>1, DownBits
    <3> QED BY <1>2, <3>1, <3>2
  <2>2. Shifts(a)[0] = a
    BY <1>5, ShiftsExist DEF IsShifts
  <2>3. 8 * 0 = 0 /\ i + 0 = i
    OBVIOUS
  <2> QED BY <2>1, <2>2, <2>3
<1>7. ASSUME NEW j \in 0 .. 7, Reached(j) PROVE Reached(j + 1)
  <2> DEFINE c == h[i + j]
             u == Down(t, 8 * j)
             byte == key[i + 1 + j]
  <2>1. c \in SUBSET Nat
    BY <1>1, <1>3, SMTT(40)
  <2>2. u \in SUBSET Nat /\ \A z \in Nat : z \in u <=> z + 8 * j \in t
    <3>1. PICK n \in Nat : n = 8 * j
      OBVIOUS
    <3>2. Down(t, n) \in SUBSET Nat /\ \A z \in Nat : z \in Down(t, n) <=> z + n \in t
      BY <1>2, DownBits
    <3> QED BY <3>1, <3>2
  <2>3. Low(u, 8) = Bits(byte)
    BY ChunkFront DEF t
  <2>4. h[i + (j + 1)] = update_byte(c, byte)
    <3>1. i + (j + 1) \in 1 .. Len(key) /\ (i + (j + 1)) - 1 = i + j /\ i + (j + 1) = i + 1 + j
      OBVIOUS
    <3> QED BY <1>1, <3>1
  <2>5. Shifts(a)[8 * (j + 1)] = Shifts(Shifts(a)[8 * j])[8]
    <3>1. 8 * j \in Nat /\ 8 \in Nat /\ 8 * (j + 1) = 8 * j + 8
      OBVIOUS
    <3> QED BY <1>5, <3>1, ShiftsAdd
  <2>6. Shifts(a)[8 * j] = Xor(c, u)
    BY <1>7
  <2>7. Down(u, 8) = Down(t, 8 * (j + 1))
    <3>1. 8 * j + 8 = 8 * (j + 1) /\ 8 * (j + 1) \in Nat /\ 8 \in Nat
      OBVIOUS
    <3>2. Down(u, 8) \in SUBSET Nat /\ \A z \in Nat : z \in Down(u, 8) <=> z + 8 \in u
      BY <2>2, <3>1, DownBits
    <3>3. Down(t, 8 * (j + 1)) \in SUBSET Nat /\ \A z \in Nat : z \in Down(t, 8 * (j + 1)) <=> z + 8 * (j + 1) \in t
      BY <1>2, <3>1, DownBits
    <3>4. \A z \in Nat : z + 8 \in Nat /\ (z + 8) + 8 * j = z + 8 * (j + 1)
      OBVIOUS
    <3> QED BY <2>2, <3>2, <3>3, <3>4
  <2> HIDE DEF c, u, byte
  <2>8. Shifts(Xor(c, u))[8] = Xor(update_byte(c, byte), Down(u, 8))
    BY <2>1, <2>2, <2>3, ByteTaken
  <2> QED BY <2>4, <2>5, <2>6, <2>7, <2>8
<1> HIDE DEF Reached
<1>8. Reached(8)
  <2>1. Reached(1) BY <1>6, <1>7
  <2>2. Reached(2) BY <2>1, <1>7
  <2>3. Reached(3) BY <2>2, <1>7
  <2>4. Reached(4) BY <2>3, <1>7
  <2>5. Reached(5) BY <2>4, <1>7
  <2>6. Reached(6) BY <2>5, <1>7
  <2>7. Reached(7) BY <2>6, <1>7
  <2> QED BY <2>7, <1>7
<1>9. Shifts(a)[64] = Xor(h[i + 8], Down(t, 64))
  BY <1>8 DEF Reached
<1>10. Xor(h[i + 8], Down(t, 64)) = h[i + 8]
  <2>1. Down(t, 64) = {}
    BY ChunkEnds
  <2> QED BY <2>1 DEF Xor
<1>11. crc32_instruction(h[i], t, 64) = Shifts(a)[64]
  <2>1. 64 \in Nat
    OBVIOUS
  <2> QED BY <1>2, <1>4, <2>1, InstructionShifts
<1> QED BY <1>9, <1>10, <1>11 DEF h
-----------------------------------------------------------------------------
(* What has been hashed so far is what the compiler has after as many      *)
(* bytes.                                                                  *)
HashInv ==
  job.function = "hash_impl" =>
    /\ IsHashJob(job)
    /\ st \in [i : 0 .. Len(job.key), crc : SUBSET Nat]
    /\ st.crc = HashAfter(job.key, job.seed)[st.i]
    /\ result = Running \/ (result = <<st.crc>> /\ st.i = Len(job.key))

LEMMA HashJob ==
  ASSUME NEW j, IsHashJob(j)
  PROVE  /\ j.key \in Seq(0 .. 255) /\ Len(j.key) \in Nat
         /\ j.seed \in SUBSET (0 .. 31) /\ j.seed \in SUBSET Nat
<1>1. j.key \in Seq(0 .. 255) /\ j.seed \in SUBSET (0 .. 31)
  BY DEF IsHashJob
<1>2. Len(j.key) \in Nat
  BY <1>1
<1>3. 0 .. 31 \subseteq Nat
  OBVIOUS
<1>4. j.seed \in SUBSET Nat
  <2> HIDE DEF IsHashJob
  <2> QED BY <1>1, <1>3, Zenon
<1> QED BY <1>1, <1>2, <1>4

LEMMA HashStep ==
  ASSUME job.function = "hash_impl", HashInv, HashNext
  PROVE  /\ job' = job
         /\ st' \in [i : 0 .. Len(job.key), crc : SUBSET Nat]
         /\ st'.crc = HashAfter(job.key, job.seed)[st'.i]
         /\ result' = Running \/ (result' = <<st'.crc>> /\ st'.i = Len(job.key))
<1>1. PICK key, seed, i, crc : key = job.key /\ seed = job.seed /\ i = st.i /\ crc = st.crc
  OBVIOUS
<1>2. result = Running
  BY DEF HashNext, TakeEight, TakeOne, Hashed, Hashes, Runs
<1>3. /\ key \in Seq(0 .. 255) /\ seed \in SUBSET (0 .. 31) /\ seed \in SUBSET Nat
      /\ i \in 0 .. Len(key) /\ crc \in SUBSET Nat /\ crc = HashAfter(key, seed)[i]
  <2>1. IsHashJob(job)
    BY DEF HashInv
  <2>2. key \in Seq(0 .. 255) /\ seed \in SUBSET (0 .. 31) /\ seed \in SUBSET Nat
    BY <1>1, <2>1, HashJob
  <2>3. i \in 0 .. Len(key) /\ crc \in SUBSET Nat /\ crc = HashAfter(key, seed)[i]
    BY <1>1 DEF HashInv
  <2> QED BY <2>2, <2>3
<1>4. Len(key) \in Nat
  BY <1>3
<1>5. \A k \in 0 .. Len(key) : HashAfter(key, seed)[k] \in SUBSET Nat
  BY <1>3, HashesExist
<1>6. ASSUME NEW k \in 0 .. Len(key), Goes([i |-> k, crc |-> HashAfter(key, seed)[k]])
      PROVE  /\ job' = job
             /\ st' \in [i : 0 .. Len(key), crc : SUBSET Nat]
             /\ st'.crc = HashAfter(key, seed)[st'.i] /\ result' = Running
  BY <1>2, <1>5, <1>6 DEF Goes
<1>7. CASE TakeEight
  <2>1. i + 8 <= Len(key) /\ Goes([i |-> i + 8, crc |-> crc32_instruction(crc, Chunk(key, i), 64)])
    BY <1>1, <1>7 DEF TakeEight
  <2>2. i \in Nat /\ i + 8 \in 0 .. Len(key)
    BY <1>3, <1>4, <2>1
  <2>3. crc32_instruction(crc, Chunk(key, i), 64) = HashAfter(key, seed)[i + 8]
    BY <1>3, <2>1, <2>2, EightAreTaken
  <2> QED BY <1>1, <1>6, <2>1, <2>2, <2>3
<1>8. CASE TakeOne
  <2>1. i < Len(key) /\ Goes([i |-> i + 1, crc |-> crc32_instruction(crc, Bits(key[i + 1]), 8)])
    BY <1>1, <1>8 DEF TakeOne
  <2>2. i + 1 \in 1 .. Len(key) /\ i + 1 \in 0 .. Len(key) /\ (i + 1) - 1 = i
    BY <1>3, <1>4, <2>1
  <2>3. HashAfter(key, seed)[i + 1] = update_byte(crc, key[i + 1])
    <3>1. \A k \in 1 .. Len(key) : HashAfter(key, seed)[k] = update_byte(HashAfter(key, seed)[k - 1], key[k])
      BY <1>3, HashesExist
    <3> QED BY <1>3, <2>2, <3>1
  <2>4. crc32_instruction(crc, Bits(key[i + 1]), 8) = Shifts(Xor(crc, Bits(key[i + 1])))[8]
    <3>1. 8 \in Nat /\ Bits(key[i + 1]) \in SUBSET Nat
      BY ByteBits
    <3> QED BY <1>3, <3>1, InstructionShifts
  <2>5. update_byte(crc, key[i + 1]) = Shifts(Xor(crc, Bits(key[i + 1])))[8]
    BY <1>3, UpdateShifts
  <2> QED BY <1>1, <1>6, <2>1, <2>2, <2>3, <2>4, <2>5
<1>9. CASE Hashed
  BY <1>1, <1>9 DEF Hashed, Returns, HashInv
<1> QED BY <1>1, <1>7, <1>8, <1>9 DEF HashNext

LEMMA NotHashSteps ==
  ASSUME Next, ~HashNext
  PROVE  (job.function # "hash_impl" /\ job' = job) \/ UNCHANGED callVars
<1>1. CASE ReadNext
  BY <1>1 DEF ReadNext, RefuseText, TakeBase, Convert, RefuseDigit, RefuseValue, TakeDigit, Finish, Reads, Scanning,
              Runs, Goes, Returns
<1>2. CASE FormatNext
  BY <1>2 DEF FormatNext, RefuseFormat, Literally, Brace, Field, Formatted, Formats, Writing, Runs, Goes, Returns
<1>3. CASE SuggestNext
  BY <1>3 DEF SuggestNext, Finished, PassOver, Consider, Row, Compare, Skip, Suggests, Runs, Goes, Returns
<1>4. CASE AmalgamateNext
  BY <1>4 DEF AmalgamateNext, EnterEntry, Inline, Copy, LeaveHeader, Written, Reading, Amalgamates, Runs, Goes, Returns
<1>5. CASE DateNext
  BY <1>5 DEF DateNext, parse_iso_date, parse_date_macro, parse_iso_datetime, Runs, Returns
<1>6. CASE Terminated
  BY <1>6 DEF Terminated
<1> QED BY <1>1, <1>2, <1>3, <1>4, <1>5, <1>6 DEF Next

LEMMA HashInvariant ==
  Spec => []HashInv
<1>1. Init => HashInv
  <2> SUFFICES ASSUME Init, job.function = "hash_impl" PROVE HashInv
    BY DEF HashInv
  <2>1. IsHashJob(job)
    BY JobsAssumption DEF Init
  <2>2. st = [i |-> 0, crc |-> job.seed] /\ result = Running
    BY DEF Init, Start, HashStart
  <2>3. job.key \in Seq(0 .. 255) /\ job.seed \in SUBSET Nat /\ Len(job.key) \in Nat
    BY <2>1, HashJob
  <2>4. HashAfter(job.key, job.seed)[0] = job.seed
    BY <2>3, HashesExist
  <2> QED BY <2>1, <2>2, <2>3, <2>4 DEF HashInv
<1>2. HashInv /\ [Next]_callVars => HashInv'
  <2> SUFFICES ASSUME HashInv, [Next]_callVars PROVE HashInv'
    OBVIOUS
  <2>1. CASE UNCHANGED callVars
    BY <2>1 DEF HashInv, callVars
  <2>2. CASE HashNext /\ job.function = "hash_impl"
    <3>1. /\ job' = job
          /\ st' \in [i : 0 .. Len(job.key), crc : SUBSET Nat]
          /\ st'.crc = HashAfter(job.key, job.seed)[st'.i]
          /\ result' = Running \/ (result' = <<st'.crc>> /\ st'.i = Len(job.key))
      BY <2>2, HashStep
    <3> QED BY <2>2, <3>1 DEF HashInv
  <2>3. CASE job.function # "hash_impl" /\ job' = job
    BY <2>3 DEF HashInv
  <2>4. HashNext => job.function = "hash_impl"
    BY DEF HashNext, TakeEight, TakeOne, Hashed, Hashes, Runs
  <2> QED BY <2>1, <2>2, <2>3, <2>4, NotHashSteps
<1> QED BY <1>1, <1>2, PTL DEF Spec

(* The processor's instruction, eight bytes at a time and then one at a    *)
(* time, hashes every key of every length, from every seed, to what the    *)
(* table of the compiler hashes it to.                                     *)
THEOREM HashesAgree ==
  Spec => []HardwareAgrees
<1>1. HashInv => HardwareAgrees
  <2> SUFFICES ASSUME HashInv, Returned("hash_impl") PROVE Answer = hash_software(job.key, job.seed)
    BY DEF HardwareAgrees
  <2>1. job.function = "hash_impl" /\ result # Running
    BY DEF Returned
  <2>2. result = <<st.crc>> /\ st.i = Len(job.key) /\ st.crc = HashAfter(job.key, job.seed)[st.i] /\ IsHashJob(job)
    BY <2>1 DEF HashInv
  <2>3. job.key \in Seq(0 .. 255) /\ job.seed \in SUBSET Nat
    BY <2>2, HashJob
  <2>4. hash_software(job.key, job.seed) = HashAfter(job.key, job.seed)[Len(job.key)]
    BY <2>3, HashesExist
  <2>5. Answer = st.crc
    BY <2>2 DEF Answer
  <2> QED BY <2>2, <2>4, <2>5
<1> QED BY <1>1, HashInvariant, PTL
-----------------------------------------------------------------------------
(* The largest word has room for a digit of every base.                    *)
LEMMA WordFacts ==
  MaxWord \in Nat /\ MaxWord >= 16
<1> DEFINE power == 2 ^ WordBits
<1>1. WordBits \in 0 .. WordBits
  BY WordAssumption
<1>2. power \in Nat /\ power > 16
  BY <1>1, WordAssumption
<1> HIDE DEF power
<1>3. power - 1 \in Nat /\ power - 1 >= 16
  BY <1>2
<1> QED BY <1>3 DEF MaxWord, power

(* The check before the multiplication is exact in words of every width:   *)
(* it stops a digit when, and only when, the number with it is no machine  *)
(* word any more.  So `acc * base + digit` never wraps around, and the     *)
(* largest word is read.                                                   *)
THEOREM OverflowsExactly ==
  ASSUME NEW base \in {2, 8, 10, 16}, NEW acc \in 0 .. MaxWord, NEW digit \in 0 .. base - 1
  PROVE  Overflows(acc, digit, base) <=> base * acc + digit > MaxWord
<1>1. MaxWord \in Nat /\ MaxWord >= 16 BY WordFacts
<1>2. acc \in Nat /\ digit \in Nat /\ digit < base /\ digit <= MaxWord BY <1>1
<1>3. acc > (MaxWord - digit) \div base <=> base * acc + digit > MaxWord
  <2>1. CASE base = 2 BY <1>1, <1>2, <2>1
  <2>2. CASE base = 8 BY <1>1, <1>2, <2>2
  <2>3. CASE base = 10 BY <1>1, <1>2, <2>3
  <2>4. CASE base = 16 BY <1>1, <1>2, <2>4
  <2> QED BY <2>1, <2>2, <2>3, <2>4
<1> QED BY <1>3 DEF Overflows

LEMMA DigitValues ==
  /\ \A c \in HexDigits : hex_digit_to_value(c) \in Nat
  /\ \A base : \A c \in DigitsOf(base) : c \in HexDigits /\ hex_digit_to_value(c) < base
<1>1. ASSUME NEW c \in HexDigits PROVE hex_digit_to_value(c) \in Nat
  BY DEF HexDigits, hex_digit_to_value, Digit, to_lower, Upper
<1> QED BY <1>1 DEF DigitsOf

(* How many characters of a set stand in front.                            *)
IsLeading(n, t, S) == n \in 0 .. Len(t) /\ (n = Len(t) \/ t[n + 1] \notin S) /\ \A i \in 1 .. n : t[i] \in S

LEMMA LeadingIs ==
  ASSUME NEW A, NEW t \in Seq(A), NEW S
  PROVE  /\ IsLeading(Leading(t, S), t, S)
         /\ \A n : IsLeading(n, t, S) => Leading(t, S) = n
<1>0. Len(t) \in Nat
  OBVIOUS
<1> DEFINE ends == {n \in Nat : n = Len(t) \/ (n < Len(t) /\ t[n + 1] \notin S)}
<1>1. Len(t) \in ends
  BY <1>0
<1>2. PICK m \in ends : \A n \in ends : m <= n
  <2> HIDE DEF ends
  <2>1. ends \in SUBSET Nat
    BY DEF ends
  <2> QED BY <1>1, <2>1, LeastPosition
<1>3. IsLeading(m, t, S)
  <2>1. m \in 0 .. Len(t)
    BY <1>0, <1>1, <1>2
  <2>2. ASSUME NEW i \in 1 .. m PROVE t[i] \in S
    <3>1. i - 1 \in Nat /\ i - 1 < m /\ (i - 1) + 1 = i /\ i - 1 < Len(t)
      BY <1>0, <2>1
    <3>2. i - 1 \notin ends
      <4> HIDE DEF ends
      <4> QED BY <1>2, <3>1, <2>1
    <3> QED BY <3>1, <3>2
  <2> QED BY <2>1, <2>2, <1>2 DEF IsLeading
<1>4. ASSUME NEW a, NEW b, IsLeading(a, t, S), IsLeading(b, t, S) PROVE a = b
  <2>1. a \in 0 .. Len(t) /\ b \in 0 .. Len(t)
    BY <1>4 DEF IsLeading
  <2>2. ~(a < b)
    BY <1>0, <1>4, <2>1 DEF IsLeading
  <2>3. ~(b < a)
    BY <1>0, <1>4, <2>1 DEF IsLeading
  <2> QED BY <1>0, <2>1, <2>2, <2>3
<1>5. IsLeading(Leading(t, S), t, S)
  <2>1. m \in 0 .. Len(t) /\ (m = Len(t) \/ t[m + 1] \notin S) /\ \A i \in 1 .. m : t[i] \in S
    BY <1>3 DEF IsLeading
  <2>2. Leading(t, S) = CHOOSE n \in 0 .. Len(t) : (n = Len(t) \/ t[n + 1] \notin S) /\ \A i \in 1 .. n : t[i] \in S
    BY DEF Leading
  <2> HIDE DEF Leading
  <2> QED BY <2>1, <2>2 DEF IsLeading
<1> QED BY <1>4, <1>5
-----------------------------------------------------------------------------
(* The value of the first characters of a text, read one after another.    *)
DigitAt(t, k) == IF k \in DOMAIN t /\ t[k] \in HexDigits THEN hex_digit_to_value(t[k]) ELSE 0
IsValue(f, t, base) ==
  f \in [Nat -> Nat] /\ f[0] = 0 /\ \A k \in Nat : f[k + 1] = base * f[k] + DigitAt(t, k + 1)
ValueOf(t, base) == CHOOSE f : IsValue(f, t, base)

LEMMA DigitIsNat == \A t, k : DigitAt(t, k) \in Nat
BY DigitValues DEF DigitAt

LEMMA ValuesExist ==
  ASSUME NEW t, NEW base \in Nat
  PROVE  IsValue(ValueOf(t, base), t, base)
<1> DEFINE step == [n \in Nat |-> [a \in Nat |-> base * a + DigitAt(t, n + 1)]]
<1>1. \A n, a \in Nat : base * a + DigitAt(t, n + 1) \in Nat
  BY DigitIsNat
<1>2. step \in [Nat -> [Nat -> Nat]] /\ \A n, a \in Nat : step[n][a] = base * a + DigitAt(t, n + 1)
  BY <1>1
<1> HIDE DEF step
<1>3. PICK f \in [Nat -> Nat] : f[0] = 0 /\ \A n \in Nat : f[n + 1] = step[n][f[n]]
  <2>1. IsDefined(Nat, 0, step)
    BY <1>2, NatRecursion
  <2> QED BY <2>1 DEF IsDefined
<1>4. IsValue(f, t, base)
  BY <1>2, <1>3 DEF IsValue
<1> QED BY <1>4 DEF ValueOf

LEMMA ValuesGrow ==
  ASSUME NEW t, NEW base \in Nat \ {0}, NEW f, IsValue(f, t, base), NEW k \in Nat, NEW n \in Nat, k <= n
  PROVE  f[k] <= f[n]
<1> DEFINE grown == {m \in Nat : f[k] <= f[k + m]}
<1>1. f \in [Nat -> Nat] /\ \A m \in Nat : f[m + 1] = base * f[m] + DigitAt(t, m + 1)
  BY DEF IsValue
<1>2. 0 \in grown
  BY <1>1
<1>3. ASSUME NEW m \in Nat, m \in grown PROVE m + 1 \in grown
  <2>1. k + m \in Nat /\ (k + m) + 1 = k + (m + 1) /\ k + (m + 1) \in Nat
    OBVIOUS
  <2>2. f[k + (m + 1)] = base * f[k + m] + DigitAt(t, (k + m) + 1) /\ f[k + m] \in Nat /\ f[k] \in Nat
    BY <1>1, <2>1
  <2>3. \A a \in Nat : base * a >= a
    OBVIOUS
  <2>4. f[k + m] <= f[k + (m + 1)]
    <3> DEFINE a == f[k + m]  d == DigitAt(t, (k + m) + 1)  b == base * a
    <3>1. a \in Nat /\ d \in Nat /\ b >= a /\ b \in Int /\ f[k + (m + 1)] = b + d
      BY <2>2, <2>3, DigitIsNat
    <3> HIDE DEF a, d, b
    <3>2. a <= b + d
      BY <3>1
    <3> QED BY <3>1, <3>2 DEF a
  <2>5. f[k] <= f[k + m] /\ f[k + (m + 1)] \in Nat
    BY <1>1, <1>3, <2>1
  <2> QED BY <2>2, <2>4, <2>5
<1> HIDE DEF grown
<1>4. n - k \in grown
  <2>1. n - k \in Nat
    OBVIOUS
  <2>2. Nat \subseteq grown
    BY <1>2, <1>3, NatSetInduction
  <2> QED BY <2>1, <2>2
<1>5. k + (n - k) = n
  OBVIOUS
<1> QED BY <1>4, <1>5 DEF grown

(* The digits weighted by their places add up to the same.                 *)
LEMMA PlacesShift ==
  ASSUME NEW base \in {2, 8, 10, 16}, NEW v \in Nat, NEW d \in Nat, NEW place \in Nat, NEW worth \in Nat
  PROVE  (base * v + d) * place + worth = v * (base * place) + (worth + d * place)
<1>1. (base * v + d) * place = (base * v) * place + d * place
  OBVIOUS
<1>2. (base * v) * place = v * (base * place)
  <2>1. CASE base = 2 BY <2>1
  <2>2. CASE base = 8 BY <2>2
  <2>3. CASE base = 10 BY <2>3
  <2>4. CASE base = 16 BY <2>4
  <2> QED BY <2>1, <2>2, <2>3, <2>4
<1> DEFINE x == (base * v) * place  y == d * place
<1>3. x \in Int /\ y \in Int
  OBVIOUS
<1> HIDE DEF x, y
<1>4. (x + y) + worth = x + (worth + y)
  BY <1>3
<1> QED BY <1>1, <1>2, <1>4 DEF x, y

IsSum(last, digits, base) ==
  last = [k \in 0 .. Len(digits) |->
            IF k = 0 THEN [worth |-> 0, place |-> 1]
            ELSE [worth |-> last[k - 1].worth + hex_digit_to_value(digits[Len(digits) - k + 1]) * last[k - 1].place,
                  place |-> base * last[k - 1].place]]

LEMMA SumExists ==
  ASSUME NEW base \in Nat, NEW digits \in Seq(HexDigits)
  PROVE  \E last : IsSum(last, digits, base)
<1>0. Len(digits) \in Nat
  OBVIOUS
<1> DEFINE S == [worth : Nat, place : Nat]
           digit(n) == DigitAt(digits, Len(digits) - n)
           step == [n \in Nat |-> [a \in S |-> [worth |-> a.worth + digit(n) * a.place, place |-> base * a.place]]]
<1>1. \A n \in Nat : digit(n) \in Nat
  BY DigitIsNat
<1>2. \A n \in Nat : \A a \in S : [worth |-> a.worth + digit(n) * a.place, place |-> base * a.place] \in S
  <2> SUFFICES ASSUME NEW n \in Nat, NEW a \in S
               PROVE  a.worth + digit(n) * a.place \in Nat /\ base * a.place \in Nat
    OBVIOUS
  <2>1. a.worth \in Nat /\ a.place \in Nat /\ digit(n) \in Nat
    BY <1>1
  <2> HIDE DEF digit
  <2> QED BY <2>1
<1>3. /\ step \in [Nat -> [S -> S]]
      /\ \A n \in Nat : \A a \in S : step[n][a] = [worth |-> a.worth + digit(n) * a.place, place |-> base * a.place]
  BY <1>2
<1> HIDE DEF step
<1>4. PICK f \in [Nat -> S] : f[0] = [worth |-> 0, place |-> 1] /\ \A n \in Nat : f[n + 1] = step[n][f[n]]
  <2>1. [worth |-> 0, place |-> 1] \in S
    OBVIOUS
  <2> HIDE DEF S
  <2>2. IsDefined(S, [worth |-> 0, place |-> 1], step)
    BY <1>3, <2>1, NatRecursion
  <2> QED BY <2>2 DEF IsDefined
<1> DEFINE g == [k \in 0 .. Len(digits) |-> f[k]]
<1>5. ASSUME NEW k \in 0 .. Len(digits)
      PROVE  g[k] = IF k = 0 THEN [worth |-> 0, place |-> 1]
                    ELSE [worth |-> g[k - 1].worth + hex_digit_to_value(digits[Len(digits) - k + 1]) * g[k - 1].place,
                          place |-> base * g[k - 1].place]
  <2>1. CASE k = 0
    BY <1>4, <2>1
  <2>2. CASE k # 0
    <3>1. /\ k - 1 \in Nat /\ k - 1 \in 0 .. Len(digits) /\ (k - 1) + 1 = k
          /\ Len(digits) - (k - 1) = Len(digits) - k + 1 /\ Len(digits) - k + 1 \in DOMAIN digits
      <4> DEFINE n == Len(digits)
      <4>1. n \in Nat /\ k \in 1 .. n /\ DOMAIN digits = 1 .. n
        BY <1>0, <2>2
      <4> HIDE DEF n
      <4>2. /\ k - 1 \in Nat /\ k - 1 \in 0 .. n /\ (k - 1) + 1 = k
            /\ n - (k - 1) = n - k + 1 /\ n - k + 1 \in 1 .. n
        BY <4>1
      <4> QED BY <4>1, <4>2 DEF n
    <3>2. digits[Len(digits) - k + 1] \in HexDigits
      BY <3>1
    <3>3. digit(k - 1) = hex_digit_to_value(digits[Len(digits) - k + 1])
      BY <3>1, <3>2 DEF DigitAt
    <3>4. f[k] = step[k - 1][f[k - 1]] /\ f[k - 1] \in S
      BY <1>4, <3>1
    <3> HIDE DEF S, digit
    <3>5. f[k] = [worth |-> f[k - 1].worth + digit(k - 1) * f[k - 1].place, place |-> base * f[k - 1].place]
      BY <1>3, <3>1, <3>4
    <3> QED BY <2>2, <3>1, <3>3, <3>5
  <2> QED BY <2>1, <2>2
<1>6. g = [k \in 0 .. Len(digits) |-> g[k]]
  OBVIOUS
<1> HIDE DEF g
<1>7. IsSum(g, digits, base)
  BY <1>5, <1>6 DEF IsSum
<1> QED BY <1>7

LEMMA SumIs ==
  ASSUME NEW base \in {2, 8, 10, 16}, NEW digits \in Seq(HexDigits), NEW last, IsSum(last, digits, base),
         NEW f, IsValue(f, digits, base)
  PROVE  last[Len(digits)].worth = f[Len(digits)]
<1> DEFINE n == Len(digits)
<1>0. n \in Nat /\ DOMAIN digits = 1 .. n /\ \A i \in 1 .. n : digits[i] \in HexDigits
  OBVIOUS
<1>1. /\ last[0] = [worth |-> 0, place |-> 1]
      /\ \A k \in 1 .. n : last[k] = [worth |-> last[k - 1].worth + hex_digit_to_value(digits[n - k + 1]) * last[k - 1].place,
                                      place |-> base * last[k - 1].place]
  BY <1>0 DEF IsSum
<1>2. f \in [Nat -> Nat] /\ f[0] = 0 /\ \A k \in Nat : f[k + 1] = base * f[k] + DigitAt(digits, k + 1)
  BY DEF IsValue
<1> HIDE DEF n
<1> DEFINE right == {k \in Nat : k <= n => /\ last[k].worth \in Nat /\ last[k].place \in Nat
                                           /\ f[n] = f[n - k] * last[k].place + last[k].worth}
<1>3. 0 \in right
  <2>1. f[n] \in Nat /\ n - 0 = n
    BY <1>0, <1>2
  <2>2. \A a \in Nat : a = a * 1 + 0
    OBVIOUS
  <2> QED BY <1>1, <2>1, <2>2
<1>4. ASSUME NEW k \in Nat, k \in right PROVE k + 1 \in right
  <2> SUFFICES ASSUME k + 1 <= n
               PROVE  /\ last[k + 1].worth \in Nat /\ last[k + 1].place \in Nat
                      /\ f[n] = f[n - (k + 1)] * last[k + 1].place + last[k + 1].worth
    OBVIOUS
  <2>1. /\ k <= n /\ k + 1 \in 1 .. n /\ (k + 1) - 1 = k /\ n - (k + 1) + 1 = n - k /\ n - (k + 1) \in Nat
        /\ n - k \in 1 .. n
    BY <1>0
  <2>2. last[k].worth \in Nat /\ last[k].place \in Nat /\ f[n] = f[n - k] * last[k].place + last[k].worth
    BY <1>4, <2>1
  <2>3. digits[n - k] \in HexDigits /\ hex_digit_to_value(digits[n - k]) \in Nat
    BY <1>0, <2>1, DigitValues
  <2>4. f[n - k] = base * f[n - (k + 1)] + hex_digit_to_value(digits[n - k])
    <3>1. DigitAt(digits, n - k) = hex_digit_to_value(digits[n - k])
      BY <1>0, <2>1, <2>3 DEF DigitAt
    <3> QED BY <1>2, <2>1, <3>1
  <2> DEFINE v == f[n - (k + 1)]  d == hex_digit_to_value(digits[n - k])  place == last[k].place  worth == last[k].worth
  <2>5. v \in Nat /\ d \in Nat /\ place \in Nat /\ worth \in Nat /\ f[n] = (base * v + d) * place + worth
    BY <1>2, <2>1, <2>2, <2>3, <2>4
  <2>6. last[k + 1] = [worth |-> worth + d * place, place |-> base * place]
    BY <1>1, <2>1
  <2> HIDE DEF v, d, place, worth
  <2>7. worth + d * place \in Nat /\ base * place \in Nat
    BY <2>5
  <2>8. (base * v + d) * place + worth = v * (base * place) + (worth + d * place)
    BY <2>5, PlacesShift
  <2> QED BY <2>5, <2>6, <2>7, <2>8 DEF v
<1> HIDE DEF right
<1>5. n \in right
  BY <1>0, <1>3, <1>4, NatSetInduction
<1>6. last[n].worth \in Nat /\ last[n].place \in Nat /\ f[n] = f[n - n] * last[n].place + last[n].worth
  BY <1>0, <1>5 DEF right
<1>7. f[n - n] = 0
  BY <1>0, <1>2
<1>8. \A p, w \in Nat : 0 * p + w = w
  OBVIOUS
<1> QED BY <1>6, <1>7, <1>8 DEF n

LEMMA MeaningIs ==
  ASSUME NEW base \in {2, 8, 10, 16}, NEW digits \in Seq(HexDigits), NEW f, IsValue(f, digits, base)
  PROVE  Meaning(digits, base) = f[Len(digits)]
<1>1. base \in Nat
  OBVIOUS
<1>2. \E last : IsSum(last, digits, base)
  BY <1>1, SumExists
<1>3. PICK h : h = (CHOOSE last : IsSum(last, digits, base))
  OBVIOUS
<1>4. IsSum(h, digits, base)
  BY <1>2, <1>3
<1>5. Meaning(digits, base) = h[Len(digits)].worth
  BY <1>3 DEF Meaning, IsSum
<1> QED BY <1>4, <1>5, SumIs

(* The value of a part in front.                                           *)
LEMMA CutValue ==
  ASSUME NEW base \in {2, 8, 10, 16}, NEW A, NEW t \in Seq(A), NEW n \in 0 .. Len(t), \A i \in 1 .. n : t[i] \in HexDigits,
         NEW f, IsValue(f, t, base)
  PROVE  Meaning(Cut(t, n), base) = f[n]
<1> DEFINE c == Cut(t, n)
<1>0. Len(t) \in Nat /\ n \in Nat /\ n <= Len(t)
  OBVIOUS
<1>1. c = SubSeq(t, 1, n)
  BY <1>0 DEF Cut
<1>2. c \in Seq(HexDigits) /\ Len(c) = n /\ \A i \in 1 .. n : c[i] = t[i]
  <2>1. SubSeq(t, 1, n) \in Seq(HexDigits) /\ Len(SubSeq(t, 1, n)) = (IF 1 <= n THEN n - 1 + 1 ELSE 0)
        /\ \A i \in 1 .. n - 1 + 1 : SubSeq(t, 1, n)[i] = t[1 + i - 1]
    BY <1>0, SubSeqProperties
  <2> HIDE DEF c
  <2>2. n - 1 + 1 = n /\ \A i \in 1 .. n : 1 + i - 1 = i
    BY <1>0
  <2> QED BY <1>0, <1>1, <2>1, <2>2
<1> HIDE DEF c
<1>3. PICK g : g = ValueOf(c, base) /\ IsValue(g, c, base)
  BY ValuesExist
<1>4. Meaning(c, base) = g[n]
  BY <1>2, <1>3, MeaningIs
<1> DEFINE same == {k \in Nat : k <= n => g[k] = f[k]}
<1>5. /\ f[0] = 0 /\ g[0] = 0 /\ \A k \in Nat : f[k + 1] = base * f[k] + DigitAt(t, k + 1)
      /\ \A k \in Nat : g[k + 1] = base * g[k] + DigitAt(c, k + 1)
  BY <1>3 DEF IsValue
<1>6. 0 \in same
  BY <1>5
<1>7. ASSUME NEW k \in Nat, k \in same PROVE k + 1 \in same
  <2> SUFFICES ASSUME k + 1 <= n PROVE g[k + 1] = f[k + 1]
    OBVIOUS
  <2>1. k + 1 \in 1 .. n /\ k <= n /\ k + 1 \in DOMAIN t
    BY <1>0
  <2>2. k + 1 \in DOMAIN c
    BY <1>2, <2>1
  <2>3. DigitAt(t, k + 1) = DigitAt(c, k + 1)
    BY <1>2, <2>1, <2>2 DEF DigitAt
  <2> QED BY <1>5, <1>7, <2>1, <2>3
<1> HIDE DEF same
<1>8. n \in same
  BY <1>0, <1>6, <1>7, NatSetInduction
<1> QED BY <1>0, <1>4, <1>8 DEF same, c

(* Stopping at one word beyond the largest loses no comparison with it.    *)
Stopped(v) == Smaller(v, MaxWord + 1)

LEMMA StoppedStep ==
  ASSUME NEW base \in {2, 8, 10, 16}, NEW v \in Nat, NEW d \in Nat
  PROVE  Stopped(base * Stopped(v) + d) = Stopped(base * v + d)
<1>1. MaxWord \in Nat
  BY WordFacts
<1>2. CASE v < MaxWord + 1
  BY <1>1, <1>2 DEF Stopped, Smaller
<1>3. CASE ~(v < MaxWord + 1)
  <2> DEFINE m == MaxWord + 1
  <2>1. m \in Nat /\ v >= m /\ Stopped(v) = m
    BY <1>1, <1>3 DEF Stopped, Smaller
  <2> HIDE DEF m
  <2>2. base * m + d >= m /\ base * v + d >= m
    BY <2>1
  <2>3. Stopped(base * m + d) = m /\ Stopped(base * v + d) = m
    BY <2>1, <2>2 DEF Stopped, Smaller, m
  <2> QED BY <2>1, <2>3
<1> QED BY <1>2, <1>3

IsStopped(value, n, t, base) ==
  value = [k \in 0 .. n |-> IF k = 0 THEN 0
                            ELSE Smaller(base * value[k - 1] + hex_digit_to_value(t[k]), MaxWord + 1)]

HexUpTo(n, t) == \A i \in 1 .. n : i \in DOMAIN t /\ t[i] \in HexDigits
StoppedValues(n, t, base) == CHOOSE value : IsStopped(value, n, t, base)

LEMMA StoppedIs ==
  ASSUME NEW base \in {2, 8, 10, 16}, NEW t, NEW n \in Nat, HexUpTo(n, t),
         NEW f, IsValue(f, t, base)
  PROVE  StoppedValues(n, t, base)[n] = Stopped(f[n])
<1>1. /\ f \in [Nat -> Nat] /\ f[0] = 0
      /\ \A k \in 1 .. n : f[k] = base * f[k - 1] + hex_digit_to_value(t[k]) /\ hex_digit_to_value(t[k]) \in Nat
  <2>1. f \in [Nat -> Nat] /\ f[0] = 0 /\ \A k \in Nat : f[k + 1] = base * f[k] + DigitAt(t, k + 1)
    BY DEF IsValue
  <2>2. ASSUME NEW k \in 1 .. n
        PROVE  f[k] = base * f[k - 1] + hex_digit_to_value(t[k]) /\ hex_digit_to_value(t[k]) \in Nat
    <3>1. k - 1 \in Nat /\ (k - 1) + 1 = k
      OBVIOUS
    <3>2. DigitAt(t, k) = hex_digit_to_value(t[k]) /\ hex_digit_to_value(t[k]) \in Nat
      BY DigitValues DEF DigitAt, HexUpTo
    <3> QED BY <2>1, <3>1, <3>2
  <2> QED BY <2>1, <2>2
<1>2. MaxWord \in Nat
  BY WordFacts
<1> DEFINE g == [k \in 0 .. n |-> Stopped(f[k])]
<1>3. ASSUME NEW k \in 0 .. n
      PROVE  g[k] = IF k = 0 THEN 0 ELSE Smaller(base * g[k - 1] + hex_digit_to_value(t[k]), MaxWord + 1)
  <2>1. CASE k = 0
    BY <1>1, <1>2, <2>1 DEF Stopped, Smaller
  <2>2. CASE k # 0
    <3>1. k \in 1 .. n /\ k - 1 \in 0 .. n /\ k - 1 \in Nat
      BY <2>2
    <3>2. f[k] = base * f[k - 1] + hex_digit_to_value(t[k]) /\ hex_digit_to_value(t[k]) \in Nat /\ f[k - 1] \in Nat
      BY <1>1, <3>1
    <3>3. Stopped(base * Stopped(f[k - 1]) + hex_digit_to_value(t[k])) = Stopped(f[k])
      <4> DEFINE v == f[k - 1]  d == hex_digit_to_value(t[k])
      <4>1. v \in Nat /\ d \in Nat /\ f[k] = base * v + d
        BY <3>2
      <4> HIDE DEF v, d
      <4>2. Stopped(base * Stopped(v) + d) = Stopped(base * v + d)
        BY <4>1, StoppedStep
      <4> QED BY <4>1, <4>2 DEF v, d
    <3>4. g[k] = Stopped(f[k]) /\ g[k - 1] = Stopped(f[k - 1])
      BY <3>1
    <3> HIDE DEF g
    <3> QED BY <2>2, <3>3, <3>4 DEF Stopped
  <2> QED BY <2>1, <2>2
<1>4. g = [k \in 0 .. n |-> g[k]]
  OBVIOUS
<1> HIDE DEF g
<1>5. IsStopped(g, n, t, base)
  BY <1>3, <1>4 DEF IsStopped
<1>6. PICK h : h = StoppedValues(n, t, base) /\ IsStopped(h, n, t, base)
  BY <1>5 DEF StoppedValues
<1>7. h[0] = 0 /\ \A k \in 1 .. n : h[k] = Stopped(base * h[k - 1] + hex_digit_to_value(t[k]))
  <2>1. \A k \in 0 .. n : h[k] = IF k = 0 THEN 0
                               ELSE Smaller(base * h[k - 1] + hex_digit_to_value(t[k]), MaxWord + 1)
    BY <1>6 DEF IsStopped
  <2>2. h[0] = 0
    BY <2>1
  <2>3. \A k \in 1 .. n : h[k] = Smaller(base * h[k - 1] + hex_digit_to_value(t[k]), MaxWord + 1)
    BY <2>1
  <2> QED BY <2>2, <2>3 DEF Stopped
<1> DEFINE same == {k \in Nat : k <= n => h[k] = Stopped(f[k])}
<1>8. 0 \in same
  BY <1>1, <1>2, <1>7 DEF Stopped, Smaller
<1>9. ASSUME NEW k \in Nat, k \in same PROVE k + 1 \in same
  <2> SUFFICES ASSUME k + 1 <= n PROVE h[k + 1] = Stopped(f[k + 1])
    OBVIOUS
  <2>1. k + 1 \in 1 .. n /\ k <= n /\ (k + 1) - 1 = k
    OBVIOUS
  <2>2. h[k + 1] = Stopped(base * Stopped(f[k]) + hex_digit_to_value(t[k + 1]))
    BY <1>7, <1>9, <2>1
  <2>3. f[k + 1] = base * f[k] + hex_digit_to_value(t[k + 1]) /\ hex_digit_to_value(t[k + 1]) \in Nat /\ f[k] \in Nat
    BY <1>1, <2>1
  <2> DEFINE v == f[k]  d == hex_digit_to_value(t[k + 1])
  <2>4. v \in Nat /\ d \in Nat /\ f[k + 1] = base * v + d /\ h[k + 1] = Stopped(base * Stopped(v) + d)
    BY <2>2, <2>3
  <2> HIDE DEF v, d
  <2>5. Stopped(base * Stopped(v) + d) = Stopped(base * v + d)
    BY <2>4, StoppedStep, Zenon
  <2> QED BY <2>4, <2>5
<1> HIDE DEF same
<1>10. n \in same
  BY <1>8, <1>9, NatSetInduction, SMTT(40)
<1> QED BY <1>6, <1>10 DEF same

-----------------------------------------------------------------------------
(* The parts of a text: what is behind its sign, and its digits.           *)
Bare(t) == IF Signed(t) THEN Rest(t, 2) ELSE t
InFront(t) == Len(t) - Len(Bare(t)) + PrefixSize(Base(Bare(t)))
DigitsIn(t) == Rest(Bare(t), PrefixSize(Base(Bare(t))) + 1)
Negative(t) == t # <<>> /\ t[1] = Minus

LEMMA RestItems ==
  ASSUME NEW S, NEW t \in Seq(S), NEW n \in Nat, n <= Len(t)
  PROVE  /\ Rest(t, n + 1) \in Seq(S) /\ Len(Rest(t, n + 1)) = Len(t) - n
         /\ \A i \in 1 .. Len(t) - n : Rest(t, n + 1)[i] = t[n + i]
<1>1. Len(t) \in Nat /\ \A i \in n + 1 .. Len(t) : t[i] \in S
  OBVIOUS
<1>2. n + 1 \in Int /\ Len(t) \in Int
  BY <1>1
<1>3. /\ SubSeq(t, n + 1, Len(t)) \in Seq(S)
      /\ Len(SubSeq(t, n + 1, Len(t))) = IF n + 1 <= Len(t) THEN Len(t) - (n + 1) + 1 ELSE 0
      /\ \A i \in 1 .. Len(t) - (n + 1) + 1 : SubSeq(t, n + 1, Len(t))[i] = t[(n + 1) + i - 1]
  BY <1>1, <1>2, SubSeqProperties
<1>4. Len(t) - (n + 1) + 1 = Len(t) - n /\ \A i \in 1 .. Len(t) - n : (n + 1) + i - 1 = n + i
  BY <1>1
<1>5. Rest(t, n + 1) = SubSeq(t, n + 1, Len(t))
  BY DEF Rest
<1>6. ASSUME ~(n + 1 <= Len(t)) PROVE Len(t) - n = 0
  BY <1>1, <1>6
<1> QED BY <1>1, <1>3, <1>4, <1>5, <1>6, Zenon

LEMMA BaseIs ==
  ASSUME NEW S, NEW bare \in Seq(S), bare # <<>>
  PROVE  /\ Base(bare) \in {2, 8, 10, 16} /\ Base(bare) # 0
         /\ PrefixSize(Base(bare)) \in Nat /\ PrefixSize(Base(bare)) < Len(bare)
<1>1. Len(bare) \in Nat /\ Len(bare) # 0
  OBVIOUS
<1> QED BY <1>1 DEF Base, PrefixSize

LEMMA Parts ==
  ASSUME NEW S, NEW t \in Seq(S)
  PROVE  /\ Bare(t) \in Seq(S)
         /\ Bare(t) # <<>> =>
              /\ t # <<>> /\ Base(Bare(t)) \in {2, 8, 10, 16} /\ Base(Bare(t)) # 0
              /\ InFront(t) \in Nat /\ InFront(t) < Len(t) /\ Len(t) \in Nat
              /\ DigitsIn(t) \in Seq(S) /\ Len(DigitsIn(t)) = Len(t) - InFront(t)
              /\ \A i \in 1 .. Len(t) - InFront(t) : DigitsIn(t)[i] = t[InFront(t) + i]
              /\ SubSeq(t, InFront(t) + 1, Len(t)) = DigitsIn(t)
<1>0. Len(t) \in Nat /\ \A i \in 1 .. Len(t) : t[i] \in S
  OBVIOUS
<1> DEFINE bare == Bare(t)  cut == Len(t) - Len(bare)
<1>1. /\ bare \in Seq(S) /\ cut \in Nat /\ cut <= Len(t) /\ Len(bare) = Len(t) - cut
      /\ \A i \in 1 .. Len(t) - cut : bare[i] = t[cut + i]
  <2>1. CASE Signed(t)
    <3>1. t # <<>>
      BY <2>1 DEF Signed
    <3>2. 1 <= Len(t) /\ 1 \in Nat /\ 1 + 1 = 2
      BY <1>0, <3>1
    <3>3. /\ Rest(t, 2) \in Seq(S) /\ Len(Rest(t, 2)) = Len(t) - 1
          /\ \A i \in 1 .. Len(t) - 1 : Rest(t, 2)[i] = t[1 + i]
      BY <3>2, RestItems
    <3>4. bare = Rest(t, 2)
      BY <2>1 DEF Bare
    <3>5. cut = 1
      BY <1>0, <3>3, <3>4
    <3> HIDE DEF bare, cut
    <3> QED BY <1>0, <3>2, <3>3, <3>4, <3>5
  <2>2. CASE ~Signed(t)
    <3>1. bare = t
      BY <2>2 DEF Bare
    <3>2. cut = 0
      BY <1>0, <3>1
    <3> HIDE DEF bare, cut
    <3> QED BY <1>0, <3>1, <3>2
  <2> QED BY <2>1, <2>2
<1>2. ASSUME bare # <<>>
      PROVE  /\ t # <<>> /\ Base(bare) \in {2, 8, 10, 16} /\ Base(bare) # 0
             /\ InFront(t) \in Nat /\ InFront(t) < Len(t)
             /\ DigitsIn(t) \in Seq(S) /\ Len(DigitsIn(t)) = Len(t) - InFront(t)
             /\ \A i \in 1 .. Len(t) - InFront(t) : DigitsIn(t)[i] = t[InFront(t) + i]
  <2> DEFINE p == PrefixSize(Base(bare))
  <2>1. Base(bare) \in {2, 8, 10, 16} /\ Base(bare) # 0 /\ p \in Nat /\ p < Len(bare)
    BY <1>1, <1>2, BaseIs
  <2>2. InFront(t) = cut + p /\ DigitsIn(t) = Rest(bare, p + 1)
    BY DEF InFront, DigitsIn
  <2> HIDE DEF bare, cut, p
  <2>3. /\ Rest(bare, p + 1) \in Seq(S) /\ Len(Rest(bare, p + 1)) = Len(bare) - p
        /\ \A i \in 1 .. Len(bare) - p : Rest(bare, p + 1)[i] = bare[p + i]
    <3>1. p <= Len(bare)
      BY <1>0, <1>1, <2>1
    <3>2. PICK b, k : b = bare /\ k = p
      OBVIOUS
    <3>3. b \in Seq(S) /\ k \in Nat /\ k <= Len(b)
      BY <1>1, <2>1, <3>1, <3>2
    <3>4. /\ Rest(b, k + 1) \in Seq(S) /\ Len(Rest(b, k + 1)) = Len(b) - k
          /\ \A i \in 1 .. Len(b) - k : Rest(b, k + 1)[i] = b[k + i]
      BY <3>3, RestItems
    <3> QED BY <3>2, <3>4
  <2>4. /\ cut + p \in Nat /\ cut + p < Len(t) /\ Len(bare) - p = Len(t) - (cut + p) /\ t # <<>>
    BY <1>0, <1>1, <2>1
  <2>5. ASSUME NEW i \in 1 .. Len(t) - (cut + p) PROVE bare[p + i] = t[(cut + p) + i]
    <3>1. p + i \in 1 .. Len(t) - cut /\ cut + (p + i) = (cut + p) + i
      BY <1>0, <1>1, <2>1
    <3> QED BY <1>1, <3>1
  <2> QED BY <2>1, <2>2, <2>3, <2>4, <2>5
<1>3. ASSUME bare # <<>>
      PROVE  SubSeq(t, InFront(t) + 1, Len(t)) = DigitsIn(t)
  <2> DEFINE f == InFront(t)  a == Rest(t, f + 1)  b == DigitsIn(t)
  <2>1. f \in Nat /\ f <= Len(t) /\ b \in Seq(S) /\ Len(b) = Len(t) - f /\ \A i \in 1 .. Len(t) - f : b[i] = t[f + i]
    BY <1>0, <1>2, <1>3
  <2>2. a \in Seq(S) /\ Len(a) = Len(t) - f /\ \A i \in 1 .. Len(t) - f : a[i] = t[f + i]
    <3> HIDE DEF f
    <3> QED BY <2>1, RestItems
  <2>3. a = SubSeq(t, f + 1, Len(t))
    BY DEF Rest
  <2> HIDE DEF a, b, f
  <2>4. a = b
    BY <2>1, <2>2, SeqEqual
  <2> QED BY <2>3, <2>4 DEF b, f
<1> QED BY <1>0, <1>1, <1>2, <1>3

(* The largest value of a type.                                            *)
LEMMA MaxOfIs ==
  ASSUME NEW type \in [signed : BOOLEAN, bits : 1 .. WordBits]
  PROVE  MaxOf(type) \in Nat
<1>1. type.bits \in 0 .. WordBits /\ type.bits - 1 \in 0 .. WordBits
  BY WordAssumption
<1>2. 2 ^ type.bits \in Nat \ {0} /\ 2 ^ (type.bits - 1) \in Nat \ {0}
  BY <1>1, WordAssumption
<1>3. \A p \in Nat \ {0} : p - 1 \in Nat
  OBVIOUS
<1> QED BY <1>2, <1>3 DEF MaxOf

(* The number in a text, by the value of its first digits.                 *)
LEMMA NumberInIs ==
  ASSUME NEW S, NEW t \in Seq(S), Bare(t) # <<>>, NEW type \in [signed : BOOLEAN, bits : 1 .. WordBits],
         Negative(t) => type.signed, NEW f, IsValue(f, DigitsIn(t), Base(Bare(t))),
         NEW n, IsLeading(n, DigitsIn(t), DigitsOf(Base(Bare(t))))
  PROVE  /\ n = 0 => NumberIn(t, type) = Invalid
         /\ n # 0 /\ f[n] > MaxWord => NumberIn(t, type) = OutOfRange
         /\ f[n] <= MaxWord /\ n < Len(DigitsIn(t)) => NumberIn(t, type) = Invalid
         /\ f[n] <= MaxWord /\ n = Len(DigitsIn(t)) => NumberIn(t, type) = Fits(f[n], Negative(t), type)
<1> DEFINE base == Base(Bare(t))  rest == DigitsIn(t)  M == MaxOf(type)
<1>1. /\ t # <<>> /\ base \in {2, 8, 10, 16} /\ rest \in Seq(S) /\ Len(rest) \in Nat /\ Len(rest) # 0
  BY Parts
<1>2. Leading(rest, DigitsOf(base)) = n
  BY <1>1, LeadingIs
<1>3. n \in 0 .. Len(rest) /\ \A i \in 1 .. n : rest[i] \in HexDigits
  BY DigitValues DEF IsLeading
<1>4. Meaning(Cut(rest, n), base) = f[n]
  BY <1>1, <1>3, CutValue
<1>5. f[n] \in Nat /\ MaxWord \in Nat /\ M \in Nat
  BY <1>3, WordFacts, MaxOfIs DEF IsValue
<1> DEFINE signed == IF t # <<>> /\ t[1] = Minus THEN -f[n] ELSE f[n]
<1>6. NumberIn(t, type) =
        IF t = <<>> \/ Bare(t) = <<>> \/ n = 0 \/ (t[1] = Minus /\ ~type.signed) THEN Invalid
        ELSE IF f[n] > MaxWord THEN OutOfRange
        ELSE IF n < Len(rest) THEN Invalid
        ELSE IF signed \in -M - (IF type.signed THEN 1 ELSE 0) .. M THEN Number(signed)
        ELSE OutOfRange
  <2>1. Bare(t) = IF Signed(t) THEN Rest(t, 2) ELSE t
    BY DEF Bare
  <2> QED BY <1>2, <1>4, <2>1 DEF NumberIn, DigitsIn
<1> HIDE DEF base, rest, M
<1>7. f[n] <= MaxWord /\ n = Len(rest) => NumberIn(t, type) = Fits(f[n], Negative(t), type)
  <2> SUFFICES ASSUME f[n] <= MaxWord, n = Len(rest) PROVE NumberIn(t, type) = Fits(f[n], Negative(t), type)
    OBVIOUS
  <2>1. NumberIn(t, type) = IF signed \in -M - (IF type.signed THEN 1 ELSE 0) .. M THEN Number(signed) ELSE OutOfRange
    <3>1. n # 0 /\ ~(f[n] > MaxWord) /\ ~(n < Len(rest)) /\ ~(t[1] = Minus /\ ~type.signed)
      BY <1>1, <1>5 DEF Negative
    <3> HIDE DEF signed
    <3> QED BY <1>1, <1>6, <3>1
  <2>2. CASE Negative(t)
    <3>1. signed = -f[n] /\ type.signed
      BY <2>2 DEF Negative
    <3>2. -f[n] \in -M - 1 .. M <=> ~(f[n] > M + 1)
      BY <1>5
    <3>3. Fits(f[n], TRUE, type) = IF f[n] > M + 1 THEN OutOfRange ELSE Number(-f[n])
      BY DEF Fits, M
    <3> HIDE DEF signed
    <3> QED BY <2>1, <2>2, <3>1, <3>2, <3>3
  <2>3. CASE ~Negative(t)
    <3>1. signed = f[n] /\ Negative(t) = FALSE
      BY <2>3 DEF Negative
    <3>2. f[n] \in -M - 1 .. M <=> ~(f[n] > M)
      BY <1>5
    <3>3. f[n] \in -M - 0 .. M <=> ~(f[n] > M)
      BY <1>5
    <3>4. M + 0 = M
      BY <1>5
    <3>5. Fits(f[n], FALSE, type) = IF f[n] > M THEN OutOfRange ELSE Number(f[n])
      BY <3>4 DEF Fits, M
    <3> HIDE DEF signed
    <3>6. NumberIn(t, type) = IF f[n] > M THEN OutOfRange ELSE Number(f[n])
      <4>1. CASE type.signed
        BY <2>1, <3>1, <3>2, <4>1
      <4>2. CASE ~type.signed
        BY <2>1, <3>1, <3>3, <4>2
      <4> QED BY <4>1, <4>2
    <3> QED BY <3>1, <3>5, <3>6
  <2> QED BY <2>2, <2>3
<1>8. ~(t[1] = Minus /\ ~type.signed)
  BY <1>1 DEF Negative
<1>9. n = 0 => NumberIn(t, type) = Invalid
  BY <1>6
<1>10. n # 0 /\ f[n] > MaxWord => NumberIn(t, type) = OutOfRange
  BY <1>1, <1>6, <1>8
<1>11. f[n] <= MaxWord /\ n < Len(rest) => NumberIn(t, type) = Invalid
  BY <1>1, <1>5, <1>6, <1>8
<1> QED BY <1>7, <1>9, <1>10, <1>11 DEF rest
-----------------------------------------------------------------------------
(* The reader has read its digits up to a place; acc is their value.       *)
Locals == [at : Nat, neg : BOOLEAN, base : Nat, acc : Nat]
ReadingInv(t, s) ==
  /\ s \in Locals
  /\ Bare(t) # <<>> /\ s.base = Base(Bare(t)) /\ s.neg = Negative(t)
  /\ s.at \in InFront(t) .. Len(t)
  /\ \A i \in 1 .. s.at - InFront(t) : DigitsIn(t)[i] \in DigitsOf(s.base)
  /\ s.acc = ValueOf(DigitsIn(t), s.base)[s.at - InFront(t)] /\ s.acc <= MaxWord

(* The k digits that were read, of m characters, and their values f.       *)
ReadFacts(t, s, rest, f, k, m) ==
  /\ s \in Locals /\ s.base \in {2, 8, 10, 16} /\ s.acc = f[k] /\ s.acc <= MaxWord
  /\ rest = DigitsIn(t) /\ Bare(t) # <<>> /\ s.base = Base(Bare(t)) /\ s.neg = Negative(t)
  /\ k \in Nat /\ m \in Nat /\ m = Len(rest) /\ DOMAIN rest = 1 .. m
  /\ IsValue(f, rest, s.base) /\ f \in [Nat -> Nat]
  /\ \A i \in 1 .. k : rest[i] \in DigitsOf(s.base)
  /\ s.at < Len(t) =>
       /\ k < m /\ rest[k + 1] = t[s.at + 1]
       /\ s.at + 1 \in InFront(t) .. Len(t) /\ (s.at + 1) - InFront(t) = k + 1
  /\ s.at = Len(t) => k = m

LEMMA ReadingFacts ==
  ASSUME NEW S, NEW t \in Seq(S), NEW s, ReadingInv(t, s)
  PROVE  ReadFacts(t, s, DigitsIn(t), ValueOf(DigitsIn(t), s.base), s.at - InFront(t), Len(DigitsIn(t)))
<1> DEFINE rest == DigitsIn(t)  f == ValueOf(rest, s.base)  k == s.at - InFront(t)  m == Len(rest)  size == Len(t)  front == InFront(t)
<1>1. /\ Bare(t) # <<>> /\ s.base = Base(Bare(t)) /\ s.at \in front .. size /\ s.acc = f[k]
      /\ \A i \in 1 .. k : rest[i] \in DigitsOf(s.base)
      /\ s \in Locals /\ s.acc <= MaxWord /\ s.neg = Negative(t)
  BY DEF ReadingInv
<1>2. /\ s.base \in {2, 8, 10, 16} /\ front \in Nat /\ front < size /\ size \in Nat
      /\ rest \in Seq(S) /\ m = size - front
      /\ \A i \in 1 .. size - front : rest[i] = t[front + i]
  BY <1>1, Parts
<1>3. DOMAIN rest = 1 .. m
  BY <1>2
<1>4. s.base \in Nat
  BY <1>2
<1>5. IsValue(f, rest, s.base) /\ f \in [Nat -> Nat]
  BY <1>4, ValuesExist DEF IsValue
<1>6. k = s.at - front
  OBVIOUS
<1> HIDE DEF rest, f, k, m, size, front
<1>7. k \in Nat /\ m \in Nat /\ (s.at = size => k = m)
  BY <1>1, <1>2, <1>6
<1>8. ASSUME s.at < size
      PROVE  k < m /\ s.at + 1 \in front .. size /\ (s.at + 1) - front = k + 1
             /\ k + 1 \in 1 .. size - front /\ front + (k + 1) = s.at + 1
  BY <1>1, <1>2, <1>6, <1>8, SMTT(40)
<1>9. ASSUME s.at < size PROVE rest[k + 1] = t[s.at + 1]
  BY <1>2, <1>8, <1>9
<1>10. \A i \in 1 .. k : rest[i] \in DigitsOf(s.base)
  BY <1>1
<1> QED BY <1>1, <1>2, <1>3, <1>5, <1>7, <1>8, <1>9, <1>10 DEF ReadFacts, rest, f, k, m, size, front

(* The texts that are refused at their sign.                               *)
LEMMA RefusedIs ==
  ASSUME NEW t, NEW type, Bare(t) = <<>> \/ (Negative(t) /\ ~type.signed)
  PROVE  NumberIn(t, type) = Invalid
BY DEF NumberIn, Bare, Negative

(* All the digits at once.                                                 *)
LEMMA ConvertsIs ==
  ASSUME NEW S, NEW t \in Seq(S), Bare(t) # <<>>, NEW type \in [signed : BOOLEAN, bits : 1 .. WordBits],
         Negative(t) => type.signed
  PROVE  from_chars(SubSeq(t, InFront(t) + 1, Len(t)), Base(Bare(t)), Negative(t), type) = NumberIn(t, type)
<1> DEFINE base == Base(Bare(t))  rest == DigitsIn(t)  neg == Negative(t)
           n == Leading(rest, DigitsOf(base))  m == Len(rest)  f == ValueOf(rest, base)
<1>1. /\ base \in {2, 8, 10, 16} /\ rest \in Seq(S) /\ SubSeq(t, InFront(t) + 1, Len(t)) = rest
  BY Parts
<1>2. base \in Nat /\ m \in Nat /\ DOMAIN rest = 1 .. m /\ MaxWord \in Nat
  BY <1>1, WordFacts
<1>3. IsLeading(n, rest, DigitsOf(base))
  <2> HIDE DEF rest, base
  <2> QED BY <1>1, LeadingIs DEF n
<1>4. IsValue(f, rest, base) /\ f \in [Nat -> Nat]
  BY <1>2, ValuesExist DEF IsValue
<1>5. /\ n = 0 => NumberIn(t, type) = Invalid
      /\ n # 0 /\ f[n] > MaxWord => NumberIn(t, type) = OutOfRange
      /\ f[n] <= MaxWord /\ n < m => NumberIn(t, type) = Invalid
      /\ f[n] <= MaxWord /\ n = m => NumberIn(t, type) = Fits(f[n], neg, type)
  <2> HIDE DEF f, n
  <2> QED BY <1>3, <1>4, NumberInIs
<1> DEFINE h == StoppedValues(n, rest, base)
<1>6. from_chars(rest, base, neg, type) =
        IF n = 0 THEN Invalid
        ELSE IF h[n] > MaxWord THEN OutOfRange
        ELSE IF n < m THEN Invalid
        ELSE Fits(h[n], neg, type)
  BY DEF from_chars, StoppedValues, IsStopped
<1>7. h = StoppedValues(n, rest, base) /\ m = Len(rest)
  OBVIOUS
<1> HIDE DEF n, rest, base, f, h, neg, m
<1>8. n \in 0 .. m
  BY <1>3, <1>7 DEF IsLeading
<1>9. n \in Nat /\ n <= m /\ 1 .. n \subseteq 1 .. m
  BY <1>2, <1>8
<1>10. \A i \in 1 .. n : rest[i] \in HexDigits
  BY <1>3, DigitValues DEF IsLeading
<1>11. h[n] = Stopped(f[n])
  <2>1. HexUpTo(n, rest)
    BY <1>2, <1>9, <1>10 DEF HexUpTo
  <2>2. PICK k, t1, b, g : k = n /\ t1 = rest /\ b = base /\ g = f
    OBVIOUS
  <2>3. k \in Nat /\ b \in {2, 8, 10, 16} /\ HexUpTo(k, t1) /\ IsValue(g, t1, b)
    BY <1>1, <1>4, <1>9, <2>1, <2>2
  <2>4. StoppedValues(k, t1, b)[k] = Stopped(g[k])
    BY ONLY <2>3, StoppedIs
  <2> QED BY <1>7, <2>2, <2>4
<1>12. f[n] \in Nat
  BY <1>4, <1>9
<1>13. h[n] = IF f[n] > MaxWord THEN MaxWord + 1 ELSE f[n]
  <2> DEFINE v == f[n]
  <2>1. v \in Nat
    BY <1>12
  <2> HIDE DEF v
  <2>2. Stopped(v) = IF v > MaxWord THEN MaxWord + 1 ELSE v
    BY <1>2, <2>1 DEF Stopped, Smaller
  <2> QED BY <1>11, <2>2 DEF v
<1>14. from_chars(rest, base, neg, type) = NumberIn(t, type)
  <2> DEFINE v == f[n]  w == h[n]
  <2>1. v \in Nat /\ w = (IF v > MaxWord THEN MaxWord + 1 ELSE v)
    BY <1>12, <1>13
  <2> HIDE DEF v, w
  <2>2. CASE v > MaxWord
    <3>1. w > MaxWord
      BY <1>2, <2>1, <2>2
    <3> QED BY <1>5, <1>6, <2>2, <3>1 DEF v, w
  <2>3. CASE ~(v > MaxWord)
    <3>1. w = v /\ v <= MaxWord /\ ~(w > MaxWord)
      BY <1>2, <2>1, <2>3
    <3>2. n < m \/ (n = m /\ ~(n < m))
      BY <1>2, <1>9
    <3> QED BY <1>5, <1>6, <3>1, <3>2 DEF v, w
  <2> QED BY <2>2, <2>3
<1> QED BY <1>1, <1>14 DEF rest, base, neg

(* Digit by digit: a character that is no digit ends them.                 *)
LEMMA DigitRefused ==
  ASSUME NEW S, NEW t \in Seq(S), NEW type \in [signed : BOOLEAN, bits : 1 .. WordBits], NEW s, ReadingInv(t, s),
         Negative(t) => type.signed, s.at < Len(t), t[s.at + 1] \notin DigitsOf(s.base)
  PROVE  NumberIn(t, type) = Invalid
<1>1. PICK rest, f, k, m : ReadFacts(t, s, rest, f, k, m)
  BY ReadingFacts
<1>2. IsLeading(k, rest, DigitsOf(s.base)) /\ f[k] <= MaxWord /\ k < m
  <2>1. k \in Nat /\ m \in Nat /\ m = Len(rest) /\ k < m /\ rest[k + 1] \notin DigitsOf(s.base) /\ f[k] <= MaxWord
        /\ \A i \in 1 .. k : rest[i] \in DigitsOf(s.base)
    BY <1>1 DEF ReadFacts
  <2>2. k \in 0 .. m
    BY <2>1
  <2> QED BY <2>1, <2>2 DEF IsLeading
<1>3. rest = DigitsIn(t) /\ Bare(t) # <<>> /\ s.base = Base(Bare(t)) /\ IsValue(f, rest, s.base) /\ m = Len(rest)
  BY <1>1 DEF ReadFacts
<1> QED BY <1>2, <1>3, NumberInIs

(* At the end of the text.                                                 *)
LEMMA FinishedIs ==
  ASSUME NEW S, NEW t \in Seq(S), NEW type \in [signed : BOOLEAN, bits : 1 .. WordBits], NEW s, ReadingInv(t, s),
         Negative(t) => type.signed, s.at = Len(t)
  PROVE  Fits(s.acc, s.neg, type) = NumberIn(t, type)
<1>1. PICK rest, f, k, m : ReadFacts(t, s, rest, f, k, m)
  BY ReadingFacts
<1>2. IsLeading(m, rest, DigitsOf(s.base)) /\ f[m] <= MaxWord /\ s.acc = f[m]
  <2>1. k = m /\ m \in Nat /\ m = Len(rest) /\ f[k] <= MaxWord /\ s.acc = f[k]
        /\ \A i \in 1 .. k : rest[i] \in DigitsOf(s.base)
    BY <1>1 DEF ReadFacts
  <2>2. m \in 0 .. m
    BY <2>1
  <2> QED BY <2>1, <2>2 DEF IsLeading
<1>3. /\ rest = DigitsIn(t) /\ Bare(t) # <<>> /\ s.base = Base(Bare(t)) /\ IsValue(f, rest, s.base)
      /\ m = Len(rest) /\ s.neg = Negative(t)
  BY <1>1 DEF ReadFacts
<1> QED BY <1>2, <1>3, NumberInIs

(* What the next digit makes of the value.                                 *)
LEMMA NextValue ==
  ASSUME NEW t, NEW s, NEW rest, NEW f, NEW k, NEW m, ReadFacts(t, s, rest, f, k, m),
         s.at < Len(t), t[s.at + 1] \in DigitsOf(s.base)
  PROVE  /\ k + 1 \in Nat /\ k + 1 <= m /\ f[k + 1] \in Nat
         /\ f[k + 1] = s.base * s.acc + hex_digit_to_value(t[s.at + 1])
         /\ Overflows(s.acc, hex_digit_to_value(t[s.at + 1]), s.base) <=> f[k + 1] > MaxWord
         /\ \A i \in 1 .. k + 1 : rest[i] \in DigitsOf(s.base)
<1> DEFINE d == hex_digit_to_value(t[s.at + 1])
<1>1. /\ k \in Nat /\ m \in Nat /\ k < m /\ DOMAIN rest = 1 .. m /\ rest[k + 1] = t[s.at + 1]
      /\ s.base \in {2, 8, 10, 16} /\ s \in Locals /\ s.acc = f[k] /\ s.acc <= MaxWord
      /\ f \in [Nat -> Nat] /\ IsValue(f, rest, s.base)
  BY DEF ReadFacts
<1>2. MaxWord \in Nat
  BY WordFacts
<1>3. k + 1 \in Nat /\ k + 1 <= m /\ k + 1 \in 1 .. m /\ \A i \in 1 .. k + 1 : i \in 1 .. k \/ i = k + 1
  BY <1>1
<1>4. d \in Nat /\ d < s.base /\ t[s.at + 1] \in HexDigits
  BY DigitValues
<1>5. DigitAt(rest, k + 1) = d
  BY <1>1, <1>3, <1>4 DEF DigitAt
<1>6. f[k + 1] = s.base * f[k] + DigitAt(rest, k + 1)
  BY <1>1 DEF IsValue
<1>7. f[k + 1] = s.base * s.acc + d
  BY <1>1, <1>5, <1>6
<1>8. Overflows(s.acc, d, s.base) <=> s.base * s.acc + d > MaxWord
  <2> HIDE DEF d
  <2>1. PICK b, a, e : b = s.base /\ a = s.acc /\ e = d
    OBVIOUS
  <2>2. b \in {2, 8, 10, 16} /\ a \in 0 .. MaxWord /\ e \in 0 .. b - 1
    <3>1. a \in Nat /\ a <= MaxWord /\ e \in Nat /\ e < b /\ b \in {2, 8, 10, 16}
      BY <1>1, <1>4, <2>1 DEF Locals
    <3> QED BY <1>2, <3>1
  <2>3. Overflows(a, e, b) <=> b * a + e > MaxWord
    BY <2>2, OverflowsExactly
  <2> QED BY <2>1, <2>3
<1>9. \A i \in 1 .. k + 1 : rest[i] \in DigitsOf(s.base)
  BY <1>1, <1>3 DEF ReadFacts
<1>10. f[k + 1] \in Nat
  BY <1>1, <1>3
<1> QED BY <1>3, <1>7, <1>8, <1>9, <1>10

(* A digit too many for the word: all the digits are, too.                 *)
LEMMA ValueRefused ==
  ASSUME NEW S, NEW t \in Seq(S), NEW type \in [signed : BOOLEAN, bits : 1 .. WordBits], NEW s, ReadingInv(t, s),
         Negative(t) => type.signed, s.at < Len(t), t[s.at + 1] \in DigitsOf(s.base),
         Overflows(s.acc, hex_digit_to_value(t[s.at + 1]), s.base)
  PROVE  NumberIn(t, type) = OutOfRange
<1>1. PICK rest, f, k, m : ReadFacts(t, s, rest, f, k, m)
  BY ReadingFacts
<1>2. /\ rest = DigitsIn(t) /\ Bare(t) # <<>> /\ s.base = Base(Bare(t)) /\ IsValue(f, rest, s.base) /\ m = Len(rest)
      /\ s.base \in {2, 8, 10, 16} /\ m \in Nat /\ f \in [Nat -> Nat]
  BY <1>1 DEF ReadFacts
<1>3. /\ k + 1 \in Nat /\ k + 1 <= m /\ f[k + 1] \in Nat /\ f[k + 1] > MaxWord
      /\ \A i \in 1 .. k + 1 : rest[i] \in DigitsOf(s.base)
  BY <1>1, NextValue
<1>4. k \in Nat
  BY <1>1 DEF ReadFacts
<1>5. PICK n : IsLeading(n, rest, DigitsOf(s.base))
  <2>1. rest \in Seq(S)
    BY <1>2, Parts
  <2> QED BY <2>1, LeadingIs
<1>6. n \in Nat /\ k + 1 <= n
  <2>1. n \in 0 .. m /\ (n = m \/ rest[n + 1] \notin DigitsOf(s.base))
    BY <1>2, <1>5 DEF IsLeading
  <2>2. n \in Nat
    BY <1>2, <2>1
  <2>3. ~(n < k + 1)
    <3> SUFFICES ASSUME n < k + 1 PROVE FALSE
      OBVIOUS
    <3>1. n # m /\ n + 1 \in 1 .. k + 1
      BY <1>2, <1>3, <1>4, <2>2
    <3> QED BY <1>3, <2>1, <3>1
  <2> QED BY <1>3, <2>2, <2>3
<1>7. f[k + 1] <= f[n] /\ f[n] \in Nat
  <2>1. s.base \in Nat \ {0}
    <3>1. \A b \in {2, 8, 10, 16} : b \in Nat \ {0}
      OBVIOUS
    <3> QED BY <1>2, <3>1
  <2>2. f[k + 1] <= f[n]
    BY <1>2, <1>3, <1>6, <2>1, ValuesGrow
  <2> QED BY <1>2, <1>6, <2>2
<1>8. n # 0 /\ f[n] > MaxWord
  <2>1. n # 0
    BY <1>4, <1>6
  <2>2. PICK a, b : a = f[k + 1] /\ b = f[n]
    OBVIOUS
  <2>3. b > MaxWord
    <3>1. a \in Nat /\ b \in Nat /\ a <= b /\ a > MaxWord /\ MaxWord \in Nat
      BY <1>3, <1>7, <2>2, WordFacts
    <3> QED BY <3>1
  <2> QED BY <2>1, <2>2, <2>3
<1> QED BY <1>2, <1>5, <1>8, NumberInIs

(* A digit that fits is taken without a wrap-around.                       *)
LEMMA DigitTaken ==
  ASSUME NEW S, NEW t \in Seq(S), NEW s, ReadingInv(t, s), s.at < Len(t), t[s.at + 1] \in DigitsOf(s.base),
         ~Overflows(s.acc, hex_digit_to_value(t[s.at + 1]), s.base),
         NEW r, r = [s EXCEPT !.at = @ + 1, !.acc = (s.base * @ + hex_digit_to_value(t[s.at + 1])) % (MaxWord + 1)]
  PROVE  ReadingInv(t, r)
<1>1. PICK rest, f, k, m : f = ValueOf(DigitsIn(t), s.base) /\ ReadFacts(t, s, rest, f, k, m)
  BY ReadingFacts
<1>2. /\ rest = DigitsIn(t) /\ Bare(t) # <<>> /\ s.base = Base(Bare(t)) /\ s.neg = Negative(t) /\ s \in Locals
      /\ s.at + 1 \in InFront(t) .. Len(t) /\ (s.at + 1) - InFront(t) = k + 1
  BY <1>1 DEF ReadFacts
<1>3. /\ f[k + 1] \in Nat /\ f[k + 1] = s.base * s.acc + hex_digit_to_value(t[s.at + 1]) /\ ~(f[k + 1] > MaxWord)
      /\ \A i \in 1 .. k + 1 : rest[i] \in DigitsOf(s.base)
  BY <1>1, NextValue
<1>4. f[k + 1] % (MaxWord + 1) = f[k + 1] /\ f[k + 1] <= MaxWord
  <2>1. PICK a : a = f[k + 1]
    OBVIOUS
  <2>2. a \in Nat /\ ~(a > MaxWord) /\ MaxWord \in Nat
    BY <1>3, <2>1, WordFacts
  <2>3. a % (MaxWord + 1) = a /\ a <= MaxWord
    BY <2>2
  <2> QED BY <2>1, <2>3
<1>5. r = [s EXCEPT !.at = s.at + 1, !.acc = f[k + 1]]
  BY <1>3, <1>4
<1>6. s.at + 1 \in Nat
  BY <1>2 DEF Locals
<1>7. r \in Locals /\ r.at = s.at + 1 /\ r.acc = f[k + 1] /\ r.neg = s.neg /\ r.base = s.base
  <2>1. PICK a, v : a = s.at + 1 /\ v = f[k + 1]
    OBVIOUS
  <2>2. a \in Nat /\ v \in Nat /\ r = [s EXCEPT !.at = a, !.acc = v] /\ s \in Locals
    BY <1>2, <1>3, <1>5, <1>6, <2>1
  <2>3. r \in Locals /\ r.at = a /\ r.acc = v /\ r.neg = s.neg /\ r.base = s.base
    BY <2>2 DEF Locals
  <2> QED BY <2>1, <2>3
<1>8. r.at - InFront(t) = k + 1
  BY <1>2, <1>7
<1>9. r.acc = ValueOf(DigitsIn(t), r.base)[r.at - InFront(t)]
  BY <1>1, <1>7, <1>8
<1>10. \A i \in 1 .. r.at - InFront(t) : DigitsIn(t)[i] \in DigitsOf(r.base)
  BY <1>2, <1>3, <1>7, <1>8
<1> QED BY <1>2, <1>4, <1>7, <1>9, <1>10 DEF ReadingInv
-----------------------------------------------------------------------------
(* What holds of a call of parse_number at every moment: it is at its      *)
(* start, or has read the digits up to a place, all of them left with      *)
(* std::from_chars; and what it returned is the number in the text.        *)
AtStart == st = ReaderStart
Midway(t) ==
  /\ ReadingInv(t, st) /\ (Negative(t) => job.type.signed)
  /\ job.charconv => st.at = InFront(t)
ReaderInv ==
  job.function = "parse_number" =>
    /\ IsNumberJob(job)
    /\ AtStart \/ Midway(job.text)
    /\ result \in {Running, <<NumberIn(job.text, job.type)>>}

LEMMA ReaderStarts == Init => ReaderInv
<1> SUFFICES ASSUME Init, job.function = "parse_number"
             PROVE  IsNumberJob(job) /\ AtStart /\ result = Running
  BY DEF ReaderInv
<1>1. IsNumberJob(job)
  BY JobsAssumption DEF Init
<1>2. st = ReaderStart /\ result = Running
  BY DEF Init, Start
<1> QED BY <1>1, <1>2 DEF AtStart

(* Every step of it.                                                       *)
LEMMA ReaderStep ==
  ASSUME ReaderInv, ReadNext
  PROVE  ReaderInv'
<1> DEFINE t == job.text
<1>1. job.function = "parse_number" /\ result = Running
  BY DEF ReadNext, RefuseText, TakeBase, Convert, RefuseDigit, RefuseValue, TakeDigit, Finish, Reads, Scanning, Runs
<1>2. IsNumberJob(job) /\ (AtStart \/ Midway(t))
  BY <1>1 DEF ReaderInv
<1>3. /\ t \in Seq(0 .. 255) /\ job.type \in [signed : BOOLEAN, bits : 1 .. WordBits] /\ job.charconv \in BOOLEAN
  BY <1>2 DEF IsNumberJob
<1>4. (IF Signed(t) THEN After(1) ELSE t) = Bare(t)
  BY DEF Bare, Rest, After, Subject
<1>5. ASSUME job' = job, st' = st, result' = <<NumberIn(t, job.type)>>
      PROVE  ReaderInv'
  BY <1>2, <1>5 DEF ReaderInv, AtStart, Midway
<1>6. ASSUME job' = job, result' = result, ReadingInv(t, st'), Negative(t) => job.type.signed,
             job.charconv => st'.at = InFront(t)
      PROVE  ReaderInv'
  BY <1>1, <1>2, <1>6 DEF ReaderInv, Midway
<1>7. CASE RefuseText
  <2>1. Bare(t) = <<>> \/ (Negative(t) /\ ~job.type.signed)
    <3>1. t = <<>> => Bare(t) = <<>>
      BY DEF Bare, Signed
    <3> QED BY <1>4, <1>7, <3>1 DEF RefuseText, Subject, Negative
  <2>2. job' = job /\ st' = st /\ result' = <<Invalid>>
    BY <1>7 DEF RefuseText, Returns
  <2>3. NumberIn(t, job.type) = Invalid
    BY <2>1, RefusedIs
  <2> QED BY <1>5, <2>2, <2>3
<1>8. CASE TakeBase
  <2> DEFINE bare == Bare(t)  base == Base(bare)  cut == Len(t) - Len(bare) + PrefixSize(base)
  <2>1. /\ t # <<>> /\ bare # <<>> /\ (t[1] = Minus => job.type.signed) /\ job' = job /\ result' = result
        /\ st' = [at |-> cut, neg |-> t[1] = Minus, base |-> base, acc |-> 0]
    BY <1>4, <1>8 DEF TakeBase, Goes, Subject
  <2>2. (t[1] = Minus) = Negative(t) /\ InFront(t) = cut
    BY <2>1 DEF Negative, InFront
  <2>3. /\ base \in {2, 8, 10, 16} /\ cut \in Nat /\ cut < Len(t) /\ Len(t) \in Nat
    <3>1. PICK bytes : t \in Seq(bytes)
      BY <1>3
    <3>2. base \in {2, 8, 10, 16} /\ InFront(t) \in Nat /\ InFront(t) < Len(t) /\ Len(t) \in Nat
      BY <2>1, <3>1, Parts
    <3> QED BY <2>2, <3>2
  <2>4. MaxWord \in Nat /\ base \in Nat /\ Negative(t) \in BOOLEAN
    BY <2>3, WordFacts DEF Negative
  <2> HIDE DEF bare, base, cut
  <2>5. st'.at = cut /\ st'.neg = Negative(t) /\ st'.base = base /\ st'.acc = 0 /\ st' \in Locals
    BY <2>1, <2>2, <2>3, <2>4 DEF Locals
  <2>6. st'.at - InFront(t) = 0 /\ st'.at \in InFront(t) .. Len(t) /\ 0 <= MaxWord
    BY <2>2, <2>3, <2>4, <2>5
  <2>7. ValueOf(DigitsIn(t), base)[0] = 0
    BY <2>4, ValuesExist DEF IsValue
  <2>8. \A i \in 1 .. st'.at - InFront(t) : DigitsIn(t)[i] \in DigitsOf(st'.base)
    BY <2>6
  <2>9. ReadingInv(t, st')
    BY <2>1, <2>5, <2>6, <2>7, <2>8 DEF ReadingInv, bare, base
  <2> QED BY <1>6, <2>1, <2>2, <2>5, <2>9
<1>9. ASSUME st.base # 0
      PROVE  ReadingInv(t, st) /\ (Negative(t) => job.type.signed) /\ (job.charconv => st.at = InFront(t))
  BY <1>2, <1>9 DEF AtStart, ReaderStart, Midway
<1>10. CASE Convert
  <2>1. st.base # 0 /\ job.charconv /\ job' = job /\ st' = st
        /\ result' = <<from_chars(SubSeq(t, st.at + 1, Len(t)), st.base, st.neg, job.type)>>
    BY <1>10 DEF Convert, Returns, After, Subject
  <2>2. /\ Bare(t) # <<>> /\ st.base = Base(Bare(t)) /\ st.neg = Negative(t) /\ st.at = InFront(t)
        /\ Negative(t) => job.type.signed
    BY <1>9, <2>1 DEF ReadingInv
  <2>3. from_chars(SubSeq(t, InFront(t) + 1, Len(t)), Base(Bare(t)), Negative(t), job.type) = NumberIn(t, job.type)
    BY <1>3, <2>2, ConvertsIs
  <2> QED BY <1>5, <2>1, <2>2, <2>3
<1>11. CASE RefuseDigit
  <2>1. /\ st.base # 0 /\ st.at < Len(t) /\ t[st.at + 1] \notin DigitsOf(st.base)
        /\ job' = job /\ st' = st /\ result' = <<Invalid>>
    BY <1>11 DEF RefuseDigit, Scanning, NextChar, Subject, Returns
  <2>2. NumberIn(t, job.type) = Invalid
    BY <1>3, <1>9, <2>1, DigitRefused
  <2> QED BY <1>5, <2>1, <2>2
<1>12. CASE RefuseValue
  <2>1. /\ st.base # 0 /\ st.at < Len(t) /\ t[st.at + 1] \in DigitsOf(st.base)
        /\ Overflows(st.acc, hex_digit_to_value(t[st.at + 1]), st.base)
        /\ job' = job /\ st' = st /\ result' = <<OutOfRange>>
    BY <1>12 DEF RefuseValue, Scanning, NextChar, Subject, Returns
  <2>2. NumberIn(t, job.type) = OutOfRange
    BY <1>3, <1>9, <2>1, ValueRefused
  <2> QED BY <1>5, <2>1, <2>2
<1>13. CASE TakeDigit
  <2>1. /\ st.base # 0 /\ st.at < Len(t) /\ t[st.at + 1] \in DigitsOf(st.base) /\ ~job.charconv
        /\ ~Overflows(st.acc, hex_digit_to_value(t[st.at + 1]), st.base)
        /\ job' = job /\ result' = result
        /\ st' = [st EXCEPT !.at = @ + 1,
                            !.acc = (st.base * @ + hex_digit_to_value(t[st.at + 1])) % (MaxWord + 1)]
    BY <1>13, SMTT(40) DEF TakeDigit, Scanning, NextChar, Subject, Goes
  <2>2. ReadingInv(t, st')
    BY <1>3, <1>9, <2>1, DigitTaken
  <2> QED BY <1>6, <1>9, <2>1, <2>2, SMTT(40)
<1>14. CASE Finish
  <2>1. st.base # 0 /\ st.at = Len(t) /\ job' = job /\ st' = st /\ result' = <<Fits(st.acc, st.neg, job.type)>>
    BY <1>14 DEF Finish, Scanning, Subject, Returns
  <2>2. Fits(st.acc, st.neg, job.type) = NumberIn(t, job.type)
    BY <1>3, <1>9, <2>1, FinishedIs
  <2> QED BY <1>5, <2>1, <2>2
<1> QED BY <1>7, <1>8, <1>10, <1>11, <1>12, <1>13, <1>14 DEF ReadNext

LEMMA NotReaderSteps ==
  ASSUME Next, ~ReadNext
  PROVE  (job.function # "parse_number" /\ job' = job) \/ UNCHANGED callVars
<1>1. CASE HashNext
  BY <1>1 DEF HashNext, TakeEight, TakeOne, Hashed, Hashes, Runs, Goes, Returns
<1>2. CASE FormatNext
  BY <1>2 DEF FormatNext, RefuseFormat, Literally, Brace, Field, Formatted, Formats, Writing, Runs, Goes, Returns
<1>3. CASE SuggestNext
  BY <1>3 DEF SuggestNext, Finished, PassOver, Consider, Row, Compare, Skip, Suggests, Runs, Goes, Returns
<1>4. CASE AmalgamateNext
  BY <1>4 DEF AmalgamateNext, EnterEntry, Inline, Copy, LeaveHeader, Written, Reading, Amalgamates, Runs, Goes, Returns
<1>5. CASE DateNext
  BY <1>5 DEF DateNext, parse_iso_date, parse_date_macro, parse_iso_datetime, Runs, Returns
<1>6. CASE Terminated
  BY <1>6 DEF Terminated
<1> QED BY <1>1, <1>2, <1>3, <1>4, <1>5, <1>6 DEF Next

LEMMA ReaderInvariant == Spec => []ReaderInv
<1>1. ReaderInv /\ [Next]_callVars => ReaderInv'
  <2> SUFFICES ASSUME ReaderInv, [Next]_callVars PROVE ReaderInv'
    OBVIOUS
  <2>1. CASE ReadNext
    BY <2>1, ReaderStep
  <2>2. CASE UNCHANGED callVars
    BY <2>2 DEF callVars, ReaderInv, AtStart, Midway
  <2>3. CASE job.function # "parse_number" /\ job' = job
    BY <2>3 DEF ReaderInv
  <2> QED BY <2>1, <2>2, <2>3, NotReaderSteps
<1> QED BY <1>1, ReaderStarts, PTL DEF Spec

(* A text is read as the number it is, to the last value of every type and *)
(* in both builds: parse_number answers with the digits weighted by their  *)
(* places, with out of range exactly when the type or the word cannot hold *)
(* them, and with invalid exactly when the text is no number.              *)
THEOREM NumbersReadExactly ==
  Spec => []ReadsExactly
<1>1. ReaderInv => ReadsExactly
  BY DEF ReaderInv, ReadsExactly, Returned, Answer
<1> QED BY <1>1, ReaderInvariant, PTL
-----------------------------------------------------------------------------
(* The table of distances: f[i][j] is the distance of the first i          *)
(* characters of a and the first j of b.                                   *)
Cost(a, i, b, j) == IF i \in DOMAIN a /\ j \in DOMAIN b /\ b[j] = a[i] THEN 0 ELSE 1
Entry(left, above, before, cost) == Smaller(left + 1, Smaller(above + 1, before + cost))

IsRowOf(r, above, first, a, i, b) ==
  /\ r \in [Nat -> Nat] /\ r[0] = first
  /\ \A j \in Nat : r[j + 1] = Entry(r[j], above[j + 1], above[j], Cost(a, i, b, j + 1))
IsTable(f, a, b) ==
  /\ f \in [Nat -> [Nat -> Nat]] /\ \A j \in Nat : f[0][j] = j
  /\ \A i \in Nat : IsRowOf(f[i + 1], f[i], i + 1, a, i + 1, b)
TableOf(a, b) == CHOOSE f : IsTable(f, a, b)

LEMMA EntryIsNat == \A l, u, d \in Nat : \A c \in {0, 1} : Entry(l, u, d, c) \in Nat
BY DEF Entry, Smaller

LEMMA CostIs == \A a, i, b, j : Cost(a, i, b, j) \in {0, 1}
BY DEF Cost

LEMMA RowExists ==
  ASSUME NEW above \in [Nat -> Nat], NEW first \in Nat, NEW a, NEW i, NEW b
  PROVE  \E r \in [Nat -> Nat] : IsRowOf(r, above, first, a, i, b)
<1> DEFINE step == [j \in Nat |-> [l \in Nat |-> Entry(l, above[j + 1], above[j], Cost(a, i, b, j + 1))]]
<1>1. \A j, l \in Nat : Entry(l, above[j + 1], above[j], Cost(a, i, b, j + 1)) \in Nat
  <2> TAKE j, l \in Nat
  <2>1. PICK u, d, c : u = above[j + 1] /\ d = above[j] /\ c = Cost(a, i, b, j + 1)
    OBVIOUS
  <2>2. u \in Nat /\ d \in Nat /\ c \in {0, 1}
    BY <2>1, CostIs
  <2>3. Entry(l, u, d, c) \in Nat
    BY <2>2, EntryIsNat
  <2> QED BY <2>1, <2>3
<1>2. step \in [Nat -> [Nat -> Nat]] /\ \A j, l \in Nat : step[j][l] = Entry(l, above[j + 1], above[j], Cost(a, i, b, j + 1))
  BY <1>1
<1> HIDE DEF step
<1>3. PICK r \in [Nat -> Nat] : r[0] = first /\ \A j \in Nat : r[j + 1] = step[j][r[j]]
  <2>1. IsDefined(Nat, first, step)
    BY <1>2, NatRecursion
  <2> QED BY <2>1 DEF IsDefined
<1>4. IsRowOf(r, above, first, a, i, b)
  BY <1>2, <1>3 DEF IsRowOf
<1> QED BY <1>4

LEMMA TablesExist ==
  ASSUME NEW a, NEW b
  PROVE  IsTable(TableOf(a, b), a, b)
<1> DEFINE Row_(i, above) == CHOOSE r \in [Nat -> Nat] : IsRowOf(r, above, i + 1, a, i + 1, b)
           step == [i \in Nat |-> [above \in [Nat -> Nat] |-> Row_(i, above)]]
<1>1. ASSUME NEW i \in Nat, NEW above \in [Nat -> Nat]
      PROVE  Row_(i, above) \in [Nat -> Nat] /\ IsRowOf(Row_(i, above), above, i + 1, a, i + 1, b)
  <2>1. \E r \in [Nat -> Nat] : IsRowOf(r, above, i + 1, a, i + 1, b)
    <3>1. PICK n \in Nat : n = i + 1
      OBVIOUS
    <3>2. \E r \in [Nat -> Nat] : IsRowOf(r, above, n, a, n, b)
      BY RowExists
    <3> QED BY <3>1, <3>2
  <2> QED BY <2>1
<1> HIDE DEF Row_
<1>2. /\ step \in [Nat -> [[Nat -> Nat] -> [Nat -> Nat]]]
      /\ \A i \in Nat : \A above \in [Nat -> Nat] : step[i][above] = Row_(i, above)
  BY <1>1
<1> HIDE DEF step
<1> DEFINE top == [j \in Nat |-> j]
<1>3. PICK f \in [Nat -> [Nat -> Nat]] : f[0] = top /\ \A i \in Nat : f[i + 1] = step[i][f[i]]
  <2>1. top \in [Nat -> Nat]
    OBVIOUS
  <2> HIDE DEF top
  <2>2. IsDefined([Nat -> Nat], top, step)
    BY <1>2, <2>1, NatRecursion
  <2> QED BY <2>2 DEF IsDefined
<1>4. \A j \in Nat : f[0][j] = j
  BY <1>3
<1>5. ASSUME NEW i \in Nat PROVE IsRowOf(f[i + 1], f[i], i + 1, a, i + 1, b)
  <2>1. f[i] \in [Nat -> Nat] /\ f[i + 1] = step[i][f[i]]
    BY <1>3
  <2>2. f[i + 1] = Row_(i, f[i])
    BY <1>2, <2>1
  <2>3. IsRowOf(Row_(i, f[i]), f[i], i + 1, a, i + 1, b)
    BY <1>1, <2>1
  <2> QED BY <2>2, <2>3
<1>6. IsTable(f, a, b)
  BY <1>4, <1>5 DEF IsTable
<1> QED BY <1>6 DEF TableOf

(* An entry and its neighbours.                                            *)
Among(f, a, b, i, j) ==
  \/ f[i + 1][j + 1] = f[i + 1][j] + 1
  \/ f[i + 1][j + 1] = f[i][j + 1] + 1
  \/ f[i + 1][j + 1] = f[i][j] + Cost(a, i + 1, b, j + 1)
Steps(f, a, b) ==
  /\ \A i, j \in Nat : f[i][j] \in Nat
  /\ \A j \in Nat : f[0][j] = j
  /\ \A i \in Nat : f[i][0] = i
  /\ \A i, j \in Nat : f[i][j + 1] <= f[i][j] + 1
  /\ \A i, j \in Nat : f[i + 1][j] <= f[i][j] + 1
  /\ \A i, j \in Nat : f[i + 1][j + 1] <= f[i][j] + Cost(a, i + 1, b, j + 1)
  /\ \A i, j \in Nat : Among(f, a, b, i, j)

LEMMA TableSteps ==
  ASSUME NEW a, NEW b, NEW f, IsTable(f, a, b)
  PROVE  Steps(f, a, b)
<1>1. /\ f \in [Nat -> [Nat -> Nat]] /\ \A j \in Nat : f[0][j] = j
      /\ \A i \in Nat : f[i + 1][0] = i + 1
      /\ \A i, j \in Nat : f[i + 1][j + 1] = Entry(f[i + 1][j], f[i][j + 1], f[i][j], Cost(a, i + 1, b, j + 1))
  BY DEF IsTable, IsRowOf
<1>2. \A i, j \in Nat : f[i][j] \in Nat
  BY <1>1
<1>3. ASSUME NEW i \in Nat PROVE f[i][0] = i
  <2>1. CASE i = 0 BY <1>1, <2>1
  <2>2. CASE i # 0
    <3>1. i - 1 \in Nat /\ (i - 1) + 1 = i
      BY <2>2
    <3> QED BY <1>1, <3>1
  <2> QED BY <2>1, <2>2
<1>4. ASSUME NEW i \in Nat, NEW j \in Nat
      PROVE  /\ f[i + 1][j + 1] <= f[i + 1][j] + 1 /\ f[i + 1][j + 1] <= f[i][j + 1] + 1
             /\ f[i + 1][j + 1] <= f[i][j] + Cost(a, i + 1, b, j + 1)
             /\ Among(f, a, b, i, j)
  <2> DEFINE l == f[i + 1][j]  u == f[i][j + 1]  d == f[i][j]  e == f[i + 1][j + 1]  c == Cost(a, i + 1, b, j + 1)
  <2>1. l \in Nat /\ u \in Nat /\ d \in Nat /\ c \in {0, 1} /\ e = Entry(l, u, d, c)
    BY <1>1, <1>2, CostIs
  <2> HIDE DEF l, u, d, e, c
  <2>2. e <= l + 1 /\ e <= u + 1 /\ e <= d + c /\ (e = l + 1 \/ e = u + 1 \/ e = d + c)
    BY <2>1 DEF Entry, Smaller
  <2> QED BY <2>2 DEF l, u, d, e, c, Among
<1>5. ASSUME NEW i \in Nat, NEW j \in Nat PROVE f[i][j + 1] <= f[i][j] + 1
  <2>1. CASE i = 0
    <3>1. f[i][j + 1] = j + 1 /\ f[i][j] = j
      <4>1. j + 1 \in Nat
        OBVIOUS
      <4>2. \A k \in Nat : f[i][k] = k
        BY <1>1, <2>1
      <4> QED BY <4>1, <4>2
    <3> QED BY <3>1
  <2>2. CASE i # 0
    <3>1. i - 1 \in Nat /\ (i - 1) + 1 = i
      BY <2>2
    <3> QED BY <1>4, <3>1
  <2> QED BY <2>1, <2>2
<1>6. ASSUME NEW i \in Nat, NEW j \in Nat PROVE f[i + 1][j] <= f[i][j] + 1
  <2>1. CASE j = 0
    <3>1. f[i + 1][j] = i + 1 /\ f[i][j] = i
      BY <1>1, <1>3, <2>1
    <3> QED BY <3>1
  <2>2. CASE j # 0
    <3>1. j - 1 \in Nat /\ (j - 1) + 1 = j
      BY <2>2
    <3> QED BY <1>4, <3>1
  <2> QED BY <2>1, <2>2
<1> QED BY <1>1, <1>2, <1>3, <1>4, <1>5, <1>6 DEF Steps

(* Induction over the entries of a table.                                  *)
LEMMA TableInduction ==
  ASSUME NEW G, \A j \in Nat : <<0, j>> \in G, \A i \in Nat : <<i, 0>> \in G,
         \A i, j \in Nat : <<i + 1, j>> \in G /\ <<i, j + 1>> \in G /\ <<i, j>> \in G => <<i + 1, j + 1>> \in G
  PROVE  \A i, j \in Nat : <<i, j>> \in G
<1> DEFINE rows == {i \in Nat : \A j \in Nat : <<i, j>> \in G}
<1>1. 0 \in rows
  OBVIOUS
<1>2. ASSUME NEW i \in Nat, i \in rows PROVE i + 1 \in rows
  <2> DEFINE places == {j \in Nat : <<i + 1, j>> \in G}
  <2>1. 0 \in places
    OBVIOUS
  <2>2. ASSUME NEW j \in Nat, j \in places PROVE j + 1 \in places
    <3>1. <<i + 1, j>> \in G
      BY <2>2
    <3>2. j + 1 \in Nat /\ \A k \in Nat : <<i, k>> \in G
      BY <1>2
    <3>3. <<i, j + 1>> \in G /\ <<i, j>> \in G
      BY <3>2
    <3>4. <<i + 1, j + 1>> \in G
      BY <3>1, <3>3
    <3> QED BY <3>2, <3>4
  <2>3. Nat \subseteq places
    <3> HIDE DEF places
    <3> QED BY <2>1, <2>2, NatSetInduction
  <2> QED BY <2>3
<1>3. Nat \subseteq rows
  <2> HIDE DEF rows
  <2> QED BY <1>1, <1>2, NatSetInduction
<1> QED BY <1>3

(* One entry to the left is at most one more; a text is at most as near as *)
(* its length allows, and at most as far as the longer one is long.        *)
LEMMA LeftOf ==
  ASSUME NEW a, NEW b, NEW f, Steps(f, a, b)
  PROVE  \A i, j \in Nat : f[i][j] <= f[i][j + 1] + 1
<1> DEFINE rows == {i \in Nat : \A j \in Nat : f[i][j] <= f[i][j + 1] + 1}
<1>1. 0 \in rows
  <2> SUFFICES ASSUME NEW j \in Nat PROVE f[0][j] <= f[0][j + 1] + 1
    OBVIOUS
  <2>1. j + 1 \in Nat
    OBVIOUS
  <2>2. f[0][j] = j /\ f[0][j + 1] = j + 1
    BY <2>1 DEF Steps
  <2> QED BY <2>2
<1>2. ASSUME NEW i \in Nat, i \in rows PROVE i + 1 \in rows
  <2> SUFFICES ASSUME NEW j \in Nat PROVE f[i + 1][j] <= f[i + 1][j + 1] + 1
    OBVIOUS
  <2> DEFINE l == f[i + 1][j]  u == f[i][j + 1]  d == f[i][j]  e == f[i + 1][j + 1]  c == Cost(a, i + 1, b, j + 1)
  <2>1. l \in Nat /\ u \in Nat /\ d \in Nat /\ e \in Nat
    BY DEF Steps
  <2>2. l <= d + 1 /\ (e = l + 1 \/ e = u + 1 \/ e = d + c) /\ c \in {0, 1}
    BY CostIs DEF Steps, Among
  <2>3. d <= u + 1
    BY <1>2
  <2> HIDE DEF l, u, d, e, c
  <2>4. l <= e + 1
    BY <2>1, <2>2, <2>3
  <2> QED BY <2>4 DEF l, e
<1>3. Nat \subseteq rows
  <2> HIDE DEF rows
  <2> QED BY <1>1, <1>2, NatSetInduction
<1> QED BY <1>3

LEMMA GapIsLess ==
  ASSUME NEW a, NEW b, NEW f, Steps(f, a, b)
  PROVE  \A i, j \in Nat : i <= j + f[i][j] /\ j <= i + f[i][j] /\ f[i][j] <= Larger(i, j)
<1> DEFINE P(i, j) == i <= j + f[i][j] /\ j <= i + f[i][j] /\ f[i][j] <= Larger(i, j)
           G == {w \in Nat \X Nat : P(w[1], w[2])}
<1>1. ASSUME NEW j \in Nat PROVE P(0, j)
  <2>1. f[0][j] = j
    BY DEF Steps
  <2> QED BY <2>1 DEF Larger
<1>2. ASSUME NEW i \in Nat PROVE P(i, 0)
  <2>1. f[i][0] = i
    BY DEF Steps
  <2> QED BY <2>1 DEF Larger
<1>3. ASSUME NEW i \in Nat, NEW j \in Nat, P(i + 1, j), P(i, j + 1), P(i, j) PROVE P(i + 1, j + 1)
  <2> DEFINE l == f[i + 1][j]  u == f[i][j + 1]  d == f[i][j]  e == f[i + 1][j + 1]  c == Cost(a, i + 1, b, j + 1)
  <2>1. l \in Nat /\ u \in Nat /\ d \in Nat /\ e \in Nat
    BY DEF Steps
  <2>2. e <= d + c /\ (e = l + 1 \/ e = u + 1 \/ e = d + c) /\ c \in {0, 1}
    BY CostIs DEF Steps, Among
  <2>3. i + 1 <= j + l /\ j <= (i + 1) + l /\ i <= (j + 1) + u /\ j + 1 <= i + u /\ i <= j + d /\ j <= i + d /\ d <= Larger(i, j)
    BY <1>3
  <2> HIDE DEF l, u, d, e, c
  <2>4. i + 1 <= (j + 1) + e /\ j + 1 <= (i + 1) + e
    BY <2>1, <2>2, <2>3
  <2>5. e <= Larger(i + 1, j + 1)
    BY <2>1, <2>2, <2>3 DEF Larger
  <2> QED BY <2>4, <2>5 DEF e
<1> HIDE DEF P
<1>4. /\ \A j \in Nat : <<0, j>> \in G
      /\ \A i \in Nat : <<i, 0>> \in G
      /\ \A i, j \in Nat : <<i + 1, j>> \in G /\ <<i, j + 1>> \in G /\ <<i, j>> \in G => <<i + 1, j + 1>> \in G
  BY <1>1, <1>2, <1>3
<1>5. \A i, j \in Nat : <<i, j>> \in G
  <2> HIDE DEF G
  <2> QED BY <1>4, TableInduction
<1> QED BY <1>5 DEF P

(* The distance of a text to itself.                                       *)
LEMMA SelfIsZero ==
  ASSUME NEW a, NEW f, Steps(f, a, a), NEW n \in Nat, DOMAIN a = 1 .. n
  PROVE  f[n][n] = 0
<1> DEFINE zero == {i \in Nat : i <= n => f[i][i] = 0}
<1>1. 0 \in zero
  BY DEF Steps
<1>2. ASSUME NEW i \in Nat, i \in zero PROVE i + 1 \in zero
  <2> SUFFICES ASSUME i + 1 <= n PROVE f[i + 1][i + 1] = 0
    OBVIOUS
  <2>1. i + 1 \in DOMAIN a
    OBVIOUS
  <2>2. Cost(a, i + 1, a, i + 1) = 0
    BY <2>1 DEF Cost
  <2>3. f[i][i] = 0
    BY <1>2
  <2>4. i + 1 \in Nat
    OBVIOUS
  <2>5. f[i + 1][i + 1] \in Nat /\ f[i + 1][i + 1] <= f[i][i] + Cost(a, i + 1, a, i + 1)
    BY <2>4 DEF Steps
  <2> QED BY <2>2, <2>3, <2>5
<1>3. n \in zero
  <2> HIDE DEF zero
  <2> QED BY <1>1, <1>2, NatSetInduction
<1> QED BY <1>3

(* A row beyond a limit stays beyond it.                                   *)
LEMMA RowsBeyond ==
  ASSUME NEW a, NEW b, NEW f, Steps(f, a, b), NEW n \in Nat, NEW c \in Nat, NEW i \in Nat,
         \A j \in 0 .. n : f[i][j] > c
  PROVE  \A m \in Nat : f[i + m][n] > c
<1> DEFINE beyond == {m \in Nat : \A j \in 0 .. n : f[i + m][j] > c}
<1>1. 0 \in beyond
  <2>1. i + 0 = i
    OBVIOUS
  <2> QED BY <2>1
<1>2. ASSUME NEW m \in Nat, m \in beyond PROVE m + 1 \in beyond
  <2> DEFINE k == i + m
  <2>1. k \in Nat /\ i + (m + 1) = k + 1 /\ \A j \in 0 .. n : f[k][j] > c
    BY <1>2
  <2> HIDE DEF k
  <2> DEFINE places == {j \in Nat : j <= n => f[k + 1][j] > c}
  <2>2. 0 \in places
    <3>1. f[k + 1][0] = k + 1 /\ f[k][0] = k
      BY <2>1 DEF Steps
    <3>2. f[k][0] > c
      BY <2>1
    <3> QED BY <2>1, <3>1, <3>2
  <2>3. ASSUME NEW j \in Nat, j \in places PROVE j + 1 \in places
    <3> SUFFICES ASSUME j + 1 <= n PROVE f[k + 1][j + 1] > c
      OBVIOUS
    <3>1. j \in 0 .. n /\ j + 1 \in 0 .. n /\ j <= n
      OBVIOUS
    <3>2. f[k][j] > c /\ f[k][j + 1] > c /\ f[k + 1][j] > c
      BY <2>1, <2>3, <3>1
    <3> DEFINE l == f[k + 1][j]  u == f[k][j + 1]  d == f[k][j]  e == f[k + 1][j + 1]  w == Cost(a, k + 1, b, j + 1)
    <3>3. l \in Nat /\ u \in Nat /\ d \in Nat /\ e \in Nat
      BY <2>1 DEF Steps
    <3>4. (e = l + 1 \/ e = u + 1 \/ e = d + w) /\ w \in {0, 1}
      BY <2>1, CostIs DEF Steps, Among
    <3>5. l > c /\ u > c /\ d > c
      BY <3>2
    <3> HIDE DEF l, u, d, e, w
    <3>6. e > c
      BY <3>3, <3>4, <3>5
    <3> QED BY <3>6 DEF e
  <2>4. Nat \subseteq places
    <3> HIDE DEF places
    <3> QED BY <2>2, <2>3, NatSetInduction
  <2>5. \A j \in 0 .. n : f[k + 1][j] > c
    BY <2>4
  <2> QED BY <2>1, <2>5
<1>3. Nat \subseteq beyond
  <2> HIDE DEF beyond
  <2> QED BY <1>1, <1>2, NatSetInduction
<1> QED BY <1>3

(* Where two texts go on alike, their distances from a third do.           *)
Near(f, g, e, e1, d) == \A i \in Nat : g[i][e1] <= f[i][e] + d
Alike(a, b, c, e, e1, m) ==
  \A i, k \in Nat : k < m => Cost(a, i + 1, c, (e1 + k) + 1) = Cost(a, i + 1, b, (e + k) + 1)
NearBehind(f, g, e, e1, m, d) == \A i, k \in Nat : k <= m => g[i][e1 + k] <= f[i][e + k] + d

LEMMA AlikeBehind ==
  ASSUME NEW a, NEW b, NEW c, NEW f, NEW g, Steps(f, a, b), Steps(g, a, c),
         NEW e \in Nat, NEW e1 \in Nat, NEW m \in Nat, NEW d \in Nat,
         Near(f, g, e, e1, d), Alike(a, b, c, e, e1, m)
  PROVE  NearBehind(f, g, e, e1, m, d)
<1> DEFINE P(i, k) == k <= m => g[i][e1 + k] <= f[i][e + k] + d
           G == {w \in Nat \X Nat : P(w[1], w[2])}
<1>1. ASSUME NEW k \in Nat PROVE P(0, k)
  <2>1. e + k \in Nat /\ e1 + k \in Nat
    OBVIOUS
  <2>2. g[0][e1 + k] = e1 + k /\ f[0][e + k] = e + k /\ g[0][e1] = e1 /\ f[0][e] = e
    BY <2>1 DEF Steps
  <2>3. g[0][e1] <= f[0][e] + d
    BY DEF Near
  <2> QED BY <2>2, <2>3
<1>2. ASSUME NEW i \in Nat PROVE P(i, 0)
  <2>1. e + 0 = e /\ e1 + 0 = e1
    OBVIOUS
  <2> QED BY <2>1 DEF Near
<1>3. ASSUME NEW i \in Nat, NEW k \in Nat, P(i + 1, k), P(i, k + 1), P(i, k) PROVE P(i + 1, k + 1)
  <2> SUFFICES ASSUME k + 1 <= m PROVE g[i + 1][e1 + (k + 1)] <= f[i + 1][e + (k + 1)] + d
    OBVIOUS
  <2> DEFINE j == e + k  j1 == e1 + k
  <2>1. j \in Nat /\ j1 \in Nat /\ e + (k + 1) = j + 1 /\ e1 + (k + 1) = j1 + 1 /\ k <= m /\ k < m
    OBVIOUS
  <2>2. g[i + 1][j1] <= f[i + 1][j] + d /\ g[i][j1 + 1] <= f[i][j + 1] + d /\ g[i][j1] <= f[i][j] + d
    BY <1>3, <2>1
  <2>3. Cost(a, i + 1, c, j1 + 1) = Cost(a, i + 1, b, j + 1)
    BY <2>1 DEF Alike
  <2> HIDE DEF j, j1
  <2> DEFINE l == f[i + 1][j]  u == f[i][j + 1]  q == f[i][j]  z == f[i + 1][j + 1]  w == Cost(a, i + 1, b, j + 1)
             l1 == g[i + 1][j1]  u1 == g[i][j1 + 1]  q1 == g[i][j1]  z1 == g[i + 1][j1 + 1]
  <2>4. l \in Nat /\ u \in Nat /\ q \in Nat /\ z \in Nat /\ l1 \in Nat /\ u1 \in Nat /\ q1 \in Nat /\ z1 \in Nat
    BY <2>1, SMTT(40) DEF Steps
  <2>5. (z = l + 1 \/ z = u + 1 \/ z = q + w) /\ w \in {0, 1}
    BY <2>1, CostIs, SMTT(40) DEF Steps, Among
  <2>6. z1 <= l1 + 1 /\ z1 <= u1 + 1 /\ z1 <= q1 + w
    <3>1. j1 + 1 \in Nat /\ i + 1 \in Nat
      BY <2>1
    <3> QED BY <2>1, <2>3, <3>1 DEF Steps
  <2>7. l1 <= l + d /\ u1 <= u + d /\ q1 <= q + d
    BY <2>2
  <2> HIDE DEF l, u, q, z, w, l1, u1, q1, z1
  <2>8. z1 <= z + d
    BY <2>4, <2>5, <2>6, <2>7
  <2> QED BY <2>1, <2>8 DEF z, z1
<1> HIDE DEF P
<1>4. /\ \A k \in Nat : <<0, k>> \in G
      /\ \A i \in Nat : <<i, 0>> \in G
      /\ \A i, k \in Nat : <<i + 1, k>> \in G /\ <<i, k + 1>> \in G /\ <<i, k>> \in G => <<i + 1, k + 1>> \in G
  BY <1>1, <1>2, <1>3
<1>5. \A i, k \in Nat : <<i, k>> \in G
  <2> HIDE DEF G
  <2> QED BY <1>4, TableInduction
<1> QED BY <1>5 DEF P, NearBehind

(* One change: behind h equal characters, at most one is left out of each, *)
(* and m equal ones follow.                                                *)
IsEdit(b, c, h, e, e1, m) ==
  /\ h \in Nat /\ m \in Nat /\ e \in {h, h + 1} /\ e1 \in {h, h + 1} /\ e + e1 # h + h
  /\ DOMAIN b = 1 .. e + m /\ DOMAIN c = 1 .. e1 + m
  /\ \A k \in 1 .. h : c[k] = b[k]
  /\ \A k \in 1 .. m : c[e1 + k] = b[e + k]

LEMMA EditIsOne ==
  ASSUME NEW a, NEW b, NEW c, NEW f, NEW g, Steps(f, a, b), Steps(g, a, c),
         NEW h, NEW e, NEW e1, NEW m, IsEdit(b, c, h, e, e1, m), NEW i \in Nat
  PROVE  g[i][e1 + m] <= f[i][e + m] + 1
<1>1. /\ h \in Nat /\ m \in Nat /\ e \in {h, h + 1} /\ e1 \in {h, h + 1} /\ e + e1 # h + h
      /\ DOMAIN b = 1 .. e + m /\ DOMAIN c = 1 .. e1 + m
      /\ \A k \in 1 .. h : c[k] = b[k]
      /\ \A k \in 1 .. m : c[e1 + k] = b[e + k]
  BY DEF IsEdit
<1>2. e \in Nat /\ e1 \in Nat /\ h <= e /\ h <= e1
  BY <1>1
<1>0. \A n, j \in Nat : f[n][j] \in Nat /\ g[n][j] \in Nat
  BY DEF Steps
<1>3. \A n \in Nat : g[n][h] <= f[n][h]
  <2>1. PICK zero \in Nat : zero = 0
    OBVIOUS
  <2>2. Near(f, g, zero, zero, zero)
    <3> SUFFICES ASSUME NEW n \in Nat PROVE g[n][0] <= f[n][0] + 0
      BY <2>1 DEF Near
    <3>1. g[n][0] = n /\ f[n][0] = n
      BY DEF Steps
    <3> QED BY <3>1
  <2>3. ASSUME NEW n \in Nat, NEW k \in Nat, k < h
        PROVE  Cost(a, n + 1, c, (zero + k) + 1) = Cost(a, n + 1, b, (zero + k) + 1)
    <3>1. (zero + k) + 1 = k + 1 /\ k + 1 \in 1 .. h
      BY <1>1, <2>1, <2>3
    <3>2. k + 1 \in 1 .. e + m /\ k + 1 \in 1 .. e1 + m
      BY <1>1, <1>2, <3>1
    <3>3. k + 1 \in DOMAIN b /\ k + 1 \in DOMAIN c /\ c[k + 1] = b[k + 1]
      BY <1>1, <3>1, <3>2
    <3> QED BY <3>1, <3>3 DEF Cost
  <2>4. Alike(a, b, c, zero, zero, h)
    BY <2>3 DEF Alike
  <2>5. NearBehind(f, g, zero, zero, h, zero)
    BY <1>1, <2>2, <2>4, AlikeBehind
  <2> TAKE n \in Nat
  <2>6. zero + h = h /\ h <= h /\ f[n][h] \in Nat /\ f[n][h] + zero = f[n][h]
    BY <1>0, <1>1, <2>1
  <2> QED BY <1>1, <2>5, <2>6 DEF NearBehind
<1>4. \A n \in Nat : g[n][e1] <= f[n][e] + 1
  <2>1. CASE e = h /\ e1 = h + 1
    <3> TAKE n \in Nat
    <3>1. g[n][h + 1] <= g[n][h] + 1
      BY <1>1 DEF Steps
    <3>2. g[n][h] <= f[n][h]
      BY <1>3
    <3>3. f[n][h] \in Nat /\ g[n][h] \in Nat /\ g[n][h + 1] \in Nat
      BY <1>1, <1>0
    <3> QED BY <2>1, <3>1, <3>2, <3>3
  <2>2. CASE e = h + 1 /\ e1 = h
    <3> TAKE n \in Nat
    <3>1. f[n][h] <= f[n][h + 1] + 1
      BY <1>1, LeftOf
    <3>2. g[n][h] <= f[n][h]
      BY <1>3
    <3>3. f[n][h] \in Nat /\ g[n][h] \in Nat /\ f[n][h + 1] \in Nat
      BY <1>1, <1>0
    <3> QED BY <2>2, <3>1, <3>2, <3>3
  <2>3. CASE e = h + 1 /\ e1 = h + 1
    <3> DEFINE rows == {n \in Nat : g[n][h + 1] <= f[n][h + 1] + 1}
    <3>1. 0 \in rows
      <4>1. h + 1 \in Nat
        BY <1>1
      <4>2. g[0][h + 1] = h + 1 /\ f[0][h + 1] = h + 1
        BY <4>1 DEF Steps
      <4> QED BY <4>1, <4>2
    <3>2. ASSUME NEW n \in Nat, n \in rows PROVE n + 1 \in rows
      <4> DEFINE l == f[n + 1][h]  u == f[n][h + 1]  q == f[n][h]  z == f[n + 1][h + 1]  w == Cost(a, n + 1, b, h + 1)
                 l1 == g[n + 1][h]  u1 == g[n][h + 1]  q1 == g[n][h]  z1 == g[n + 1][h + 1]  w1 == Cost(a, n + 1, c, h + 1)
      <4>1. l \in Nat /\ u \in Nat /\ q \in Nat /\ z \in Nat /\ l1 \in Nat /\ u1 \in Nat /\ q1 \in Nat /\ z1 \in Nat
        BY <1>1, <1>0, SMTT(40)
      <4>2. (z = l + 1 \/ z = u + 1 \/ z = q + w) /\ w \in {0, 1} /\ w1 \in {0, 1}
        BY <1>1, CostIs, ZenonT(60) DEF Steps, Among
      <4>3. z1 <= l1 + 1 /\ z1 <= u1 + 1 /\ z1 <= q1 + w1
        <5>1. h + 1 \in Nat /\ n + 1 \in Nat
          BY <1>1
        <5> QED BY <1>1, <5>1 DEF Steps
      <4>4. l1 <= l /\ q1 <= q /\ u1 <= u + 1
        BY <1>3, <3>2
      <4> HIDE DEF l, u, q, z, w, l1, u1, q1, z1, w1
      <4>5. z1 <= z + 1
        BY <4>1, <4>2, <4>3, <4>4
      <4> QED BY <4>5 DEF z, z1
    <3>3. Nat \subseteq rows
      <4> HIDE DEF rows
      <4> QED BY <3>1, <3>2, NatSetInduction
    <3> QED BY <2>3, <3>3
  <2> QED BY <1>1, <2>1, <2>2, <2>3
<1>5. ASSUME NEW n \in Nat, NEW k \in Nat, k < m
      PROVE  Cost(a, n + 1, c, (e1 + k) + 1) = Cost(a, n + 1, b, (e + k) + 1)
  <2>1. (e1 + k) + 1 = e1 + (k + 1) /\ (e + k) + 1 = e + (k + 1) /\ k + 1 \in 1 .. m
    BY <1>1, <1>2, <1>5
  <2>2. e1 + (k + 1) \in 1 .. e1 + m /\ e + (k + 1) \in 1 .. e + m
    BY <1>1, <1>2, <2>1
  <2>3. c[e1 + (k + 1)] = b[e + (k + 1)]
    BY <1>1, <2>1
  <2> QED BY <1>1, <2>1, <2>2, <2>3 DEF Cost
<1>6. Alike(a, b, c, e, e1, m)
  BY <1>5 DEF Alike
<1>7. PICK one \in Nat : one = 1
  OBVIOUS
<1>8. Near(f, g, e, e1, one)
  BY <1>4, <1>7 DEF Near
<1>9. NearBehind(f, g, e, e1, m, one)
  BY <1>1, <1>2, <1>6, <1>8, AlikeBehind
<1>10. m <= m
  BY <1>1
<1> QED BY <1>1, <1>7, <1>9, <1>10 DEF NearBehind

(* A character taken out, changed or put in is one change.                 *)
LEMMA PartIs ==
  ASSUME NEW S, NEW t \in Seq(S), NEW i \in Nat, NEW j \in Nat, i <= j, j <= Len(t)
  PROVE  /\ SubSeq(t, i + 1, j) \in Seq(S) /\ Len(SubSeq(t, i + 1, j)) = j - i
         /\ \A k \in 1 .. j - i : SubSeq(t, i + 1, j)[k] = t[i + k]
<1>1. Len(t) \in Nat /\ \A k \in 1 .. Len(t) : t[k] \in S
  BY SeqItems
<1>2. i + 1 \in Int /\ j \in Int /\ \A k \in i + 1 .. j : t[k] \in S
  BY <1>1
<1>3. /\ SubSeq(t, i + 1, j) \in Seq(S)
      /\ Len(SubSeq(t, i + 1, j)) = IF i + 1 <= j THEN j - (i + 1) + 1 ELSE 0
      /\ \A k \in 1 .. j - (i + 1) + 1 : SubSeq(t, i + 1, j)[k] = t[(i + 1) + k - 1]
  BY <1>2, SubSeqProperties
<1>4. j - (i + 1) + 1 = j - i /\ \A k \in Nat : (i + 1) + k - 1 = i + k
  OBVIOUS
<1>5. ASSUME ~(i + 1 <= j) PROVE j - i = 0
  BY <1>5
<1> QED BY <1>3, <1>4, <1>5

IsJoin(w, s, t) ==
  /\ Len(w) = Len(s) + Len(t)
  /\ \A k \in 1 .. Len(s) : w[k] = s[k]
  /\ \A k \in 1 .. Len(t) : w[Len(s) + k] = t[k]

LEMMA JoinIs ==
  ASSUME NEW S, NEW s \in Seq(S), NEW t \in Seq(S)
  PROVE  s \o t \in Seq(S) /\ IsJoin(s \o t, s, t)
<1>1. /\ s \o t \in Seq(S) /\ Len(s) \in Nat /\ Len(t) \in Nat /\ Len(s \o t) = Len(s) + Len(t)
      /\ \A i \in 1 .. Len(s) + Len(t) : (s \o t)[i] = IF i <= Len(s) THEN s[i] ELSE t[i - Len(s)]
  BY ConcatProperties
<1> DEFINE m == Len(s)  n == Len(t)
<1>2. m \in Nat /\ n \in Nat
  BY <1>1
<1> HIDE DEF m, n
<1>3. \A k \in 1 .. m : k \in 1 .. m + n /\ k <= m
  BY <1>2
<1>4. \A k \in 1 .. n : m + k \in 1 .. m + n /\ ~(m + k <= m) /\ (m + k) - m = k
  BY <1>2
<1> QED BY <1>1, <1>3, <1>4 DEF m, n, IsJoin

LEMMA RemoveIs ==
  ASSUME NEW S, NEW t \in Seq(S), NEW i \in Nat, NEW m \in Nat, Len(t) = (i + 1) + m
  PROVE  /\ RemoveAt(t, i + 1) \in Seq(S) /\ Len(RemoveAt(t, i + 1)) = i + m
         /\ \A k \in 1 .. i : RemoveAt(t, i + 1)[k] = t[k]
         /\ \A k \in 1 .. m : RemoveAt(t, i + 1)[i + k] = t[(i + 1) + k]
<1> DEFINE u == SubSeq(t, 1, i)  v == SubSeq(t, i + 2, Len(t))
<1>1. RemoveAt(t, i + 1) = u \o v
  <2>1. (i + 1) - 1 = i /\ (i + 1) + 1 = i + 2
    OBVIOUS
  <2> QED BY <2>1 DEF RemoveAt
<1>2. u \in Seq(S) /\ Len(u) = i /\ \A k \in 1 .. i : u[k] = t[k]
  <2>1. PICK z \in Nat : z = 0
    OBVIOUS
  <2>2. z <= i /\ i <= Len(t)
    BY <2>1
  <2>3. /\ SubSeq(t, z + 1, i) \in Seq(S) /\ Len(SubSeq(t, z + 1, i)) = i - z
        /\ \A k \in 1 .. i - z : SubSeq(t, z + 1, i)[k] = t[z + k]
    BY <2>2, PartIs
  <2>4. z + 1 = 1 /\ i - z = i /\ \A k \in 1 .. i : z + k = k
    BY <2>1
  <2> QED BY <2>3, <2>4
<1>3. v \in Seq(S) /\ Len(v) = m /\ \A k \in 1 .. m : v[k] = t[(i + 1) + k]
  <2>1. PICK z, n : z = i + 1 /\ n = Len(t)
    OBVIOUS
  <2>2. z \in Nat /\ n \in Nat /\ z <= n /\ n <= Len(t) /\ n - z = m /\ z + 1 = i + 2
    BY <2>1
  <2>3. /\ SubSeq(t, z + 1, n) \in Seq(S) /\ Len(SubSeq(t, z + 1, n)) = n - z
        /\ \A k \in 1 .. n - z : SubSeq(t, z + 1, n)[k] = t[z + k]
    BY <2>2, PartIs
  <2> QED BY <2>1, <2>2, <2>3
<1> HIDE DEF u, v
<1>4. u \in Seq(S) /\ v \in Seq(S)
  BY <1>2, <1>3
<1>5. u \o v \in Seq(S) /\ IsJoin(u \o v, u, v)
  BY <1>4, JoinIs
<1> QED BY <1>1, <1>2, <1>3, <1>5 DEF IsJoin

Inserted(w, S, t, x, i, m) ==
  /\ w \in Seq(S) /\ Len(w) = (i + 1) + m /\ w[i + 1] = x
  /\ \A k \in 1 .. i : w[k] = t[k]
  /\ \A k \in 1 .. m : w[(i + 1) + k] = t[i + k]

LEMMA InsertIs ==
  ASSUME NEW S, NEW t \in Seq(S), NEW x \in S, NEW i \in Nat, NEW m \in Nat, Len(t) = i + m
  PROVE  Inserted(InsertAt(t, i + 1, x), S, t, x, i, m)
<1> DEFINE u == SubSeq(t, 1, i)  v == SubSeq(t, i + 1, Len(t))  w == u \o <<x>>
<1>1. InsertAt(t, i + 1, x) = w \o v
  <2>1. (i + 1) - 1 = i
    OBVIOUS
  <2> QED BY <2>1 DEF InsertAt
<1>2. u \in Seq(S) /\ Len(u) = i /\ \A k \in 1 .. i : u[k] = t[k]
  <2>1. PICK z \in Nat : z = 0
    OBVIOUS
  <2>2. z <= i /\ i <= Len(t)
    BY <2>1
  <2>3. /\ SubSeq(t, z + 1, i) \in Seq(S) /\ Len(SubSeq(t, z + 1, i)) = i - z
        /\ \A k \in 1 .. i - z : SubSeq(t, z + 1, i)[k] = t[z + k]
    BY <2>2, PartIs
  <2>4. z + 1 = 1 /\ i - z = i /\ \A k \in 1 .. i : z + k = k
    BY <2>1
  <2> QED BY <2>3, <2>4
<1>3. v \in Seq(S) /\ Len(v) = m /\ \A k \in 1 .. m : v[k] = t[i + k]
  <2>1. PICK n : n = Len(t)
    OBVIOUS
  <2>2. n \in Nat /\ i <= n /\ n <= Len(t) /\ n - i = m
    BY <2>1
  <2>3. /\ SubSeq(t, i + 1, n) \in Seq(S) /\ Len(SubSeq(t, i + 1, n)) = n - i
        /\ \A k \in 1 .. n - i : SubSeq(t, i + 1, n)[k] = t[i + k]
    BY <2>2, PartIs
  <2> QED BY <2>1, <2>2, <2>3
<1>4. w \in Seq(S) /\ Len(w) = i + 1 /\ w[i + 1] = x /\ \A k \in 1 .. i : w[k] = t[k]
  <2> HIDE DEF u, v
  <2>1. PICK o : o = <<x>>
    OBVIOUS
  <2>2. o \in Seq(S) /\ Len(o) = 1 /\ o[1] = x
    BY <2>1
  <2>3. u \o o \in Seq(S) /\ IsJoin(u \o o, u, o)
    <3>1. u \in Seq(S) /\ o \in Seq(S)
      BY <1>2, <2>2
    <3> QED BY <3>1, JoinIs
  <2>4. w = u \o o /\ 1 \in 1 .. Len(o)
    BY <2>1, <2>2
  <2> HIDE DEF w
  <2> QED BY <1>2, <2>2, <2>3, <2>4 DEF IsJoin
<1> HIDE DEF u, v, w
<1>5. w \o v \in Seq(S) /\ IsJoin(w \o v, w, v)
  <2>1. w \in Seq(S) /\ v \in Seq(S)
    BY <1>3, <1>4
  <2> QED BY <2>1, JoinIs
<1>6. i + 1 \in 1 .. i + 1 /\ \A k \in 1 .. i : k \in 1 .. i + 1
  OBVIOUS
<1> QED BY <1>1, <1>3, <1>4, <1>5, <1>6 DEF IsJoin, Inserted

Replaced(w, S, t, x, i, m) ==
  /\ w \in Seq(S) /\ Len(w) = (i + 1) + m /\ w[i + 1] = x
  /\ \A k \in 1 .. i : w[k] = t[k]
  /\ \A k \in 1 .. m : w[(i + 1) + k] = t[(i + 1) + k]

LEMMA ReplaceIs ==
  ASSUME NEW S, NEW t \in Seq(S), NEW x \in S, NEW i \in Nat, NEW m \in Nat, Len(t) = (i + 1) + m
  PROVE  Replaced(ReplaceAt(t, i + 1, x), S, t, x, i, m)
<1> DEFINE n == (i + 1) + m  r == [k \in 1 .. n |-> IF k = i + 1 THEN x ELSE t[k]]
<1>1. DOMAIN t = 1 .. n /\ n \in Nat /\ \A k \in 1 .. n : t[k] \in S
  BY SeqItems
<1>2. ReplaceAt(t, i + 1, x) = r
  BY <1>1 DEF ReplaceAt
<1>3. \A k \in 1 .. n : r[k] \in S
  BY <1>1
<1>4. r \in Seq(S) /\ Len(r) = n
  <2>1. r \in [1 .. n -> S]
    BY <1>3
  <2> HIDE DEF r, n
  <2> QED BY <1>1, <2>1
<1>5. i + 1 \in 1 .. n /\ \A k \in 1 .. i : k \in 1 .. n /\ k # i + 1
  OBVIOUS
<1>6. \A k \in 1 .. m : (i + 1) + k \in 1 .. n /\ (i + 1) + k # i + 1
  OBVIOUS
<1> QED BY <1>2, <1>4, <1>5, <1>6 DEF Replaced

(* Every edit is one change, and one change moves a text by one at most.   *)
LEMMA EditIs ==
  ASSUME NEW b \in Seq(Letters), NEW c \in Edits(b), c # b
  PROVE  c \in Seq(Letters) /\ \E h, e, e1, m : IsEdit(b, c, h, e, e1, m)
<1>1. Len(b) \in Nat /\ DOMAIN b = 1 .. Len(b)
  BY SeqItems
<1>2. CASE \E i \in DOMAIN b : c = RemoveAt(b, i)
  <2>1. PICK p \in DOMAIN b : c = RemoveAt(b, p)
    BY <1>2
  <2>2. PICK i, m \in Nat : p = i + 1 /\ Len(b) = (i + 1) + m
    <3>1. p - 1 \in Nat /\ Len(b) - p \in Nat /\ p = (p - 1) + 1 /\ Len(b) = ((p - 1) + 1) + (Len(b) - p)
      BY <1>1, <2>1
    <3> QED BY <3>1
  <2>3. /\ RemoveAt(b, i + 1) \in Seq(Letters) /\ Len(RemoveAt(b, i + 1)) = i + m
        /\ \A k \in 1 .. i : RemoveAt(b, i + 1)[k] = b[k]
        /\ \A k \in 1 .. m : RemoveAt(b, i + 1)[i + k] = b[(i + 1) + k]
    BY <2>2, RemoveIs, ZenonT(60)
  <2>4. /\ c \in Seq(Letters) /\ Len(c) = i + m
        /\ \A k \in 1 .. i : c[k] = b[k]
        /\ \A k \in 1 .. m : c[i + k] = b[(i + 1) + k]
    BY <2>1, <2>2, <2>3
  <2>5. DOMAIN c = 1 .. i + m
    BY <2>4, SeqItems
  <2>6. IsEdit(b, c, i, i + 1, i, m)
    BY <1>1, <2>2, <2>4, <2>5 DEF IsEdit
  <2> QED BY <2>4, <2>6
<1>3. CASE \E i \in DOMAIN b, x \in Letters : c = ReplaceAt(b, i, x)
  <2>1. PICK p \in DOMAIN b, x \in Letters : c = ReplaceAt(b, p, x)
    BY <1>3
  <2>2. PICK i, m \in Nat : p = i + 1 /\ Len(b) = (i + 1) + m
    <3>1. p - 1 \in Nat /\ Len(b) - p \in Nat /\ p = (p - 1) + 1 /\ Len(b) = ((p - 1) + 1) + (Len(b) - p)
      BY <1>1, <2>1
    <3> QED BY <3>1
  <2>3. Replaced(ReplaceAt(b, i + 1, x), Letters, b, x, i, m)
    <3>1. b \in Seq(Letters) /\ x \in Letters /\ i \in Nat /\ m \in Nat /\ Len(b) = (i + 1) + m
      BY <2>1, <2>2
    <3> QED BY <3>1, ReplaceIs
  <2>4. /\ c \in Seq(Letters) /\ Len(c) = (i + 1) + m
        /\ \A k \in 1 .. i : c[k] = b[k]
        /\ \A k \in 1 .. m : c[(i + 1) + k] = b[(i + 1) + k]
    BY <2>1, <2>2, <2>3 DEF Replaced
  <2>5. DOMAIN c = 1 .. (i + 1) + m
    BY <2>4, SeqItems
  <2>6. IsEdit(b, c, i, i + 1, i + 1, m)
    BY <1>1, <2>2, <2>4, <2>5 DEF IsEdit
  <2> QED BY <2>4, <2>6
<1>4. CASE \E i \in 1 .. Len(b) + 1, x \in Letters : c = InsertAt(b, i, x)
  <2>1. PICK p \in 1 .. Len(b) + 1, x \in Letters : c = InsertAt(b, p, x)
    BY <1>4
  <2>2. PICK i, m \in Nat : p = i + 1 /\ Len(b) = i + m
    <3>1. p - 1 \in Nat /\ Len(b) + 1 - p \in Nat /\ p = (p - 1) + 1 /\ Len(b) = (p - 1) + (Len(b) + 1 - p)
      BY <1>1, <2>1
    <3> QED BY <3>1
  <2>3. Inserted(InsertAt(b, i + 1, x), Letters, b, x, i, m)
    <3>1. b \in Seq(Letters) /\ x \in Letters /\ i \in Nat /\ m \in Nat /\ Len(b) = i + m
      BY <2>1, <2>2
    <3> QED BY <3>1, InsertIs
  <2>4. /\ c \in Seq(Letters) /\ Len(c) = (i + 1) + m
        /\ \A k \in 1 .. i : c[k] = b[k]
        /\ \A k \in 1 .. m : c[(i + 1) + k] = b[i + k]
    BY <2>1, <2>2, <2>3 DEF Inserted
  <2>5. DOMAIN c = 1 .. (i + 1) + m
    BY <2>4, SeqItems
  <2>6. IsEdit(b, c, i, i, i + 1, m)
    BY <1>1, <2>2, <2>4, <2>5 DEF IsEdit
  <2> QED BY <2>4, <2>6
<1> QED BY <1>2, <1>3, <1>4 DEF Edits

Dist(a, b) == TableOf(a, b)[Len(a)][Len(b)]

LEMMA TableIs ==
  ASSUME NEW a, NEW b
  PROVE  Steps(TableOf(a, b), a, b)
<1>1. PICK f : f = TableOf(a, b)
  OBVIOUS
<1>2. IsTable(f, a, b)
  BY <1>1, TablesExist
<1> QED BY <1>1, <1>2, TableSteps

LEMMA DistIs ==
  ASSUME NEW a \in Seq(Letters), NEW b \in Seq(Letters)
  PROVE  /\ Dist(a, b) \in Nat /\ Dist(a, b) <= Larger(Len(a), Len(b))
         /\ Len(a) <= Len(b) + Dist(a, b) /\ Len(b) <= Len(a) + Dist(a, b)
<1>1. PICK f, i, j : f = TableOf(a, b) /\ i = Len(a) /\ j = Len(b)
  OBVIOUS
<1>2. i \in Nat /\ j \in Nat /\ Steps(f, a, b)
  BY <1>1, TableIs, SeqItems
<1>3. i <= j + f[i][j] /\ j <= i + f[i][j] /\ f[i][j] <= Larger(i, j)
  BY <1>2, GapIsLess
<1>4. f[i][j] \in Nat
  BY <1>2 DEF Steps
<1> QED BY <1>1, <1>3, <1>4 DEF Dist

LEMMA EditMoves ==
  ASSUME NEW a \in Seq(Letters), NEW b \in Seq(Letters), NEW c \in Edits(b)
  PROVE  c \in Seq(Letters) /\ Dist(a, c) <= Dist(a, b) + 1
<1>1. CASE c = b
  BY <1>1, DistIs
<1>2. CASE c # b
  <2>1. PICK h, e, e1, m : c \in Seq(Letters) /\ IsEdit(b, c, h, e, e1, m)
    BY <1>2, EditIs
  <2>2. PICK f, g, i : f = TableOf(a, b) /\ g = TableOf(a, c) /\ i = Len(a)
    OBVIOUS
  <2>3. i \in Nat /\ Steps(f, a, b) /\ Steps(g, a, c)
    BY <2>2, TableIs, SeqItems
  <2>4. g[i][e1 + m] <= f[i][e + m] + 1
    BY <2>1, <2>3, EditIsOne
  <2>5. Len(b) = e + m /\ Len(c) = e1 + m
    <3>1. e + m \in Nat /\ e1 + m \in Nat /\ DOMAIN b = 1 .. e + m /\ DOMAIN c = 1 .. e1 + m
      BY <2>1 DEF IsEdit
    <3>2. Len(b) \in Nat /\ Len(c) \in Nat /\ DOMAIN b = 1 .. Len(b) /\ DOMAIN c = 1 .. Len(c)
      BY <2>1, SeqItems
    <3>3. ASSUME NEW n \in Nat, NEW l \in Nat, 1 .. n = 1 .. l PROVE n = l
      <4>1. n # 0 => n \in 1 .. l
        BY <3>3
      <4>2. l # 0 => l \in 1 .. n
        BY <3>3
      <4> QED BY <4>1, <4>2
    <3> QED BY <3>1, <3>2, <3>3
  <2> QED BY <2>1, <2>2, <2>4, <2>5 DEF Dist
<1> QED BY <1>1, <1>2

(* What can be reached with n changes.                                     *)
IsReach(R, t) ==
  /\ R \in [Nat -> SUBSET Seq(Letters)] /\ R[0] = {t}
  /\ \A n \in Nat : R[n + 1] = UNION {Edits(u) : u \in R[n]}
IsAfter(after, size, t) ==
  after = [n \in 0 .. size |-> IF n = 0 THEN {t} ELSE UNION {Edits(u) : u \in after[n - 1]}]

LEMMA EditsAreTexts == \A u \in Seq(Letters) : u \in Edits(u) /\ Edits(u) \subseteq Seq(Letters)
<1> TAKE u \in Seq(Letters)
<1>1. u \in Edits(u)
  BY DEF Edits
<1>2. ASSUME NEW c \in Edits(u) PROVE c \in Seq(Letters)
  BY EditMoves
<1> QED BY <1>1, <1>2

LEMMA ReachExists ==
  ASSUME NEW t \in Seq(Letters)
  PROVE  \E R : IsReach(R, t)
<1> DEFINE T == SUBSET Seq(Letters)
           around(U) == UNION {Edits(u) : u \in U}
           step == [n \in Nat |-> [U \in T |-> around(U)]]
           base == {t}
<1>1. \A U \in T : around(U) \in T
  BY EditsAreTexts
<1>2. base \in T
  OBVIOUS
<1> HIDE DEF around, base
<1>3. step \in [Nat -> [T -> T]] /\ \A n \in Nat : \A U \in T : step[n][U] = around(U)
  BY <1>1
<1> HIDE DEF step, T
<1>4. IsDefined(T, base, step)
  BY <1>2, <1>3, NatRecursion
<1>5. PICK R \in [Nat -> T] : R[0] = base /\ \A n \in Nat : R[n + 1] = step[n][R[n]]
  BY <1>4 DEF IsDefined
<1>6. \A n \in Nat : R[n + 1] = around(R[n])
  BY <1>3, <1>5
<1>7. IsReach(R, t)
  BY <1>5, <1>6 DEF IsReach, T, base, around
<1> QED BY <1>7

LEMMA ReachIs ==
  ASSUME NEW t \in Seq(Letters), NEW size \in Nat, NEW R, IsReach(R, t)
  PROVE  \A n \in 0 .. size : Reach(t, size)[n] = R[n]
<1> DEFINE around(U) == UNION {Edits(u) : u \in U}
<1>1. R[0] = {t} /\ \A n \in Nat : R[n + 1] = around(R[n])
  BY DEF IsReach
<1>2. \A h : IsAfter(h, size, t) <=> h = [n \in 0 .. size |-> IF n = 0 THEN {t} ELSE around(h[n - 1])]
  BY DEF IsAfter
<1> HIDE DEF around
<1>3. \E h : IsAfter(h, size, t)
  <2> DEFINE g == [n \in 0 .. size |-> R[n]]
  <2>1. ASSUME NEW n \in 0 .. size PROVE g[n] = IF n = 0 THEN {t} ELSE around(g[n - 1])
    <3>1. CASE n = 0
      BY <1>1, <3>1
    <3>2. CASE n # 0
      <4>1. n - 1 \in Nat /\ n - 1 \in 0 .. size /\ (n - 1) + 1 = n
        BY <3>2
      <4>2. R[n] = around(R[n - 1])
        BY <1>1, <4>1
      <4> QED BY <3>2, <4>1, <4>2
    <3> QED BY <3>1, <3>2
  <2>2. g = [n \in 0 .. size |-> g[n]]
    OBVIOUS
  <2> HIDE DEF g
  <2>3. g = [n \in 0 .. size |-> IF n = 0 THEN {t} ELSE around(g[n - 1])]
    BY <2>1, <2>2
  <2>4. IsAfter(g, size, t)
    BY <1>2, <2>3
  <2> QED BY <2>4
<1>4. PICK f : f = Reach(t, size) /\ IsAfter(f, size, t)
  BY <1>3 DEF Reach, IsAfter
<1>5. f = [n \in 0 .. size |-> IF n = 0 THEN {t} ELSE around(f[n - 1])]
  BY <1>2, <1>4
<1>6. f[0] = {t} /\ \A n \in 1 .. size : f[n] = around(f[n - 1])
  <2>1. \A n \in 0 .. size : f[n] = IF n = 0 THEN {t} ELSE around(f[n - 1])
    BY <1>5
  <2>2. 0 \in 0 .. size /\ \A n \in 1 .. size : n \in 0 .. size /\ n # 0
    OBVIOUS
  <2> QED BY <2>1, <2>2
<1> DEFINE same == {n \in Nat : n <= size => f[n] = R[n]}
<1>7. 0 \in same
  BY <1>1, <1>6
<1>8. ASSUME NEW n \in Nat, n \in same PROVE n + 1 \in same
  <2> SUFFICES ASSUME n + 1 <= size PROVE f[n + 1] = R[n + 1]
    OBVIOUS
  <2>1. n + 1 \in 1 .. size /\ (n + 1) - 1 = n /\ n <= size
    OBVIOUS
  <2>2. f[n + 1] = around(f[n])
    BY <1>6, <2>1
  <2>3. f[n] = R[n]
    BY <1>8, <2>1
  <2> QED BY <1>1, <2>2, <2>3
<1>9. Nat \subseteq same
  <2> HIDE DEF same
  <2> QED BY <1>7, <1>8, NatSetInduction
<1> QED BY <1>4, <1>9

(* What n changes reach is at most n away.                                 *)
LEMMA ReachedIsNear ==
  ASSUME NEW a \in Seq(Letters), NEW R, IsReach(R, a)
  PROVE  \A n \in Nat : \A b \in R[n] : Dist(a, b) <= n
<1> DEFINE near == {n \in Nat : \A b \in R[n] : Dist(a, b) <= n}
<1>1. 0 \in near
  <2>1. PICK f, n : f = TableOf(a, a) /\ n = Len(a)
    OBVIOUS
  <2>2. n \in Nat /\ DOMAIN a = 1 .. n /\ Steps(f, a, a)
    BY <2>1, TableIs, SeqItems
  <2>3. f[n][n] = 0
    BY <2>2, SelfIsZero
  <2>4. Dist(a, a) = 0
    BY <2>1, <2>3 DEF Dist
  <2> QED BY <2>4 DEF IsReach
<1>2. ASSUME NEW n \in Nat, n \in near PROVE n + 1 \in near
  <2> SUFFICES ASSUME NEW c \in R[n + 1] PROVE Dist(a, c) <= n + 1
    OBVIOUS
  <2>1. PICK u \in R[n] : c \in Edits(u)
    BY DEF IsReach
  <2>2. u \in Seq(Letters)
    BY <2>1 DEF IsReach
  <2>3. c \in Seq(Letters) /\ Dist(a, c) <= Dist(a, u) + 1
    BY <2>1, <2>2, EditMoves
  <2>4. Dist(a, u) <= n
    BY <1>2
  <2>5. Dist(a, u) \in Nat /\ Dist(a, c) \in Nat
    BY <2>2, <2>3, DistIs
  <2> QED BY <2>3, <2>4, <2>5
<1>3. Nat \subseteq near
  <2> HIDE DEF near
  <2> QED BY <1>1, <1>2, NatSetInduction
<1> QED BY <1>3

(* The texts on the way: the first j characters of b, and the last m of a, *)
(* which begin behind the first i.                                         *)
IsMix(w, a, b, i, j, m) ==
  /\ w \in Seq(Letters) /\ Len(w) = j + m
  /\ \A k \in 1 .. j : w[k] = b[k]
  /\ \A k \in 1 .. m : w[j + k] = a[i + k]
OnTheWay(U, a, b, i, j, m) == \E w \in U : IsMix(w, a, b, i, j, m)

LEMMA MixInserted ==
  ASSUME NEW a, NEW b \in Seq(Letters), NEW i \in Nat, NEW j \in Nat, NEW m \in Nat, j + 1 <= Len(b),
         NEW w, IsMix(w, a, b, i, j, m)
  PROVE  OnTheWay(Edits(w), a, b, i, j + 1, m)
<1>1. PICK x : x = b[j + 1]
  OBVIOUS
<1>2. x \in Letters
  <2>1. j + 1 \in DOMAIN b
    BY SeqItems
  <2> QED BY <1>1, <2>1, SeqItems
<1>3. w \in Seq(Letters) /\ Len(w) = j + m
  BY DEF IsMix
<1>4. PICK v : v = InsertAt(w, j + 1, x)
  OBVIOUS
<1>5. Inserted(v, Letters, w, x, j, m)
  BY <1>2, <1>3, <1>4, InsertIs
<1>6. v \in Edits(w)
  <2>1. j + 1 \in 1 .. Len(w) + 1
    BY <1>3
  <2> QED BY <1>2, <1>4, <2>1 DEF Edits
<1>7. \A k \in 1 .. j + 1 : k \in 1 .. j \/ k = j + 1
  OBVIOUS
<1>8. IsMix(v, a, b, i, j + 1, m)
  BY <1>1, <1>5, <1>7 DEF IsMix, Inserted
<1> QED BY <1>6, <1>8 DEF OnTheWay

LEMMA MixRemoved ==
  ASSUME NEW a, NEW b, NEW i \in Nat, NEW j \in Nat, NEW m \in Nat,
         NEW w, IsMix(w, a, b, i, j, m + 1)
  PROVE  OnTheWay(Edits(w), a, b, i + 1, j, m)
<1>1. w \in Seq(Letters) /\ Len(w) = (j + 1) + m
  BY DEF IsMix
<1>2. PICK v : v = RemoveAt(w, j + 1)
  OBVIOUS
<1>3. /\ v \in Seq(Letters) /\ Len(v) = j + m
      /\ \A k \in 1 .. j : v[k] = w[k]
      /\ \A k \in 1 .. m : v[j + k] = w[(j + 1) + k]
  <2>1. /\ RemoveAt(w, j + 1) \in Seq(Letters) /\ Len(RemoveAt(w, j + 1)) = j + m
        /\ \A k \in 1 .. j : RemoveAt(w, j + 1)[k] = w[k]
        /\ \A k \in 1 .. m : RemoveAt(w, j + 1)[j + k] = w[(j + 1) + k]
    BY <1>1, RemoveIs, ZenonT(60)
  <2> QED BY <1>2, <2>1
<1>4. v \in Edits(w)
  <2>1. j + 1 \in DOMAIN w
    BY <1>1, SeqItems
  <2> QED BY <1>2, <2>1 DEF Edits
<1>5. ASSUME NEW k \in 1 .. m PROVE v[j + k] = a[(i + 1) + k]
  <2>1. k + 1 \in 1 .. m + 1 /\ j + (k + 1) = (j + 1) + k /\ i + (k + 1) = (i + 1) + k
    OBVIOUS
  <2>2. w[j + (k + 1)] = a[i + (k + 1)]
    BY <2>1 DEF IsMix
  <2> QED BY <1>3, <2>1, <2>2
<1>6. IsMix(v, a, b, i + 1, j, m)
  BY <1>3, <1>5 DEF IsMix
<1> QED BY <1>4, <1>6 DEF OnTheWay

LEMMA MixReplaced ==
  ASSUME NEW a, NEW b \in Seq(Letters), NEW i \in Nat, NEW j \in Nat, NEW m \in Nat, j + 1 <= Len(b),
         NEW w, IsMix(w, a, b, i, j, m + 1)
  PROVE  OnTheWay(Edits(w), a, b, i + 1, j + 1, m)
<1>1. PICK x : x = b[j + 1]
  OBVIOUS
<1>2. x \in Letters
  <2>1. j + 1 \in DOMAIN b
    BY SeqItems
  <2> QED BY <1>1, <2>1, SeqItems
<1>3. w \in Seq(Letters) /\ Len(w) = (j + 1) + m
  BY DEF IsMix
<1>4. PICK v : v = ReplaceAt(w, j + 1, x)
  OBVIOUS
<1>5. Replaced(v, Letters, w, x, j, m)
  BY <1>2, <1>3, <1>4, ReplaceIs
<1>6. v \in Edits(w)
  <2>1. j + 1 \in DOMAIN w
    BY <1>3, SeqItems
  <2> QED BY <1>2, <1>4, <2>1 DEF Edits
<1>7. \A k \in 1 .. j + 1 : k \in 1 .. j \/ k = j + 1
  OBVIOUS
<1>8. ASSUME NEW k \in 1 .. m PROVE v[(j + 1) + k] = a[(i + 1) + k]
  <2>1. k + 1 \in 1 .. m + 1 /\ j + (k + 1) = (j + 1) + k /\ i + (k + 1) = (i + 1) + k
    OBVIOUS
  <2>2. w[j + (k + 1)] = a[i + (k + 1)]
    BY <2>1 DEF IsMix
  <2> QED BY <1>5, <2>1, <2>2 DEF Replaced
<1>9. IsMix(v, a, b, i + 1, j + 1, m)
  BY <1>1, <1>5, <1>7, <1>8 DEF IsMix, Replaced
<1> QED BY <1>6, <1>9 DEF OnTheWay

LEMMA MixKept ==
  ASSUME NEW a, NEW b, NEW i \in Nat, NEW j \in Nat, NEW m \in Nat, a[i + 1] = b[j + 1],
         NEW w, IsMix(w, a, b, i, j, m + 1)
  PROVE  IsMix(w, a, b, i + 1, j + 1, m)
<1>1. \A k \in 1 .. j + 1 : k \in 1 .. j \/ k = j + 1
  OBVIOUS
<1>2. ASSUME NEW k \in 0 .. m PROVE w[(j + 1) + k] = a[(i + 1) + k]
  <2>1. k + 1 \in 1 .. m + 1 /\ j + (k + 1) = (j + 1) + k /\ i + (k + 1) = (i + 1) + k
    OBVIOUS
  <2>2. w[j + (k + 1)] = a[i + (k + 1)]
    BY <2>1 DEF IsMix
  <2> QED BY <2>1, <2>2
<1>3. w[j + 1] = b[j + 1]
  <2>1. 0 \in 0 .. m /\ (j + 1) + 0 = j + 1 /\ (i + 1) + 0 = i + 1
    OBVIOUS
  <2>2. w[(j + 1) + 0] = a[(i + 1) + 0]
    BY <1>2, <2>1
  <2> QED BY <2>1, <2>2
<1>4. w \in Seq(Letters) /\ Len(w) = (j + 1) + m /\ \A k \in 1 .. j : w[k] = b[k]
  BY DEF IsMix
<1> QED BY <1>1, <1>2, <1>3, <1>4 DEF IsMix

LEMMA WayGoesOn ==
  ASSUME NEW a, NEW b \in Seq(Letters), NEW R, IsReach(R, a),
         NEW n \in Nat, NEW i \in Nat, NEW j \in Nat, NEW m \in Nat
  PROVE  /\ j + 1 <= Len(b) /\ OnTheWay(R[n], a, b, i, j, m) => OnTheWay(R[n + 1], a, b, i, j + 1, m)
         /\ OnTheWay(R[n], a, b, i, j, m + 1) => OnTheWay(R[n + 1], a, b, i + 1, j, m)
         /\ j + 1 <= Len(b) /\ OnTheWay(R[n], a, b, i, j, m + 1) => OnTheWay(R[n + 1], a, b, i + 1, j + 1, m)
         /\ a[i + 1] = b[j + 1] /\ OnTheWay(R[n], a, b, i, j, m + 1) => OnTheWay(R[n], a, b, i + 1, j + 1, m)
<1>1. ASSUME NEW w \in R[n] PROVE Edits(w) \subseteq R[n + 1]
  BY DEF IsReach
<1>2. ASSUME NEW w \in R[n], NEW p, NEW q, NEW r, OnTheWay(Edits(w), a, b, p, q, r)
      PROVE  OnTheWay(R[n + 1], a, b, p, q, r)
  <2>1. PICK v \in Edits(w) : IsMix(v, a, b, p, q, r)
    BY <1>2 DEF OnTheWay
  <2>2. v \in R[n + 1]
    BY <1>1, <2>1
  <2> QED BY <2>1, <2>2 DEF OnTheWay
<1>3. ASSUME j + 1 <= Len(b), OnTheWay(R[n], a, b, i, j, m) PROVE OnTheWay(R[n + 1], a, b, i, j + 1, m)
  <2>1. PICK w \in R[n] : IsMix(w, a, b, i, j, m)
    BY <1>3 DEF OnTheWay
  <2>2. OnTheWay(Edits(w), a, b, i, j + 1, m)
    BY <1>3, <2>1, MixInserted
  <2> QED BY <1>2, <2>2
<1>4. ASSUME OnTheWay(R[n], a, b, i, j, m + 1) PROVE OnTheWay(R[n + 1], a, b, i + 1, j, m)
  <2>1. PICK w \in R[n] : IsMix(w, a, b, i, j, m + 1)
    BY <1>4 DEF OnTheWay
  <2>2. OnTheWay(Edits(w), a, b, i + 1, j, m)
    BY <2>1, MixRemoved
  <2> QED BY <1>2, <2>2
<1>5. ASSUME j + 1 <= Len(b), OnTheWay(R[n], a, b, i, j, m + 1)
      PROVE  OnTheWay(R[n + 1], a, b, i + 1, j + 1, m)
  <2>1. PICK w \in R[n] : IsMix(w, a, b, i, j, m + 1)
    BY <1>5 DEF OnTheWay
  <2>2. OnTheWay(Edits(w), a, b, i + 1, j + 1, m)
    BY <1>5, <2>1, MixReplaced
  <2> QED BY <1>2, <2>2
<1>6. ASSUME a[i + 1] = b[j + 1], OnTheWay(R[n], a, b, i, j, m + 1)
      PROVE  OnTheWay(R[n], a, b, i + 1, j + 1, m)
  <2>1. PICK w \in R[n] : IsMix(w, a, b, i, j, m + 1)
    BY <1>6 DEF OnTheWay
  <2>2. IsMix(w, a, b, i + 1, j + 1, m)
    BY <1>6, <2>1, MixKept
  <2> QED BY <2>2 DEF OnTheWay
<1> QED BY <1>3, <1>4, <1>5, <1>6

(* As many changes as the table says reach every text on the way, and the  *)
(* last is b.                                                              *)
LEMMA NearIsReached ==
  ASSUME NEW a \in Seq(Letters), NEW b \in Seq(Letters), NEW R, IsReach(R, a)
  PROVE  b \in R[Dist(a, b)]
<1>1. PICK f, s, t : f = TableOf(a, b) /\ s = Len(a) /\ t = Len(b)
  OBVIOUS
<1>2. /\ s \in Nat /\ t \in Nat /\ Steps(f, a, b) /\ DOMAIN a = 1 .. s /\ DOMAIN b = 1 .. t
      /\ \A i, j \in Nat : f[i][j] \in Nat
  <2>1. Steps(f, a, b)
    BY <1>1, TableIs
  <2>2. \A i, j \in Nat : f[i][j] \in Nat
    BY <2>1 DEF Steps
  <2> QED BY <1>1, <2>1, <2>2, SeqItems
<1> DEFINE P(i, j) == i <= s /\ j <= t => OnTheWay(R[f[i][j]], a, b, i, j, s - i)
           G == {w \in Nat \X Nat : P(w[1], w[2])}
<1>3. P(0, 0)
  <2>1. f[0][0] = 0
    BY <1>2 DEF Steps
  <2>2. a \in R[0]
    BY DEF IsReach
  <2>3. IsMix(a, a, b, 0, 0, s)
    <3>1. 0 + s = s /\ \A k \in 1 .. s : 0 + k = k
      BY <1>2
    <3> QED BY <1>1, <3>1 DEF IsMix
  <2>4. s - 0 = s
    BY <1>2
  <2> QED BY <2>1, <2>2, <2>3, <2>4 DEF OnTheWay
<1>4. ASSUME NEW j \in Nat PROVE P(0, j)
  <2> DEFINE row == {l \in Nat : P(0, l)}
  <2>1. 0 \in row
    BY <1>3
  <2>2. ASSUME NEW l \in Nat, l \in row PROVE l + 1 \in row
    <3> SUFFICES ASSUME l + 1 <= t PROVE OnTheWay(R[f[0][l + 1]], a, b, 0, l + 1, s - 0)
      OBVIOUS
    <3>1. OnTheWay(R[f[0][l]], a, b, 0, l, s - 0)
      BY <1>2, <2>2
    <3>2. PICK n, z, m : n = f[0][l] /\ z = 0 /\ m = s - 0
      OBVIOUS
    <3>3. n \in Nat /\ z \in Nat /\ m \in Nat /\ l + 1 <= Len(b) /\ OnTheWay(R[n], a, b, z, l, m)
      BY <1>1, <1>2, <3>1, <3>2
    <3>4. OnTheWay(R[n + 1], a, b, z, l + 1, m)
      BY <3>3, WayGoesOn
    <3>5. f[0][l + 1] = n + 1
      <4>1. l + 1 \in Nat
        OBVIOUS
      <4> QED BY <1>2, <3>2, <4>1 DEF Steps
    <3> QED BY <3>2, <3>4, <3>5
  <2>3. Nat \subseteq row
    <3> HIDE DEF row
    <3> QED BY <2>1, <2>2, NatSetInduction
  <2> QED BY <2>3
<1>5. ASSUME NEW i \in Nat PROVE P(i, 0)
  <2> DEFINE column == {l \in Nat : P(l, 0)}
  <2>1. 0 \in column
    BY <1>3
  <2>2. ASSUME NEW l \in Nat, l \in column PROVE l + 1 \in column
    <3> SUFFICES ASSUME l + 1 <= s PROVE OnTheWay(R[f[l + 1][0]], a, b, l + 1, 0, s - (l + 1))
      BY <1>2
    <3>1. OnTheWay(R[f[l][0]], a, b, l, 0, s - l)
      BY <1>2, <2>2
    <3>2. PICK n, z, m : n = f[l][0] /\ z = 0 /\ m = s - (l + 1)
      OBVIOUS
    <3>3. n \in Nat /\ z \in Nat /\ m \in Nat /\ s - l = m + 1
      BY <1>2, <3>2
    <3>4. OnTheWay(R[n], a, b, l, z, m + 1)
      BY <3>1, <3>2, <3>3
    <3>5. OnTheWay(R[n + 1], a, b, l + 1, z, m)
      BY <3>3, <3>4, WayGoesOn
    <3>6. f[l + 1][0] = n + 1
      <4>1. l + 1 \in Nat
        OBVIOUS
      <4> QED BY <1>2, <3>2, <4>1 DEF Steps
    <3> QED BY <3>2, <3>5, <3>6
  <2>3. Nat \subseteq column
    <3> HIDE DEF column
    <3> QED BY <2>1, <2>2, NatSetInduction
  <2> QED BY <2>3
<1>6. ASSUME NEW i \in Nat, NEW j \in Nat, P(i + 1, j), P(i, j + 1), P(i, j) PROVE P(i + 1, j + 1)
  <2> SUFFICES ASSUME i + 1 <= s, j + 1 <= t
               PROVE  OnTheWay(R[f[i + 1][j + 1]], a, b, i + 1, j + 1, s - (i + 1))
    OBVIOUS
  <2>1. PICK l, u, d, m : l = f[i + 1][j] /\ u = f[i][j + 1] /\ d = f[i][j] /\ m = s - (i + 1)
    OBVIOUS
  <2>2. l \in Nat /\ u \in Nat /\ d \in Nat /\ m \in Nat /\ s - i = m + 1 /\ i <= s /\ j <= t
    BY <1>2, <2>1, SMTT(40)
  <2>3. OnTheWay(R[l], a, b, i + 1, j, m) /\ OnTheWay(R[u], a, b, i, j + 1, m + 1) /\ OnTheWay(R[d], a, b, i, j, m + 1)
    BY <1>6, <2>1, <2>2
  <2>4. j + 1 <= Len(b)
    BY <1>1
  <2>5. CASE f[i + 1][j + 1] = l + 1
    <3>1. PICK p \in Nat : p = i + 1
      OBVIOUS
    <3>2. OnTheWay(R[l], a, b, p, j, m)
      BY <2>3, <3>1
    <3>3. OnTheWay(R[l + 1], a, b, p, j + 1, m)
      BY <2>2, <2>4, <3>2, WayGoesOn
    <3> QED BY <2>1, <2>5, <3>1, <3>3
  <2>6. CASE f[i + 1][j + 1] = u + 1
    <3>1. PICK q \in Nat : q = j + 1
      OBVIOUS
    <3>2. OnTheWay(R[u], a, b, i, q, m + 1)
      BY <2>3, <3>1
    <3>3. OnTheWay(R[u + 1], a, b, i + 1, q, m)
      BY <2>2, <3>2, WayGoesOn
    <3> QED BY <2>1, <2>6, <3>1, <3>3
  <2>7. CASE f[i + 1][j + 1] = d + Cost(a, i + 1, b, j + 1)
    <3>1. CASE a[i + 1] = b[j + 1]
      <4>1. OnTheWay(R[d], a, b, i + 1, j + 1, m)
        BY <2>2, <2>3, <3>1, WayGoesOn
      <4>2. i + 1 \in DOMAIN a /\ j + 1 \in DOMAIN b
        BY <1>2
      <4>3. Cost(a, i + 1, b, j + 1) = 0
        BY <3>1, <4>2 DEF Cost
      <4>4. f[i + 1][j + 1] = d
        BY <2>2, <2>7, <4>3
      <4> QED BY <2>1, <4>1, <4>4
    <3>2. CASE a[i + 1] # b[j + 1]
      <4>1. OnTheWay(R[d + 1], a, b, i + 1, j + 1, m)
        BY <2>2, <2>3, <2>4, WayGoesOn
      <4>2. Cost(a, i + 1, b, j + 1) = 1
        BY <3>2 DEF Cost
      <4> QED BY <2>1, <2>7, <4>1, <4>2
    <3> QED BY <3>1, <3>2
  <2>8. Among(f, a, b, i, j)
    BY <1>2 DEF Steps
  <2> QED BY <2>1, <2>5, <2>6, <2>7, <2>8 DEF Among
<1> HIDE DEF P
<1>7. /\ \A j \in Nat : <<0, j>> \in G
      /\ \A i \in Nat : <<i, 0>> \in G
      /\ \A i, j \in Nat : <<i + 1, j>> \in G /\ <<i, j + 1>> \in G /\ <<i, j>> \in G => <<i + 1, j + 1>> \in G
  BY <1>4, <1>5, <1>6
<1>8. P(s, t)
  <2>1. \A i, j \in Nat : <<i, j>> \in G
    <3> HIDE DEF G
    <3> QED BY <1>7, TableInduction
  <2> QED BY <1>2, <2>1
<1>9. PICK w \in R[f[s][t]] : IsMix(w, a, b, s, t, s - s)
  BY <1>2, <1>8 DEF P, OnTheWay
<1>10. w = b
  <2>1. s - s = 0 /\ t + 0 = t
    BY <1>2
  <2>2. w \in Seq(Letters) /\ Len(w) = Len(b) /\ \A k \in 1 .. Len(b) : w[k] = b[k]
    BY <1>1, <1>9, <2>1 DEF IsMix
  <2> QED BY <2>2, SeqEqual
<1> QED BY <1>1, <1>9, <1>10 DEF Dist

(* So the table counts the changes that are needed.                        *)
LEMMA WordsAreTexts == Words \subseteq Seq(Letters)
<1> SUFFICES ASSUME NEW t \in Words PROVE t \in Seq(Letters)
  OBVIOUS
<1>1. t \in Seq(Range(t))
  BY WordsAssumption
<1>2. Len(t) \in Nat /\ DOMAIN t = 1 .. Len(t) /\ t = [k \in 1 .. Len(t) |-> t[k]]
  BY <1>1
<1>3. \A k \in DOMAIN t : t[k] \in Letters
  BY DEF Letters, Range
<1>4. t \in [1 .. Len(t) -> Letters]
  BY <1>2, <1>3
<1> QED BY <1>2, <1>4

IsLeast(n, b, reach, size) == n \in 0 .. size /\ b \in reach[n] /\ \A m \in 0 .. n - 1 : b \notin reach[m]

LEMMA DistanceIs ==
  ASSUME NEW a \in Words, NEW b \in Words
  PROVE  Distance[a][b] = Dist(a, b)
<1>1. a \in Seq(Letters) /\ b \in Seq(Letters)
  BY WordsAreTexts
<1>2. PICK size, reach : size = Larger(Len(a), Len(b)) /\ reach = Reach(a, size)
  OBVIOUS
<1>3. size \in Nat
  <2>1. Len(a) \in Nat /\ Len(b) \in Nat
    BY <1>1
  <2> QED BY <1>2, <2>1 DEF Larger
<1>4. PICK R : IsReach(R, a)
  BY <1>1, ReachExists
<1>5. \A n \in 0 .. size : reach[n] = R[n]
  BY <1>1, <1>2, <1>3, <1>4, ReachIs
<1>6. PICK d : d = Dist(a, b)
  OBVIOUS
<1>7. d \in 0 .. size /\ b \in R[d]
  BY <1>1, <1>2, <1>3, <1>4, <1>6, DistIs, NearIsReached
<1>8. ASSUME NEW n \in Nat, b \in R[n] PROVE d <= n
  BY <1>1, <1>4, <1>6, <1>8, ReachedIsNear
<1>9. IsLeast(d, b, reach, size)
  <2>1. ASSUME NEW m \in 0 .. d - 1 PROVE b \notin reach[m]
    <3>1. m \in Nat /\ m \in 0 .. size /\ ~(d <= m)
      BY <1>3, <1>7
    <3> QED BY <1>5, <1>8, <3>1
  <2> QED BY <1>5, <1>7, <2>1 DEF IsLeast
<1>10. ASSUME NEW n, IsLeast(n, b, reach, size) PROVE n = d
  <2>1. n \in 0 .. size /\ b \in R[n]
    BY <1>5, <1>10 DEF IsLeast
  <2>2. d <= n
    BY <1>8, <2>1
  <2>3. ~(d < n)
    <3> SUFFICES ASSUME d < n PROVE FALSE
      OBVIOUS
    <3>1. d \in 0 .. n - 1
      BY <1>3, <1>7, <2>1
    <3>2. b \notin reach[d]
      BY <1>10, <3>1 DEF IsLeast
    <3> QED BY <1>5, <1>7, <3>2
  <2> QED BY <1>3, <1>7, <2>1, <2>2, <2>3
<1>11. Distance[a][b] = CHOOSE n \in 0 .. size : b \in reach[n] /\ \A m \in 0 .. n - 1 : b \notin reach[m]
  BY <1>2 DEF Distance
<1>12. PICK l : l = (CHOOSE n \in 0 .. size : b \in reach[n] /\ \A m \in 0 .. n - 1 : b \notin reach[m])
  OBVIOUS
<1>13. IsLeast(l, b, reach, size)
  BY <1>9, <1>12 DEF IsLeast
<1> QED BY <1>6, <1>10, <1>11, <1>12, <1>13
-----------------------------------------------------------------------------
(* The rows of suggest are the rows of the table.                          *)
RowOf(f, i, b) == [j \in 1 .. Len(b) + 1 |-> f[i][j - 1]]
IsBelow(below, row, c, b) ==
  below = [j \in 1 .. Len(row) |->
             IF j = 1 THEN row[1] + 1
             ELSE Smaller(below[j - 1] + 1, Smaller(row[j] + 1, row[j - 1] + (IF b[j - 1] = c THEN 0 ELSE 1)))]

IsRowAt(r, f, i, b) ==
  /\ r \in Seq(Nat) /\ Len(r) = Len(b) + 1 /\ r # <<>>
  /\ \A j \in 1 .. Len(b) + 1 : r[j] = f[i][j - 1]

LEMMA RowItems ==
  ASSUME NEW b \in Seq(Letters), NEW a, NEW f, Steps(f, a, b), NEW i \in Nat
  PROVE  IsRowAt(RowOf(f, i, b), f, i, b)
<1>1. PICK n \in Nat : n = Len(b) + 1
  <2>1. Len(b) + 1 \in Nat
    BY SeqItems
  <2> QED BY <2>1
<1>2. n > 0
  <2>1. Len(b) \in Nat
    BY SeqItems
  <2> QED BY <1>1, <2>1
<1> DEFINE r == [j \in 1 .. n |-> f[i][j - 1]]
<1>3. RowOf(f, i, b) = r
  BY <1>1 DEF RowOf
<1>4. \A j \in 1 .. n : f[i][j - 1] \in Nat
  <2> TAKE j \in 1 .. n
  <2>1. j - 1 \in Nat
    OBVIOUS
  <2> QED BY <2>1 DEF Steps
<1>5. r \in [1 .. n -> Nat] /\ \A j \in 1 .. n : r[j] = f[i][j - 1]
  BY <1>4
<1> HIDE DEF r
<1>6. r \in Seq(Nat) /\ Len(r) = n
  BY <1>5
<1>7. r # <<>>
  BY <1>2, <1>6
<1> QED BY <1>1, <1>3, <1>5, <1>6, <1>7 DEF IsRowAt

LEMMA BelowIsNext ==
  ASSUME NEW a, NEW b \in Seq(Letters), NEW f, IsTable(f, a, b), NEW i \in Nat, i + 1 \in DOMAIN a
  PROVE  RowBelow(RowOf(f, i, b), a[i + 1], b) = RowOf(f, i + 1, b)
<1>1. PICK row, n, c, next : row = RowOf(f, i, b) /\ n = Len(b) + 1 /\ c = a[i + 1] /\ next = RowOf(f, i + 1, b)
  OBVIOUS
<1>2. Steps(f, a, b)
  BY TableSteps
<1>3. Len(b) \in Nat /\ n \in Nat /\ n = Len(b) + 1 /\ DOMAIN b = 1 .. Len(b)
  BY <1>1, SeqItems
<1>4. Len(row) = n /\ \A j \in 1 .. n : row[j] = f[i][j - 1]
  <2>1. IsRowAt(RowOf(f, i, b), f, i, b)
    BY <1>2, RowItems
  <2> QED BY <1>1, <2>1 DEF IsRowAt
<1>5. next = [j \in 1 .. n |-> f[i + 1][j - 1]]
  BY <1>1 DEF RowOf
<1>6. \A j \in 1 .. n : next[j] = f[i + 1][j - 1]
  BY <1>5
<1>7. /\ f[i + 1][0] = i + 1 /\ f[i][0] = i
      /\ \A j \in Nat : f[i + 1][j + 1] = Entry(f[i + 1][j], f[i][j + 1], f[i][j], Cost(a, i + 1, b, j + 1))
  <2>1. f[i][0] = i
    BY <1>2 DEF Steps
  <2> QED BY <2>1 DEF IsTable, IsRowOf
<1> DEFINE first == row[1] + 1
           behind(l, j) == Smaller(l + 1, Smaller(row[j] + 1, row[j - 1] + (IF b[j - 1] = c THEN 0 ELSE 1)))
<1>8. first = f[i + 1][0]
  <2>1. 1 \in 1 .. n /\ 1 - 1 = 0
    BY <1>3
  <2> QED BY <1>4, <1>7, <2>1
<1>9. ASSUME NEW j \in 2 .. n PROVE f[i + 1][j - 1] = behind(f[i + 1][j - 2], j)
  <2>1. PICK k : k = j - 2
    OBVIOUS
  <2>2. k \in Nat /\ j - 1 = k + 1 /\ j - 1 \in 1 .. n /\ j \in 1 .. n /\ (j - 1) - 1 = k /\ k + 1 \in DOMAIN b
    BY <1>3, <2>1
  <2>3. f[i + 1][k + 1] = Entry(f[i + 1][k], f[i][k + 1], f[i][k], Cost(a, i + 1, b, k + 1))
    BY <1>7, <2>2
  <2>4. row[j] = f[i][k + 1] /\ row[j - 1] = f[i][k]
    BY <1>4, <2>2
  <2>5. Cost(a, i + 1, b, k + 1) = IF b[j - 1] = c THEN 0 ELSE 1
    BY <1>1, <2>2 DEF Cost
  <2> QED BY <2>1, <2>2, <2>3, <2>4, <2>5 DEF Entry
<1> HIDE DEF first, behind
<1>10. \A h : IsBelow(h, row, c, b) <=> h = [j \in 1 .. n |-> IF j = 1 THEN first ELSE behind(h[j - 1], j)]
  BY <1>4 DEF IsBelow, first, behind
<1>11. IsBelow(next, row, c, b)
  <2>1. ASSUME NEW j \in 1 .. n PROVE next[j] = IF j = 1 THEN first ELSE behind(next[j - 1], j)
    <3>1. CASE j = 1
      <4>1. next[j] = f[i + 1][j - 1] /\ j - 1 = 0
        BY <1>6, <3>1
      <4> QED BY <1>8, <3>1, <4>1
    <3>2. CASE j # 1
      <4>1. j \in 2 .. n /\ j - 1 \in 1 .. n /\ (j - 1) - 1 = j - 2
        BY <1>3, <3>2
      <4>2. next[j] = f[i + 1][j - 1] /\ next[j - 1] = f[i + 1][j - 2]
        BY <1>6, <4>1
      <4> QED BY <1>9, <3>2, <4>1, <4>2
    <3> QED BY <3>1, <3>2
  <2>2. next = [j \in 1 .. n |-> next[j]]
    BY <1>5
  <2>3. next = [j \in 1 .. n |-> IF j = 1 THEN first ELSE behind(next[j - 1], j)]
    BY <2>1, <2>2
  <2> QED BY <1>10, <2>3
<1>12. PICK h : h = (CHOOSE g : IsBelow(g, row, c, b)) /\ IsBelow(h, row, c, b)
  BY <1>11
<1>13. h = [j \in 1 .. n |-> IF j = 1 THEN first ELSE behind(h[j - 1], j)]
  BY <1>10, <1>12
<1>14. DOMAIN h = 1 .. n /\ \A j \in 1 .. n : h[j] = IF j = 1 THEN first ELSE behind(h[j - 1], j)
  BY <1>13
<1> DEFINE same == {k \in Nat : k + 1 <= n => h[k + 1] = f[i + 1][k]}
<1>15. 0 \in same
  <2>1. 1 \in 1 .. n /\ 0 + 1 = 1
    BY <1>3
  <2>2. h[1] = first
    BY <1>14, <2>1
  <2> QED BY <1>8, <2>1, <2>2
<1>16. ASSUME NEW k \in Nat, k \in same PROVE k + 1 \in same
  <2> SUFFICES ASSUME (k + 1) + 1 <= n PROVE h[(k + 1) + 1] = f[i + 1][k + 1]
    OBVIOUS
  <2>1. PICK j : j = (k + 1) + 1
    OBVIOUS
  <2>2. j \in 1 .. n /\ j \in 2 .. n /\ j # 1 /\ j - 1 = k + 1 /\ j - 2 = k /\ k + 1 <= n
    BY <1>3, <2>1
  <2>3. h[j] = behind(h[k + 1], j)
    BY <1>14, <2>2
  <2>4. h[k + 1] = f[i + 1][k]
    BY <1>16, <2>2
  <2>5. f[i + 1][k + 1] = behind(f[i + 1][k], j)
    BY <1>9, <2>2
  <2> QED BY <2>1, <2>3, <2>4, <2>5
<1>17. Nat \subseteq same
  <2> HIDE DEF same
  <2> QED BY <1>15, <1>16, NatSetInduction
<1>18. h = next
  <2>1. ASSUME NEW j \in 1 .. n PROVE h[j] = f[i + 1][j - 1]
    <3>1. j - 1 \in Nat /\ (j - 1) + 1 = j /\ j <= n
      BY <1>3
    <3> QED BY <1>17, <3>1
  <2>2. h = [j \in 1 .. n |-> h[j]]
    BY <1>13
  <2> QED BY <1>5, <2>1, <2>2
<1>19. RowBelow(row, c, b) = [j \in 1 .. Len(row) |-> h[j]]
  BY <1>12 DEF RowBelow, IsBelow
<1>20. next = [j \in 1 .. n |-> next[j]]
  BY <1>5
<1> QED BY <1>1, <1>4, <1>18, <1>19, <1>20

(* A row that is given up leads to no distance within the cutoff.          *)
LEMMA GivenUpIsBeyond ==
  ASSUME NEW a \in Seq(Letters), NEW b \in Seq(Letters), NEW f, f = TableOf(a, b),
         NEW i \in 0 .. Len(a), NEW cutoff \in Nat, GivesUp(RowOf(f, i, b), cutoff)
  PROVE  Dist(a, b) > cutoff
<1>1. PICK row, n, s : row = RowOf(f, i, b) /\ n = Len(b) /\ s = Len(a)
  OBVIOUS
<1>2. Steps(f, a, b)
  BY TableIs
<1>3. n \in Nat /\ s \in Nat /\ i \in Nat /\ i <= s
  BY <1>1, SeqItems
<1>4. row \in Seq(Nat) /\ Len(row) = n + 1 /\ \A j \in 1 .. n + 1 : row[j] = f[i][j - 1]
  <2>1. IsRowAt(RowOf(f, i, b), f, i, b)
    BY <1>2, <1>3, RowItems
  <2> QED BY <1>1, <2>1 DEF IsRowAt
<1>5. DOMAIN row = 1 .. n + 1
  BY <1>4, SeqItems
<1>6. \A j \in 0 .. n : f[i][j] \in Range(row) /\ f[i][j] \in Nat
  <2> TAKE j \in 0 .. n
  <2>1. j + 1 \in 1 .. n + 1 /\ (j + 1) - 1 = j /\ j \in Nat
    BY <1>3
  <2>2. row[j + 1] = f[i][j]
    BY <1>4, <2>1
  <2> QED BY <1>2, <1>3, <1>5, <2>1, <2>2 DEF Range, Steps
<1>7. Range(row) \in SUBSET Nat /\ Range(row) # {}
  <2>1. \A p \in DOMAIN row : row[p] \in Nat
    BY <1>4, SeqItems
  <2>2. 0 \in 0 .. n
    BY <1>3
  <2> QED BY <1>6, <2>1, <2>2 DEF Range
<1>8. \E d \in Range(row) : \A e \in Range(row) : d <= e
  BY <1>7, LeastPosition
<1>9. Least(row) \in Range(row) /\ \A e \in Range(row) : Least(row) <= e
  BY <1>8 DEF Least
<1>10. Least(row) > cutoff /\ Least(row) \in Nat
  BY <1>1, <1>7, <1>9 DEF GivesUp
<1>11. \A j \in 0 .. n : f[i][j] > cutoff
  BY <1>6, <1>9, <1>10
<1>12. PICK m \in Nat : s = i + m
  <2>1. s - i \in Nat /\ s = i + (s - i)
    BY <1>3
  <2> QED BY <2>1
<1>13. f[i + m][n] > cutoff
  BY <1>2, <1>3, <1>11, RowsBeyond
<1> QED BY <1>1, <1>12, <1>13 DEF Dist

(* j: the call, k: the candidate that is next, best and dist: the nearest  *)
(* within the limit of those in front of it.                               *)
Far(j, c) == Distance[j.input][j.candidates[c]]
NoneYet(j, k, best, dist) ==
  dist = Unset /\ best = 0 /\ \A c \in 1 .. k - 1 : Far(j, c) > j.limit
FirstNearest(j, k, best, dist) ==
  /\ best \in 1 .. k - 1 /\ dist = Far(j, best) /\ dist <= j.limit
  /\ \A c \in 1 .. k - 1 : dist <= Far(j, c) /\ (Far(j, c) = dist => best <= c)
BestSoFar(j, k, best, dist) == NoneYet(j, k, best, dist) \/ FirstNearest(j, k, best, dist)

SuggestLocals(s) ==
  s \in [k : Nat \ {0}, best : Nat, dist : Nat \cup {Unset}, cutoff : Nat, row : Seq(Nat), i : Nat]

(* The row is a row of the table for the candidate that is considered.     *)
RowIsOf(j, s) ==
  /\ s.k <= Len(j.candidates) /\ s.dist # 0 /\ s.cutoff = Cutoff(j.limit, s.dist)
  /\ \E p \in 0 .. Len(j.input) :
       /\ s.i = p + 1
       /\ s.row = RowOf(TableOf(j.input, j.candidates[s.k]), p, j.candidates[s.k])

LookingInv(j, s) ==
  /\ SuggestLocals(s) /\ s.k <= Len(j.candidates) + 1
  /\ BestSoFar(j, s.k, s.best, s.dist)
  /\ s.row # <<>> => RowIsOf(j, s)

SuggestInv ==
  job.function = "suggest" =>
    /\ IsSuggestJob(job)
    /\ LookingInv(job, st)
    /\ result = Running \/ (result = <<st.best>> /\ st.k > Len(job.candidates))

LEMMA FarIs ==
  ASSUME NEW j, IsSuggestJob(j), NEW k \in 1 .. Len(j.candidates)
  PROVE  /\ j.input \in Seq(Letters) /\ j.candidates[k] \in Seq(Letters)
         /\ Far(j, k) = Dist(j.input, j.candidates[k]) /\ Far(j, k) \in Nat
<1>1. PICK a, b : a = j.input /\ b = j.candidates[k]
  OBVIOUS
<1>2. a \in Words /\ b \in Words
  <2>1. j.candidates \in Seq(Words) /\ a \in Words
    BY <1>1 DEF IsSuggestJob
  <2>2. k \in DOMAIN j.candidates
    BY <2>1, SeqItems
  <2>3. j.candidates[k] \in Words
    BY <2>1, <2>2, SeqItems
  <2> QED BY <1>1, <2>1, <2>3
<1>3. a \in Seq(Letters) /\ b \in Seq(Letters)
  BY <1>2, WordsAreTexts
<1>4. Distance[a][b] = Dist(a, b)
  BY <1>2, DistanceIs
<1>5. Dist(a, b) \in Nat
  BY <1>3, DistIs
<1> QED BY <1>1, <1>3, <1>4, <1>5 DEF Far

LEMMA JobIs ==
  ASSUME NEW j, IsSuggestJob(j)
  PROVE  /\ j.limit \in Nat /\ Len(j.candidates) \in Nat /\ DOMAIN j.candidates = 1 .. Len(j.candidates)
         /\ j.input \in Seq(Letters) /\ Len(j.input) \in Nat /\ DOMAIN j.input = 1 .. Len(j.input)
<1>1. j.limit \in Nat /\ j.candidates \in Seq(Words) /\ j.input \in Seq(Letters)
  BY WordsAreTexts DEF IsSuggestJob
<1>2. Len(j.candidates) \in Nat /\ DOMAIN j.candidates = 1 .. Len(j.candidates)
  BY <1>1, SeqItems
<1>3. Len(j.input) \in Nat /\ DOMAIN j.input = 1 .. Len(j.input)
  BY <1>1, SeqItems
<1> QED BY <1>1, <1>2, <1>3

(* A candidate that is passed over was not nearer, one that is taken is.   *)
LEMMA PassedOverIsFar ==
  ASSUME NEW j, IsSuggestJob(j), NEW k \in 1 .. Len(j.candidates), NEW best, NEW dist \in Nat \cup {Unset},
         BestSoFar(j, k, best, dist), dist = 0 \/ Far(j, k) > Cutoff(j.limit, dist)
  PROVE  BestSoFar(j, k + 1, best, dist)
<1>1. PICK d, m : d = Far(j, k) /\ m = j.limit
  OBVIOUS
<1>2. d \in Nat /\ m \in Nat
  BY <1>1, FarIs, JobIs
<1>3. k \in Nat /\ (k + 1) - 1 = k /\ \A c \in 1 .. k : c = k \/ c \in 1 .. k - 1
  BY JobIs
<1>4. CASE NoneYet(j, k, best, dist)
  <2>1. d > m
    BY <1>1, <1>4 DEF NoneYet, Cutoff, Unset
  <2>2. NoneYet(j, k + 1, best, dist)
    BY <1>1, <1>3, <1>4, <2>1 DEF NoneYet
  <2> QED BY <2>2 DEF BestSoFar
<1>5. CASE FirstNearest(j, k, best, dist)
  <2>1. best \in 1 .. k - 1 /\ dist = Far(j, best) /\ dist <= m
    BY <1>1, <1>5 DEF FirstNearest
  <2>2. dist \in Nat
    <3>1. best \in 1 .. Len(j.candidates)
      BY <1>3, <2>1, JobIs
    <3> QED BY <2>1, <3>1, FarIs
  <2>3. dist # Unset
    BY <2>2 DEF Unset
  <2>4. dist <= d
    <3>1. CASE dist = 0
      BY <1>2, <3>1
    <3>2. CASE d > Cutoff(m, dist)
      <4>1. d > Smaller(m, dist - 1)
        BY <2>3, <3>2 DEF Cutoff
      <4> QED BY <1>2, <2>1, <2>2, <4>1 DEF Smaller
    <3> QED BY <1>1, <3>1, <3>2
  <2>5. best <= k /\ best \in 1 .. k
    BY <1>3, <2>1
  <2>6. FirstNearest(j, k + 1, best, dist)
    BY <1>1, <1>3, <1>5, <2>1, <2>4, <2>5 DEF FirstNearest
  <2> QED BY <2>6 DEF BestSoFar
<1> QED BY <1>4, <1>5 DEF BestSoFar

LEMMA TakenIsNearest ==
  ASSUME NEW j, IsSuggestJob(j), NEW k \in 1 .. Len(j.candidates), NEW best, NEW dist \in Nat \cup {Unset},
         BestSoFar(j, k, best, dist), Far(j, k) <= Cutoff(j.limit, dist), ~(dist # Unset /\ Far(j, k) >= dist)
  PROVE  BestSoFar(j, k + 1, k, Far(j, k))
<1>1. PICK d, m : d = Far(j, k) /\ m = j.limit
  OBVIOUS
<1>2. d \in Nat /\ m \in Nat
  BY <1>1, FarIs, JobIs
<1>3. k \in Nat /\ (k + 1) - 1 = k /\ k \in 1 .. k /\ \A c \in 1 .. k : c = k \/ c \in 1 .. k - 1
  BY JobIs
<1>4. \A c \in 1 .. k - 1 : Far(j, c) \in Nat
  <2> TAKE c \in 1 .. k - 1
  <2>1. c \in 1 .. Len(j.candidates)
    BY <1>3, JobIs
  <2> QED BY <2>1, FarIs
<1>5. d <= m /\ \A c \in 1 .. k - 1 : d < Far(j, c)
  <2>1. CASE NoneYet(j, k, best, dist)
    <3>1. d <= m
      BY <1>1, <2>1 DEF NoneYet, Cutoff
    <3> QED BY <1>1, <1>2, <1>4, <2>1, <3>1 DEF NoneYet
  <2>2. CASE FirstNearest(j, k, best, dist)
    <3>1. best \in 1 .. k - 1 /\ dist = Far(j, best) /\ dist <= m
      BY <1>1, <2>2 DEF FirstNearest
    <3>2. dist \in Nat
      BY <1>4, <3>1
    <3>3. d < dist
      BY <1>1, <1>2, <3>2 DEF Unset
    <3> QED BY <1>2, <1>4, <2>2, <3>1, <3>2, <3>3 DEF FirstNearest
  <2> QED BY <2>1, <2>2 DEF BestSoFar
<1>6. ASSUME NEW c \in 1 .. k PROVE d <= Far(j, c) /\ (Far(j, c) = d => k <= c)
  <2>1. CASE c = k
    BY <1>1, <1>2, <1>3, <2>1
  <2>2. CASE c # k
    BY <1>2, <1>3, <1>4, <1>5, <2>2
  <2> QED BY <2>1, <2>2
<1>7. FirstNearest(j, k + 1, k, d)
  BY <1>1, <1>3, <1>5, <1>6 DEF FirstNearest
<1> QED BY <1>1, <1>7 DEF BestSoFar

LEMMA SuggestStarts == Init => SuggestInv
<1> SUFFICES ASSUME Init, job.function = "suggest" PROVE SuggestInv
  BY DEF SuggestInv
<1>1. IsSuggestJob(job)
  BY JobsAssumption DEF Init
<1>2. st = [k |-> 1, best |-> 0, dist |-> Unset, cutoff |-> 0, row |-> <<>>, i |-> 0] /\ result = Running
  BY DEF Init, Start, SuggestStart
<1>3. <<>> \in Seq(Nat)
  OBVIOUS
<1>4. SuggestLocals(st) /\ st.row = <<>> /\ st.k = 1 /\ st.best = 0 /\ st.dist = Unset
  BY <1>2, <1>3 DEF SuggestLocals
<1>5. NoneYet(job, 1, 0, Unset)
  BY DEF NoneYet
<1>6. 1 <= Len(job.candidates) + 1
  BY <1>1, JobIs
<1>7. LookingInv(job, st)
  BY <1>4, <1>5, <1>6 DEF LookingInv, BestSoFar
<1> QED BY <1>1, <1>2, <1>7 DEF SuggestInv

LEMMA SkippedTo ==
  ASSUME NEW j, IsSuggestJob(j), NEW s, LookingInv(j, s), s.k <= Len(j.candidates),
         s.dist = 0 \/ Far(j, s.k) > Cutoff(j.limit, s.dist)
  PROVE  LookingInv(j, [s EXCEPT !.k = @ + 1, !.row = <<>>, !.i = 0])
<1>1. PICK t : t = [s EXCEPT !.k = @ + 1, !.row = <<>>, !.i = 0]
  OBVIOUS
<1>2. SuggestLocals(s) /\ BestSoFar(j, s.k, s.best, s.dist)
  BY DEF LookingInv
<1>3. <<>> \in Seq(Nat)
  OBVIOUS
<1>4. SuggestLocals(t) /\ t.k = s.k + 1 /\ t.best = s.best /\ t.dist = s.dist /\ t.row = <<>>
  <2>1. PICK none, next : none = <<>> /\ next = s.k + 1
    OBVIOUS
  <2>2. none \in Seq(Nat) /\ next \in Nat \ {0}
    BY <1>2, <1>3, <2>1 DEF SuggestLocals
  <2>3. t = [s EXCEPT !.k = next, !.row = none, !.i = 0]
    BY <1>1, <2>1
  <2>4. SuggestLocals(t) /\ t.k = next /\ t.best = s.best /\ t.dist = s.dist /\ t.row = none
    BY <1>2, <2>2, <2>3 DEF SuggestLocals
  <2> QED BY <2>1, <2>4
<1>5. PICK k, best, dist : k = s.k /\ best = s.best /\ dist = s.dist
  OBVIOUS
<1>6. k \in Nat \ {0} /\ dist \in Nat \cup {Unset} /\ Len(j.candidates) \in Nat
  BY <1>2, <1>5, JobIs DEF SuggestLocals
<1>7. k \in 1 .. Len(j.candidates)
  BY <1>5, <1>6
<1>8. BestSoFar(j, k + 1, best, dist)
  BY <1>2, <1>5, <1>6, <1>7, PassedOverIsFar
<1>9. t.k <= Len(j.candidates) + 1
  BY <1>4, <1>5, <1>6, <1>7
<1>10. LookingInv(j, t)
  BY <1>4, <1>5, <1>8, <1>9 DEF LookingInv
<1> QED BY <1>1, <1>10

LEMMA GapIsNear ==
  ASSUME NEW a \in Seq(Letters), NEW b \in Seq(Letters)
  PROVE  Gap(a, b) \in Nat /\ Gap(a, b) <= Dist(a, b)
<1>1. PICK m, n, d : m = Len(a) /\ n = Len(b) /\ d = Dist(a, b)
  OBVIOUS
<1>2. m \in Nat /\ n \in Nat
  BY <1>1, SeqItems
<1>3. d \in Nat /\ m <= n + d /\ n <= m + d
  BY <1>1, DistIs
<1> QED BY <1>1, <1>2, <1>3 DEF Gap

LEMMA CutoffIsNat ==
  ASSUME NEW limit \in Nat, NEW dist \in Nat \cup {Unset}
  PROVE  dist # 0 => Cutoff(limit, dist) \in Nat
<1>1. CASE dist = Unset
  BY <1>1 DEF Cutoff
<1>2. CASE dist \in Nat /\ dist # Unset
  BY <1>2 DEF Cutoff, Smaller
<1> QED BY <1>1, <1>2

LEMMA ConsideredNext ==
  ASSUME NEW j, IsSuggestJob(j), NEW s, LookingInv(j, s), s.k <= Len(j.candidates), s.dist # 0
  PROVE  LookingInv(j, [s EXCEPT !.cutoff = Cutoff(j.limit, s.dist), !.i = 1,
                                 !.row = [p \in 1 .. Len(j.candidates[s.k]) + 1 |-> p - 1]])
<1>1. PICK w, b, a, c, f : /\ w = [p \in 1 .. Len(j.candidates[s.k]) + 1 |-> p - 1] /\ b = j.candidates[s.k]
                           /\ a = j.input /\ c = Cutoff(j.limit, s.dist) /\ f = TableOf(a, b)
  OBVIOUS
<1>2. PICK t : t = [s EXCEPT !.cutoff = c, !.i = 1, !.row = w]
  OBVIOUS
<1>3. SuggestLocals(s) /\ BestSoFar(j, s.k, s.best, s.dist) /\ s.k <= Len(j.candidates) + 1
  BY DEF LookingInv
<1>4. s.k \in 1 .. Len(j.candidates)
  BY <1>3, JobIs DEF SuggestLocals
<1>5. a \in Seq(Letters) /\ b \in Seq(Letters) /\ Len(a) \in Nat
  <2>1. PICK k : k = s.k
    OBVIOUS
  <2>2. j.input \in Seq(Letters) /\ j.candidates[k] \in Seq(Letters)
    BY <1>4, <2>1, FarIs
  <2> QED BY <1>1, <2>1, <2>2, SeqItems
<1>6. c \in Nat
  <2>1. PICK limit, dist : limit = j.limit /\ dist = s.dist
    OBVIOUS
  <2>2. limit \in Nat /\ dist \in Nat \cup {Unset} /\ dist # 0
    BY <1>3, <2>1, JobIs DEF SuggestLocals
  <2>3. Cutoff(limit, dist) \in Nat
    BY <2>2, CutoffIsNat
  <2> QED BY <1>1, <2>1, <2>3
<1>7. Steps(f, a, b)
  BY <1>1, TableIs
<1>8. w = RowOf(f, 0, b)
  <2>1. \A p \in 1 .. Len(b) + 1 : f[0][p - 1] = p - 1
    <3> TAKE p \in 1 .. Len(b) + 1
    <3>1. p - 1 \in Nat
      OBVIOUS
    <3> QED BY <1>7, <3>1 DEF Steps
  <2> QED BY <1>1, <2>1 DEF RowOf
<1>9. w \in Seq(Nat)
  <2>1. PICK z \in Nat : z = 0
    OBVIOUS
  <2>2. IsRowAt(RowOf(f, z, b), f, z, b)
    BY <1>5, <1>7, RowItems
  <2> QED BY <1>8, <2>1, <2>2 DEF IsRowAt
<1>10. /\ SuggestLocals(t) /\ t.k = s.k /\ t.best = s.best /\ t.dist = s.dist
       /\ t.cutoff = c /\ t.row = w /\ t.i = 1
  BY <1>2, <1>3, <1>6, <1>9 DEF SuggestLocals
<1>11. RowIsOf(j, t)
  <2>1. 0 \in 0 .. Len(a) /\ 1 = 0 + 1
    BY <1>5
  <2>2. t.i = 0 + 1 /\ t.row = RowOf(TableOf(j.input, j.candidates[t.k]), 0, j.candidates[t.k])
    BY <1>1, <1>8, <1>10
  <2>3. t.k <= Len(j.candidates) /\ t.dist # 0 /\ t.cutoff = Cutoff(j.limit, t.dist)
    BY <1>1, <1>10
  <2> QED BY <1>1, <2>1, <2>2, <2>3 DEF RowIsOf
<1>12. LookingInv(j, t)
  BY <1>3, <1>10, <1>11 DEF LookingInv
<1> QED BY <1>1, <1>2, <1>12

(* The candidate that is considered, the limit it has to keep to, and the  *)
(* row that is there.                                                      *)
IsConsidered(j, s, a, b, f, p) ==
  /\ a = j.input /\ b = j.candidates[s.k] /\ f = TableOf(a, b)
  /\ a \in Seq(Letters) /\ b \in Seq(Letters) /\ Len(a) \in Nat /\ DOMAIN a = 1 .. Len(a)
  /\ s.k \in 1 .. Len(j.candidates) /\ Far(j, s.k) = Dist(a, b) /\ Far(j, s.k) \in Nat
  /\ p \in 0 .. Len(a) /\ s.i = p + 1 /\ s.row = RowOf(f, p, b)
  /\ s.cutoff \in Nat /\ s.cutoff = Cutoff(j.limit, s.dist) /\ s.dist # 0

LEMMA ConsideredIs ==
  ASSUME NEW j, IsSuggestJob(j), NEW s, LookingInv(j, s), s.row # <<>>
  PROVE  \E a, b, f, p : IsConsidered(j, s, a, b, f, p)
<1>1. SuggestLocals(s) /\ RowIsOf(j, s)
  BY DEF LookingInv
<1>2. PICK a, b, f, k : a = j.input /\ b = j.candidates[s.k] /\ f = TableOf(a, b) /\ k = s.k
  OBVIOUS
<1>3. PICK p \in 0 .. Len(a) : s.i = p + 1 /\ s.row = RowOf(f, p, b)
  BY <1>1, <1>2 DEF RowIsOf
<1>4. k \in 1 .. Len(j.candidates)
  BY <1>1, <1>2, JobIs DEF SuggestLocals, RowIsOf
<1>5. a \in Seq(Letters) /\ b \in Seq(Letters) /\ Far(j, k) = Dist(a, b) /\ Far(j, k) \in Nat
  <2>1. /\ j.input \in Seq(Letters) /\ j.candidates[k] \in Seq(Letters)
        /\ Far(j, k) = Dist(j.input, j.candidates[k]) /\ Far(j, k) \in Nat
    BY <1>4, FarIs
  <2> QED BY <1>2, <2>1
<1>6. Len(a) \in Nat /\ DOMAIN a = 1 .. Len(a)
  BY <1>5, SeqItems
<1>7. s.cutoff \in Nat /\ s.cutoff = Cutoff(j.limit, s.dist) /\ s.dist # 0
  BY <1>1 DEF SuggestLocals, RowIsOf
<1>8. IsConsidered(j, s, a, b, f, p)
  BY <1>2, <1>3, <1>4, <1>5, <1>6, <1>7 DEF IsConsidered
<1> QED BY <1>8

LEMMA RowNext ==
  ASSUME NEW j, IsSuggestJob(j), NEW s, LookingInv(j, s), s.row # <<>>, s.i <= Len(j.input),
         NEW below, below = RowBelow(s.row, j.input[s.i], j.candidates[s.k])
  PROVE  /\ GivesUp(below, s.cutoff) => LookingInv(j, [s EXCEPT !.k = @ + 1, !.row = <<>>, !.i = 0])
         /\ LookingInv(j, [s EXCEPT !.row = below, !.i = @ + 1])
<1>1. PICK a, b, f, p : IsConsidered(j, s, a, b, f, p)
  BY ConsideredIs
<1>2. SuggestLocals(s) /\ BestSoFar(j, s.k, s.best, s.dist) /\ s.k <= Len(j.candidates) + 1
  BY DEF LookingInv
<1>3. IsTable(f, a, b) /\ Steps(f, a, b)
  BY <1>1, TablesExist, TableIs DEF IsConsidered
<1>4. p \in Nat /\ p + 1 \in DOMAIN a /\ p + 1 \in 0 .. Len(a) /\ s.i = p + 1
  BY <1>1 DEF IsConsidered
<1>5. below = RowOf(f, p + 1, b)
  <2>1. b \in Seq(Letters) /\ s.row = RowOf(f, p, b) /\ j.input[s.i] = a[p + 1] /\ j.candidates[s.k] = b
    BY <1>1, <1>4 DEF IsConsidered
  <2>2. RowBelow(RowOf(f, p, b), a[p + 1], b) = RowOf(f, p + 1, b)
    BY <1>3, <1>4, <2>1, BelowIsNext
  <2> QED BY <2>1, <2>2
<1>6. PICK i, cutoff : i = p + 1 /\ cutoff = s.cutoff
  OBVIOUS
<1>7. i \in 0 .. Len(a) /\ i \in Nat /\ cutoff \in Nat /\ below = RowOf(f, i, b) /\ f = TableOf(a, b)
  BY <1>1, <1>4, <1>5, <1>6 DEF IsConsidered
<1>8. a \in Seq(Letters) /\ b \in Seq(Letters) /\ s.k <= Len(j.candidates)
  BY <1>1, JobIs DEF IsConsidered
<1>9. ASSUME GivesUp(below, s.cutoff) PROVE LookingInv(j, [s EXCEPT !.k = @ + 1, !.row = <<>>, !.i = 0])
  <2>1. GivesUp(RowOf(f, i, b), cutoff)
    BY <1>6, <1>7, <1>9
  <2>2. Dist(a, b) > cutoff
    BY <1>7, <1>8, <2>1, GivenUpIsBeyond
  <2>3. Far(j, s.k) > Cutoff(j.limit, s.dist)
    BY <1>1, <1>6, <2>2 DEF IsConsidered
  <2> QED BY <1>8, <2>3, SkippedTo
<1>10. LookingInv(j, [s EXCEPT !.row = below, !.i = @ + 1])
  <2>1. PICK t, next : t = [s EXCEPT !.row = below, !.i = @ + 1] /\ next = s.i + 1
    OBVIOUS
  <2>2. IsRowAt(below, f, i, b)
    BY <1>3, <1>7, <1>8, RowItems
  <2>3. below \in Seq(Nat) /\ next \in Nat /\ next = i + 1
    BY <1>4, <1>6, <2>1, <2>2 DEF IsRowAt
  <2>4. t = [s EXCEPT !.row = below, !.i = next]
    BY <2>1
  <2>5. /\ SuggestLocals(t) /\ t.k = s.k /\ t.best = s.best /\ t.dist = s.dist /\ t.cutoff = s.cutoff
        /\ t.row = below /\ t.i = next
    BY <1>2, <2>3, <2>4 DEF SuggestLocals
  <2>6. RowIsOf(j, t)
    <3>1. t.i = i + 1 /\ t.row = RowOf(TableOf(j.input, j.candidates[t.k]), i, j.candidates[t.k])
      BY <1>1, <1>7, <2>3, <2>5 DEF IsConsidered
    <3>2. i \in 0 .. Len(j.input)
      BY <1>1, <1>7 DEF IsConsidered
    <3>3. t.k <= Len(j.candidates) /\ t.dist # 0 /\ t.cutoff = Cutoff(j.limit, t.dist)
      BY <1>1, <1>8, <2>5 DEF IsConsidered
    <3> QED BY <3>1, <3>2, <3>3 DEF RowIsOf
  <2>7. LookingInv(j, t)
    BY <1>2, <2>5, <2>6 DEF LookingInv
  <2> QED BY <2>1, <2>7
<1> QED BY <1>9, <1>10

LEMMA ComparedNext ==
  ASSUME NEW j, IsSuggestJob(j), NEW s, LookingInv(j, s), s.row # <<>>, s.i > Len(j.input),
         NEW dist, dist = s.row[Len(s.row)]
  PROVE  IF dist > s.cutoff \/ (s.dist # Unset /\ dist >= s.dist)
         THEN LookingInv(j, [s EXCEPT !.k = @ + 1, !.row = <<>>, !.i = 0])
         ELSE LookingInv(j, [s EXCEPT !.k = @ + 1, !.row = <<>>, !.i = 0, !.best = s.k, !.dist = dist])
<1>1. PICK a, b, f, p : IsConsidered(j, s, a, b, f, p)
  BY ConsideredIs
<1>2. SuggestLocals(s) /\ BestSoFar(j, s.k, s.best, s.dist) /\ s.k <= Len(j.candidates) + 1
  BY DEF LookingInv
<1>3. /\ a \in Seq(Letters) /\ b \in Seq(Letters) /\ p \in Nat /\ p = Len(a)
      /\ s.row = RowOf(f, p, b) /\ f = TableOf(a, b) /\ Far(j, s.k) = Dist(a, b)
      /\ s.k \in 1 .. Len(j.candidates) /\ s.cutoff = Cutoff(j.limit, s.dist) /\ Far(j, s.k) \in Nat
  BY <1>1 DEF IsConsidered
<1>4. Steps(f, a, b)
  BY <1>3, TableIs
<1>5. IsRowAt(s.row, f, p, b)
  <2>1. IsRowAt(RowOf(f, p, b), f, p, b)
    BY <1>3, <1>4, RowItems
  <2> QED BY <1>3, <2>1
<1>6. dist = Far(j, s.k)
  <2>1. PICK n : n = Len(b)
    OBVIOUS
  <2>2. n \in Nat
    BY <1>3, <2>1, SeqItems
  <2>3. Len(s.row) = n + 1 /\ \A q \in 1 .. n + 1 : s.row[q] = f[p][q - 1]
    BY <1>5, <2>1 DEF IsRowAt
  <2>4. n + 1 \in 1 .. n + 1 /\ (n + 1) - 1 = n
    BY <2>2
  <2>5. dist = f[p][n]
    BY <2>3, <2>4
  <2> QED BY <1>3, <2>1, <2>5 DEF Dist
<1>7. PICK k, best, d, limit : k = s.k /\ best = s.best /\ d = s.dist /\ limit = j.limit
  OBVIOUS
<1>8. /\ k \in 1 .. Len(j.candidates) /\ d \in Nat \cup {Unset} /\ BestSoFar(j, k, best, d)
      /\ k \in Nat /\ Len(j.candidates) \in Nat /\ k <= Len(j.candidates)
  BY <1>2, <1>3, <1>7, JobIs DEF SuggestLocals
<1>9. CASE dist > s.cutoff
  <2>1. Far(j, s.k) > Cutoff(j.limit, s.dist)
    BY <1>3, <1>6, <1>9
  <2>2. LookingInv(j, [s EXCEPT !.k = @ + 1, !.row = <<>>, !.i = 0])
    BY <1>7, <1>8, <2>1, SkippedTo
  <2> QED BY <1>9, <2>2
<1>10. CASE ~(dist > s.cutoff) /\ s.dist # Unset /\ dist >= s.dist
  <2>1. dist > Cutoff(j.limit, s.dist)
    <3>1. d \in Nat /\ dist \in Nat /\ limit \in Nat
      BY <1>3, <1>6, <1>7, <1>8, <1>10, JobIs
    <3>2. Cutoff(limit, d) = Smaller(limit, d - 1)
      BY <1>7, <1>10 DEF Cutoff
    <3>3. dist > Smaller(limit, d - 1)
      BY <1>7, <1>10, <3>1 DEF Smaller
    <3> QED BY <1>7, <3>2, <3>3
  <2>2. LookingInv(j, [s EXCEPT !.k = @ + 1, !.row = <<>>, !.i = 0])
    BY <1>6, <1>7, <1>8, <2>1, SkippedTo
  <2> QED BY <1>10, <2>2
<1>11. CASE ~(dist > s.cutoff) /\ ~(s.dist # Unset /\ dist >= s.dist)
  <2>1. Far(j, k) <= Cutoff(limit, d) /\ ~(d # Unset /\ Far(j, k) >= d)
    <3>1. s.cutoff \in Nat /\ dist \in Nat
      BY <1>2, <1>3, <1>6 DEF SuggestLocals
    <3> QED BY <1>3, <1>6, <1>7, <1>11, <3>1
  <2>2. BestSoFar(j, k + 1, k, Far(j, k))
    BY <1>7, <1>8, <2>1, TakenIsNearest
  <2>3. PICK t, next, none : /\ t = [s EXCEPT !.k = @ + 1, !.row = <<>>, !.i = 0, !.best = s.k, !.dist = dist]
                             /\ next = s.k + 1 /\ none = <<>>
    OBVIOUS
  <2>4. none \in Seq(Nat) /\ next \in Nat \ {0} /\ next = k + 1 /\ dist \in Nat
    BY <1>3, <1>6, <1>7, <1>8, <2>3
  <2>5. t = [s EXCEPT !.k = next, !.row = none, !.i = 0, !.best = k, !.dist = dist]
    BY <1>7, <2>3
  <2>6. SuggestLocals(t) /\ t.k = next /\ t.best = k /\ t.dist = dist /\ t.row = none
    BY <1>2, <1>8, <2>4, <2>5 DEF SuggestLocals
  <2>7. LookingInv(j, t)
    <3>1. t.k <= Len(j.candidates) + 1
      BY <1>8, <2>4, <2>6
    <3>2. BestSoFar(j, t.k, t.best, t.dist)
      BY <1>6, <1>7, <2>2, <2>4, <2>6
    <3>3. t.row = <<>>
      BY <2>3, <2>6
    <3> QED BY <2>6, <3>1, <3>2, <3>3 DEF LookingInv
  <2> QED BY <1>11, <2>3, <2>7
<1> QED BY <1>9, <1>10, <1>11

LEMMA SuggestStep ==
  ASSUME SuggestInv, SuggestNext
  PROVE  SuggestInv'
<1>1. job.function = "suggest" /\ result = Running
  BY DEF SuggestNext, Finished, PassOver, Consider, Row, Compare, Suggests, Runs
<1>2. IsSuggestJob(job) /\ LookingInv(job, st)
  BY <1>1 DEF SuggestInv
<1>3. SuggestLocals(st) /\ st.k <= Len(job.candidates) + 1
  BY <1>2 DEF LookingInv
<1>4. ASSUME NEW t, LookingInv(job, t), Goes(t) PROVE SuggestInv'
  BY <1>1, <1>2, <1>4 DEF Goes, SuggestInv
<1>5. CASE Finished
  BY <1>1, <1>2, <1>3, <1>5 DEF Finished, Returns, SuggestInv, LookingInv, SuggestLocals, RowIsOf, BestSoFar,
                               NoneYet, FirstNearest
<1>6. CASE PassOver
  <2>1. st.row = <<>> /\ st.k <= Len(job.candidates) /\ Goes([st EXCEPT !.k = @ + 1, !.row = <<>>, !.i = 0])
    BY <1>6 DEF PassOver, Skip
  <2>2. st.dist = 0 \/ Far(job, st.k) > Cutoff(job.limit, st.dist)
    <3>1. CASE st.dist = 0
      BY <3>1
    <3>2. CASE st.dist # 0 /\ Gap(job.input, Candidate) > Cutoff(job.limit, st.dist)
      <4>1. PICK a, k, b, limit, dist : /\ a = job.input /\ k = st.k /\ b = job.candidates[k]
                                        /\ limit = job.limit /\ dist = st.dist
        OBVIOUS
      <4>2. limit \in Nat /\ dist \in Nat \cup {Unset} /\ dist # 0 /\ k \in 1 .. Len(job.candidates)
        BY <1>2, <1>3, <2>1, <3>2, <4>1, JobIs DEF SuggestLocals
      <4>3. a \in Seq(Letters) /\ b \in Seq(Letters) /\ Far(job, k) = Dist(a, b) /\ Far(job, k) \in Nat
        <5>1. /\ job.input \in Seq(Letters) /\ job.candidates[k] \in Seq(Letters)
              /\ Far(job, k) = Dist(job.input, job.candidates[k]) /\ Far(job, k) \in Nat
          BY <1>2, <4>2, FarIs
        <5> QED BY <4>1, <5>1
      <4>4. Gap(a, b) \in Nat /\ Gap(a, b) <= Dist(a, b)
        BY <4>3, GapIsNear
      <4>5. Cutoff(limit, dist) \in Nat
        BY <4>2, CutoffIsNat
      <4>6. Gap(a, b) > Cutoff(limit, dist)
        BY <3>2, <4>1 DEF Candidate
      <4>7. Far(job, k) > Cutoff(limit, dist)
        BY <4>3, <4>4, <4>5, <4>6
      <4> QED BY <4>1, <4>7
    <3> QED BY <1>6, <3>1, <3>2 DEF PassOver
  <2>3. LookingInv(job, [st EXCEPT !.k = @ + 1, !.row = <<>>, !.i = 0])
    BY <1>2, <2>1, <2>2, SkippedTo
  <2> QED BY <1>4, <2>1, <2>3
<1>7. CASE Consider
  <2>1. /\ st.k <= Len(job.candidates) /\ st.dist # 0
        /\ Goes([st EXCEPT !.cutoff = Cutoff(job.limit, st.dist), !.i = 1,
                           !.row = [p \in 1 .. Len(job.candidates[st.k]) + 1 |-> p - 1]])
    BY <1>7 DEF Consider, Candidate
  <2>2. LookingInv(job, [st EXCEPT !.cutoff = Cutoff(job.limit, st.dist), !.i = 1,
                                   !.row = [p \in 1 .. Len(job.candidates[st.k]) + 1 |-> p - 1]])
    BY <1>2, <2>1, ConsideredNext
  <2> QED BY <1>4, <2>1, <2>2
<1>8. CASE Row
  <2>1. PICK below : below = RowBelow(st.row, job.input[st.i], job.candidates[st.k])
    OBVIOUS
  <2>2. /\ st.row # <<>> /\ st.i <= Len(job.input)
        /\ \/ GivesUp(below, st.cutoff) /\ Goes([st EXCEPT !.k = @ + 1, !.row = <<>>, !.i = 0])
           \/ Goes([st EXCEPT !.row = below, !.i = @ + 1])
    BY <1>8, <2>1, SMTT(40) DEF Row, Skip, Candidate
  <2>3. /\ GivesUp(below, st.cutoff) => LookingInv(job, [st EXCEPT !.k = @ + 1, !.row = <<>>, !.i = 0])
        /\ LookingInv(job, [st EXCEPT !.row = below, !.i = @ + 1])
    BY <1>2, <2>1, <2>2, RowNext
  <2> QED BY <1>4, <2>2, <2>3
<1>9. CASE Compare
  <2>1. PICK dist : dist = st.row[Len(st.row)]
    OBVIOUS
  <2>2. /\ st.row # <<>> /\ st.i > Len(job.input)
        /\ IF dist > st.cutoff \/ (st.dist # Unset /\ dist >= st.dist)
           THEN Goes([st EXCEPT !.k = @ + 1, !.row = <<>>, !.i = 0])
           ELSE Goes([st EXCEPT !.k = @ + 1, !.row = <<>>, !.i = 0, !.best = st.k, !.dist = dist])
    BY <1>9, <2>1, SMTT(40) DEF Compare, Skip
  <2>3. IF dist > st.cutoff \/ (st.dist # Unset /\ dist >= st.dist)
        THEN LookingInv(job, [st EXCEPT !.k = @ + 1, !.row = <<>>, !.i = 0])
        ELSE LookingInv(job, [st EXCEPT !.k = @ + 1, !.row = <<>>, !.i = 0, !.best = st.k, !.dist = dist])
    BY <1>2, <2>1, <2>2, ComparedNext
  <2> QED BY <1>4, <2>2, <2>3
<1> QED BY <1>5, <1>6, <1>7, <1>8, <1>9 DEF SuggestNext

LEMMA NotSuggestSteps ==
  ASSUME Next, ~SuggestNext
  PROVE  (job.function # "suggest" /\ job' = job) \/ UNCHANGED callVars
<1>1. CASE HashNext
  BY <1>1 DEF HashNext, TakeEight, TakeOne, Hashed, Hashes, Runs, Goes, Returns
<1>2. CASE FormatNext
  BY <1>2 DEF FormatNext, RefuseFormat, Literally, Brace, Field, Formatted, Formats, Writing, Runs, Goes, Returns
<1>3. CASE ReadNext
  BY <1>3 DEF ReadNext, RefuseText, TakeBase, Convert, RefuseDigit, RefuseValue, TakeDigit, Finish, Reads, Scanning,
              Runs, Goes, Returns
<1>4. CASE AmalgamateNext
  BY <1>4 DEF AmalgamateNext, EnterEntry, Inline, Copy, LeaveHeader, Written, Reading, Amalgamates, Runs, Goes, Returns
<1>5. CASE DateNext
  BY <1>5 DEF DateNext, parse_iso_date, parse_date_macro, parse_iso_datetime, Runs, Returns
<1>6. CASE Terminated
  BY <1>6 DEF Terminated
<1> QED BY <1>1, <1>2, <1>3, <1>4, <1>5, <1>6 DEF Next

LEMMA SuggestInvariant == Spec => []SuggestInv
<1>1. SuggestInv /\ [Next]_callVars => SuggestInv'
  <2> SUFFICES ASSUME SuggestInv, [Next]_callVars PROVE SuggestInv'
    OBVIOUS
  <2>1. CASE SuggestNext
    BY <2>1, SuggestStep
  <2>2. CASE UNCHANGED callVars
    BY <2>2 DEF callVars, SuggestInv
  <2>3. CASE job.function # "suggest" /\ job' = job
    BY <2>3 DEF SuggestInv
  <2> QED BY <2>1, <2>2, <2>3, NotSuggestSteps
<1> QED BY <1>1, SuggestStarts, PTL DEF Spec

IsFirstNearest(best, far, within) ==
  IF within = {} THEN best = 0
  ELSE best \in within /\ \A c \in within : far[best] <= far[c] /\ (far[c] = far[best] => best <= c)

LEMMA NearestIsBest ==
  ASSUME NEW j, IsSuggestJob(j), NEW k, NEW best, NEW dist, BestSoFar(j, k, best, dist),
         k = Len(j.candidates) + 1, NEW far, far = [c \in DOMAIN j.candidates |-> Far(j, c)],
         NEW within, within = {c \in DOMAIN far : far[c] <= j.limit}
  PROVE  IsFirstNearest(best, far, within)
<1>1. PICK n, m : n = Len(j.candidates) /\ m = j.limit
  OBVIOUS
<1>2. n \in Nat /\ m \in Nat /\ DOMAIN j.candidates = 1 .. n /\ k - 1 = n
  BY <1>1, JobIs
<1>3. \A c \in 1 .. n : Far(j, c) \in Nat
  BY <1>1, FarIs
<1>4. DOMAIN far = 1 .. n /\ \A c \in 1 .. n : far[c] = Far(j, c) /\ far[c] \in Nat
  BY <1>2, <1>3
<1>5. CASE NoneYet(j, k, best, dist)
  <2>1. best = 0 /\ \A c \in 1 .. n : far[c] > m
    BY <1>1, <1>2, <1>4, <1>5 DEF NoneYet
  <2>2. ASSUME NEW c \in within PROVE FALSE
    <3>1. c \in 1 .. n /\ far[c] <= m
      BY <1>1, <1>4
    <3>2. far[c] > m /\ far[c] \in Nat
      BY <1>4, <2>1, <3>1
    <3> QED BY <1>2, <3>1, <3>2
  <2> QED BY <2>1, <2>2 DEF IsFirstNearest
<1>6. CASE FirstNearest(j, k, best, dist)
  <2>1. /\ best \in 1 .. n /\ far[best] <= m
        /\ \A c \in 1 .. n : far[best] <= far[c] /\ (far[c] = far[best] => best <= c)
    BY <1>1, <1>2, <1>4, <1>6 DEF FirstNearest
  <2>2. best \in within
    BY <1>1, <1>4, <2>1
  <2>3. \A c \in within : c \in 1 .. n
    BY <1>4
  <2> QED BY <2>1, <2>2, <2>3 DEF IsFirstNearest
<1> QED BY <1>5, <1>6 DEF BestSoFar

(* The first of the nearest candidates within the limit is suggested, and  *)
(* nothing when there is none: the row that is given up, the length that   *)
(* is compared first and the cutoff that falls with the best one so far    *)
(* never lose a candidate that needs as few changes.                       *)
THEOREM NearestIsSuggested ==
  Spec => []NearestSuggested
<1>1. SuggestInv => NearestSuggested
  <2> SUFFICES ASSUME SuggestInv, Returned("suggest") PROVE NearestSuggested
    BY DEF NearestSuggested
  <2>1. /\ IsSuggestJob(job) /\ LookingInv(job, st)
        /\ result = <<st.best>> /\ st.k > Len(job.candidates)
    BY DEF SuggestInv, Returned
  <2>2. BestSoFar(job, st.k, st.best, st.dist) /\ st.k = Len(job.candidates) + 1
    <3>1. BestSoFar(job, st.k, st.best, st.dist) /\ st.k <= Len(job.candidates) + 1 /\ st.k \in Nat
      BY <2>1 DEF LookingInv, SuggestLocals
    <3>2. Len(job.candidates) \in Nat
      BY <2>1, JobIs
    <3> QED BY <2>1, <3>1, <3>2
  <2>3. PICK far, within : /\ far = [c \in DOMAIN job.candidates |-> Far(job, c)]
                           /\ within = {c \in DOMAIN far : far[c] <= job.limit}
    OBVIOUS
  <2>4. IsFirstNearest(st.best, far, within)
    <3>1. PICK j, k, best, dist : j = job /\ k = st.k /\ best = st.best /\ dist = st.dist
      OBVIOUS
    <3>2. /\ IsSuggestJob(j) /\ BestSoFar(j, k, best, dist) /\ k = Len(j.candidates) + 1
          /\ far = [c \in DOMAIN j.candidates |-> Far(j, c)] /\ within = {c \in DOMAIN far : far[c] <= j.limit}
      BY <2>1, <2>2, <2>3, <3>1
    <3>3. IsFirstNearest(best, far, within)
      BY <3>2, NearestIsBest
    <3> QED BY <3>1, <3>3
  <2>5. Answer = st.best
    BY <2>1 DEF Answer
  <2>6. far = [k \in DOMAIN job.candidates |-> Distance[job.input][job.candidates[k]]]
    BY <2>3 DEF Far
  <2> QED BY <2>3, <2>4, <2>5, <2>6, SMTT(40) DEF NearestSuggested, IsFirstNearest
<1> QED BY <1>1, SuggestInvariant, PTL
-----------------------------------------------------------------------------
(* The characters that dates are written with.                             *)
LEMMA CodesAre ==
  /\ Code["0"] = 48 /\ Code["-"] = 45 /\ Code["+"] = 43 /\ Code[":"] = 58
  /\ Code["T"] = 84 /\ Code["Z"] = 90 /\ Code["z"] = 122
  /\ Text("T") = <<84>> /\ Text("Z") = <<90>> /\ Text("z") = <<122>> /\ Text(":") = <<58>>
  /\ Text("-") = <<45>> /\ Text("+") = <<43>> /\ Text("") = <<>>
  /\ Code[" "] = Space
BY CodesAssumption, Zenon

(* A text of n characters; t is s with others behind it, and begins as s.  *)
IsText(t, n) == t \in Seq(Int) /\ Len(t) = n
Joins(t, s, u) == t = s \o u
Begins(t, s, n) == \A i \in 1 .. n : t[i] = s[i]

(* A text with one character, or with two, behind it.                      *)
LEMMA OneBehind ==
  ASSUME NEW n \in Nat, NEW s, IsText(s, n), NEW a \in Int, NEW t, Joins(t, s, <<a>>)
  PROVE  IsText(t, n + 1) /\ Begins(t, s, n) /\ t[n + 1] = a
<1>1. s \in Seq(Int) /\ Len(s) = n /\ t = s \o <<a>>
  BY DEF IsText, Joins
<1>2. Len(t) = n + 1 /\ t \in Seq(Int)
  BY <1>1
<1>3. \A i \in 1 .. n : t[i] = s[i]
  BY <1>1
<1>4. t[n + 1] = a
  BY <1>1
<1> QED BY <1>2, <1>3, <1>4 DEF IsText, Begins

LEMMA TwoBehind ==
  ASSUME NEW n \in Nat, NEW s, IsText(s, n), NEW a \in Int, NEW b \in Int, NEW t, Joins(t, s, <<a, b>>)
  PROVE  IsText(t, n + 2) /\ Begins(t, s, n) /\ t[n + 1] = a /\ t[n + 2] = b
<1>1. s \in Seq(Int) /\ Len(s) = n /\ t = s \o <<a, b>>
  BY DEF IsText, Joins
<1>2. Len(t) = n + 2 /\ t \in Seq(Int)
  BY <1>1
<1>3. \A i \in 1 .. n : t[i] = s[i]
  BY <1>1
<1>4. t[n + 1] = a /\ t[n + 2] = b
  BY <1>1
<1> QED BY <1>2, <1>3, <1>4 DEF IsText, Begins

(* The two digits that a number below one hundred is written with.         *)
LEMMA TwoDigits ==
  ASSUME NEW n \in 0 .. 99
  PROVE  \E a, b \in 48 .. 57 : to_two_digits(n) = <<a, b>> /\ n = 10 * (a - 48) + b - 48
<1>1. PICK z : z = Code["0"] /\ z = 48
  BY CodesAre, Zenon
<1>2. to_two_digits(n) = <<z + (n \div 10), z + (n % 10)>>
  BY <1>1, Zenon DEF to_two_digits
<1>3. 48 + (n \div 10) \in 48 .. 57 /\ 48 + (n % 10) \in 48 .. 57 /\ n = 10 * (n \div 10) + (n % 10)
  OBVIOUS
<1> QED BY <1>1, <1>2, <1>3

(* What is read at place i; n is read there.                               *)
TwoAt(t, i) == 10 * (t[i] - 48) + t[i + 1] - 48

(* The reader of two digits, and of four, reads what stands there.         *)
LEMMA Decoded ==
  ASSUME NEW t, NEW i \in Nat
  PROVE  /\ decode_two_digits(t, i) = TwoAt(t, i)
         /\ decode_four_digits(t, i) = 100 * TwoAt(t, i) + TwoAt(t, i + 2)
BY CodesAre, Zenon DEF decode_two_digits, decode_four_digits, TwoAt

(* A text that goes on with the two digits of n.                           *)
LEMMA DigitsBehind ==
  ASSUME NEW n \in Nat, NEW s, IsText(s, n), NEW v \in 0 .. 99, NEW t, Joins(t, s, to_two_digits(v))
  PROVE  IsText(t, n + 2) /\ Begins(t, s, n) /\ TwoAt(t, n + 1) = v
<1>1. PICK a \in 48 .. 57, b \in 48 .. 57 : to_two_digits(v) = <<a, b>> /\ v = 10 * (a - 48) + b - 48
  BY TwoDigits
<1>2. Joins(t, s, <<a, b>>)
  BY <1>1
<1>3. IsText(t, n + 2) /\ Begins(t, s, n) /\ t[n + 1] = a /\ t[n + 2] = b
  BY <1>2, TwoBehind
<1>4. (n + 1) + 1 = n + 2
  OBVIOUS
<1> QED BY <1>1, <1>3, <1>4 DEF TwoAt

(* The first of them is a digit, and no blank.                             *)
LEMMA DigitBehind ==
  ASSUME NEW n \in Nat, NEW s, IsText(s, n), NEW v \in 0 .. 99, NEW t, Joins(t, s, to_two_digits(v))
  PROVE  t[n + 1] \in 48 .. 57
<1>1. PICK a \in 48 .. 57, b \in 48 .. 57 : to_two_digits(v) = <<a, b>>
  BY TwoDigits
<1>2. Joins(t, s, <<a, b>>)
  BY <1>1
<1>3. t[n + 1] = a
  BY <1>2, TwoBehind
<1> QED BY <1>3

(* What is read in the beginning of a text is read in the text.            *)
LEMMA ReadInBeginning ==
  ASSUME NEW t, NEW s, NEW n \in Nat, Begins(t, s, n), NEW i \in 1 .. n
  PROVE  t[i] = s[i] /\ (i + 1 <= n => TwoAt(t, i) = TwoAt(s, i))
BY DEF Begins, TwoAt

(* The text of four digits.                                                *)
FourDigitNumbers == 0 .. 9999

LEMMA FourDigits ==
  ASSUME NEW n \in FourDigitNumbers, NEW t, t = to_four_digits(n)
  PROVE  IsText(t, 4) /\ n = 100 * TwoAt(t, 1) + TwoAt(t, 3)
<1>1. n \div 100 \in 0 .. 99 /\ n % 100 \in 0 .. 99 /\ n = 100 * (n \div 100) + (n % 100)
  BY SMTT(40) DEF FourDigitNumbers
<1>2. PICK h, r \in 0 .. 99 : h = n \div 100 /\ r = n % 100 /\ n = 100 * h + r
  BY <1>1, Zenon
<1>3. t = to_two_digits(h) \o to_two_digits(r)
  BY <1>2 DEF to_four_digits
<1>4. PICK a \in 48 .. 57, b \in 48 .. 57 : to_two_digits(h) = <<a, b>> /\ h = 10 * (a - 48) + b - 48
  BY TwoDigits
<1>5. PICK s : s = <<a, b>>
  OBVIOUS
<1>6. IsText(s, 2) /\ TwoAt(s, 1) = h
  BY <1>4, <1>5 DEF IsText, TwoAt
<1>7. Joins(t, s, to_two_digits(r))
  BY <1>3, <1>4, <1>5 DEF Joins
<1>8. IsText(t, 4) /\ Begins(t, s, 2) /\ TwoAt(t, 3) = r
  <2>1. IsText(t, 2 + 2) /\ Begins(t, s, 2) /\ TwoAt(t, 2 + 1) = r
    BY <1>6, <1>7, DigitsBehind
  <2> QED BY <2>1
<1>9. TwoAt(t, 1) = h
  BY <1>6, <1>8, ReadInBeginning
<1> QED BY <1>2, <1>8, <1>9

(* A date with years of four digits, and months and days of two; that date *)
(* as the beginning of a text.                                             *)
WritableDates == [year : FourDigitNumbers, month : 1 .. 12, day : 1 .. 31]

Dated(t, d) ==
  /\ t[5] = 45 /\ t[8] = 45
  /\ d.year = 100 * TwoAt(t, 1) + TwoAt(t, 3)
  /\ d.month = TwoAt(t, 6)
  /\ d.day = TwoAt(t, 9)

(* format_iso_date writes the date that it was given.                      *)
LEMMA DateWritten ==
  ASSUME NEW d \in WritableDates, NEW t, t = format_iso_date(d)
  PROVE  IsText(t, 10) /\ Dated(t, d)
<1>1. d.year \in FourDigitNumbers /\ d.month \in 0 .. 99 /\ d.day \in 0 .. 99
  BY DEF WritableDates
<1>2. PICK y, u, v, w :
        /\ y = to_four_digits(d.year) /\ Joins(u, y, <<45>>) /\ Joins(v, u, to_two_digits(d.month))
        /\ Joins(w, v, <<45>>) /\ Joins(t, w, to_two_digits(d.day))
  BY CodesAre, Zenon DEF format_iso_date, Joins
<1>3. IsText(y, 4) /\ d.year = 100 * TwoAt(y, 1) + TwoAt(y, 3)
  BY <1>1, <1>2, FourDigits
<1>4. IsText(u, 5) /\ Begins(u, y, 4) /\ u[5] = 45
  BY <1>2, <1>3, OneBehind
<1>5. IsText(v, 7) /\ Begins(v, u, 5) /\ TwoAt(v, 6) = d.month
  BY <1>1, <1>2, <1>4, DigitsBehind, SMTT(40)
<1>6. IsText(w, 8) /\ Begins(w, v, 7) /\ w[8] = 45
  BY <1>2, <1>5, OneBehind
<1>7. IsText(t, 10) /\ Begins(t, w, 8) /\ TwoAt(t, 9) = d.day
  <2>1. PICK x, n : x = t /\ n = d.day
    OBVIOUS
  <2>2. Joins(x, w, to_two_digits(n)) /\ n \in 0 .. 99 /\ IsText(w, 8)
    BY <1>1, <1>2, <1>6, <2>1
  <2>3. IsText(x, 8 + 2) /\ Begins(x, w, 8) /\ TwoAt(x, 8 + 1) = n
    BY ONLY <2>2, DigitsBehind, SMTT(40)
  <2> QED BY <2>1, <2>3
<1>8. Begins(t, y, 4) /\ Begins(t, v, 7) /\ t[5] = 45 /\ t[8] = 45
  BY <1>4, <1>5, <1>6, <1>7 DEF Begins
<1>9. TwoAt(t, 1) = TwoAt(y, 1) /\ TwoAt(t, 3) = TwoAt(y, 3) /\ TwoAt(t, 6) = TwoAt(v, 6)
  BY <1>8, ReadInBeginning
<1> QED BY <1>3, <1>5, <1>7, <1>8, <1>9 DEF Dated

(* A date that is read in the beginning of a text is read in the text.     *)
LEMMA DatedBeginning ==
  ASSUME NEW t, NEW s, Begins(t, s, 10), NEW d, Dated(s, d)
  PROVE  Dated(t, d)
<1>1. t[5] = s[5] /\ t[8] = s[8]
  BY DEF Begins
<1>2. TwoAt(t, 1) = TwoAt(s, 1) /\ TwoAt(t, 3) = TwoAt(s, 3) /\ TwoAt(t, 6) = TwoAt(s, 6)
      /\ TwoAt(t, 9) = TwoAt(s, 9)
  BY ReadInBeginning
<1> QED BY <1>1, <1>2 DEF Dated

(* parse_ymd_iso reads the date that stands in the text.                   *)
LEMMA DateRead ==
  ASSUME NEW t, NEW d \in WritableDates, Dated(t, d)
  PROVE  parse_ymd_iso(t) = d /\ Stands(t, 5, "-") /\ Stands(t, 8, "-")
<1>1. parse_ymd_iso(t) = [year |-> d.year, month |-> d.month, day |-> d.day]
  BY Decoded DEF Dated, parse_ymd_iso
<1>2. d = [year |-> d.year, month |-> d.month, day |-> d.day]
  BY DEF WritableDates
<1>3. Stands(t, 5, "-") /\ Stands(t, 8, "-")
  BY CodesAre, Zenon DEF Dated, Stands
<1> QED BY <1>1, <1>2, <1>3

(* The time of a day, from place 11 of a text on.                          *)
SecondsOfDay == {n \in Nat : n < 86400}

Clocked(t, n) ==
  /\ t[11] = 84 /\ t[14] = 58 /\ t[17] = 58
  /\ TwoAt(t, 12) \in 0 .. 23 /\ TwoAt(t, 15) \in 0 .. 59 /\ TwoAt(t, 18) \in 0 .. 59
  /\ n = 3600 * TwoAt(t, 12) + 60 * TwoAt(t, 15) + TwoAt(t, 18)

(* The seconds of a day are its hours, minutes and seconds.                *)
LEMMA TimeSplits ==
  ASSUME NEW n \in SecondsOfDay
  PROVE  /\ hours(n) \in 0 .. 23 /\ minutes(n) \in 0 .. 59 /\ seconds(n) \in 0 .. 59
         /\ n = 3600 * hours(n) + 60 * minutes(n) + seconds(n)
<1>1. n \in Nat /\ n < 86400
  BY DEF SecondsOfDay
<1>2. PICK m : m = n \div 60
  OBVIOUS
<1>3. m \in Nat /\ n = 60 * m + (n % 60) /\ n % 60 \in 0 .. 59
  BY <1>1, <1>2
<1>4. PICK h : h = m \div 60
  OBVIOUS
<1>5. h \in Nat /\ m = 60 * h + (m % 60) /\ m % 60 \in 0 .. 59
  BY <1>3, <1>4
<1>6. n \div 3600 = h
  <2>1. n - 3600 * h \in 0 .. 3599
    BY <1>3, <1>5, SMTT(40)
  <2>2. PICK r \in 0 .. 3599 : n = 3600 * h + r
    BY <1>1, <1>5, <2>1
  <2> QED BY <1>5, <2>2, SMTT(40)
<1>7. h < 24
  BY <1>1, <1>3, <1>5
<1>8. hours(n) = h /\ minutes(n) = m % 60 /\ seconds(n) = n % 60
  BY <1>2, <1>6 DEF hours, minutes, seconds
<1> QED BY <1>3, <1>5, <1>7, <1>8

(* format_iso_datetime writes the date of the day, and the time in it.     *)
LEMMA MomentWritten ==
  ASSUME NEW p, NEW d \in WritableDates, d = year_month_day(p.day), p.second \in SecondsOfDay,
         NEW t, t = format_iso_datetime(p)
  PROVE  IsText(t, 20) /\ Dated(t, d) /\ Clocked(t, p.second)
<1>1. PICK h, mi, sec : h = hours(p.second) /\ mi = minutes(p.second) /\ sec = seconds(p.second)
  OBVIOUS
<1>2. /\ h \in 0 .. 23 /\ mi \in 0 .. 59 /\ sec \in 0 .. 59
      /\ p.second = 3600 * h + 60 * mi + sec
      /\ h \in 0 .. 99 /\ mi \in 0 .. 99 /\ sec \in 0 .. 99
  BY <1>1, TimeSplits
<1>3. t = format_iso_date(d) \o Text("T") \o to_two_digits(h) \o Text(":") \o to_two_digits(mi) \o Text(":")
          \o to_two_digits(sec) \o Text("Z")
  BY <1>1, Zenon DEF format_iso_datetime
<1>4. PICK a, b, c, e, f, g, i, x :
        /\ a = format_iso_date(d) /\ b = a \o Text("T") /\ c = b \o to_two_digits(h)
        /\ e = c \o Text(":") /\ f = e \o to_two_digits(mi) /\ g = f \o Text(":")
        /\ i = g \o to_two_digits(sec) /\ x = i \o Text("Z") /\ x = t
  BY <1>3, Zenon
<1>5. /\ a = format_iso_date(d) /\ Joins(b, a, <<84>>) /\ Joins(c, b, to_two_digits(h))
      /\ Joins(e, c, <<58>>)
  BY <1>4, CodesAre, Zenon DEF Joins
<1>6. /\ Joins(f, e, to_two_digits(mi)) /\ Joins(g, f, <<58>>)
      /\ Joins(i, g, to_two_digits(sec)) /\ Joins(x, i, <<90>>)
  BY <1>4, CodesAre, Zenon DEF Joins
<1>7. IsText(a, 10) /\ Dated(a, d)
  BY <1>5, DateWritten
<1>8. IsText(b, 11) /\ Begins(b, a, 10) /\ b[11] = 84
  BY <1>5, <1>7, OneBehind
<1>9. IsText(c, 13) /\ Begins(c, b, 11) /\ TwoAt(c, 12) = h
  BY <1>2, <1>5, <1>8, DigitsBehind
<1>10. IsText(e, 14) /\ Begins(e, c, 13) /\ e[14] = 58
  BY <1>5, <1>9, OneBehind
<1>11. IsText(f, 16) /\ Begins(f, e, 14) /\ TwoAt(f, 15) = mi
  BY <1>2, <1>6, <1>10, DigitsBehind, SMTT(40)
<1>12. IsText(g, 17) /\ Begins(g, f, 16) /\ g[17] = 58
  BY <1>6, <1>11, OneBehind
<1>13. IsText(i, 19) /\ Begins(i, g, 17) /\ TwoAt(i, 18) = sec
  BY <1>2, <1>6, <1>12, DigitsBehind, SMTT(40)
<1>14. IsText(x, 20) /\ Begins(x, i, 19)
  BY <1>6, <1>13, OneBehind
<1>15. /\ Begins(x, a, 10) /\ Begins(x, c, 13) /\ Begins(x, f, 16) /\ Begins(x, i, 19)
       /\ x[11] = 84 /\ x[14] = 58 /\ x[17] = 58
  BY <1>8, <1>9, <1>10, <1>11, <1>12, <1>13, <1>14 DEF Begins
<1>16. TwoAt(x, 12) = h /\ TwoAt(x, 15) = mi /\ TwoAt(x, 18) = sec
  BY <1>9, <1>11, <1>13, <1>15, ReadInBeginning
<1>17. Clocked(x, p.second)
  <2>1. PICK n : n = p.second
    OBVIOUS
  <2>2. n = 3600 * h + 60 * mi + sec /\ h \in 0 .. 23 /\ mi \in 0 .. 59 /\ sec \in 0 .. 59
    BY <1>2, <2>1
  <2>3. x[11] = 84 /\ x[14] = 58 /\ x[17] = 58
    BY <1>15
  <2>4. Clocked(x, n)
    BY <1>16, <2>2, <2>3 DEF Clocked
  <2> QED BY <2>1, <2>4
<1>18. Dated(x, d)
  BY <1>7, <1>15, DatedBeginning
<1> QED BY <1>4, <1>14, <1>17, <1>18

-----------------------------------------------------------------------------
(* The calendar: the days before a month, counted by the code from month   *)
(* to month, as a table.                                                   *)
ExtraDay(y) == IF Leap(y) THEN 1 ELSE 0
BeforeMonth(l, m) ==
  CASE m = 1 -> 0 [] m = 2 -> 31 [] m = 3 -> 59 + l [] m = 4 -> 90 + l [] m = 5 -> 120 + l
    [] m = 6 -> 151 + l [] m = 7 -> 181 + l [] m = 8 -> 212 + l [] m = 9 -> 243 + l
    [] m = 10 -> 273 + l [] m = 11 -> 304 + l [] m = 12 -> 334 + l [] m = 13 -> 365 + l
BeforeYear(y) == 365 * (y - 1970) + ((y - 1969) \div 4) - ((y - 1901) \div 100) + ((y - 1601) \div 400)

LEMMA MonthsFollow ==
  ASSUME NEW y, NEW m \in 1 .. 12, NEW l, l = ExtraDay(y)
  PROVE  /\ l \in {0, 1} /\ MonthDays(y, m) \in 28 .. 31
         /\ BeforeMonth(l, m) \in Nat
         /\ BeforeMonth(l, m + 1) = BeforeMonth(l, m) + MonthDays(y, m)
<1>1. l \in {0, 1} /\ MonthDays(y, 2) = 28 + l
  BY DEF ExtraDay, MonthDays
<1>2. MonthDays(y, m) = IF m = 2 THEN 28 + l ELSE IF m \in {4, 6, 9, 11} THEN 30 ELSE 31
  BY <1>1 DEF MonthDays
<1>3. BeforeMonth(l, m) \in Nat /\ BeforeMonth(l, m + 1) = BeforeMonth(l, m) + MonthDays(y, m)
  <2>1. m \in {1, 2, 3, 4, 5, 6, 7, 8, 9, 10, 11, 12}
    OBVIOUS
  <2> QED BY <1>1, <1>2, <2>1 DEF BeforeMonth
<1> QED BY <1>1, <1>2, <1>3

IsCount(h, y, m) == h = [k \in 1 .. m |-> IF k = 1 THEN 0 ELSE h[k - 1] + MonthDays(y, k - 1)]

LEMMA CountIs ==
  ASSUME NEW y, NEW m \in 1 .. 12, NEW h, IsCount(h, y, m)
  PROVE  h[m] = BeforeMonth(ExtraDay(y), m)
<1> DEFINE l == ExtraDay(y)
           right == {k \in Nat : k + 1 <= m => h[k + 1] = BeforeMonth(l, k + 1)}
<1>1. \A k \in 1 .. m : h[k] = IF k = 1 THEN 0 ELSE h[k - 1] + MonthDays(y, k - 1)
  BY DEF IsCount
<1>2. h[1] = 0 /\ BeforeMonth(l, 1) = 0
  BY <1>1 DEF BeforeMonth
<1>3. 0 \in right
  BY <1>2
<1>4. ASSUME NEW k \in Nat, k \in right PROVE k + 1 \in right
  <2> SUFFICES ASSUME k + 2 <= m PROVE h[k + 2] = BeforeMonth(l, k + 2)
    OBVIOUS
  <2>1. k + 1 \in 1 .. 12 /\ k + 2 \in 1 .. m /\ k + 2 # 1 /\ (k + 2) - 1 = k + 1 /\ (k + 1) + 1 = k + 2
        /\ k + 1 <= m
    OBVIOUS
  <2>2. h[k + 2] = h[k + 1] + MonthDays(y, k + 1)
    BY <1>1, <2>1
  <2>3. h[k + 1] = BeforeMonth(l, k + 1)
    BY <1>4, <2>1
  <2>4. BeforeMonth(l, k + 2) = BeforeMonth(l, k + 1) + MonthDays(y, k + 1)
    BY <2>1, MonthsFollow
  <2> QED BY <2>2, <2>3, <2>4
<1> HIDE DEF l, right
<1>5. Nat \subseteq right
  BY <1>3, <1>4, NatSetInduction
<1>6. m - 1 \in Nat /\ (m - 1) + 1 = m
  OBVIOUS
<1>7. m - 1 \in right
  BY <1>5, <1>6
<1> QED BY <1>6, <1>7 DEF right, l

LEMMA DaysBeforeIs ==
  ASSUME NEW y, NEW m \in 1 .. 12
  PROVE  DaysBefore(y, m) = BeforeYear(y) + BeforeMonth(ExtraDay(y), m)
<1> DEFINE l == ExtraDay(y)
           g == [k \in 1 .. m |-> BeforeMonth(l, k)]
<1>1. ASSUME NEW k \in 1 .. m
      PROVE  BeforeMonth(l, k) = IF k = 1 THEN 0 ELSE g[k - 1] + MonthDays(y, k - 1)
  <2>1. CASE k = 1
    BY <2>1 DEF BeforeMonth
  <2>2. CASE k # 1
    <3>1. k - 1 \in 1 .. m /\ k - 1 \in 1 .. 12 /\ (k - 1) + 1 = k
      BY <2>2
    <3>2. BeforeMonth(l, k) = BeforeMonth(l, k - 1) + MonthDays(y, k - 1)
      BY <3>1, MonthsFollow
    <3>3. g[k - 1] = BeforeMonth(l, k - 1)
      BY <3>1
    <3> QED BY <2>2, <3>2, <3>3
  <2> QED BY <2>1, <2>2
<1>2. IsCount(g, y, m)
  <2> HIDE DEF l
  <2> QED BY <1>1 DEF IsCount
<1> HIDE DEF g
<1>3. \E h : IsCount(h, y, m)
  BY <1>2
<1>4. PICK h : h = (CHOOSE f : IsCount(f, y, m))
  OBVIOUS
<1>5. IsCount(h, y, m)
  BY <1>3, <1>4
<1>6. MonthsBefore(y, m) = h[m]
  BY <1>4, Zenon DEF MonthsBefore, IsCount
<1> QED BY <1>5, <1>6, CountIs DEF DaysBefore, BeforeYear

LEMMA YearsFollow ==
  ASSUME NEW y \in Nat
  PROVE  BeforeYear(y) \in Int /\ BeforeYear(y + 1) = BeforeYear(y) + BeforeMonth(ExtraDay(y), 13)
<1>1. BeforeMonth(ExtraDay(y), 13) = 365 + ExtraDay(y)
  BY DEF BeforeMonth
<1>2. ((y - 1968) \div 4) = ((y - 1969) \div 4) + (IF y % 4 = 0 THEN 1 ELSE 0)
  OBVIOUS
<1>3. ((y - 1900) \div 100) = ((y - 1901) \div 100) + (IF y % 100 = 0 THEN 1 ELSE 0)
  OBVIOUS
<1>4. ((y - 1600) \div 400) = ((y - 1601) \div 400) + (IF y % 400 = 0 THEN 1 ELSE 0)
  OBVIOUS
<1>5. (y % 400 = 0 => y % 100 = 0) /\ (y % 100 = 0 => y % 4 = 0)
  OBVIOUS
<1>6. (y + 1) - 1970 = (y - 1970) + 1 /\ (y + 1) - 1969 = y - 1968 /\ (y + 1) - 1901 = y - 1900
      /\ (y + 1) - 1601 = y - 1600
  OBVIOUS
<1>7. BeforeYear(y + 1) = 365 * ((y - 1970) + 1) + ((y - 1968) \div 4) - ((y - 1900) \div 100) + ((y - 1600) \div 400)
  BY <1>6 DEF BeforeYear
<1>8. ExtraDay(y) = (IF y % 4 = 0 THEN 1 ELSE 0) - (IF y % 100 = 0 THEN 1 ELSE 0) + (IF y % 400 = 0 THEN 1 ELSE 0)
  BY <1>5 DEF ExtraDay, Leap
<1> QED BY <1>1, <1>2, <1>3, <1>4, <1>7, <1>8 DEF BeforeYear

(* A day of one of the years is found as the date whose day it is.         *)
InYears(day) == \E y \in Years : DaysBefore(y, 1) <= day /\ day < DaysBefore(y + 1, 1)

LEMMA DayIsDated ==
  ASSUME NEW day \in Int, InYears(day)
  PROVE  year_month_day(day) \in WritableDates /\ sys_days(year_month_day(day)) = day
<1> DEFINE y == CHOOSE y \in Years : DaysBefore(y, 1) <= day /\ day < DaysBefore(y + 1, 1)
           l == ExtraDay(y)
           rest == day - BeforeYear(y)
           m == CHOOSE m \in 1 .. 12 : DaysBefore(y, m) <= day /\ day < DaysBefore(y, m) + MonthDays(y, m)
<1>1. year_month_day(day) = [year |-> y, month |-> m, day |-> day - DaysBefore(y, m) + 1]
  BY DEF year_month_day
<1>2. y \in Years /\ DaysBefore(y, 1) <= day /\ day < DaysBefore(y + 1, 1)
  BY DEF InYears
<1> HIDE DEF y, m
<1>3. y \in FourDigitNumbers /\ y \in Nat
  BY <1>2, YearsAssumption DEF FourDigitNumbers
<1>4. BeforeYear(y) \in Int /\ BeforeYear(y + 1) = BeforeYear(y) + BeforeMonth(l, 13)
  BY <1>3, YearsFollow
<1>5. l \in {0, 1}
  BY DEF ExtraDay
<1>6. DaysBefore(y, 1) = BeforeYear(y) /\ DaysBefore(y + 1, 1) = BeforeYear(y + 1)
  <2>1. BeforeMonth(ExtraDay(y), 1) = 0 /\ BeforeMonth(ExtraDay(y + 1), 1) = 0
    BY DEF BeforeMonth
  <2>2. DaysBefore(y, 1) = BeforeYear(y) + 0 /\ DaysBefore(y + 1, 1) = BeforeYear(y + 1) + 0
    BY <2>1, DaysBeforeIs
  <2>3. BeforeYear(y + 1) \in Int
    BY <1>3, YearsFollow
  <2> QED BY <1>4, <2>2, <2>3
<1> HIDE DEF l
<1>7. rest \in Int /\ 0 <= rest /\ rest < BeforeMonth(l, 13)
  <2>1. BeforeMonth(l, 13) \in Int
    BY <1>5 DEF BeforeMonth
  <2> QED BY <1>2, <1>4, <1>6, <2>1
<1> HIDE DEF rest
<1>8. \E k \in 1 .. 12 : BeforeMonth(l, k) <= rest /\ rest < BeforeMonth(l, k + 1)
  <2>1. BeforeMonth(l, 1) = 0 /\ BeforeMonth(l, 2) = 31 /\ BeforeMonth(l, 3) = 59 + l
        /\ BeforeMonth(l, 4) = 90 + l /\ BeforeMonth(l, 5) = 120 + l /\ BeforeMonth(l, 6) = 151 + l
        /\ BeforeMonth(l, 7) = 181 + l /\ BeforeMonth(l, 8) = 212 + l /\ BeforeMonth(l, 9) = 243 + l
        /\ BeforeMonth(l, 10) = 273 + l /\ BeforeMonth(l, 11) = 304 + l /\ BeforeMonth(l, 12) = 334 + l
        /\ BeforeMonth(l, 13) = 365 + l
    BY DEF BeforeMonth
  <2> SUFFICES ASSUME \A k \in 1 .. 12 : BeforeMonth(l, k) <= rest => ~(rest < BeforeMonth(l, k + 1)) PROVE FALSE
    OBVIOUS
  <2>2. \A k \in 1 .. 12 : BeforeMonth(l, k) \in Int /\ BeforeMonth(l, k + 1) \in Int
    <3>1. \A k \in {1, 2, 3, 4, 5, 6, 7, 8, 9, 10, 11, 12} : BeforeMonth(l, k) \in Int /\ BeforeMonth(l, k + 1) \in Int
      BY <1>5, <2>1
    <3> QED BY <3>1
  <2> DEFINE below == {k \in Nat : k + 1 <= 13 => BeforeMonth(l, k + 1) <= rest}
  <2>3. 0 \in below
    BY <1>7, <2>1
  <2>4. ASSUME NEW k \in Nat, k \in below PROVE k + 1 \in below
    <3> SUFFICES ASSUME k + 2 <= 13 PROVE BeforeMonth(l, k + 2) <= rest
      OBVIOUS
    <3>1. k + 1 \in 1 .. 12 /\ (k + 1) + 1 = k + 2
      OBVIOUS
    <3> QED BY <1>7, <2>2, <2>4, <3>1
  <2> HIDE DEF below
  <2>5. 12 \in below
    BY <2>3, <2>4, NatSetInduction
  <2> QED BY <1>7, <2>2, <2>5 DEF below
<1>9. \A k \in 1 .. 12 :
        /\ DaysBefore(y, k) = BeforeYear(y) + BeforeMonth(l, k) /\ BeforeMonth(l, k) \in Nat
        /\ BeforeMonth(l, k + 1) = BeforeMonth(l, k) + MonthDays(y, k) /\ MonthDays(y, k) \in 28 .. 31
  BY DaysBeforeIs, MonthsFollow DEF l
<1>10. \E k \in 1 .. 12 : DaysBefore(y, k) <= day /\ day < DaysBefore(y, k) + MonthDays(y, k)
  <2>1. PICK k \in 1 .. 12 : BeforeMonth(l, k) <= rest /\ rest < BeforeMonth(l, k + 1)
    BY <1>8
  <2>2. DaysBefore(y, k) <= day /\ day < DaysBefore(y, k) + MonthDays(y, k)
    BY <1>4, <1>9, <2>1 DEF rest
  <2> QED BY <2>2
<1>11. m \in 1 .. 12 /\ DaysBefore(y, m) <= day /\ day < DaysBefore(y, m) + MonthDays(y, m)
  BY <1>10 DEF m
<1>12. DaysBefore(y, m) \in Int /\ MonthDays(y, m) \in 28 .. 31
  BY <1>4, <1>9, <1>11
<1>13. day - DaysBefore(y, m) + 1 \in 1 .. 31
  BY <1>11, <1>12
<1>14. PICK n : n = day - DaysBefore(y, m) + 1
  OBVIOUS
<1>15. PICK d : d = [year |-> y, month |-> m, day |-> n]
  OBVIOUS
<1>16. d \in WritableDates
  BY <1>3, <1>11, <1>13, <1>14, <1>15 DEF WritableDates
<1>17. sys_days(d) = DaysBefore(y, m) + n - 1
  BY <1>15 DEF sys_days
<1>18. d = year_month_day(day)
  BY <1>1, <1>14, <1>15
<1> QED BY <1>12, <1>14, <1>16, <1>17, <1>18

-----------------------------------------------------------------------------
(* Points in time: the text without a zone, the offset, both together.     *)
LEMMA JoinedText ==
  ASSUME NEW n \in Nat, NEW s, IsText(s, n), NEW k \in Nat, NEW u, IsText(u, k), NEW t, Joins(t, s, u)
  PROVE  IsText(t, n + k) /\ Begins(t, s, n) /\ \A i \in 1 .. k : t[n + i] = u[i]
<1>1. s \in Seq(Int) /\ Len(s) = n /\ u \in Seq(Int) /\ Len(u) = k /\ t = s \o u
  BY DEF IsText, Joins
<1>2. t \in Seq(Int) /\ Len(t) = n + k
  <2>1. s \o u \in Seq(Int) /\ Len(s \o u) = Len(s) + Len(u)
    BY <1>1, ConcatProperties
  <2> QED BY <1>1, <2>1
<1>3. \A i \in 1 .. n : t[i] = s[i]
  BY <1>1
<1>4. \A i \in 1 .. k : t[n + i] = u[i]
  BY <1>1, SMTT(40)
<1> QED BY <1>2, <1>3, <1>4 DEF IsText, Begins

Offsets == {n \in Int : -1440 < n /\ n < 1440}
SignIs(c, n) == c = IF n < 0 THEN 45 ELSE 43

LEMMA OffsetWritten ==
  ASSUME NEW n \in Offsets, NEW o, o = OffsetText(n)
  PROVE  IsText(o, 6) /\ SignIs(o[1], n) /\ o[4] = 58 /\ Magnitude(n) = 60 * TwoAt(o, 2) + TwoAt(o, 5)
<1>1a. PICK m : m = Magnitude(n)
  OBVIOUS
<1>1b. PICK h, r : h = m \div 60 /\ r = m % 60
  OBVIOUS
<1>1. m = Magnitude(n) /\ h = m \div 60 /\ r = m % 60
  BY <1>1a, <1>1b
<1>2. m \in Nat /\ m < 1440
  BY <1>1 DEF Offsets, Magnitude
<1>3. h \in 0 .. 99 /\ r \in 0 .. 99 /\ m = 60 * h + r
  <2>1. r \in 0 .. 59 /\ h \in Nat /\ m = 60 * h + r
    BY <1>1b, <1>2
  <2> QED BY <1>2, <2>1
<1>4. PICK sign, colon : sign = Text(IF n < 0 THEN "-" ELSE "+") /\ colon = Text(":")
  OBVIOUS
<1>5. PICK c : sign = <<c>> /\ SignIs(c, n)
  <2>1. CASE n < 0
    BY <1>4, <2>1, CodesAre, ZenonT(60) DEF SignIs
  <2>2. CASE ~(n < 0)
    BY <1>4, <2>2, CodesAre, ZenonT(60) DEF SignIs
  <2> QED BY <2>1, <2>2
<1>6. colon = <<58>>
  BY <1>4, CodesAre, Zenon
<1>7. o = sign \o to_two_digits(h) \o colon \o to_two_digits(r)
  BY <1>1, <1>4, Zenon DEF OffsetText
<1>8. PICK b, e, x : Joins(b, sign, to_two_digits(h)) /\ Joins(e, b, <<58>>) /\ Joins(x, e, to_two_digits(r)) /\ x = o
  BY <1>6, <1>7, Zenon DEF Joins
<1>9. c \in Int
  BY <1>5 DEF SignIs, Offsets
<1>10. IsText(sign, 1) /\ sign[1] = c
  BY <1>5, <1>9 DEF IsText
<1>11. IsText(b, 3) /\ Begins(b, sign, 1) /\ TwoAt(b, 2) = h
  <2>1. h \in 0 .. 99 /\ Joins(b, sign, to_two_digits(h))
    BY <1>3, <1>8
  <2>2. IsText(b, 1 + 2) /\ Begins(b, sign, 1) /\ TwoAt(b, 1 + 1) = h
    BY <1>10, <2>1, DigitsBehind
  <2> QED BY <2>2
<1>12. IsText(e, 4) /\ Begins(e, b, 3) /\ e[4] = 58
  BY <1>8, <1>11, OneBehind
<1>13. IsText(x, 6) /\ Begins(x, e, 4) /\ TwoAt(x, 5) = r
  BY <1>3, <1>8, <1>12, DigitsBehind, SMTT(40)
<1>14. x[1] = c /\ x[4] = 58 /\ Begins(x, b, 3)
  BY <1>10, <1>11, <1>12, <1>13 DEF Begins
<1>15. TwoAt(x, 2) = h
  BY <1>11, <1>14, ReadInBeginning
<1> QED BY <1>1, <1>3, <1>5, <1>8, <1>13, <1>14, <1>15

(* So is the time of a day.                                                *)
LEMMA ClockedBeginning ==
  ASSUME NEW t, NEW s, Begins(t, s, 19), NEW n, Clocked(s, n)
  PROVE  Clocked(t, n)
<1>1. t[11] = s[11] /\ t[14] = s[14] /\ t[17] = s[17]
  BY DEF Begins
<1>2. TwoAt(t, 12) = TwoAt(s, 12) /\ TwoAt(t, 15) = TwoAt(s, 15) /\ TwoAt(t, 18) = TwoAt(s, 18)
  BY ReadInBeginning
<1> QED BY <1>1, <1>2 DEF Clocked

(* The first k characters of a text.                                       *)
LEMMA FrontOfText ==
  ASSUME NEW n \in Nat, NEW x, IsText(x, n), NEW k \in 0 .. n, NEW y, y = SubSeq(x, 1, k)
  PROVE  IsText(y, k) /\ Begins(y, x, k)
<1>1. x \in Seq(Int) /\ Len(x) = n
  BY DEF IsText
<1>2. y \in Seq(Int)
  BY <1>1
<1>3. Len(y) = k
  BY <1>1
<1>4. \A i \in 1 .. k : y[i] = x[i]
  BY <1>1
<1> QED BY <1>2, <1>3, <1>4 DEF IsText, Begins

(* The local time is the written moment without its zone.                  *)
LEMMA LocalWritten ==
  ASSUME NEW p, NEW d \in WritableDates, d = year_month_day(p.day), p.second \in SecondsOfDay,
         NEW t, t = Local(p)
  PROVE  IsText(t, 19) /\ Dated(t, d) /\ Clocked(t, p.second)
<1>1. PICK x : x = format_iso_datetime(p)
  OBVIOUS
<1>2. IsText(x, 20) /\ Dated(x, d) /\ Clocked(x, p.second)
  BY <1>1, MomentWritten
<1>3. PICK y : y = t /\ y = Cut(x, 19)
  BY <1>1 DEF Local
<1>4. IsText(y, 19) /\ Begins(y, x, 19)
  <2>1. x \in Seq(Int) /\ Len(x) = 20
    BY <1>2 DEF IsText
  <2>2. y = SubSeq(x, 1, 19)
    BY <1>3, <2>1 DEF Cut
  <2>3. PICK k \in 0 .. 20 : k = 19
    OBVIOUS
  <2>4. y = SubSeq(x, 1, k)
    BY <2>2, <2>3
  <2>5. IsText(y, k) /\ Begins(y, x, k)
    BY <1>2, <2>4, FrontOfText
  <2> QED BY <2>3, <2>5
<1>5. Begins(y, x, 10)
  BY <1>4 DEF Begins
<1>6. Dated(y, d) /\ Clocked(y, p.second)
  BY <1>2, <1>4, <1>5, DatedBeginning, ClockedBeginning
<1> QED BY <1>3, <1>4, <1>6

(* The beginning of a text that is read as a point in time.                *)
LEMMA MomentRead ==
  ASSUME NEW t, NEW d \in WritableDates, Dated(t, d), NEW n, Clocked(t, n)
  PROVE  /\ parse_ymd_iso(t) = d /\ parse_hms(t, 12) = n
         /\ Stands(t, 5, "-") /\ Stands(t, 8, "-") /\ Stands(t, 11, "T") /\ Stands(t, 14, ":") /\ Stands(t, 17, ":")
         /\ decode_two_digits(t, 12) \in 0 .. 23 /\ decode_two_digits(t, 15) \in 0 .. 59
         /\ decode_two_digits(t, 18) \in 0 .. 59
<1>1. parse_ymd_iso(t) = d /\ Stands(t, 5, "-") /\ Stands(t, 8, "-")
  BY DateRead
<1>2. /\ decode_two_digits(t, 12) = TwoAt(t, 12) /\ decode_two_digits(t, 15) = TwoAt(t, 15)
      /\ decode_two_digits(t, 18) = TwoAt(t, 18)
  BY Decoded
<1>3. n = 3600 * TwoAt(t, 12) + 60 * TwoAt(t, 15) + TwoAt(t, 18)
  BY DEF Clocked
<1>4. parse_hms(t, 12) = n
  BY <1>2, <1>3 DEF parse_hms
<1>5. /\ TwoAt(t, 12) \in 0 .. 23 /\ TwoAt(t, 15) \in 0 .. 59 /\ TwoAt(t, 18) \in 0 .. 59
      /\ t[11] = 84 /\ t[14] = 58 /\ t[17] = 58
  BY DEF Clocked
<1>6. Stands(t, 11, "T") /\ Stands(t, 14, ":") /\ Stands(t, 17, ":")
  BY <1>5, CodesAre, Zenon DEF Stands
<1> QED BY <1>1, <1>2, <1>4, <1>5, <1>6

(* The time of an offset and back.                                         *)
Moments == [day : Int, second : SecondsOfDay]

(* What is added to a point in time for an offset is taken away when it    *)
(* is read, across the end of a day.                                       *)
LEMMA PointBack ==
  ASSUME NEW p \in Moments, NEW n \in Int, NEW q, q = Point(p.day, p.second + 60 * n)
  PROVE  q \in Moments /\ Point(q.day, q.second - 60 * n) = p
<1>1. p.day \in Int /\ p.second \in Nat /\ p.second < 86400
  BY DEF Moments, SecondsOfDay
<1>2. PICK z, s : z = p.second /\ s = z + 60 * n
  OBVIOUS
<1>3. PICK k, r : k = s \div 86400 /\ r = s % 86400
  OBVIOUS
<1>4. z \in Nat /\ z < 86400 /\ s \in Int
  BY <1>1, <1>2
<1>5. k \in Int /\ r \in Nat /\ r < 86400 /\ s = 86400 * k + r
  BY <1>3, <1>4
<1>6. q = [day |-> p.day + k, second |-> r]
  BY <1>2, <1>3 DEF Point
<1>7. q \in Moments
  BY <1>1, <1>5, <1>6 DEF Moments, SecondsOfDay
<1>8. PICK u : u = r - 60 * n
  OBVIOUS
<1>9. u = 86400 * (-k) + z /\ u \in Int
  <2>1. PICK c : c = 60 * n
    OBVIOUS
  <2>2. PICK b : b = 86400 * k
    OBVIOUS
  <2>3. c \in Int /\ b \in Int /\ s = z + c /\ s = b + r /\ u = r - c
    BY <1>2, <1>5, <1>8, <2>1, <2>2
  <2>4. u = z - b /\ u \in Int
    BY <1>4, <1>5, <2>3
  <2>5. 86400 * (-k) = -b
    BY <1>5, <2>2
  <2> QED BY <1>4, <2>3, <2>4, <2>5
<1>10. u \div 86400 = -k /\ u % 86400 = z
  BY <1>4, <1>5, <1>9
<1>11. Point(q.day, q.second - 60 * n) = [day |-> (p.day + k) + (-k), second |-> z]
  BY <1>6, <1>8, <1>10 DEF Point
<1>12. (p.day + k) + (-k) = p.day
  BY <1>1, <1>5
<1>13. p = [day |-> p.day, second |-> z]
  BY <1>2 DEF Moments
<1> QED BY <1>7, <1>11, <1>12, <1>13

(* A point in time with no offset.                                         *)
LEMMA PointStays ==
  ASSUME NEW p \in Moments
  PROVE  Point(p.day, p.second - 60 * 0) = p
<1>1. p.day \in Int /\ p.second \in Nat /\ p.second < 86400
  BY DEF Moments, SecondsOfDay
<1>2. (p.second - 60 * 0) \div 86400 = 0 /\ (p.second - 60 * 0) % 86400 = p.second
  BY <1>1
<1>3. Point(p.day, p.second - 60 * 0) = [day |-> p.day + 0, second |-> p.second]
  BY <1>2 DEF Point
<1>4. p = [day |-> p.day, second |-> p.second]
  BY DEF Moments
<1> QED BY <1>1, <1>3, <1>4

(* The local time of p without a zone, with one of Greenwich's, and with   *)
(* an offset.                                                              *)
ZoneTexts == {<<>>, <<90>>, <<122>>}

(* A zone, or none, behind the nineteen characters of a local time.        *)
LEMMA ZoneBehind ==
  ASSUME NEW s, IsText(s, 19), NEW z \in ZoneTexts, NEW t, Joins(t, s, z)
  PROVE  Begins(t, s, 19) /\ (IsText(t, 19) \/ (IsText(t, 20) /\ t[20] \in {90, 122}))
<1>1. CASE z = <<>>
  <2>1. IsText(t, 19 + 0) /\ Begins(t, s, 19)
    <3>1. IsText(z, 0)
      BY <1>1 DEF IsText
    <3> QED BY <3>1, JoinedText
  <2> QED BY <2>1
<1>2. CASE z = <<90>>
  <2>1. Joins(t, s, <<90>>)
    BY <1>2
  <2>2. IsText(t, 19 + 1) /\ Begins(t, s, 19) /\ t[19 + 1] = 90
    BY <2>1, OneBehind
  <2> QED BY <2>2
<1>3. CASE z = <<122>>
  <2>1. Joins(t, s, <<122>>)
    BY <1>3
  <2>2. IsText(t, 19 + 1) /\ Begins(t, s, 19) /\ t[19 + 1] = 122
    BY <2>1, OneBehind
  <2> QED BY <2>2
<1> QED BY <1>1, <1>2, <1>3 DEF ZoneTexts

(* What may stand behind a time is a zone that the reader knows.           *)
LEMMA ZoneKnown ==
  ASSUME NEW t, Stands(t, 5, "-"), Stands(t, 8, "-"), Stands(t, 11, "T"), Stands(t, 14, ":"), Stands(t, 17, ":"),
         decode_two_digits(t, 12) \in 0 .. 23, decode_two_digits(t, 15) \in 0 .. 59,
         decode_two_digits(t, 18) \in 0 .. 59,
         Len(t) >= 20 => t[20] = 90 \/ t[20] = 122 \/ t[20] = 43 \/ t[20] = 45,
         Len(t) = 25 => t[23] = 58
  PROVE  IsoDatetime(t)
<1>1. Len(t) >= 20 => t[20] \in {Code["Z"], Code["z"], Code["+"], Code["-"]}
  BY CodesAre, ZenonT(60)
<1>2. Len(t) = 25 => Stands(t, 23, ":")
  BY CodesAre, Zenon DEF Stands
<1> QED BY <1>1, <1>2, Zenon DEF IsoDatetime

(* A local time at Greenwich is read as the moment it was written for.     *)
LEMMA GreenwichRead ==
  ASSUME NEW p \in Moments, InYears(p.day), NEW z \in ZoneTexts, NEW t, Joins(t, Local(p), z)
  PROVE  /\ Len(t) \in {19, 20} /\ IsoDatetime(t)
         /\ Point(sys_days(parse_ymd_iso(t)), parse_hms(t, 12) - 60 * 0) = p
<1>1. PICK d, s : d = year_month_day(p.day) /\ s = Local(p)
  OBVIOUS
<1>2. p.day \in Int /\ p.second \in SecondsOfDay
  BY DEF Moments
<1>3. d \in WritableDates /\ sys_days(d) = p.day
  BY <1>1, <1>2, DayIsDated
<1>4. IsText(s, 19) /\ Dated(s, d) /\ Clocked(s, p.second)
  BY <1>1, <1>2, <1>3, LocalWritten
<1>5. Joins(t, s, z)
  BY <1>1
<1>6. Begins(t, s, 19) /\ (IsText(t, 19) \/ (IsText(t, 20) /\ t[20] \in {90, 122}))
  BY <1>4, <1>5, ZoneBehind
<1>7. Begins(t, s, 10)
  BY <1>6 DEF Begins
<1>8. Dated(t, d) /\ Clocked(t, p.second)
  BY <1>4, <1>6, <1>7, DatedBeginning, ClockedBeginning
<1>9. /\ parse_ymd_iso(t) = d /\ parse_hms(t, 12) = p.second
      /\ Stands(t, 5, "-") /\ Stands(t, 8, "-") /\ Stands(t, 11, "T") /\ Stands(t, 14, ":") /\ Stands(t, 17, ":")
      /\ decode_two_digits(t, 12) \in 0 .. 23 /\ decode_two_digits(t, 15) \in 0 .. 59
      /\ decode_two_digits(t, 18) \in 0 .. 59
  BY <1>3, <1>8, MomentRead, Zenon
<1>10. Len(t) \in {19, 20} /\ (Len(t) >= 20 => t[20] = 90 \/ t[20] = 122) /\ Len(t) # 25
  <2>1. CASE IsText(t, 19)
    <3>1. Len(t) = 19
      BY <2>1 DEF IsText
    <3> QED BY <3>1
  <2>2. CASE IsText(t, 20) /\ t[20] \in {90, 122}
    <3>1. Len(t) = 20 /\ (t[20] = 90 \/ t[20] = 122)
      BY <2>2 DEF IsText
    <3> QED BY <3>1
  <2> QED BY <1>6, <2>1, <2>2
<1>11. IsoDatetime(t)
  BY <1>9, <1>10, ZoneKnown, Zenon
<1>12. sys_days(parse_ymd_iso(t)) = p.day /\ parse_hms(t, 12) = p.second
  BY <1>3, <1>9
<1>13. Point(sys_days(parse_ymd_iso(t)), parse_hms(t, 12) - 60 * 0) = Point(p.day, p.second - 60 * 0)
  BY <1>12
<1>14. Point(p.day, p.second - 60 * 0) = p
  BY PointStays
<1> QED BY <1>10, <1>11, <1>13, <1>14, Zenon

(* The sign of an offset, by its character.                                *)
LEMMA EastwardIs ==
  ASSUME NEW c
  PROVE  /\ c = 45 => Eastward(c) = -1
         /\ c = 43 => Eastward(c) = 1
<1>0. PICK minus : minus = Code["-"] /\ minus = 45
  BY CodesAre, Zenon
<1>1. PICK plus : plus = Code["+"] /\ plus = 43
  BY CodesAre, Zenon
<1>2. Eastward(c) = CASE c = minus -> -1 [] c = plus -> 1 [] OTHER -> 0
  BY <1>0, <1>1, Zenon DEF Eastward
<1>3. minus # plus
  BY <1>0, <1>1
<1>4. c = minus => Eastward(c) = -1
  BY <1>2, <1>3
<1>5. c = plus => Eastward(c) = 1
  BY <1>2, <1>3
<1> QED BY <1>0, <1>1, <1>4, <1>5

(* A local time with its offset is read as the moment it was written for.  *)
LEMMA OffsetRead ==
  ASSUME NEW p \in Moments, NEW n \in Offsets, NEW q, q = Point(p.day, p.second + 60 * n), InYears(q.day),
         NEW t, Joins(t, Local(q), OffsetText(n))
  PROVE  /\ Len(t) = 25 /\ IsoDatetime(t)
         /\ Point(sys_days(parse_ymd_iso(t)), parse_hms(t, 12) - 60 * parse_tz_offset(t, 20)) = p
<1>1. PICK d, s, o : d = year_month_day(q.day) /\ s = Local(q) /\ o = OffsetText(n)
  OBVIOUS
<1>2. n \in Int /\ q \in Moments /\ Point(q.day, q.second - 60 * n) = p
  BY PointBack DEF Offsets
<1>3. q.day \in Int /\ q.second \in SecondsOfDay
  BY <1>2 DEF Moments
<1>4. d \in WritableDates /\ sys_days(d) = q.day
  BY <1>1, <1>3, DayIsDated
<1>5. IsText(s, 19) /\ Dated(s, d) /\ Clocked(s, q.second)
  BY <1>1, <1>3, <1>4, LocalWritten
<1>6. IsText(o, 6) /\ SignIs(o[1], n) /\ o[4] = 58 /\ Magnitude(n) = 60 * TwoAt(o, 2) + TwoAt(o, 5)
  BY <1>1, OffsetWritten
<1>7. IsText(t, 25) /\ Begins(t, s, 19) /\ \A i \in 1 .. 6 : t[19 + i] = o[i]
  <2>1. Joins(t, s, o)
    BY <1>1
  <2>2. IsText(t, 19 + 6) /\ Begins(t, s, 19) /\ \A i \in 1 .. 6 : t[19 + i] = o[i]
    BY <1>5, <1>6, <2>1, JoinedText
  <2> QED BY <2>2
<1>8. Begins(t, s, 10)
  BY <1>7 DEF Begins
<1>9. Dated(t, d) /\ Clocked(t, q.second)
  BY <1>5, <1>7, <1>8, DatedBeginning, ClockedBeginning
<1>10. /\ parse_ymd_iso(t) = d /\ parse_hms(t, 12) = q.second
      /\ Stands(t, 5, "-") /\ Stands(t, 8, "-") /\ Stands(t, 11, "T") /\ Stands(t, 14, ":") /\ Stands(t, 17, ":")
      /\ decode_two_digits(t, 12) \in 0 .. 23 /\ decode_two_digits(t, 15) \in 0 .. 59
      /\ decode_two_digits(t, 18) \in 0 .. 59
  BY <1>4, <1>9, MomentRead, ZenonT(60)
<1>11. /\ t[20] = o[1] /\ t[21] = o[2] /\ t[22] = o[3] /\ t[23] = o[4] /\ t[24] = o[5] /\ t[25] = o[6]
       /\ Len(t) = 25
  BY <1>7 DEF IsText
<1>12. SignIs(t[20], n) /\ t[23] = 58 /\ Magnitude(n) = 60 * TwoAt(t, 21) + TwoAt(t, 24)
  <2>1. TwoAt(t, 21) = TwoAt(o, 2) /\ TwoAt(t, 24) = TwoAt(o, 5)
    BY <1>11 DEF TwoAt
  <2> QED BY <1>6, <1>11, <2>1
<1>13. parse_tz_offset(t, 20) = n
  <2>1. decode_two_digits(t, 20 + 1) = TwoAt(t, 21) /\ decode_two_digits(t, 20 + 4) = TwoAt(t, 24)
    BY Decoded
  <2>2. parse_tz_offset(t, 20) = Eastward(t[20]) * Magnitude(n)
    BY <1>12, <2>1 DEF parse_tz_offset
  <2>3. CASE n < 0
    <3>1. t[20] = 45
      BY <1>12, <2>3 DEF SignIs
    <3>2. Eastward(t[20]) = -1
      BY <3>1, EastwardIs
    <3> QED BY <1>2, <2>2, <2>3, <3>2 DEF Magnitude
  <2>4. CASE ~(n < 0)
    <3>1. t[20] = 43
      BY <1>12, <2>4 DEF SignIs
    <3>2. Eastward(t[20]) = 1
      BY <3>1, EastwardIs
    <3> QED BY <1>2, <2>2, <2>4, <3>2 DEF Magnitude
  <2> QED BY <2>3, <2>4
<1>14. Len(t) >= 20 => t[20] = 90 \/ t[20] = 122 \/ t[20] = 43 \/ t[20] = 45
  BY <1>12 DEF SignIs
<1>15. IsoDatetime(t)
  BY <1>10, <1>12, <1>14, ZoneKnown, Zenon
<1>16. Point(sys_days(parse_ymd_iso(t)), parse_hms(t, 12) - 60 * parse_tz_offset(t, 20))
       = Point(q.day, q.second - 60 * n)
  BY <1>4, <1>10, <1>13, Zenon
<1> QED BY <1>2, <1>11, <1>15, <1>16, Zenon

(* The name of a month, written with a capital, is the name when it is     *)
(* read.                                                                   *)
Named(t, name) == \A i \in 1 .. 3 : to_lower(t[i]) = name[i]

Capitalised(t, name) == t = <<to_upper(name[1])>> \o Tail(name)

LEMMA NameWritten ==
  ASSUME NEW name \in [1 .. 3 -> Lower], NEW t, Capitalised(t, name)
  PROVE  IsText(t, 3) /\ Named(t, name)
<1>1. \A i \in 1 .. 3 : name[i] \in Lower /\ name[i] \in Int
  BY DEF Lower
<1>2. PICK u : u = Tail(name)
  OBVIOUS
<1>3. IsText(u, 2) /\ u[1] = name[2] /\ u[2] = name[3]
  <2>1. PICK n \in Seq(Int) : n = name /\ Len(n) = 3
    <3>1. name = [i \in 1 .. 3 |-> name[i]] /\ \A i \in 1 .. 3 : name[i] \in Int
      BY <1>1
    <3>2. PICK n : n = [i \in 1 .. 3 |-> name[i]]
      OBVIOUS
    <3>3. n \in Seq(Int) /\ Len(n) = 3
      BY <3>1, <3>2
    <3> QED BY <3>1, <3>2, <3>3
  <2>2. u \in Seq(Int) /\ Len(u) = 2 /\ \A i \in 1 .. 2 : u[i] = n[i + 1]
    <3>1. u = Tail(n)
      BY <1>2, <2>1
    <3>0. n \in Seq(Int) /\ Len(n) = 3
      BY <2>1
    <3>2. n # <<>>
      <4>1. Len(n) # 0
        BY <3>0
      <4> QED BY <3>0, <4>1, EmptySeq, Zenon
    <3>3. Tail(n) \in Seq(Int) /\ Len(Tail(n)) = Len(n) - 1 /\ \A i \in 1 .. Len(Tail(n)) : Tail(n)[i] = n[i + 1]
      BY <3>0, <3>2, HeadTailProperties
    <3>4. u \in Seq(Int) /\ Len(u) = Len(n) - 1 /\ \A i \in 1 .. Len(u) : u[i] = n[i + 1]
      BY <3>1, <3>3, Zenon
    <3>5. Len(u) = 2
      BY <3>0, <3>4
    <3> QED BY <3>4, <3>5
  <2> QED BY <2>1, <2>2 DEF IsText
<1>4a. \A x \in Lower : to_upper(x) \in Int /\ to_lower(to_upper(x)) = x
  BY DEF to_upper, to_lower, Lower, Upper
<1>4. PICK c : c = to_upper(name[1]) /\ c \in Int /\ to_lower(c) = name[1]
  BY <1>1, <1>4a
<1>5. PICK s : s = <<c>>
  OBVIOUS
<1>6. IsText(s, 1) /\ s[1] = c /\ Joins(t, s, u)
  BY <1>2, <1>4, <1>5 DEF IsText, Joins, Capitalised
<1>7. IsText(t, 3) /\ t[1] = c /\ t[2] = name[2] /\ t[3] = name[3]
  <2>1. IsText(t, 1 + 2) /\ Begins(t, s, 1) /\ \A i \in 1 .. 2 : t[1 + i] = u[i]
    BY <1>3, <1>6, JoinedText
  <2>2. t[1] = s[1] /\ t[2] = u[1] /\ t[3] = u[2]
    BY <2>1 DEF Begins
  <2> QED BY <1>3, <1>6, <2>1, <2>2
<1>8. \A x \in Lower : to_lower(x) = x
  BY DEF to_lower, Lower, Upper
<1>9. to_lower(t[1]) = name[1] /\ to_lower(t[2]) = name[2] /\ to_lower(t[3]) = name[3]
  BY <1>1, <1>4, <1>7, <1>8
<1>10. Named(t, name)
  BY <1>9 DEF Named
<1> QED BY <1>7, <1>10

(* No two months have the same name.                                       *)
LEMMA NameRead ==
  ASSUME NEW m \in 1 .. 12, NEW t, Named(t, Text(Months[m]))
  PROVE  month_name_to_number(t) = m
<1>1. PICK name : name = Text(Months[m])
  OBVIOUS
<1>2. name \in [1 .. 3 -> Lower] /\ \A k \in 1 .. 12 : Text(Months[k]) = name => k = m
  BY <1>1, MonthsAssumption, Zenon
<1>3. [i \in 1 .. 3 |-> to_lower(t[i])] = name
  BY <1>1, <1>2 DEF Named
<1>4. {k \in 1 .. 12 : [i \in 1 .. 3 |-> to_lower(t[i])] = Text(Months[k])} = {m}
  <2>1. \A k \in 1 .. 12 : name = Text(Months[k]) <=> k = m
    BY <1>1, <1>2
  <2> QED BY <1>3, <2>1
<1> QED BY <1>4 DEF month_name_to_number

(* The day of a month in two places, the first of them blank or a digit.   *)
DayAt(t, i, day) ==
  IF t[i] = Space THEN t[i + 1] - 48 = day ELSE TwoAt(t, i) = day

LEMMA DayWritten ==
  ASSUME NEW n \in Nat, NEW s, IsText(s, n), NEW day \in 1 .. 31, NEW t,
         Joins(t, s, IF day < 10 THEN <<Space, 48 + day>> ELSE to_two_digits(day))
  PROVE  IsText(t, n + 2) /\ Begins(t, s, n) /\ DayAt(t, n + 1, day)
<1>1. CASE day < 10
  <2>1. Joins(t, s, <<Space, 48 + day>>)
    BY <1>1
  <2>2. PICK a, b : a = Space /\ b = 48 + day /\ a \in Int /\ b \in Int
    BY DEF Space
  <2>3. Joins(t, s, <<a, b>>)
    BY <2>1, <2>2
  <2>4. IsText(t, n + 2) /\ Begins(t, s, n) /\ t[n + 1] = a /\ t[n + 2] = b
    BY <2>2, <2>3, TwoBehind
  <2>5. (n + 1) + 1 = n + 2
    OBVIOUS
  <2> QED BY <2>2, <2>4, <2>5 DEF DayAt
<1>2. CASE ~(day < 10)
  <2>1. Joins(t, s, to_two_digits(day)) /\ day \in 0 .. 99
    BY <1>2
  <2>2. IsText(t, n + 2) /\ Begins(t, s, n) /\ TwoAt(t, n + 1) = day /\ t[n + 1] \in 48 .. 57
    BY <2>1, DigitsBehind, DigitBehind
  <2> QED BY <2>2 DEF DayAt, Space
<1> QED BY <1>1, <1>2

MacroDated(t, d) ==
  /\ Named(t, Text(Months[d.month])) /\ DayAt(t, 5, d.day) /\ t[7] = Space
  /\ d.year = 100 * TwoAt(t, 8) + TwoAt(t, 10)

(* What the compiler writes for __DATE__, place by place.                  *)
LEMMA MacroWritten ==
  ASSUME NEW d \in WritableDates, NEW t, t = MacroText(d)
  PROVE  IsText(t, 11) /\ MacroDated(t, d)
<1>1. PICK name : name = Text(Months[d.month])
  OBVIOUS
<1>2. d.month \in 1 .. 12 /\ d.day \in 1 .. 31 /\ d.year \in FourDigitNumbers
  BY DEF WritableDates
<1>3. name \in [1 .. 3 -> Lower]
  BY <1>1, <1>2, MonthsAssumption, Zenon
<1>4. PICK y : y = to_four_digits(d.year)
  OBVIOUS
<1>5. IsText(y, 4) /\ d.year = 100 * TwoAt(y, 1) + TwoAt(y, 3)
  BY <1>2, <1>4, FourDigits
<1>6. t = <<to_upper(name[1])>> \o Tail(name) \o <<Space>>
            \o (IF d.day < 10 THEN <<Space, 48 + d.day>> ELSE to_two_digits(d.day)) \o <<Space>> \o y
  BY <1>1, <1>4, CodesAre, Zenon DEF MacroText
<1>7. PICK a, b, e, u, x :
        /\ Capitalised(a, name) /\ Joins(b, a, <<Space>>)
        /\ Joins(e, b, IF d.day < 10 THEN <<Space, 48 + d.day>> ELSE to_two_digits(d.day))
        /\ Joins(u, e, <<Space>>) /\ Joins(x, u, y) /\ x = t
  BY <1>6, Zenon DEF Joins, Capitalised
<1>8. IsText(a, 3) /\ Named(a, name)
  BY <1>3, <1>7, NameWritten
<1>9. Space \in Int
  BY DEF Space
<1>10. IsText(b, 4) /\ Begins(b, a, 3)
  <2>1. IsText(b, 3 + 1) /\ Begins(b, a, 3)
    BY <1>7, <1>8, <1>9, OneBehind
  <2> QED BY <2>1
<1>11. IsText(e, 6) /\ Begins(e, b, 4) /\ DayAt(e, 5, d.day)
  <2>1. IsText(e, 4 + 2) /\ Begins(e, b, 4) /\ DayAt(e, 4 + 1, d.day)
    BY <1>2, <1>7, <1>10, DayWritten
  <2> QED BY <2>1
<1>12. IsText(u, 7) /\ Begins(u, e, 6) /\ u[7] = Space
  <2>1. IsText(u, 6 + 1) /\ Begins(u, e, 6) /\ u[6 + 1] = Space
    BY <1>7, <1>9, <1>11, OneBehind
  <2> QED BY <2>1
<1>13. IsText(x, 11) /\ Begins(x, u, 7) /\ \A i \in 1 .. 4 : x[7 + i] = y[i]
  <2>1. IsText(x, 7 + 4) /\ Begins(x, u, 7) /\ \A i \in 1 .. 4 : x[7 + i] = y[i]
    BY <1>5, <1>7, <1>12, JoinedText
  <2> QED BY <2>1
<1>14. x[1] = a[1] /\ x[2] = a[2] /\ x[3] = a[3] /\ x[5] = e[5] /\ x[6] = e[6] /\ x[7] = Space
  BY <1>10, <1>11, <1>12, <1>13 DEF Begins
<1>15. Named(x, name)
  <2>1. \A i \in 1 .. 3 : x[i] = a[i]
    BY <1>14
  <2> QED BY <1>8, <2>1 DEF Named
<1>16. DayAt(x, 5, d.day)
  BY <1>11, <1>14 DEF DayAt, TwoAt
<1>17. x[8] = y[1] /\ x[9] = y[2] /\ x[10] = y[3] /\ x[11] = y[4]
  BY <1>13
<1>18. TwoAt(x, 8) = TwoAt(y, 1) /\ TwoAt(x, 10) = TwoAt(y, 3)
  BY <1>17 DEF TwoAt
<1> QED BY <1>1, <1>5, <1>7, <1>13, <1>14, <1>15, <1>16, <1>18 DEF MacroDated

(* The compiler writes no date before 1970.                                *)
MacroDates == {d \in WritableDates : d.year >= Epoch}

(* parse_ymd_macro reads the date that stands in such a text.              *)
LEMMA MacroRead ==
  ASSUME NEW d \in MacroDates, NEW t, MacroDated(t, d)
  PROVE  parse_ymd_macro(t) = d /\ MacroDate(t)
<1>0. d \in WritableDates
  BY DEF MacroDates
<1>1. d.month \in 1 .. 12 /\ d.day \in 1 .. 31
  BY <1>0 DEF WritableDates
<1>2. month_name_to_number(t) = d.month
  BY <1>1, NameRead DEF MacroDated
<1>3. decode_four_digits(t, 8) = d.year /\ decode_two_digits(t, 5) = TwoAt(t, 5)
  BY Decoded DEF MacroDated
<1>4. (IF t[5] = Space THEN t[6] - Code["0"] ELSE decode_two_digits(t, 5)) = d.day
  <2>1. PICK zero : zero = Code["0"] /\ zero = 48
    BY CodesAre, Zenon
  <2>2. (IF t[5] = Space THEN t[6] - zero ELSE TwoAt(t, 5)) = d.day
    BY <2>1 DEF MacroDated, DayAt
  <2> QED BY <1>3, <2>1, <2>2
<1>5. parse_ymd_macro(t) = [year |-> d.year, month |-> d.month, day |-> d.day]
  BY <1>2, <1>3, <1>4, Zenon DEF parse_ymd_macro
<1>6. d = [year |-> d.year, month |-> d.month, day |-> d.day]
  BY <1>0 DEF WritableDates
<1>7. Stands(t, 7, " ")
  BY CodesAre, Zenon DEF Stands, MacroDated
<1>8. parse_ymd_macro(t) = d /\ month_name_to_number(t) > 0 /\ parse_ymd_macro(t).day \in 1 .. 31
  BY <1>1, <1>2, <1>5, <1>6
<1>9. decode_four_digits(t, 8) >= Epoch
  BY <1>3 DEF MacroDates
<1> QED BY <1>7, <1>8, <1>9, Zenon DEF MacroDate


-----------------------------------------------------------------------------
(* A call whose text is what its date is written as: a date in the one     *)
(* form or the other; a point in time as its local time at Greenwich,      *)
(* whether or not that is said, or n minutes to the east of it.            *)
IsGreenwichText(p, t) ==
  /\ p \in Moments /\ InYears(p.day)
  /\ \E zone \in {"", "Z", "z"} : Joins(t, Local(p), Text(zone))
IsOffsetText(p, t) ==
  /\ p \in Moments
  /\ \E n \in Offsets :
       LET q == Point(p.day, p.second + 60 * n) IN InYears(q.day) /\ Joins(t, Local(q), OffsetText(n))

WrittenDate(j) ==
  \/ j.function = "parse_iso_date" /\ j.means \in WritableDates /\ j.text = format_iso_date(j.means)
  \/ j.function = "parse_date_macro" /\ j.means \in MacroDates /\ j.text = MacroText(j.means)
  \/ j.function = "parse_iso_datetime" /\ (IsGreenwichText(j.means, j.text) \/ IsOffsetText(j.means, j.text))

(* What each of the three readers returns for such a text.                 *)
DateReadAs(d, t) == Len(t) = 10 /\ IsoDate(t) /\ parse_ymd_iso(t) = d
MacroReadAs(d, t) == Len(t) = 11 /\ MacroDate(t) /\ parse_ymd_macro(t) = d
MomentReadAs(p, t) ==
  /\ Len(t) \in {19, 20, 25} /\ IsoDatetime(t)
  /\ Point(sys_days(parse_ymd_iso(t)), parse_hms(t, 12) - 60 * (IF Len(t) = 25 THEN parse_tz_offset(t, 20) ELSE 0)) = p

(* A written date, in each of its forms, is read as itself.                *)
LEMMA DateComesBack ==
  ASSUME NEW d \in WritableDates, NEW t, t = format_iso_date(d)
  PROVE  DateReadAs(d, t)
<1>1. IsText(t, 10) /\ Dated(t, d)
  BY DateWritten
<1>2. parse_ymd_iso(t) = d /\ Stands(t, 5, "-") /\ Stands(t, 8, "-")
  BY <1>1, DateRead
<1>3. decode_two_digits(t, 6) = d.month /\ decode_two_digits(t, 9) = d.day
  BY <1>1, Decoded DEF Dated
<1>4. decode_two_digits(t, 6) \in 1 .. 12 /\ decode_two_digits(t, 9) \in 1 .. 31
  BY <1>3 DEF WritableDates
<1>5. Len(t) = 10
  BY <1>1 DEF IsText
<1> QED BY <1>2, <1>4, <1>5, Zenon DEF DateReadAs, IsoDate

LEMMA MacroComesBack ==
  ASSUME NEW d \in MacroDates, NEW t, t = MacroText(d)
  PROVE  MacroReadAs(d, t)
<1>1. d \in WritableDates
  BY DEF MacroDates
<1>2. IsText(t, 11) /\ MacroDated(t, d)
  BY <1>1, MacroWritten
<1>3. parse_ymd_macro(t) = d /\ MacroDate(t)
  BY <1>2, MacroRead
<1> QED BY <1>2, <1>3 DEF MacroReadAs, IsText

LEMMA GreenwichComesBack ==
  ASSUME NEW p, NEW t, IsGreenwichText(p, t)
  PROVE  MomentReadAs(p, t)
<1>1. PICK z \in ZoneTexts : Joins(t, Local(p), z)
  <2>1. /\ Joins(t, Local(p), Text("")) \/ Joins(t, Local(p), Text("Z")) \/ Joins(t, Local(p), Text("z"))
    BY Zenon DEF IsGreenwichText
  <2>2. Joins(t, Local(p), <<>>) \/ Joins(t, Local(p), <<90>>) \/ Joins(t, Local(p), <<122>>)
    BY <2>1, CodesAre, ZenonT(60)
  <2> QED BY <2>2, Zenon DEF ZoneTexts
<1>2. p \in Moments /\ InYears(p.day)
  BY Zenon DEF IsGreenwichText
<1>3. /\ Len(t) \in {19, 20} /\ IsoDatetime(t)
      /\ Point(sys_days(parse_ymd_iso(t)), parse_hms(t, 12) - 60 * 0) = p
  BY <1>1, <1>2, GreenwichRead
<1>4. (IF Len(t) = 25 THEN parse_tz_offset(t, 20) ELSE 0) = 0
  BY <1>3
<1>5. Len(t) \in {19, 20, 25}
  BY <1>3
<1> QED BY <1>3, <1>4, <1>5, Zenon DEF MomentReadAs

LEMMA OffsetComesBack ==
  ASSUME NEW p, NEW t, IsOffsetText(p, t)
  PROVE  MomentReadAs(p, t)
<1>1a. PICK n \in Offsets :
         LET q == Point(p.day, p.second + 60 * n) IN InYears(q.day) /\ Joins(t, Local(q), OffsetText(n))
  BY Zenon DEF IsOffsetText
<1>1. PICK q : q = Point(p.day, p.second + 60 * n) /\ InYears(q.day) /\ Joins(t, Local(q), OffsetText(n))
  BY <1>1a
<1>2. p \in Moments
  BY Zenon DEF IsOffsetText
<1>3. /\ Len(t) = 25 /\ IsoDatetime(t)
      /\ Point(sys_days(parse_ymd_iso(t)), parse_hms(t, 12) - 60 * parse_tz_offset(t, 20)) = p
  BY <1>1, <1>2, OffsetRead
<1>4. (IF Len(t) = 25 THEN parse_tz_offset(t, 20) ELSE 0) = parse_tz_offset(t, 20)
  BY <1>3
<1>5. Len(t) \in {19, 20, 25}
  BY <1>3
<1> QED BY <1>3, <1>4, <1>5, Zenon DEF MomentReadAs

(* A call that has returned has returned the date.                         *)
DateInv == WrittenDate(job) /\ result # Running => result = <<job.means>>

(* The readers of the three forms are three functions.                     *)
LEMMA DifferentReaders ==
  /\ "parse_iso_date" # "parse_date_macro" /\ "parse_iso_date" # "parse_iso_datetime"
  /\ "parse_date_macro" # "parse_iso_datetime"
OBVIOUS

(* A reader that returns returns the date.                                 *)
LEMMA DateStep ==
  ASSUME DateNext, WrittenDate(job)
  PROVE  DateInv'
<1>1. job' = job
  BY Zenon DEF DateNext, parse_iso_date, parse_date_macro, parse_iso_datetime, Returns
<1>2. CASE parse_iso_date
  <2>1. job.means \in WritableDates /\ job.text = format_iso_date(job.means)
    BY <1>2, DifferentReaders, Zenon DEF parse_iso_date, Runs, WrittenDate
  <2>2. DateReadAs(job.means, job.text)
    BY <2>1, DateComesBack
  <2>3. result' = <<job.means>>
    BY <1>2, <2>2, Zenon DEF parse_iso_date, Returns, DateReadAs
  <2> QED BY <1>1, <2>3, Zenon DEF DateInv
<1>3. CASE parse_date_macro
  <2>1. job.means \in MacroDates /\ job.text = MacroText(job.means)
    BY <1>3, DifferentReaders, Zenon DEF parse_date_macro, Runs, WrittenDate
  <2>2. MacroReadAs(job.means, job.text)
    BY <2>1, MacroComesBack
  <2>3. result' = <<job.means>>
    BY <1>3, <2>2, Zenon DEF parse_date_macro, Returns, MacroReadAs
  <2> QED BY <1>1, <2>3, Zenon DEF DateInv
<1>4. CASE parse_iso_datetime
  <2>1. IsGreenwichText(job.means, job.text) \/ IsOffsetText(job.means, job.text)
    BY <1>4, DifferentReaders, Zenon DEF parse_iso_datetime, Runs, WrittenDate
  <2>2. MomentReadAs(job.means, job.text)
    BY <2>1, GreenwichComesBack, OffsetComesBack
  <2>3. result' = <<job.means>>
    BY <1>4, <2>2, Zenon DEF parse_iso_datetime, Returns, MomentReadAs
  <2> QED BY <1>1, <2>3, Zenon DEF DateInv
<1> QED BY <1>2, <1>3, <1>4, Zenon DEF DateNext

(* No other function is called for a date.                                 *)
LEMMA NotDateSteps ==
  ASSUME Next, ~DateNext
  PROVE  (~WrittenDate(job) /\ job' = job) \/ UNCHANGED callVars
<1>1. ASSUME job.function \in {"hash_impl", "frozen_format", "parse_number", "amalgamate", "suggest"}
      PROVE  ~WrittenDate(job)
  BY <1>1 DEF WrittenDate
<1>2. CASE HashNext
  BY <1>1, <1>2 DEF HashNext, TakeEight, TakeOne, Hashed, Hashes, Runs, Goes, Returns
<1>3. CASE FormatNext
  BY <1>1, <1>3 DEF FormatNext, RefuseFormat, Literally, Brace, Field, Formatted, Formats, Writing, Runs, Goes, Returns
<1>4. CASE ReadNext
  BY <1>1, <1>4 DEF ReadNext, RefuseText, TakeBase, Convert, RefuseDigit, RefuseValue, TakeDigit, Finish, Reads,
                    Scanning, Runs, Goes, Returns
<1>5. CASE AmalgamateNext
  BY <1>1, <1>5 DEF AmalgamateNext, EnterEntry, Inline, Copy, LeaveHeader, Written, Reading, Amalgamates, Runs, Goes,
                    Returns
<1>6. CASE SuggestNext
  BY <1>1, <1>6 DEF SuggestNext, Finished, PassOver, Consider, Row, Compare, Skip, Suggests, Runs, Goes,
                    Returns
<1>7. CASE Terminated
  BY <1>7 DEF Terminated
<1> QED BY <1>2, <1>3, <1>4, <1>5, <1>6, <1>7 DEF Next

LEMMA DateInvariant == Spec => []DateInv
<1>1. Init => DateInv
  BY DEF Init, DateInv
<1>2. DateInv /\ [Next]_callVars => DateInv'
  <2> SUFFICES ASSUME DateInv, [Next]_callVars PROVE DateInv'
    OBVIOUS
  <2>1. CASE DateNext /\ WrittenDate(job)
    BY <2>1, DateStep
  <2>2. CASE UNCHANGED callVars
    BY <2>2, Zenon DEF callVars, DateInv
  <2>3. CASE ~WrittenDate(job) /\ job' = job
    BY <2>3, Zenon DEF DateInv
  <2>4. DateNext => job' = job
    BY Zenon DEF DateNext, parse_iso_date, parse_date_macro, parse_iso_datetime, Returns
  <2> QED BY <2>1, <2>2, <2>3, <2>4, NotDateSteps
<1> QED BY <1>1, <1>2, PTL DEF Spec

(* Every date and every point in time of the years that are written comes  *)
(* back from its text: parse_iso_date, parse_date_macro and                *)
(* parse_iso_datetime read what was written, in every form and with every  *)
(* offset of less than a day.                                              *)
THEOREM DatesReadBack ==
  Spec => [](WrittenDate(job) => DatesComeBack)
<1>1. DateInv => (WrittenDate(job) => DatesComeBack)
  BY DEF DateInv, DatesComeBack, Returned, Answer
<1> QED BY <1>1, DateInvariant, PTL
=============================================================================
