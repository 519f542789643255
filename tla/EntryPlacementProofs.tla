------------------------ MODULE EntryPlacementProofs ------------------------
(***************************************************************************)
(* Whatever the keys, the entries and their number: a container that is    *)
(* made holds every value once, in a slot of its key.                      *)
(***************************************************************************)
EXTENDS EntryPlacement, FiniteSetTheorems, TLAPS

(* Slots hold entries the loop has passed; a made container has no empty   *)
(* slot.                                                                   *)
PlacedInv ==
  /\ \A slot \in Index : values[slot] # None => values[slot] < entry
  /\ status = "made" => \A slot \in Index : values[slot] # None

PlacementIInv == PlacementTypeOK /\ ValuesInOwnSlots /\ PlacedInv

LEMMA PlacementInit == Init => PlacementIInv
BY PlacementAssumption
   DEF Init, PlacementIInv, PlacementTypeOK, ValuesInOwnSlots, PlacedInv, Index, None

(* The entry of this round goes to an empty slot of its key: the entries   *)
(* in the other slots are earlier ones, so it stands nowhere else.         *)
LEMMA PlaceKeeps ==
  ASSUME PlacementIInv, status = "placing", entry < KeyCount,
         NEW slot \in Index, values[slot] = None, keys[slot] = entries[entry], Place(slot)
  PROVE  /\ PlacementIInv'
         /\ \A other \in Index : values[other] # None => values'[other] = values[other]
<1>1. /\ entry \in Index /\ entry + 1 \in 0 .. KeyCount /\ entry # None
      /\ values \in [Index -> Index \cup {None}]
      /\ values' = [values EXCEPT ![slot] = entry]
      /\ entry' = entry + 1 /\ UNCHANGED <<call, keys, entries, status>>
  BY PlacementAssumption DEF PlacementIInv, PlacementTypeOK, Place, inputs, Index, None
<1>2. /\ values'[slot] = entry
      /\ \A other \in Index : other # slot => values'[other] = values[other]
  BY <1>1
<1>3. PlacementTypeOK'
  BY <1>1 DEF PlacementIInv, PlacementTypeOK
<1>4. \A other \in Index : values[other] # None => values[other] < entry
  BY DEF PlacementIInv, PlacedInv
<1>5. \A other \in Index : values[other] # entry
  <2>1. \A other \in Index : values[other] # None => values[other] \in Index
    BY <1>1
  <2> QED
    BY <1>1, <1>4, <2>1 DEF Index
<1>6. ValuesInOwnSlots'
  <2> SUFFICES ASSUME NEW s \in Index, values'[s] # None
               PROVE  /\ entries'[values'[s]] = keys'[s]
                      /\ \A other \in Index : values'[other] = values'[s] => other = s
    BY DEF ValuesInOwnSlots
  <2>1. CASE s = slot
    BY <1>1, <1>2, <1>5, <2>1
  <2>2. CASE s # slot
    BY <1>1, <1>2, <1>5, <2>2 DEF PlacementIInv, ValuesInOwnSlots
  <2> QED
    BY <2>1, <2>2
<1>7. PlacedInv'
  <2>1. \A s \in Index : values'[s] # None => values'[s] < entry'
    <3> SUFFICES ASSUME NEW s \in Index, values'[s] # None
                 PROVE  values'[s] < entry'
      OBVIOUS
    <3>1. CASE s = slot
      BY <1>1, <1>2, <3>1 DEF Index
    <3>2. CASE s # slot
      <4>1. values'[s] = values[s] /\ values[s] < entry /\ values[s] \in Index
        BY <1>1, <1>2, <1>4, <3>2
      <4> QED
        BY <1>1, <4>1 DEF Index
    <3> QED
      BY <3>1, <3>2
  <2> QED
    BY <1>1, <2>1 DEF PlacedInv
<1> QED
  BY <1>2, <1>3, <1>6, <1>7 DEF PlacementIInv

LEMMA PlacementStep ==
  ASSUME PlacementIInv, [Next]_vars
  PROVE  /\ PlacementIInv'
         /\ \A slot \in Index : values[slot] # None => values'[slot] = values[slot]
<1> DEFINE Goal == /\ PlacementIInv'
                   /\ \A slot \in Index : values[slot] # None => values'[slot] = values[slot]
<1>1. ASSUME NEW what \in {"unknown key", "duplicate key"}, Fail(what)
      PROVE  Goal
  BY <1>1 DEF Fail, inputs, PlacementIInv, PlacementTypeOK, ValuesInOwnSlots, PlacedInv
<1>2. ASSUME NEW slot \in Index, status = "placing", entry < KeyCount,
             values[slot] = None, keys[slot] = entries[entry], Place(slot)
      PROVE  Goal
  BY <1>2, PlaceKeeps
<1>3. CASE PlaceByKey
  <2>1. \/ Fail("unknown key") \/ Fail("duplicate key")
        \/ \E index \in Index : /\ keys[index] = entries[entry] /\ values[index] = None
                                /\ Place(index)
    BY <1>3 DEF PlaceByKey
  <2> QED
    BY <1>1, <1>2, <1>3, <2>1 DEF PlaceByKey
<1>4. CASE PlaceInFirstFree
  BY <1>2, <1>4 DEF PlaceInFirstFree, FreeSlots
<1>5. CASE NoFreeSlot
  <2>1. CASE Fail("unknown key")
    BY <1>1, <2>1
  <2>2. CASE entry' = entry + 1 /\ UNCHANGED <<inputs, values, status>> /\ entry < KeyCount
    <3>1. entry' \in 0 .. KeyCount /\ entry \in Int /\ entry' = entry + 1
      <4>1. entry \in 0 .. KeyCount
        BY DEF PlacementIInv, PlacementTypeOK
      <4> QED
        BY <2>2, <4>1, PlacementAssumption
    <3>2. PlacementTypeOK' /\ ValuesInOwnSlots'
      BY <2>2, <3>1 DEF inputs, PlacementIInv, PlacementTypeOK, ValuesInOwnSlots
    <3>3. \A slot \in Index : values[slot] # None => values[slot] \in Index /\ values[slot] < entry
      BY DEF PlacementIInv, PlacementTypeOK, PlacedInv
    <3>4. \A slot \in Index : values[slot] # None => values[slot] < entry'
      <4> SUFFICES ASSUME NEW slot \in Index, values[slot] # None
                   PROVE  values[slot] < entry'
        OBVIOUS
      <4>1. values[slot] \in Int
        BY <3>3, PlacementAssumption DEF Index
      <4>2. values[slot] < entry
        BY <3>3
      <4> QED
        BY <3>1, <4>1, <4>2
    <3>5. PlacedInv'
      BY <2>2, <3>4 DEF PlacementIInv, PlacedInv
    <3> QED
      BY <2>2, <3>2, <3>5 DEF PlacementIInv
  <2> QED
    BY <1>5, <2>1, <2>2 DEF NoFreeSlot
<1>6. CASE Finish
  BY <1>6 DEF Finish, inputs, PlacementIInv, PlacementTypeOK, ValuesInOwnSlots, PlacedInv
<1>7. CASE UNCHANGED vars
  BY <1>7 DEF vars, inputs, PlacementIInv, PlacementTypeOK, ValuesInOwnSlots, PlacedInv
<1> QED
  BY <1>3, <1>4, <1>5, <1>6, <1>7 DEF Next

(* As many slots as entries and no entry in two of them: none is left out. *)
LEMMA FullIsComplete ==
  ASSUME PlacementIInv
  PROVE  NoValueLost
<1> SUFFICES ASSUME status = "made", NEW e \in Index
             PROVE  \E slot \in Index : values[slot] = e
  BY DEF NoValueLost
<1>1. /\ \A slot \in Index : values[slot] # None
      /\ values \in [Index -> Index \cup {None}]
  BY DEF PlacementIInv, PlacedInv, PlacementTypeOK
<1>2. values \in [Index -> Index]
  BY <1>1
<1>3. \A s, t \in Index : values[s] = values[t] => s = t
  BY <1>1 DEF PlacementIInv, ValuesInOwnSlots
<1>4. values \in Injection(Index, Index)
  BY <1>2, <1>3 DEF Injection, IsInjective
<1>5. IsFiniteSet(Index)
  BY FS_Interval, PlacementAssumption DEF Index
<1>6. values \in Surjection(Index, Index)
  BY <1>4, <1>5, FS_Injection
<1> QED
  BY <1>6 DEF Surjection

-----------------------------------------------------------------------------
SlotsOf(text) == {i \in Index : keys[i] = text}
EntriesOf(text) == {e \in Index : entries[e] = text}

KeyFull(text) == \A slot \in Index : keys[slot] = text => values[slot] # None

(* An entry the loop has passed stands in a slot, or its key had none left *)
(* for it; a failure names such a key, or a slot that no entry was for.    *)
MatchInv ==
  /\ ~Multi => \A i, j \in Index : keys[i] = keys[j] => i = j
  /\ \A e \in Index : e < entry =>
       KeyFull(entries[e]) \/ \E slot \in Index : values[slot] = e
  /\ status \in {"unknown key", "duplicate key"} => entry \in Index /\ KeyFull(entries[entry])
  /\ status = "missing key" => entry = KeyCount /\ \E slot \in Index : values[slot] = None

(* Equal keys of a multimap are filled from the front, in entry order.     *)
OrderInv ==
  Multi => \A s, t \in Index :
             s < t /\ keys[s] = keys[t] /\ values[t] # None
               => values[s] # None /\ values[s] < values[t]

LEMMA MatchInit == Init => MatchInv /\ OrderInv
BY PlacementAssumption DEF Init, MatchInv, OrderInv, Multi, Index, None

LEMMA MatchStep ==
  ASSUME PlacementIInv, MatchInv, [Next]_vars
  PROVE  MatchInv'
<1>1. /\ entry \in 0 .. KeyCount /\ KeyCount \in Nat
      /\ values \in [Index -> Index \cup {None}]
      /\ entries \in [Index -> Texts] /\ keys \in [Index -> Texts]
  BY PlacementAssumption DEF PlacementIInv, PlacementTypeOK
<1>2. ASSUME UNCHANGED <<inputs, entry, values>>,
             status' \in {"unknown key", "duplicate key"}, entry < KeyCount, KeyFull(entries[entry])
      PROVE  MatchInv'
  <2>1. entry < KeyCount
    BY <1>2
  <2>2. entry \in Index
    BY <1>1, <2>1 DEF Index
  <2> QED
    BY <1>2, <2>2 DEF MatchInv, KeyFull, inputs, Multi
<1>3. ASSUME NEW slot \in Index, status = "placing", entry < KeyCount,
             values[slot] = None, keys[slot] = entries[entry], Place(slot)
      PROVE  MatchInv'
  <2>1. /\ entry \in Index /\ entry' = entry + 1
        /\ values' = [values EXCEPT ![slot] = entry]
        /\ UNCHANGED <<call, keys, entries, status>>
    BY <1>1, <1>3 DEF Place, inputs, Index
  <2>2. /\ values'[slot] = entry /\ entry # None
        /\ \A other \in Index : other # slot => values'[other] = values[other]
    BY <1>1, <2>1 DEF Index, None
  <2>3. ASSUME NEW text, KeyFull(text)
        PROVE  KeyFull(text)'
    BY <2>2, <2>1, <2>3 DEF KeyFull
  <2>4. ASSUME NEW e \in Index, e < entry'
        PROVE  KeyFull(entries[e])' \/ \E s \in Index : values'[s] = e
    <3>1. CASE e = entry
      BY <2>2, <3>1
    <3>2. CASE e # entry
      <4>1. e < entry
        BY <1>1, <2>1, <2>4, <3>2 DEF Index
      <4>2. CASE KeyFull(entries[e])
        BY <2>1, <2>3, <4>2
      <4>3. CASE \E s \in Index : values[s] = e
        <5>1. PICK s \in Index : values[s] = e
          BY <4>3
        <5>2. e # None
          BY DEF Index, None
        <5>3. s # slot
          BY <1>3, <5>1, <5>2
        <5> QED
          BY <2>2, <5>1, <5>3
      <4> QED
        BY <4>1, <4>2, <4>3 DEF MatchInv
    <3> QED
      BY <3>1, <3>2
  <2> QED
    BY <1>3, <2>1, <2>4 DEF MatchInv, Multi
<1>4. CASE PlaceByKey
  <2>1. /\ status = "placing" /\ ~Multi /\ entry < KeyCount
    BY <1>4 DEF PlaceByKey
  <2>2. CASE (\A i \in Index : keys[i] # entries[entry]) /\ Fail("unknown key")
    BY <1>2, <2>1, <2>2 DEF Fail, KeyFull, inputs
  <2>3. CASE \E index \in Index : keys[index] = entries[entry] /\ values[index] # None /\ Fail("duplicate key")
    <3>1. PICK index \in Index : keys[index] = entries[entry] /\ values[index] # None
      BY <2>3
    <3>2. \A slot \in Index : keys[slot] = keys[index] => slot = index
      BY <2>1 DEF MatchInv
    <3>3. KeyFull(entries[entry])
      BY <3>1, <3>2 DEF KeyFull
    <3>4. UNCHANGED <<inputs, entry, values>> /\ status' \in {"unknown key", "duplicate key"}
      BY <2>3 DEF Fail
    <3> QED
      BY <1>2, <2>1, <3>3, <3>4
  <2>4. CASE \E index \in Index : keys[index] = entries[entry] /\ values[index] = None /\ Place(index)
    BY <1>3, <2>1, <2>4
  <2> QED
    BY <1>4, <2>2, <2>3, <2>4 DEF PlaceByKey
<1>5. CASE PlaceInFirstFree
  BY <1>3, <1>5 DEF PlaceInFirstFree, FreeSlots
<1>6. CASE NoFreeSlot
  <2>1. /\ entry < KeyCount /\ KeyFull(entries[entry])
    BY <1>6 DEF NoFreeSlot, FreeSlots, KeyFull
  <2>2. CASE Fail("unknown key")
    BY <1>2, <2>1, <2>2 DEF Fail
  <2>3. CASE entry' = entry + 1 /\ UNCHANGED <<inputs, values, status>> /\ status = "placing"
    <3>1. ASSUME NEW e \in Index, e < entry'
          PROVE  (KeyFull(entries[e]) \/ \E slot \in Index : values[slot] = e)'
      <4>1. e < entry \/ e = entry
        BY <1>1, <2>3, <3>1 DEF Index
      <4>2. KeyFull(entries[e]) \/ \E slot \in Index : values[slot] = e
        BY <2>1, <4>1 DEF MatchInv
      <4> QED
        BY <2>3, <4>2 DEF KeyFull, inputs
    <3> QED
      BY <2>3, <3>1 DEF MatchInv, inputs, Multi
  <2> QED
    BY <1>6, <2>2, <2>3 DEF NoFreeSlot
<1>7. CASE Finish
  <2>1. /\ entry = KeyCount /\ UNCHANGED <<inputs, entry, values>>
        /\ status' \in {"missing key", "made"}
        /\ status' = "missing key" => \E slot \in Index : values[slot] = None
    BY <1>7 DEF Finish
  <2> QED
    BY <2>1 DEF MatchInv, KeyFull, inputs, Multi
<1>8. CASE UNCHANGED vars
  BY <1>8 DEF vars, inputs, MatchInv, KeyFull, Multi
<1> QED
  BY <1>4, <1>5, <1>6, <1>7, <1>8 DEF Next

LEMMA OrderStep ==
  ASSUME PlacementIInv, OrderInv, [Next]_vars
  PROVE  OrderInv'
<1>1. ASSUME UNCHANGED <<call, keys, values>>
      PROVE  OrderInv'
  BY <1>1 DEF OrderInv, Multi
<1>2. CASE PlaceByKey
  <2>1. ~Multi /\ UNCHANGED call
    BY <1>2 DEF PlaceByKey, Fail, Place, inputs
  <2> QED
    BY <2>1 DEF OrderInv, Multi
<1>3. CASE PlaceInFirstFree
  <2>1. PICK slot \in FreeSlots : (\A other \in FreeSlots : slot <= other) /\ Place(slot)
    BY <1>3 DEF PlaceInFirstFree
  <2>2. /\ slot \in Index /\ values[slot] = None /\ keys[slot] = entries[entry]
        /\ Multi /\ UNCHANGED <<call, keys>>
        /\ values' = [values EXCEPT ![slot] = entry]
        /\ values \in [Index -> Index \cup {None}] /\ entry \in 0 .. KeyCount
    BY <1>3, <2>1 DEF FreeSlots, Place, inputs, PlaceInFirstFree, PlacementIInv, PlacementTypeOK
  <2>3. ASSUME NEW s \in Index, NEW t \in Index, s < t, keys[s] = keys[t], values'[t] # None
        PROVE  values'[s] # None /\ values'[s] < values'[t]
    <3>1. s \in Int /\ t \in Int /\ slot \in Int
      BY <2>2, PlacementAssumption DEF Index
    <3>2. CASE t = slot
      <4>1. s # slot /\ keys[s] = entries[entry] /\ s \notin FreeSlots
        BY <2>1, <2>2, <2>3, <3>1, <3>2
      <4>2. values[s] # None
        BY <4>1 DEF FreeSlots
      <4>3. values[s] < entry
        BY <4>2 DEF PlacementIInv, PlacedInv
      <4> QED
        BY <2>2, <3>2, <4>1, <4>2, <4>3
    <3>3. CASE t # slot
      <4>1. values'[t] = values[t]
        BY <2>2, <3>3
      <4>2. values[s] # None /\ values[s] < values[t]
        BY <2>2, <2>3, <4>1 DEF OrderInv
      <4>3. s # slot
        BY <2>2, <4>2
      <4> QED
        BY <2>2, <4>1, <4>2, <4>3
    <3> QED
      BY <3>2, <3>3
  <2> QED
    BY <2>2, <2>3 DEF OrderInv
<1>4. CASE NoFreeSlot
  BY <1>1, <1>4 DEF NoFreeSlot, Fail, inputs
<1>5. CASE Finish
  BY <1>1, <1>5 DEF Finish, inputs
<1>6. CASE UNCHANGED vars
  BY <1>1, <1>6 DEF vars, inputs
<1> QED
  BY <1>2, <1>3, <1>4, <1>5, <1>6 DEF Next
-----------------------------------------------------------------------------
LEMMA PlacementFinite ==
  /\ IsFiniteSet(Index) /\ Cardinality(Index) = KeyCount
  /\ \A S \in SUBSET Index : IsFiniteSet(S) /\ Cardinality(S) \in Nat
<1>1. IsFiniteSet(Index) /\ Cardinality(Index) = KeyCount
  BY FS_Interval, PlacementAssumption DEF Index
<1> QED
  BY <1>1, FS_Subset, FS_CardinalityType

(* An injection that misses an element goes into a larger set.             *)
LEMMA SmallerByInjection ==
  ASSUME NEW S, NEW T \in SUBSET Index, NEW f \in [S -> T],
         \A x, y \in S : f[x] = f[y] => x = y,
         NEW missed \in T, \A x \in S : f[x] # missed
  PROVE  Cardinality(S) # Cardinality(T)
<1>1. f \in Injection(S, T)
  BY DEF Injection, IsInjective
<1>2. f \notin Surjection(S, T)
  BY DEF Surjection
<1> QED
  BY <1>1, <1>2, PlacementFinite, FS_Injection

LEMMA MadeMatches ==
  ASSUME PlacementIInv, status = "made", NEW text
  PROVE  Cardinality(SlotsOf(text)) = Cardinality(EntriesOf(text))
<1> DEFINE f == [slot \in SlotsOf(text) |-> values[slot]]
<1>1. \A slot \in Index : values[slot] # None /\ values[slot] \in Index
  BY DEF PlacementIInv, PlacementTypeOK, PlacedInv
<1>2. f \in [SlotsOf(text) -> EntriesOf(text)]
  BY <1>1 DEF PlacementIInv, ValuesInOwnSlots, SlotsOf, EntriesOf
<1>3. \A x, y \in SlotsOf(text) : f[x] = f[y] => x = y
  BY <1>1 DEF PlacementIInv, ValuesInOwnSlots, SlotsOf
<1>4. ASSUME NEW e \in EntriesOf(text)
      PROVE  \E slot \in SlotsOf(text) : f[slot] = e
  <2>1. PICK slot \in Index : values[slot] = e
    BY FullIsComplete DEF NoValueLost, EntriesOf
  <2>2. slot \in SlotsOf(text)
    BY <1>1, <2>1 DEF PlacementIInv, ValuesInOwnSlots, SlotsOf, EntriesOf
  <2> QED
    BY <2>1, <2>2
<1>5. f \in Injection(SlotsOf(text), EntriesOf(text)) /\ f \in Surjection(SlotsOf(text), EntriesOf(text))
  BY <1>2, <1>3, <1>4 DEF Injection, IsInjective, Surjection
<1>6. EntriesOf(text) \in SUBSET Index
  BY DEF EntriesOf
<1> QED
  BY <1>5, <1>6, PlacementFinite, FS_Injection

(* A key whose slots all hold values has one entry more than slots when an *)
(* entry of it stands nowhere.                                             *)
LEMMA TooManyEntries ==
  ASSUME PlacementIInv, NEW e \in Index, KeyFull(entries[e]),
         \A slot \in Index : values[slot] # e
  PROVE  Cardinality(SlotsOf(entries[e])) # Cardinality(EntriesOf(entries[e]))
<1> DEFINE text == entries[e]
<1> DEFINE f == [slot \in SlotsOf(text) |-> values[slot]]
<1>1. \A slot \in SlotsOf(text) : slot \in Index /\ values[slot] # None /\ values[slot] \in Index
  BY DEF PlacementIInv, PlacementTypeOK, KeyFull, SlotsOf
<1>2. f \in [SlotsOf(text) -> EntriesOf(text)]
  BY <1>1 DEF PlacementIInv, ValuesInOwnSlots, SlotsOf, EntriesOf
<1>3. \A x, y \in SlotsOf(text) : f[x] = f[y] => x = y
  BY <1>1 DEF PlacementIInv, ValuesInOwnSlots
<1>4. e \in EntriesOf(text) /\ \A x \in SlotsOf(text) : f[x] # e
  BY <1>1 DEF EntriesOf
<1>5. EntriesOf(text) \in SUBSET Index
  BY DEF EntriesOf
<1> HIDE DEF f
<1> QED
  BY <1>2, <1>3, <1>4, <1>5, SmallerByInjection

(* A key with an empty slot has placed all its entries.                    *)
LEMMA TooFewEntries ==
  ASSUME PlacementIInv, MatchInv, entry = KeyCount, NEW s \in Index, values[s] = None
  PROVE  Cardinality(SlotsOf(keys[s])) # Cardinality(EntriesOf(keys[s]))
<1> DEFINE text == keys[s]
<1> DEFINE g == [e \in EntriesOf(text) |-> CHOOSE slot \in Index : values[slot] = e]
<1>1. ASSUME NEW e \in EntriesOf(text)
      PROVE  g[e] \in Index /\ values[g[e]] = e /\ e \in Index
  <2>1. e \in Index /\ e < entry /\ entries[e] = text
    BY PlacementAssumption DEF EntriesOf, Index
  <2>2. ~KeyFull(entries[e])
    BY <2>1 DEF KeyFull
  <2>3. \E slot \in Index : values[slot] = e
    BY <2>1, <2>2 DEF MatchInv
  <2> QED
    BY <2>1, <2>3
<1>2. \A e \in Index : e # None
  BY DEF Index, None
<1>3. g \in [EntriesOf(text) -> SlotsOf(text)]
  <2>1. \A e \in EntriesOf(text) : g[e] \in SlotsOf(text)
    BY <1>1, <1>2 DEF PlacementIInv, ValuesInOwnSlots, SlotsOf, EntriesOf
  <2> QED
    BY <2>1
<1>4. \A x, y \in EntriesOf(text) : g[x] = g[y] => x = y
  BY <1>1
<1>5. s \in SlotsOf(text) /\ \A x \in EntriesOf(text) : g[x] # s
  BY <1>1, <1>2 DEF SlotsOf
<1>6. SlotsOf(text) \in SUBSET Index
  BY DEF SlotsOf
<1> HIDE DEF g
<1> QED
  BY <1>3, <1>4, <1>5, <1>6, SmallerByInjection

LEMMA MatchingFromInv ==
  ASSUME PlacementIInv, MatchInv
  PROVE  AcceptedExactlyWhenMatching
<1> SUFFICES ASSUME status # "placing"
             PROVE  status = "made" <=>
                      \A text \in Texts : Cardinality(SlotsOf(text)) = Cardinality(EntriesOf(text))
  BY DEF AcceptedExactlyWhenMatching, SlotsOf, EntriesOf
<1>1. CASE status = "made"
  BY <1>1, MadeMatches
<1>2. CASE status \in {"unknown key", "duplicate key"}
  <2>1. entry \in Index /\ KeyFull(entries[entry])
    BY <1>2 DEF MatchInv
  <2>2. entries[entry] \in Texts
    BY <2>1 DEF PlacementIInv, PlacementTypeOK
  <2>3. \A slot \in Index : values[slot] # entry
    BY <2>1 DEF PlacementIInv, PlacedInv, Index, None
  <2> QED
    BY <1>2, <2>1, <2>2, <2>3, TooManyEntries
<1>3. CASE status = "missing key"
  <2>1. PICK s \in Index : values[s] = None
    BY <1>3 DEF MatchInv
  <2>2. keys[s] \in Texts /\ entry = KeyCount
    BY <1>3 DEF PlacementIInv, PlacementTypeOK, MatchInv
  <2> QED
    BY <1>3, <2>1, <2>2, TooFewEntries
<1> QED
  BY <1>1, <1>2, <1>3 DEF PlacementIInv, PlacementTypeOK
-----------------------------------------------------------------------------
(* The sorted slots: how many slots come before one.                       *)
SlotsBefore(i) == {j \in Index : Before(j, i)}
Rank(i) == Cardinality(SlotsBefore(i))
Smaller(text) == {i \in Index : keys[i] < text}
UpTo(text) == {i \in Index : keys[i] <= text}

LEMMA BeforeOrder ==
  ASSUME PlacementTypeOK
  PROVE  /\ \A i \in Index : i \in Int /\ keys[i] \in Int /\ ~Before(i, i)
         /\ \A i, j \in Index : i # j => Before(i, j) \/ Before(j, i)
         /\ \A i, j, k \in Index : Before(i, j) /\ Before(j, k) => Before(i, k)
<1>1. \A i \in Index : i \in Int
  BY PlacementAssumption DEF Index
<1>2. \A i \in Index : keys[i] \in Texts
  BY DEF PlacementTypeOK
<1>3. \A i \in Index : keys[i] \in Int
  BY <1>2, PlacementAssumption
<1> QED
  BY <1>1, <1>3 DEF Before

LEMMA ProperSubset ==
  ASSUME NEW S, NEW T \in SUBSET Index, S \subseteq T, NEW x \in T, x \notin S
  PROVE  Cardinality(S) < Cardinality(T)
<1>1. Cardinality(S) <= Cardinality(T) /\ Cardinality(S) # Cardinality(T)
  BY PlacementFinite, FS_Subset
<1>2. Cardinality(S) \in Nat /\ Cardinality(T) \in Nat
  BY PlacementFinite
<1> QED
  BY <1>1, <1>2

LEMMA SubsetCount ==
  ASSUME NEW S, NEW T \in SUBSET Index, S \subseteq T
  PROVE  Cardinality(S) <= Cardinality(T)
BY PlacementFinite, FS_Subset

LEMMA RankGrows ==
  ASSUME PlacementTypeOK, NEW i \in Index, NEW j \in Index, Before(i, j)
  PROVE  Rank(i) < Rank(j)
<1>1. SlotsBefore(i) \subseteq SlotsBefore(j) /\ i \in SlotsBefore(j) /\ i \notin SlotsBefore(i)
  BY BeforeOrder DEF SlotsBefore
<1>2. SlotsBefore(j) \in SUBSET Index
  BY DEF SlotsBefore
<1> QED
  BY <1>1, <1>2, ProperSubset DEF Rank

LEMMA RankIsBijection ==
  ASSUME PlacementTypeOK
  PROVE  /\ \A i \in Index : Rank(i) \in Index
         /\ \A i, j \in Index : Rank(i) = Rank(j) => i = j
         /\ \A p \in Index : sorted_index(p) \in Index /\ Rank(sorted_index(p)) = p
<1>1. ASSUME NEW i \in Index
      PROVE  Rank(i) \in Index
  <2>1. SlotsBefore(i) \subseteq Index /\ i \notin SlotsBefore(i)
    BY BeforeOrder DEF SlotsBefore
  <2>2. Rank(i) < KeyCount
    BY <2>1, PlacementFinite, ProperSubset DEF Rank
  <2>3. Rank(i) \in Nat
    BY <2>1, PlacementFinite DEF Rank
  <2> QED
    BY <2>2, <2>3, PlacementAssumption DEF Index
<1>2. ASSUME NEW i \in Index, NEW j \in Index, Rank(i) = Rank(j), i # j
      PROVE  FALSE
  <2>1. Before(i, j) \/ Before(j, i)
    BY <1>2, BeforeOrder
  <2>2. Rank(i) < Rank(j) \/ Rank(j) < Rank(i)
    BY <2>1, RankGrows
  <2>3. Rank(i) \in Int /\ Rank(j) \in Int
    BY <1>1 DEF Index
  <2> QED
    BY <1>2, <2>2, <2>3
<1>3. ASSUME NEW p \in Index
      PROVE  sorted_index(p) \in Index /\ Rank(sorted_index(p)) = p
  <2> DEFINE rank == [i \in Index |-> Rank(i)]
  <2>1. rank \in Injection(Index, Index)
    BY <1>1, <1>2 DEF Injection, IsInjective
  <2>2. rank \in Surjection(Index, Index)
    BY <2>1, PlacementFinite, FS_Injection
  <2>3. \E i \in Index : Rank(i) = p
    <3>1. \E i \in Index : rank[i] = p
      BY <2>2 DEF Surjection
    <3> QED
      BY <3>1
  <2> QED
    BY <2>3 DEF sorted_index, Rank, SlotsBefore
<1> QED
  BY <1>1, <1>2, <1>3

(* The sorted positions from first_pos to last_pos are those of the key.   *)
LEMMA PositionsOfKey ==
  ASSUME PlacementTypeOK, NEW text \in Texts, NEW i \in Index
  PROVE  /\ first_pos(text) \in Nat /\ last_pos(text) \in Nat /\ last_pos(text) <= KeyCount
         /\ keys[i] = text <=> first_pos(text) <= Rank(i) /\ Rank(i) < last_pos(text)
<1>1. text \in Int /\ keys[i] \in Int /\ \A j \in Index : keys[j] \in Int
  BY PlacementAssumption, BeforeOrder
<1>2. /\ first_pos(text) = Cardinality(Smaller(text)) /\ last_pos(text) = Cardinality(UpTo(text))
      /\ Smaller(text) \in SUBSET Index /\ UpTo(text) \in SUBSET Index
      /\ SlotsBefore(i) \in SUBSET Index
  BY DEF first_pos, last_pos, Smaller, UpTo, SlotsBefore
<1>3. /\ first_pos(text) \in Nat /\ last_pos(text) \in Nat /\ Rank(i) \in Nat
      /\ last_pos(text) <= KeyCount
  BY <1>2, PlacementFinite, SubsetCount DEF Rank
<1>4. CASE keys[i] < text
  <2>1. SlotsBefore(i) \subseteq Smaller(text) /\ i \in Smaller(text) /\ i \notin SlotsBefore(i)
    BY <1>1, <1>4, BeforeOrder DEF SlotsBefore, Smaller, Before
  <2>2. Rank(i) < first_pos(text)
    BY <1>2, <2>1, ProperSubset DEF Rank
  <2> QED
    BY <1>1, <1>3, <1>4, <2>2
<1>5. CASE keys[i] > text
  <2>1. UpTo(text) \subseteq SlotsBefore(i)
    BY <1>1, <1>5 DEF SlotsBefore, UpTo, Before
  <2>2. last_pos(text) <= Rank(i)
    BY <1>2, <2>1, SubsetCount DEF Rank
  <2> QED
    BY <1>1, <1>3, <1>5, <2>2
<1>6. CASE keys[i] = text
  <2>1. Smaller(text) \subseteq SlotsBefore(i)
    BY <1>1, <1>6 DEF SlotsBefore, Smaller, Before
  <2>2. SlotsBefore(i) \subseteq UpTo(text) /\ i \in UpTo(text) /\ i \notin SlotsBefore(i)
    BY <1>1, <1>6, BeforeOrder DEF SlotsBefore, UpTo, Before
  <2>3. first_pos(text) <= Rank(i) /\ Rank(i) < last_pos(text)
    BY <1>2, <2>1, <2>2, ProperSubset, SubsetCount DEF Rank
  <2> QED
    BY <1>3, <1>6, <2>3
<1> QED
  BY <1>1, <1>3, <1>4, <1>5, <1>6

LEMMA OrderedFromInv ==
  ASSUME PlacementIInv, OrderInv
  PROVE  RangeInEntryOrder
<1> SUFFICES ASSUME status = "made", Multi, NEW text \in Texts
             PROVE  /\ {equal_range(text)[n] : n \in DOMAIN equal_range(text)} = EntriesOf(text)
                    /\ \A m, n \in DOMAIN equal_range(text) :
                         m < n => equal_range(text)[m] < equal_range(text)[n]
  BY DEF RangeInEntryOrder, EntriesOf
<1> DEFINE first == first_pos(text)
           last == last_pos(text)
           at(n) == sorted_index(first + n - 1)
<1>1. PlacementTypeOK /\ 0 \in Index
  BY PlacementAssumption DEF PlacementIInv, Index
<1>2. first \in Nat /\ last \in Nat /\ last <= KeyCount
  BY <1>1, PositionsOfKey
<1>3. \A slot \in Index : values[slot] # None /\ values[slot] \in Index
  BY DEF PlacementIInv, PlacementTypeOK, PlacedInv
<1>4. /\ DOMAIN equal_range(text) = 1 .. last - first
      /\ \A n \in 1 .. last - first : equal_range(text)[n] = values[at(n)]
  BY DEF equal_range
<1> HIDE DEF first, last
<1>5. ASSUME NEW n \in 1 .. last - first
      PROVE  at(n) \in Index /\ Rank(at(n)) = first + n - 1 /\ keys[at(n)] = text
  <2>1. first + n - 1 \in Index /\ first <= first + n - 1 /\ first + n - 1 < last
    BY <1>2, PlacementAssumption DEF Index
  <2>2. at(n) \in Index /\ Rank(at(n)) = first + n - 1
    BY <1>1, <2>1, RankIsBijection
  <2> QED
    BY <1>1, <2>1, <2>2, PositionsOfKey DEF first, last
<1> HIDE DEF at
<1>6. ASSUME NEW n \in 1 .. last - first
      PROVE  values[at(n)] \in EntriesOf(text)
  BY <1>3, <1>5 DEF PlacementIInv, ValuesInOwnSlots, EntriesOf
<1>7. ASSUME NEW e \in EntriesOf(text)
      PROVE  \E n \in 1 .. last - first : values[at(n)] = e
  <2>1. PICK slot \in Index : values[slot] = e
    BY FullIsComplete DEF NoValueLost, EntriesOf
  <2>2. keys[slot] = text
    BY <1>3, <2>1 DEF PlacementIInv, ValuesInOwnSlots, EntriesOf
  <2>3. Rank(slot) \in Index /\ first <= Rank(slot) /\ Rank(slot) < last
    BY <1>1, <2>2, RankIsBijection, PositionsOfKey DEF first, last
  <2> DEFINE n == Rank(slot) - first + 1
  <2>4. n \in 1 .. last - first /\ first + n - 1 = Rank(slot)
    BY <1>2, <2>3 DEF Index
  <2>5. at(n) = slot
    BY <1>1, <1>5, <2>4, RankIsBijection
  <2> QED
    BY <2>1, <2>4, <2>5
<1>8. ASSUME NEW m \in 1 .. last - first, NEW n \in 1 .. last - first, m < n
      PROVE  values[at(m)] < values[at(n)]
  <2>1. Rank(at(m)) < Rank(at(n)) /\ Rank(at(m)) \in Int /\ Rank(at(n)) \in Int
    BY <1>2, <1>5, <1>8
  <2>2. at(m) \in Int /\ at(n) \in Int /\ keys[at(m)] \in Int
    BY <1>1, <1>5, BeforeOrder
  <2>3. ~Before(at(n), at(m)) /\ at(m) # at(n)
    <3>1. Before(at(n), at(m)) => Rank(at(n)) < Rank(at(m))
      BY <1>1, <1>5, RankGrows
    <3> QED
      BY <2>1, <3>1
  <2>4. at(m) < at(n)
    BY <1>5, <2>2, <2>3 DEF Before
  <2> QED
    BY <1>3, <1>5, <2>4 DEF OrderInv
<1> QED
  BY <1>4, <1>6, <1>7, <1>8
-----------------------------------------------------------------------------
LEMMA PlacementAlways == Spec => [](PlacementIInv /\ MatchInv /\ OrderInv)
<1>1. PlacementIInv /\ MatchInv /\ OrderInv /\ [Next]_vars => (PlacementIInv /\ MatchInv /\ OrderInv)'
  BY PlacementStep, MatchStep, OrderStep
<1> QED
  BY <1>1, PlacementInit, MatchInit, PTL DEF Spec

(* Types, and every value in one slot of its own key.                      *)
THEOREM PlacementTypeCorrect == Spec => []PlacementTypeOK
<1>1. PlacementIInv /\ [Next]_vars => PlacementIInv'
  BY PlacementStep
<1>2. PlacementIInv => PlacementTypeOK
  BY DEF PlacementIInv
<1> QED
  BY <1>1, <1>2, PlacementInit, PTL DEF Spec

(* A value stands in a slot of the key it was given with, and only there.  *)
THEOREM ValuesStandInOwnSlots == Spec => []ValuesInOwnSlots
<1>1. PlacementIInv /\ [Next]_vars => PlacementIInv'
  BY PlacementStep
<1>2. PlacementIInv => ValuesInOwnSlots
  BY DEF PlacementIInv
<1> QED
  BY <1>1, <1>2, PlacementInit, PTL DEF Spec

(* A container is made only with the value of every entry in it, also by   *)
(* the constructor of the multimap that never reports an unplaced entry.   *)
THEOREM NoValueIsLost == Spec => []NoValueLost
<1>1. PlacementIInv /\ [Next]_vars => PlacementIInv'
  BY PlacementStep
<1>2. PlacementIInv => NoValueLost
  BY FullIsComplete
<1> QED
  BY <1>1, <1>2, PlacementInit, PTL DEF Spec

(* No round of the loop moves or replaces a value placed before.           *)
THEOREM PlacedValuesStay == Spec => PlacedStay
<1>1. PlacementIInv /\ [Next]_vars => PlacementIInv'
  BY PlacementStep
<1>2. PlacementIInv /\ [Next]_vars
        => [\A slot \in Index : values[slot] # None => values'[slot] = values[slot]]_vars
  BY PlacementStep
<1> QED
  BY <1>1, <1>2, PlacementInit, PTL DEF Spec, PlacedStay

(* A container is made from exactly the entries whose keys are its own,    *)
(* each as often as it is declared, by all four functions: no mismatch is  *)
(* accepted, and no matching array of entries refused.                     *)
THEOREM AcceptsExactlyMatching == Spec => []AcceptedExactlyWhenMatching
<1>1. PlacementIInv /\ MatchInv => AcceptedExactlyWhenMatching
  BY MatchingFromInv
<1> QED
  BY <1>1, PlacementAlways, PTL

(* The range of a key of a multimap holds the values given with that key,  *)
(* all of them and in the order of the entries, however the keys are       *)
(* declared.                                                               *)
THEOREM RangesKeepEntryOrder == Spec => []RangeInEntryOrder
<1>1. PlacementIInv /\ OrderInv => RangeInEntryOrder
  BY OrderedFromInv
<1> QED
  BY <1>1, PlacementAlways, PTL
=============================================================================
