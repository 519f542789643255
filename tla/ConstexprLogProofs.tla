------------------------- MODULE ConstexprLogProofs -------------------------
(***************************************************************************)
(* constexpr_log keeps the promise of LineLog for every capacity, message  *)
(* limit, prefix and set of messages.                                      *)
(***************************************************************************)
EXTENDS ConstexprLog, SequenceTheorems, TLAPS

(* Every stored message ends, within the used part of the buffer, with a   *)
(* line end of its own: that is the one message(i) takes off, so that line *)
(* ends of the message itself survive.                                     *)
LinesInv ==
  \A i \in 0 .. count - 1 :
    /\ starts[i] < End(i)
    /\ End(i) <= length
    /\ buffer[End(i) - 1] = Newline

LogIInv == TypeOK /\ LinesInv

LEMMA LineFacts ==
  ASSUME NEW msg \in Messages
  PROVE  /\ Prefix \o msg \in Seq(Chars)
         /\ Len(Prefix \o msg) = Len(Prefix) + Len(msg)
         /\ Line(msg) \in Seq(Chars)
         /\ Len(Line(msg)) = Len(Prefix) + Len(msg) + 1
         /\ Line(msg)[Len(Line(msg))] = Newline
         /\ \A k \in 1 .. Len(Prefix \o msg) : Line(msg)[k] = (Prefix \o msg)[k]
<1>1. msg \in Seq(Chars) /\ Prefix \in Seq(Chars) /\ <<Newline>> \in Seq(Chars)
  BY LogAssumption
<1>2. /\ Prefix \o msg \in Seq(Chars)
      /\ Len(Prefix \o msg) = Len(Prefix) + Len(msg)
  BY <1>1
<1>3. Len(Prefix) \in Nat /\ Len(msg) \in Nat
  BY <1>1
<1> DEFINE text == Prefix \o msg
<1> HIDE DEF text
<1>4. /\ text \o <<Newline>> \in Seq(Chars)
      /\ Len(text \o <<Newline>>) = Len(text) + 1
      /\ (text \o <<Newline>>)[Len(text) + 1] = Newline
      /\ \A k \in 1 .. Len(text) : (text \o <<Newline>>)[k] = text[k]
  BY <1>1, <1>2 DEF text
<1>5. Line(msg) = text \o <<Newline>>
  BY DEF Line, text
<1> QED
  BY <1>2, <1>3, <1>4, <1>5 DEF text

LEMMA LogInit == Init => LogIInv
BY LogAssumption DEF Init, LogIInv, TypeOK, LinesInv, Positions

(* What one accepted call does to the buffer.                              *)
LEMMA AppendEffect ==
  ASSUME LogIInv, NEW msg \in Messages, AppendLine(msg)
  PROVE  /\ count < MaxMessages /\ count' = count + 1
         /\ length' = length + Len(Prefix \o msg) + 1
         /\ length' <= Capacity
         /\ \A p \in 0 .. length - 1 : buffer'[p] = buffer[p]
         /\ \A k \in 1 .. Len(Prefix \o msg) : buffer'[length + k - 1] = (Prefix \o msg)[k]
         /\ buffer'[length' - 1] = Newline
         /\ TypeOK'
<1>1. /\ Len(Line(msg)) \in Nat
      /\ Len(Line(msg)) = Len(Prefix \o msg) + 1
      /\ Len(Prefix \o msg) \in Nat
      /\ Len(Prefix \o msg) = Len(Prefix) + Len(msg)
      /\ Len(Prefix) \in Nat /\ Len(msg) \in Nat
  BY LineFacts, LogAssumption
<1>2. /\ count < MaxMessages /\ count' = count + 1
      /\ length' = length + Len(Prefix \o msg) + 1
      /\ length' <= Capacity
  BY <1>1, LogAssumption DEF AppendLine, Fits, LogIInv, TypeOK
<1>3. \A p \in Positions :
        buffer'[p] = IF p \in length .. length + Len(Line(msg)) - 1
                     THEN Line(msg)[p - length + 1] ELSE buffer[p]
  BY DEF AppendLine
<1>4. length \in 0 .. Capacity /\ Capacity \in Nat
  BY LogAssumption DEF LogIInv, TypeOK
<1>5. \A p \in 0 .. length - 1 : buffer'[p] = buffer[p]
  BY <1>3, <1>4 DEF Positions
<1>6. ASSUME NEW k \in 1 .. Len(Line(msg))
      PROVE  buffer'[length + k - 1] = Line(msg)[k]
  <2>1. /\ length + k - 1 \in Positions
        /\ length + k - 1 \in length .. length + Len(Line(msg)) - 1
        /\ (length + k - 1) - length + 1 = k
    BY <1>1, <1>2, <1>4 DEF Positions
  <2> QED
    BY <1>3, <2>1
<1>7. \A k \in 1 .. Len(Prefix \o msg) : buffer'[length + k - 1] = (Prefix \o msg)[k]
  BY <1>1, <1>6, LineFacts, SMTT(40)
<1>8. buffer'[length' - 1] = Newline
  <2>1. Len(Line(msg)) \in 1 .. Len(Line(msg))
    BY <1>1
  <2>2. buffer'[length + Len(Line(msg)) - 1] = Newline
    BY <1>6, <2>1, LineFacts
  <2>3. length + Len(Line(msg)) - 1 = length' - 1
    BY <1>1, <1>2, <1>4
  <2> QED
    BY <2>2, <2>3
<1>9. TypeOK'
  <2>1. \A p \in Positions : buffer'[p] \in Chars \cup {Zero}
    <3>1. \A k \in 1 .. Len(Line(msg)) : Line(msg)[k] \in Chars
      BY LineFacts
    <3>2. ASSUME NEW p \in Positions, p \in length .. length + Len(Line(msg)) - 1
          PROVE  p - length + 1 \in 1 .. Len(Line(msg))
      BY <1>1, <1>4, <3>2
    <3> QED
      BY <1>3, <3>1, <3>2 DEF LogIInv, TypeOK
  <2>2. buffer' \in [Positions -> Chars \cup {Zero}]
    BY <2>1 DEF AppendLine
  <2>3. starts' \in [0 .. MaxMessages - 1 -> 0 .. Capacity]
    BY <1>2, LogAssumption DEF AppendLine, LogIInv, TypeOK
  <2> QED
    BY <1>1, <1>2, <1>4, <2>2, <2>3, LogAssumption DEF AppendLine, LogIInv, TypeOK
<1> QED
  BY <1>2, <1>5, <1>7, <1>8, <1>9
-----------------------------------------------------------------------------
(* A line that ends with a line end is shown as the text before it.        *)
LEMMA ViewText ==
  ASSUME NEW buf, NEW start \in Nat, NEW end \in Nat, start < end, buf[end - 1] = Newline
  PROVE  /\ end - start - 1 \in Nat
         /\ View(buf, start, end) = Slice(buf, start, end - start - 1)
<1>1. /\ end - start > 0 /\ start + (end - start) - 1 = end - 1
      /\ (end - start) - 1 = end - start - 1 /\ end - start - 1 \in Nat
  OBVIOUS
<1> QED
  BY <1>1 DEF View

LEMMA SliceSame ==
  ASSUME NEW one, NEW other, NEW start \in Nat, NEW n \in Nat,
         \A k \in 1 .. n : one[start + k - 1] = other[start + k - 1]
  PROVE  Slice(one, start, n) = Slice(other, start, n)
BY DEF Slice

(* Where a stored message starts and ends.                                 *)
LEMMA StoredBounds ==
  ASSUME LogIInv, NEW i \in 0 .. count - 1
  PROVE  /\ starts[i] \in Nat /\ End(i) \in Nat
         /\ starts[i] < End(i) /\ End(i) <= length /\ length \in Nat
         /\ buffer[End(i) - 1] = Newline
<1>1. /\ count \in 0 .. MaxMessages /\ MaxMessages \in Nat /\ Capacity \in Nat
      /\ starts \in [0 .. MaxMessages - 1 -> 0 .. Capacity]
      /\ length \in 0 .. Capacity
  BY LogAssumption DEF LogIInv, TypeOK
<1>2. starts[i] < End(i) /\ End(i) <= length /\ buffer[End(i) - 1] = Newline
  BY DEF LogIInv, LinesInv
<1>3. starts[i] \in Nat
  BY <1>1
<1>4. End(i) \in Nat
  <2>1. CASE i + 1 < count
    BY <1>1, <2>1 DEF End
  <2>2. CASE ~(i + 1 < count)
    BY <1>1, <2>2 DEF End
  <2> QED
    BY <2>1, <2>2
<1> QED
  BY <1>1, <1>2, <1>3, <1>4

(* What an accepted call does to the offsets.                              *)
LEMMA AppendBounds ==
  ASSUME LogIInv, NEW msg \in Messages, AppendLine(msg), NEW last, last = count
  PROVE  /\ starts'[last] = length /\ End(last)' = length'
         /\ \A i \in 0 .. count - 1 : starts'[i] = starts[i] /\ End(i)' = End(i)
<1>1. /\ length \in 0 .. Capacity /\ count \in 0 .. MaxMessages
      /\ Capacity \in Nat /\ MaxMessages \in Nat
      /\ starts \in [0 .. MaxMessages - 1 -> 0 .. Capacity]
      /\ count < MaxMessages /\ count' = count + 1
  BY LogAssumption, AppendEffect DEF LogIInv, TypeOK
<1>2. starts'[last] = length /\ \A i \in 0 .. count - 1 : starts'[i] = starts[i]
  BY <1>1 DEF AppendLine
<1>3. End(last)' = length'
  BY <1>1 DEF End
<1>4. ASSUME NEW i \in 0 .. count - 1
      PROVE  End(i)' = End(i)
  <2>1. CASE i + 1 < count
    BY <1>1, <1>2, <2>1 DEF End
  <2>2. CASE i + 1 = count
    BY <1>1, <1>2, <2>2 DEF End
  <2> QED
    BY <1>1, <2>1, <2>2
<1> QED
  BY <1>2, <1>3, <1>4

(* An accepted call leaves the stored messages as they are and adds its    *)
(* own text as the last one.                                               *)
LEMMA AppendMessages ==
  ASSUME LogIInv, NEW msg \in Messages, AppendLine(msg), NEW last, last = count
  PROVE  /\ LogIInv'
         /\ \A i \in 0 .. count - 1 : starts'[i] = starts[i] /\ Message(i)' = Message(i)
         /\ Message(last)' = Prefix \o msg
<1> DEFINE text == Prefix \o msg
<1>1. text \in Seq(Chars) /\ Len(text) \in Nat
  BY LineFacts
<1> HIDE DEF text
<1>2. /\ count' = count + 1
      /\ length' = length + Len(text) + 1
      /\ \A p \in 0 .. length - 1 : buffer'[p] = buffer[p]
      /\ \A k \in 1 .. Len(text) : buffer'[length + k - 1] = text[k]
      /\ buffer'[length' - 1] = Newline
      /\ TypeOK'
  BY AppendEffect DEF text
<1>3. /\ starts'[last] = length /\ End(last)' = length'
      /\ \A i \in 0 .. count - 1 : starts'[i] = starts[i] /\ End(i)' = End(i)
  BY AppendBounds
<1>4. length \in Nat /\ count \in Nat
  BY LogAssumption DEF LogIInv, TypeOK
<1>5. ASSUME NEW i \in 0 .. count - 1
      PROVE  /\ starts'[i] < End(i)' /\ End(i)' <= length'
             /\ buffer'[End(i)' - 1] = Newline
             /\ Message(i)' = Message(i)
  <2> DEFINE start == starts[i]
             end == End(i)
  <2>1. /\ start \in Nat /\ end \in Nat /\ start < end /\ end <= length
        /\ buffer[end - 1] = Newline
    BY StoredBounds
  <2>2. starts'[i] = start /\ End(i)' = end
    BY <1>3
  <2>3. Message(i) = View(buffer, start, end)
    BY DEF Message
  <2>4. Message(i)' = View(buffer', start, end)
    BY <2>2 DEF Message
  <2> HIDE DEF start, end
  <2>5. end - 1 \in 0 .. length - 1 /\ end <= length'
    BY <1>1, <1>2, <1>4, <2>1
  <2>6. buffer'[end - 1] = Newline
    BY <1>2, <2>1, <2>5
  <2>7. \A k \in 1 .. end - start - 1 : start + k - 1 \in 0 .. length - 1
    BY <1>4, <2>1
  <2>8. Slice(buffer', start, end - start - 1) = Slice(buffer, start, end - start - 1)
    <3>1. end - start - 1 \in Nat
      BY <2>1
    <3>2. \A k \in 1 .. end - start - 1 : buffer'[start + k - 1] = buffer[start + k - 1]
      BY <1>2, <2>7
    <3> QED
      BY <2>1, <3>1, <3>2, SliceSame, ZenonT(60)
  <2>9. View(buffer', start, end) = View(buffer, start, end)
    BY <2>1, <2>6, <2>8, ViewText
  <2> QED
    BY <2>1, <2>2, <2>3, <2>4, <2>5, <2>6, <2>9 DEF start, end
<1>6. LinesInv'
  <2> SUFFICES ASSUME NEW i \in 0 .. count
               PROVE  /\ starts'[i] < End(i)'
                      /\ End(i)' <= length'
                      /\ buffer'[End(i)' - 1] = Newline
    BY <1>2, <1>4 DEF LinesInv
  <2>1. CASE i \in 0 .. count - 1
    BY <1>5, <2>1
  <2>2. CASE i = count
    <3>1. length < length' /\ length' <= length'
      BY <1>1, <1>2, <1>4
    <3>2. starts'[i] = length /\ End(i)' = length'
      BY AppendBounds, <2>2
    <3> QED
      BY <1>2, <3>1, <3>2
  <2> QED
    BY <1>4, <2>1, <2>2
<1>7. LogIInv'
  BY <1>2, <1>6 DEF LogIInv
<1>8. Message(last)' = text
  <2>1. /\ length' \in Nat /\ length < length' /\ length' - length - 1 = Len(text)
    BY <1>1, <1>2, <1>4
  <2>2. Message(last)' = View(buffer', length, length')
    BY <1>3 DEF Message
  <2>3. View(buffer', length, length') = Slice(buffer', length, Len(text))
    BY <1>2, <1>4, <2>1, ViewText
  <2>4. Slice(buffer', length, Len(text)) = [k \in 1 .. Len(text) |-> text[k]]
    BY <1>2 DEF Slice
  <2>5. text = [k \in 1 .. Len(text) |-> text[k]]
    BY <1>1
  <2> QED
    BY <2>2, <2>3, <2>4, <2>5
<1> QED
  BY <1>3, <1>5, <1>7, <1>8 DEF text
-----------------------------------------------------------------------------
(* A call that stores nothing keeps everything but its answer.             *)
LEMMA KeepsLog ==
  ASSUME LogIInv, UNCHANGED <<buffer, starts, length, count>>, result' \in BOOLEAN
  PROVE  /\ LogIInv'
         /\ \A i \in 0 .. count - 1 : starts'[i] = starts[i] /\ Message(i)' = Message(i)
BY DEF LogIInv, TypeOK, LinesInv, End, Message

LEMMA LogStep ==
  ASSUME LogIInv, [Next]_vars
  PROVE  /\ LogIInv'
         /\ \A i \in 0 .. count - 1 : starts'[i] = starts[i] /\ Message(i)' = Message(i)
<1>1. ASSUME NEW msg \in Messages, AppendLine(msg)
      PROVE  /\ LogIInv'
             /\ \A i \in 0 .. count - 1 : starts'[i] = starts[i] /\ Message(i)' = Message(i)
  <2>1. ASSUME NEW last, last = count
        PROVE  /\ LogIInv'
               /\ \A i \in 0 .. count - 1 : starts'[i] = starts[i] /\ Message(i)' = Message(i)
    BY <1>1, <2>1, AppendMessages
  <2> QED
    BY <2>1
<1>2. CASE UNCHANGED <<buffer, starts, length, count>> /\ result' \in BOOLEAN
  BY <1>2, KeepsLog
<1>3. CASE UNCHANGED vars
  BY <1>3, KeepsLog DEF vars, LogIInv, TypeOK
<1>4. ASSUME NEW level \in Levels, NEW msg \in Messages, Log(level, msg)
      PROVE  \/ AppendLine(msg)
             \/ UNCHANGED <<buffer, starts, length, count>> /\ result' \in BOOLEAN
  BY <1>4 DEF Log, RefuseLine
<1> QED
  BY <1>1, <1>2, <1>3, <1>4 DEF Next

(* Buffer, offsets and counters stay within their arrays whatever is       *)
(* logged: append_char never writes past Capacity, starts[count] never     *)
(* past MaxMessages.                                                       *)
THEOREM LogTypeCorrect == Spec => []TypeOK
<1>1. Init => LogIInv
  BY LogInit
<1>2. LogIInv /\ [Next]_vars => LogIInv'
  BY LogStep
<1>3. LogIInv => TypeOK
  BY DEF LogIInv
<1> QED
  BY <1>1, <1>2, <1>3, PTL DEF Spec

(* A view handed out by message(i) stays right whatever is logged later.   *)
THEOREM StoredMessagesStayPut == Spec => StoredMessagesStay
<1>1. Init => LogIInv
  BY LogInit
<1>2. LogIInv /\ [Next]_vars => LogIInv'
  BY LogStep
<1>3. LogIInv /\ [Next]_vars
        => [\A i \in 0 .. count - 1 : starts'[i] = starts[i] /\ Message(i)' = Message(i)]_vars
  BY LogStep
<1> QED
  BY <1>1, <1>2, <1>3, PTL DEF Spec, StoredMessagesStay
-----------------------------------------------------------------------------
(* Appending is putting one more value behind the last.                    *)
LEMMA AppendIsNext ==
  ASSUME NEW S, NEW n \in Nat, NEW x \in S,
         NEW F \in [1 .. n -> S], NEW G \in [1 .. n + 1 -> S],
         \A k \in 1 .. n : G[k] = F[k], G[n + 1] = x
  PROVE  G = Append(F, x)
<1>1. F \in Seq(S) /\ Len(F) = n /\ G \in Seq(S) /\ Len(G) = n + 1
  OBVIOUS
<1>2. /\ Append(F, x) \in Seq(S)
      /\ Len(Append(F, x)) = n + 1
      /\ \A k \in 1 .. n : Append(F, x)[k] = F[k]
      /\ Append(F, x)[n + 1] = x
  BY <1>1
<1>3. \A k \in 1 .. Len(G) : G[k] = Append(F, x)[k]
  BY <1>1, <1>2
<1> QED
  BY <1>1, <1>2, <1>3, SeqEqual

LEMMA StoredAppend ==
  ASSUME LogIInv, NEW msg \in Messages, AppendLine(msg)
  PROVE  /\ Len(StoredLines) = count
         /\ StoredLines' = Append(StoredLines, Prefix \o msg)
<1> DEFINE n == count
           F == StoredLines
           G == StoredLines'
           x == Prefix \o msg
           S == {F[k] : k \in 1 .. n} \cup {x}
<1>1. n \in Nat /\ count' = n + 1
  BY LogAssumption, AppendEffect DEF LogIInv, TypeOK
<1>2. F \in [1 .. n -> S] /\ \A k \in 1 .. n : F[k] = Message(k - 1)
  BY <1>1 DEF StoredLines
<1>3. G = [k \in 1 .. n + 1 |-> Message(k - 1)'] /\ \A k \in 1 .. n + 1 : G[k] = Message(k - 1)'
  BY <1>1 DEF StoredLines
<1>4. Len(F) = n
  BY <1>1 DEF StoredLines
<1>5. ASSUME NEW k \in 1 .. n
      PROVE  G[k] = F[k]
  <2>1. k - 1 \in 0 .. count - 1 /\ k \in 1 .. n + 1
    BY <1>1
  <2>2. ASSUME NEW i \in 0 .. count - 1
        PROVE  Message(i)' = Message(i)
    <3>1. ASSUME NEW last, last = count
          PROVE  Message(i)' = Message(i)
      BY <3>1, AppendMessages
    <3> QED
      BY <3>1
  <2>3. Message(k - 1)' = Message(k - 1)
    BY <2>1, <2>2
  <2> QED
    BY <1>2, <1>3, <2>1, <2>3
<1>6. G[n + 1] = x
  <2>1. ASSUME NEW last, last = count
        PROVE  G[last + 1] = x
    <3>1. last + 1 \in 1 .. n + 1 /\ (last + 1) - 1 = last
      BY <1>1, <2>1
    <3>2. Message(last)' = x
      BY <2>1, AppendMessages
    <3> QED
      BY <1>3, <3>1, <3>2
  <2> QED
    BY <2>1
<1>7. G \in [1 .. n + 1 -> S]
  <2>1. \A k \in 1 .. n + 1 : k = n + 1 \/ k \in 1 .. n
    BY <1>1
  <2>2. \A k \in 1 .. n + 1 : G[k] \in S
    BY <1>5, <1>6, <2>1
  <2> QED
    BY <1>3, <2>2
<1>8. x \in S
  OBVIOUS
<1> HIDE DEF n, F, G, x, S
<1>9. G = Append(F, x)
  BY <1>1, <1>2, <1>5, <1>6, <1>7, <1>8, AppendIsNext
<1> QED
  BY <1>4, <1>9 DEF n, F, G, x

(* A call that stores nothing shows the same lines as before.              *)
LEMMA StoredStay ==
  ASSUME UNCHANGED <<buffer, starts, length, count>>
  PROVE  StoredLines' = StoredLines
BY DEF StoredLines, Message, End

(* constexpr_log implements the append-only list of whole lines: message   *)
(* always returns a complete line, and a line that does not fit leaves no  *)
(* trace.                                                                  *)
THEOREM LogKeepsPromise == Spec => LogPromise
<1>1. Init => LogIInv /\ PromisedLog!Init
  <2>1. Init => StoredLines = <<>>
    BY DEF Init, StoredLines
  <2> QED
    BY <2>1, LogInit DEF Init, PromisedLog!Init
<1>2. LogIInv /\ [Next]_vars => LogIInv'
  BY LogStep
<1>3. ASSUME LogIInv, [Next]_vars
      PROVE  [PromisedLog!Next]_(PromisedLog!vars)
  <2>1. ASSUME NEW msg \in Messages, AppendLine(msg)
        PROVE  PromisedLog!Keep(Prefix \o msg)
    BY <1>3, <2>1, StoredAppend, AppendEffect
       DEF PromisedLog!Keep, PromisedLog!Room, AppendLine
  <2>2. ASSUME NEW msg \in Messages, RefuseLine(msg)
        PROVE  PromisedLog!Refuse(Prefix \o msg)
    <3>1. /\ count \in 0 .. MaxMessages /\ length \in 0 .. Capacity
          /\ Capacity \in Nat /\ MaxMessages \in Nat
      BY <1>3, LogAssumption DEF LogIInv, TypeOK
    <3>2. Len(StoredLines) = count
      BY <3>1 DEF StoredLines
    <3>3. /\ Len(Prefix \o msg) = Len(Prefix) + Len(msg)
          /\ Len(Prefix) \in Nat /\ Len(msg) \in Nat
      BY LineFacts, LogAssumption
    <3>4. ~PromisedLog!Room(Prefix \o msg)
      BY <2>2, <3>1, <3>2, <3>3 DEF RefuseLine, Fits, PromisedLog!Room
    <3>5. StoredLines' = StoredLines
      BY <2>2, StoredStay DEF RefuseLine
    <3> QED
      BY <2>2, <3>4, <3>5 DEF RefuseLine, PromisedLog!Refuse
  <2>3. CASE result' = TRUE /\ UNCHANGED <<buffer, starts, length, count>>
    BY <2>3, StoredStay DEF PromisedLog!Skip, PromisedLog!Next
  <2>4. CASE UNCHANGED vars
    BY <2>4, StoredStay DEF vars, PromisedLog!vars
  <2>5. ASSUME NEW level \in Levels, NEW msg \in Messages, Log(level, msg)
        PROVE  [PromisedLog!Next]_(PromisedLog!vars)
    <3>1. Prefix \o msg \in {Prefix \o other : other \in Messages}
      OBVIOUS
    <3>2. CASE AppendLine(msg)
      BY <2>1, <3>1, <3>2 DEF PromisedLog!Next
    <3>3. CASE RefuseLine(msg)
      BY <2>2, <3>1, <3>3 DEF PromisedLog!Next
    <3>4. CASE result' = TRUE /\ UNCHANGED <<buffer, starts, length, count>>
      BY <2>3, <3>4
    <3> QED
      BY <2>5, <3>2, <3>3, <3>4 DEF Log
  <2> QED
    BY <1>3, <2>4, <2>5 DEF Next
<1> QED
  BY <1>1, <1>2, <1>3, PTL DEF Spec, LogPromise, PromisedLog!Spec
=============================================================================
