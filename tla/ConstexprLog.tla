---------------------------- MODULE ConstexprLog ----------------------------
(***************************************************************************)
(* constexpr_log of log.hpp: messages collected while the program is       *)
(* compiled, in one character buffer of fixed capacity with the offset at  *)
(* which each message starts.  A call of log or log_format is one step;    *)
(* frozen_format's text is any message.                                    *)
(***************************************************************************)
EXTENDS Integers, Sequences

CONSTANTS
  Chars,        \* the characters of messages and of the time stamp
  Newline,      \* '\n'
  Zero,         \* '\0', what the buffer holds at first
  Messages,     \* the messages that can be logged
  Prefix,       \* "[" time "] " with WithTimestamp, empty without
  Capacity,     \* template parameter Capacity
  MaxMessages,  \* template parameter MaxMessages
  Levels,       \* the log levels in use
  MinLevel      \* template parameter MinLevel

ASSUME LogAssumption ==
  /\ Newline \in Chars
  /\ Messages \subseteq Seq(Chars)
  /\ Prefix \in Seq(Chars)
  /\ Capacity \in Nat
  /\ MaxMessages \in Nat
  /\ Levels \subseteq Int /\ MinLevel \in Int

VARIABLES
  buffer,   \* buffer: position -> character
  starts,   \* starts: message index -> position
  length,   \* the next position to be written
  count,    \* messages stored
  result    \* what the last call returned, TRUE before the first

vars == <<buffer, starts, length, count, result>>
-----------------------------------------------------------------------------
Positions == 0 .. Capacity - 1

End(i) == IF i + 1 < count THEN starts[i + 1] ELSE length

(* The characters of buf from start on, n of them.                         *)
Slice(buf, start, n) == [k \in 1 .. n |-> buf[start + k - 1]]

(* The text of a line that starts at start and stops before end, without   *)
(* one line end.                                                           *)
View(buf, start, end) ==
  LET len == end - start
  IN  Slice(buf, start, IF len > 0 /\ buf[start + len - 1] = Newline THEN len - 1 ELSE len)

(* Mutant: every line end of the message is taken off.                     *)
MessageTrimmed(i) ==
  LET len == End(i) - starts[i]
      cut == CHOOSE n \in 0 .. len :
               /\ \A k \in n + 1 .. len : buffer[starts[i] + k - 1] = Newline
               /\ n > 0 => buffer[starts[i] + n - 1] # Newline
  IN  Slice(buffer, starts[i], cut)

(* message(i): the text up to the next message, without one line end.      *)
Message(i) == View(buffer, starts[i], End(i))

(* Mutant: the line end is not counted.                                    *)
FitsWithoutLineEnd(msg) ==
  /\ count # MaxMessages
  /\ ~(Capacity - length < Len(Prefix) + Len(msg))

(* The two early returns of append_line.                                   *)
Fits(msg) ==
  /\ count # MaxMessages
  /\ ~(Capacity - length < Len(Prefix) + Len(msg) + 1)

(* The line append_char writes, one character after the other.             *)
Line(msg) == Prefix \o msg \o <<Newline>>
-----------------------------------------------------------------------------
Init ==
  /\ buffer = [p \in Positions |-> Zero]
  /\ starts = [i \in 0 .. MaxMessages - 1 |-> 0]
  /\ length = 0
  /\ count = 0
  /\ result = TRUE

AppendLine(msg) ==
  /\ Fits(msg)
  /\ starts' = [starts EXCEPT ![count] = length]
  /\ buffer' = [p \in Positions |->
                  IF p \in length .. length + Len(Line(msg)) - 1
                  THEN Line(msg)[p - length + 1] ELSE buffer[p]]
  /\ length' = length + Len(Line(msg))
  /\ count' = count + 1
  /\ result' = TRUE

RefuseLine(msg) ==
  /\ ~Fits(msg)
  /\ result' = FALSE
  /\ UNCHANGED <<buffer, starts, length, count>>

(* log<level>(msg), log_format<..., level>(...): a message below the       *)
(* minimum level is dropped and counts as handled.                         *)
Log(level, msg) ==
  \/ level >= MinLevel /\ (AppendLine(msg) \/ RefuseLine(msg))
  \/ level < MinLevel /\ result' = TRUE /\ UNCHANGED <<buffer, starts, length, count>>

Next == \E level \in Levels, msg \in Messages : Log(level, msg)

Spec == Init /\ [][Next]_vars
-----------------------------------------------------------------------------
TypeOK ==
  /\ buffer \in [Positions -> Chars \cup {Zero}]
  /\ starts \in [0 .. MaxMessages - 1 -> 0 .. Capacity]
  /\ length \in 0 .. Capacity
  /\ count \in 0 .. MaxMessages
  /\ result \in BOOLEAN

(* What the views of the log say: the text of message(i) at i + 1.         *)
StoredLines == [n \in 1 .. count |-> Message(n - 1)]

PromisedLog == INSTANCE LineLog
  WITH Lines <- {Prefix \o msg : msg \in Messages}, lines <- StoredLines, used <- length

(* log.hpp:155: message(i) always returns a complete line; a line that     *)
(* does not fit is refused as a whole and nothing of it is ever visible,   *)
(* also for empty messages and for messages with line ends of their own.   *)
LogPromise == PromisedLog!Spec

(* A view handed out stays right: no later call changes a stored message,  *)
(* its text or the place it starts at.                                     *)
StoredMessagesStay ==
  [][\A i \in 0 .. count - 1 : starts'[i] = starts[i] /\ Message(i)' = Message(i)]_vars
=============================================================================
