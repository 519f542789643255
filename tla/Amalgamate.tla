----------------------------- MODULE Amalgamate -----------------------------
(***************************************************************************)
(* tools/amalgamate.py, which makes the single headers: headers are        *)
(* written out in place of their #include, each of them once.  A header is *)
(* a sequence of lines: code, "pragma", or the header it includes.         *)
(***************************************************************************)
EXTENDS OneCall

Lines == [kind : {"code", "pragma", "include"}, to : STRING]
IsHeaderJob(j) == j.headers \in [DOMAIN j.headers -> Seq(Lines)] /\ j.entries \in Seq(STRING)

(* resolve: the headers that are being written out, the innermost first,   *)
(* each with the line it has come to; visited is shared by the entries.    *)
AmalgamateStart == [entry |-> 1, open |-> <<>>, visited |-> {}, out |-> <<>>]
Amalgamates == Runs("amalgamate")
Include == job.headers
Top == st.open[1]
TheLine == Include[Top.header][Top.line]
Onwards(open) == <<[header |-> open[1].header, line |-> open[1].line + 1]>> \o Tail(open)

(* Mutant: every entry has a visited of its own.                           *)
VisitedOfEntry(s) == {}

VisitedAfter(s) == s.visited

EnterEntry ==
  /\ Amalgamates /\ st.open = <<>> /\ st.entry <= Len(job.entries)
  /\ LET entry == job.entries[st.entry]
     IN  IF entry \in VisitedAfter(st) THEN Goes([st EXCEPT !.entry = @ + 1])
         ELSE IF entry \notin DOMAIN Include THEN Returns("not found")
         ELSE Goes([st EXCEPT !.entry = @ + 1, !.open = <<[header |-> entry, line |-> 1]>>,
                              !.visited = VisitedAfter(st) \cup {entry}])

Reading == Amalgamates /\ st.open # <<>> /\ Top.line <= Len(Include[Top.header])

(* #include "...": the header is written out here unless it was before.    *)
Inline ==
  /\ Reading /\ TheLine.kind = "include"
  /\ IF TheLine.to \notin DOMAIN Include THEN Returns("not found")
     ELSE IF TheLine.to \in st.visited THEN Goes([st EXCEPT !.open = Onwards(@)])
     ELSE Goes([st EXCEPT !.open = <<[header |-> TheLine.to, line |-> 1]>> \o Onwards(@),
                          !.visited = @ \cup {TheLine.to}])

Copy ==
  /\ Reading /\ TheLine.kind # "include"
  /\ Goes([st EXCEPT !.open = Onwards(@),
                     !.out = IF TheLine.kind = "pragma" THEN @ ELSE Append(@, Top)])

LeaveHeader ==
  /\ Amalgamates /\ st.open # <<>> /\ Top.line > Len(Include[Top.header])
  /\ Goes([st EXCEPT !.open = Tail(@)])

Written == /\ Amalgamates /\ st.open = <<>> /\ st.entry > Len(job.entries)
           /\ Returns(st.out)

AmalgamateNext == EnterEntry \/ Inline \/ Copy \/ LeaveHeader \/ Written
=============================================================================
