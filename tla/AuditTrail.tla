------------------------------ MODULE AuditTrail ------------------------------
(***************************************************************************)
(* What the proxy promises of the audit trail of each turn, whatever       *)
(* becomes of the client, the upstream and the goroutines.  A request has  *)
(* at most one row, at any time.  A response has none before its body is   *)
(* closed; then it is recorded in one of two ways, as rows of its tool     *)
(* calls, one after the other from the first, or as one row for what could *)
(* not be parsed; and nothing follows once the record is finished.         *)
(***************************************************************************)
EXTENDS Naturals

CONSTANTS
  Turn,                 \* the requests clients send
  MaxTools              \* bound on the tool calls of a response

VARIABLES
  closed,               \* turns whose response the client has all it will get of
  finished,             \* turns whose response is recorded
  trail                 \* the rows recorded

vars == <<closed, finished, trail>>

Row(t, kind, n) == [turn |-> t, kind |-> kind, n |-> n]

(* The rows of the first n tool calls of turn t.                           *)
First(t, n) == {Row(t, "response", i) : i \in 1..n}

(* What is recorded of the response of turn t.                             *)
ResponseTrail(t) == {r \in trail : r.turn = t /\ r.kind # "request"}

Init ==
  /\ closed = {}
  /\ finished = {}
  /\ trail = {}

RecordRequest(t) ==
  /\ Row(t, "request", 0) \notin trail
  /\ trail' = trail \cup {Row(t, "request", 0)}
  /\ UNCHANGED <<closed, finished>>

CloseBody(t) ==
  /\ t \notin closed
  /\ closed' = closed \cup {t}
  /\ UNCHANGED <<finished, trail>>

(* The next tool call, which may be the last.                              *)
RecordCall(t, n) ==
  /\ t \in closed \ finished
  /\ ResponseTrail(t) = First(t, n - 1)
  /\ trail' = trail \cup {Row(t, "response", n)}
  /\ finished' \in {finished, finished \cup {t}}
  /\ UNCHANGED closed

RecordUnprocessed(t) ==
  /\ t \in closed \ finished
  /\ ResponseTrail(t) = {}
  /\ trail' = trail \cup {Row(t, "unprocessed", 0)}
  /\ finished' = finished \cup {t}
  /\ UNCHANGED closed

Next ==
  \E t \in Turn :
    \/ RecordRequest(t) \/ CloseBody(t) \/ RecordUnprocessed(t)
    \/ \E n \in 1..MaxTools : RecordCall(t, n)

Spec == Init /\ [][Next]_vars
===============================================================================
