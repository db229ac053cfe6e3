------------------------------- MODULE BodyCopy -------------------------------
(***************************************************************************)
(* What TapBody promises about one response, however the copy loop and the *)
(* audit goroutine are scheduled and whoever goes away first.  Each chunk  *)
(* is recorded before it is delivered, and the next only after that; the   *)
(* body is closed once, at any time; its record is then final and handed   *)
(* to onComplete once.                                                     *)
(***************************************************************************)
EXTENDS Sequences

CONSTANT Chunk          \* what one Read of the body may return

VARIABLES
  recorded,             \* the copy for the audit
  delivered,            \* what the client was sent
  phase                 \* "open", "closed", "handed"

vars == <<recorded, delivered, phase>>

Init ==
  /\ recorded = <<>>
  /\ delivered = <<>>
  /\ phase = "open"

Record(c) ==
  /\ phase = "open"
  /\ recorded = delivered
  /\ recorded' = Append(recorded, c)
  /\ UNCHANGED <<delivered, phase>>

Deliver ==
  /\ phase = "open"
  /\ recorded # delivered
  /\ delivered' = recorded
  /\ UNCHANGED <<recorded, phase>>

CloseBody ==
  /\ phase = "open"
  /\ phase' = "closed"
  /\ UNCHANGED <<recorded, delivered>>

HandOver ==
  /\ phase = "closed"
  /\ phase' = "handed"
  /\ UNCHANGED <<recorded, delivered>>

Next == (\E c \in Chunk : Record(c)) \/ Deliver \/ CloseBody \/ HandOver

Spec == Init /\ [][Next]_vars
===============================================================================
