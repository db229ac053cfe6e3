------------------------------ MODULE AuditQueue ------------------------------
(***************************************************************************)
(* What a batcher promises its callers, whatever its size, its interval    *)
(* and the scheduling of its goroutine.  An accepted event joins a first-  *)
(* in-first-out queue; a prefix of the queue leaves it at a time, either   *)
(* as one insert block given to ClickHouse or lost as a whole; it never    *)
(* comes back, so nothing is retried, nothing is inserted twice and no     *)
(* block is split.  A block that was given to ClickHouse commits at any    *)
(* later time, or never.                                                   *)
(***************************************************************************)
EXTENDS Naturals, Sequences

CONSTANT Event          \* the events callers may offer

VARIABLES
  accepted,             \* events ever accepted
  pending,              \* accepted events not yet handed over, oldest first
  wire,                 \* insert blocks whose fate ClickHouse has not decided
  table                 \* events that are rows of the table

vars == <<accepted, pending, wire, table>>

Init ==
  /\ accepted = {}
  /\ pending = <<>>
  /\ wire = {}
  /\ table = {}

Accept(e) ==
  /\ e \notin accepted
  /\ accepted' = accepted \cup {e}
  /\ pending' = Append(pending, e)
  /\ UNCHANGED <<wire, table>>

(* The n oldest events leave the queue together.                           *)
Leave(n) ==
  /\ pending' = SubSeq(pending, n + 1, Len(pending))
  /\ UNCHANGED <<accepted, table>>

HandOver(n) ==
  /\ Leave(n)
  /\ wire' = wire \cup {{pending[i] : i \in 1..n}}

Lose(n) ==
  /\ Leave(n)
  /\ UNCHANGED wire

Commit(block) ==
  /\ wire' = wire \ {block}
  /\ table' = table \cup block
  /\ UNCHANGED <<accepted, pending>>

Next ==
  \/ \E e \in Event : Accept(e)
  \/ \E n \in 1..Len(pending) : HandOver(n) \/ Lose(n)
  \/ \E block \in wire : Commit(block)

Spec == Init /\ [][Next]_vars
===============================================================================
