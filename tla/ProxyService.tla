----------------------------- MODULE ProxyService -----------------------------
(***************************************************************************)
(* cmd/proxy/main.go: the proxy process.  The turns of AuditTransport      *)
(* offer their rows to two batchers, one for audit_events and one for      *)
(* unprocessed_events, until main receives a signal, shuts the server      *)
(* down, stops the batchers and returns, which ends every goroutine.       *)
(* Only ClickHouse outlives the process.                                   *)
(*                                                                         *)
(* AuditUnprocessedAsEvent is a mutation of the action it precedes; no     *)
(* specification uses it.                                                  *)
(***************************************************************************)
EXTENDS Naturals, Sequences, FiniteSets, Functions

CONSTANTS Turn, MaxTools, Sizes, BufferFactor

(* Those of AuditTransport and of Batcher.                                 *)
ASSUME BoundsAssumption ==
  MaxTools \in Nat \ {0} /\ Sizes \subseteq Nat /\ BufferFactor \in Nat

VARIABLES
  size,                 \* of the batches of both batchers, cfg.BatchSize
  (* AuditTransport *)
  handler, requestAudit, responseAudit, ended, todo, emitted,
  (* the event batcher, prefix b; its ClickHouse table is audit_events *)
  bCh, bDone, bTicker, bPc, bBatch, bStage, bRows, bWire, bTable,
  bOffered, bDropped, bLate, bAcked, bDiscarded,
  (* the unprocessed batcher, prefix u; unprocessed_events *)
  uCh, uDone, uTicker, uPc, uBatch, uStage, uRows, uWire, uTable,
  uOffered, uDropped, uLate, uAcked, uDiscarded,
  main,                 \* where main() is
  graceful              \* srv.Shutdown returned nil

T == INSTANCE AuditTransport

B == INSTANCE Batcher WITH
  Event <- T!EventRows,
  ch <- bCh, done <- bDone, ticker <- bTicker, pc <- bPc, batch <- bBatch,
  stage <- bStage, rows <- bRows, wire <- bWire, table <- bTable,
  offered <- bOffered, dropped <- bDropped, late <- bLate,
  acked <- bAcked, discarded <- bDiscarded

U == INSTANCE Batcher WITH
  Event <- T!UnprocessedRows,
  ch <- uCh, done <- uDone, ticker <- uTicker, pc <- uPc, batch <- uBatch,
  stage <- uStage, rows <- uRows, wire <- uWire, table <- uTable,
  offered <- uOffered, dropped <- uDropped, late <- uLate,
  acked <- uAcked, discarded <- uDiscarded

turnVars == <<handler, requestAudit, responseAudit, ended, todo, emitted>>
bVars == <<size, bCh, bDone, bTicker, bPc, bBatch, bStage, bRows, bWire, bTable,
           bOffered, bDropped, bLate, bAcked, bDiscarded>>
uVars == <<size, uCh, uDone, uTicker, uPc, uBatch, uStage, uRows, uWire, uTable,
           uOffered, uDropped, uLate, uAcked, uDiscarded>>
server == <<main, graceful>>
vars == <<turnVars, bVars, uVars, server>>

Init ==
  /\ T!Init /\ B!Init /\ U!Init
  /\ main = "serving"
  /\ graceful = FALSE

Running == main # "exited"

-------------------------------------------------------------------------------
(* The turns.                                                              *)

(* A connection accepted before the listener closed may still bring its    *)
(* first request while Shutdown waits.                                     *)
Arrive(t) ==
  /\ main \in {"serving", "shutdown"}
  /\ T!Arrive(t)
  /\ UNCHANGED <<bVars, uVars, server>>

Serve(t) ==
  /\ Running
  /\ T!Serve(t)
  /\ UNCHANGED <<bVars, uVars, server>>

Extract(t) ==
  /\ Running
  /\ T!Extract(t)
  /\ UNCHANGED <<bVars, uVars, server>>

AuditRequest(t) ==
  /\ Running
  /\ T!AuditRequest(t)
  /\ B!Add(T!RequestRow(t))
  /\ UNCHANGED <<uVars, server>>

AuditEvents(t) ==
  /\ Running
  /\ T!AuditResponse(t)
  /\ Head(todo[t]) \in T!EventRows
  /\ B!Add(Head(todo[t]))
  /\ UNCHANGED <<uVars, server>>

AuditUnprocessedAsEvent(t) ==
  /\ Running
  /\ T!AuditResponse(t)
  /\ Head(todo[t]) \in T!UnprocessedRows
  /\ B!Add(Head(todo[t]))
  /\ UNCHANGED <<uVars, server>>

AuditUnprocessed(t) ==
  /\ Running
  /\ T!AuditResponse(t)
  /\ Head(todo[t]) \in T!UnprocessedRows
  /\ U!Add(Head(todo[t]))
  /\ UNCHANGED <<bVars, server>>

AuditResponse(t) == AuditEvents(t) \/ AuditUnprocessed(t)

-------------------------------------------------------------------------------
(* The batchers' goroutines and tickers.                                   *)

EventStep(A) == Running /\ A /\ UNCHANGED <<turnVars, uVars, server>>
UnprocessedStep(A) == Running /\ A /\ UNCHANGED <<turnVars, bVars, server>>

RunEvents == EventStep(B!Run) \/ EventStep(B!Tick)
RunUnprocessed == UnprocessedStep(U!Run) \/ UnprocessedStep(U!Tick)

(* ClickHouse, which does not need the process any more.                   *)
Commit ==
  /\ \/ (\E block \in bWire : B!Commit(block)) /\ UNCHANGED uVars
     \/ (\E block \in uWire : U!Commit(block)) /\ UNCHANGED bVars
  /\ UNCHANGED <<turnVars, server>>

-------------------------------------------------------------------------------
(* main.                                                                   *)

Signal ==
  /\ main = "serving"
  /\ main' = "shutdown"
  /\ UNCHANGED <<turnVars, bVars, uVars, graceful>>

(* ListenAndServe fails in its goroutine: os.Exit, past every Stop.        *)
ServerFails ==
  /\ main = "serving"
  /\ main' = "exited"
  /\ UNCHANGED <<turnVars, bVars, uVars, graceful>>

NoActiveHandler == \A t \in Turn : handler[t] \in {"idle"} \cup T!Final

(* srv.Shutdown waits for the handlers, and for nothing they spawned; it   *)
(* gives up after 30 seconds.                                              *)
ShutdownReturns ==
  /\ main = "shutdown"
  /\ main' = "stopEvents"
  /\ graceful' = NoActiveHandler
  /\ UNCHANGED <<turnVars, bVars, uVars>>

StopEvents ==
  /\ main = "stopEvents"
  /\ B!Stop
  /\ main' = "stopUnprocessed"
  /\ UNCHANGED <<turnVars, uVars, graceful>>

StopUnprocessed ==
  /\ main = "stopUnprocessed"
  /\ U!Stop
  /\ main' = "otelShutdown"
  /\ UNCHANGED <<turnVars, bVars, graceful>>

(* otelShutdown takes what is left of the 30 seconds, or nothing when no   *)
(* exporter is configured; then main returns.                              *)
Exit ==
  /\ main = "otelShutdown"
  /\ main' = "exited"
  /\ UNCHANGED <<turnVars, bVars, uVars, graceful>>

Main == ShutdownReturns \/ StopEvents \/ StopUnprocessed \/ Exit

-------------------------------------------------------------------------------

Next ==
  \/ \E t \in Turn :
       Arrive(t) \/ Serve(t) \/ AuditRequest(t) \/ Extract(t) \/ AuditResponse(t)
  \/ RunEvents \/ RunUnprocessed
  \/ Commit
  \/ Signal \/ ServerFails \/ Main

Spec == Init /\ [][Next]_vars

(* While the process runs its goroutines are scheduled, and each batcher   *)
(* is as fair as module Batcher says (done is never ready while serving).  *)
Fairness ==
  /\ \A t \in Turn :
       WF_vars(AuditRequest(t)) /\ WF_vars(Extract(t) \/ AuditResponse(t))
  /\ WF_vars(EventStep(B!Tick)) /\ WF_vars(EventStep(B!Drain \/ B!Write))
  /\ SF_vars(EventStep(B!ReceiveEvent)) /\ SF_vars(EventStep(B!ReceiveTick))
  /\ WF_vars(UnprocessedStep(U!Tick)) /\ WF_vars(UnprocessedStep(U!Drain \/ U!Write))
  /\ SF_vars(UnprocessedStep(U!ReceiveEvent)) /\ SF_vars(UnprocessedStep(U!ReceiveTick))

(* The proxy that is never told to stop.                                   *)
ServingSpec == Init /\ [][Next /\ main' = "serving"]_vars /\ Fairness

-------------------------------------------------------------------------------
(* Properties.                                                             *)

TypeOK ==
  /\ T!TypeOK /\ B!TypeOK /\ U!TypeOK
  /\ main \in {"serving", "shutdown", "stopEvents", "stopUnprocessed",
               "otelShutdown", "exited"}
  /\ graceful \in BOOLEAN

(* The rows of one response are flushed in the order of its tool calls,    *)
(* whatever other turns and the request's own goroutine put between them:  *)
(* what comes before a row that was flushed was flushed as well, or a full *)
(* channel refused it.  A crash cuts a response short and leaves no gap.   *)
TurnFifo ==
  \A t \in Turn : \A n, m \in 1..MaxTools :
    n < m /\ T!ResponseRow(t, m) \in B!Handed =>
      T!ResponseRow(t, n) \in B!Handed \cup bDropped

(* What ClickHouse holds of a turn, or may still get from an insert in     *)
(* doubt, also after the process has ended: only rows that the turn's      *)
(* goroutines offered, each in the table of its kind; the response in one  *)
(* of the two tables, never in both, and not before its client was served  *)
(* and its span ended.                                                     *)
StoredTrail ==
  LET events      == bTable \cup UNION bWire
      unprocessed == uTable \cup UNION uWire
  IN  /\ events \subseteq emitted \cap T!EventRows
      /\ unprocessed \subseteq emitted \cap T!UnprocessedRows
      /\ \A e \in events, u \in unprocessed : e.turn = u.turn => e.kind = "request"
      /\ \A r \in events \cup unprocessed :
           r.kind # "request" =>
             handler[r.turn] \in {"served", "aborted"} /\ ended[r.turn] = 1

(* The half of DrainedAtExit that the code keeps: what a clean stop loses, *)
(* it loses because main does not wait for the runners.  A runner that had *)
(* the time to end has taken every event accepted before its Stop through  *)
(* a flush.                                                                *)
DrainedIfRun == B!Drained /\ U!Drained

Settled(row) == row \in B!Handed \cup bDropped \cup U!Handed \cup uDropped

(* What a stop leaves of the turns.  Shutdown does not wait for the audit  *)
(* goroutines, so rows are still added before, between and after the two   *)
(* Stops.  When both runners have nevertheless had the time to end, every  *)
(* row that a goroutine added before the Stop of its batcher was through a *)
(* flush, unless a full channel refused it; and a turn whose goroutines    *)
(* were done and added nothing late has its whole trail: the request's row *)
(* and the calls from the first on, or the one unprocessed row.            *)
StoppedTrail ==
  bPc = "exited" /\ uPc = "exited" =>
    /\ \A r \in emitted \ (bLate \cup uLate) : Settled(r)
    /\ \A t \in Turn :
         /\ requestAudit[t] = "done" /\ responseAudit[t] = "done"
         /\ \A r \in bLate \cup uLate : r.turn # t
         => /\ Settled(T!RequestRow(t))
            /\ Settled(T!ResponseRow(t, 1)) \/ Settled(T!UnprocessedRow(t))

(* What Batcher promises of one batcher with any callers holds of both,    *)
(* with the turns as callers and main's Stop: each accepted row is in one  *)
(* place, is at most one row of its table, and is in it when its flush     *)
(* returned nil; slices and channels keep their bounds; the drain leaves   *)
(* only what came after Stop; nothing is dropped before the channel was    *)
(* filled once.                                                            *)
BatchersSafe ==
  /\ B!Ledger /\ B!InsertedOnce /\ B!AckedStored
  /\ B!BatchBound /\ B!StopDrains /\ B!NoEarlyDrop
  /\ U!Ledger /\ U!InsertedOnce /\ U!AckedStored
  /\ U!BatchBound /\ U!StopDrains /\ U!NoEarlyDrop

(* Each batcher is to the turns and to ClickHouse a queue that loses whole *)
(* prefixes and never reorders, retries or splits, whatever the turns, the *)
(* other batcher and main do.                                              *)
TwoQueues == B!ImplementsQueue /\ U!ImplementsQueue

(* And what the turns offer to these queues grows only by the steps of     *)
(* AuditTrail, whatever the batchers, ClickHouse and main do.              *)
TurnTrails == T!ImplementsTrail

(* While the proxy is not told to stop, the audit trail of each turn is    *)
(* finished: its request's row and the rows of its response go through a   *)
(* flush unless a full channel refused them.                               *)
TrailFinished ==
  \A t \in Turn :
    (handler[t] \in {"served", "aborted"}) ~>
      /\ Settled(T!RequestRow(t))
      /\ responseAudit[t] = "done"
      /\ \A r \in emitted : r.turn = t => Settled(r)

(* What the comments on NewBatcher and Stop and the test of Stop promise:  *)
(* Stop drains.  When the process ends after a clean Shutdown, every event *)
(* accepted before Stop has been through a flush.                          *)
DrainedAtExit ==
  main = "exited" /\ graceful =>
                     /\ B!Accepted \ bLate \subseteq B!Handed
                     /\ U!Accepted \ uLate \subseteq U!Handed
===============================================================================
