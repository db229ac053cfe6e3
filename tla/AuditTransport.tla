---------------------------- MODULE AuditTransport ----------------------------
(***************************************************************************)
(* internal/proxy/handler.go: what the proxy does with one turn, a request *)
(* and its response, for a set of concurrent turns.  The handler's         *)
(* goroutine serves the client; a goroutine spawned before the upstream is *)
(* called offers the request's row, and the tap's goroutine, once the body *)
(* is closed (module StreamTap), offers the response's rows.               *)
(*                                                                         *)
(* Offering a row is EventAdder.Add or UnprocessedAdder.Add, which never   *)
(* block; ProxyService joins each offer with the batcher that takes it.    *)
(* Of a body only its parse matters: MaxTools bounds the tool calls.       *)
(*                                                                         *)
(* An operator named for what is wrong with it (UpstreamFailsOpenSpan) is  *)
(* a mutation of the definition it precedes; no specification uses it.     *)
(***************************************************************************)
EXTENDS Naturals, Sequences, FiniteSets, Functions

CONSTANTS
  Turn,                 \* the requests clients send
  MaxTools              \* bound on the tool calls of a response

ASSUME MaxToolsAssumption == MaxTools \in Nat \ {0}

Row(t, kind, n) == [turn |-> t, kind |-> kind, n |-> n]

RequestRow(t)     == Row(t, "request", 0)
ResponseRow(t, n) == Row(t, "response", n)
UnprocessedRow(t) == Row(t, "unprocessed", 0)

EventRows == {RequestRow(t) : t \in Turn} \cup
             {ResponseRow(t, n) : t \in Turn, n \in 1..MaxTools}
UnprocessedRows == {UnprocessedRow(t) : t \in Turn}
Rows == EventRows \cup UnprocessedRows

VARIABLES
  handler,              \* [Turn -> where the handler's goroutine is]
  requestAudit,         \* [Turn -> the request's audit goroutine]
  responseAudit,        \* [Turn -> the response's audit goroutine]
  ended,                \* [Turn -> how often span.End was called]
  todo,                 \* [Turn -> response rows still to be offered]
  emitted               \* rows offered to the batchers

vars == <<handler, requestAudit, responseAudit, ended, todo, emitted>>

(* "roundTrip": the request body is read and the span not yet started;     *)
(* "upstream": inner.RoundTrip is running; "copying": ReverseProxy copies  *)
(* the tapped body.  The others are final: "served" and "aborted" after    *)
(* Body.Close, "failed" after RoundTrip's error (502), "refused" after a   *)
(* 101 response, whose tapped body ReverseProxy cannot hijack and does not *)
(* close (502).                                                            *)
Final == {"served", "aborted", "failed", "refused"}

Init ==
  /\ handler = [t \in Turn |-> "idle"]
  /\ requestAudit = [t \in Turn |-> "none"]
  /\ responseAudit = [t \in Turn |-> "none"]
  /\ ended = [t \in Turn |-> 0]
  /\ todo = [t \in Turn |-> <<>>]
  /\ emitted = {}

-------------------------------------------------------------------------------
(* The handler's goroutine.                                                *)

Become(t, at) == handler' = [handler EXCEPT ![t] = at]

EndSpan(t) == ended' = [ended EXCEPT ![t] = @ + 1]

(* ServeHTTP: the director routes the request and attaches the metadata    *)
(* that names the turn.                                                    *)
Arrive(t) ==
  /\ handler[t] = "idle"
  /\ Become(t, "roundTrip")
  /\ UNCHANGED <<requestAudit, responseAudit, ended, todo, emitted>>

(* RoundTrip up to the call of the inner transport: the body is read, or   *)
(* replaced by an empty one, the span started, the request's audit         *)
(* goroutine spawned with its own reference to the body.                   *)
CallUpstream(t) ==
  /\ handler[t] = "roundTrip"
  /\ Become(t, "upstream")
  /\ requestAudit' = [requestAudit EXCEPT ![t] = "running"]
  /\ UNCHANGED <<responseAudit, ended, todo, emitted>>

UpstreamFailsOpenSpan(t) ==
  /\ handler[t] = "upstream"
  /\ Become(t, "failed")
  /\ UNCHANGED <<requestAudit, responseAudit, ended, todo, emitted>>

(* The inner transport fails: no tap, the span ends here.                  *)
UpstreamFails(t) ==
  /\ handler[t] = "upstream"
  /\ EndSpan(t)
  /\ Become(t, "failed")
  /\ UNCHANGED <<requestAudit, responseAudit, todo, emitted>>

(* The response's headers are there: TapBody starts the audit goroutine.   *)
UpstreamResponds(t) ==
  /\ handler[t] = "upstream"
  /\ responseAudit' = [responseAudit EXCEPT ![t] = "reading"]
  /\ handler' \in {[handler EXCEPT ![t] = at] : at \in {"copying", "refused"}}
  /\ UNCHANGED <<requestAudit, ended, todo, emitted>>

CloseBodyEndsSpan(t) ==
  /\ handler[t] = "copying"
  /\ Become(t, "served") \/ Become(t, "aborted")
  /\ EndSpan(t)
  /\ UNCHANGED <<requestAudit, responseAudit, todo, emitted>>

(* The copy loop ends, whole or not, and the body is closed.               *)
CloseBody(t) ==
  /\ handler[t] = "copying"
  /\ Become(t, "served") \/ Become(t, "aborted")
  /\ UNCHANGED <<requestAudit, responseAudit, ended, todo, emitted>>

-------------------------------------------------------------------------------
(* The audit goroutines.                                                   *)

Emit(row) == emitted' = emitted \cup {row}

AuditRequestOfAnswered(t) ==
  /\ requestAudit[t] = "running"
  /\ handler[t] \in {"copying", "served", "aborted"}
  /\ Emit(RequestRow(t))
  /\ requestAudit' = [requestAudit EXCEPT ![t] = "done"]
  /\ UNCHANGED <<handler, responseAudit, ended, todo>>

(* ParseRequest cannot fail, so there is always a request row.             *)
AuditRequest(t) ==
  /\ requestAudit[t] = "running"
  /\ Emit(RequestRow(t))
  /\ requestAudit' = [requestAudit EXCEPT ![t] = "done"]
  /\ UNCHANGED <<handler, responseAudit, ended, todo>>

ExtractionsThenUnprocessed(t) ==
  {Append([n \in 1..k |-> ResponseRow(t, n)], UnprocessedRow(t)) : k \in 1..MaxTools}

(* extractEvents: one row per tool call, a single row without tool calls,  *)
(* and no event when the body does not parse, is empty of content or comes *)
(* from an upstream without a parser: then one unprocessed row.            *)
Extractions(t) ==
  {[n \in 1..k |-> ResponseRow(t, n)] : k \in 1..MaxTools} \cup {<<UnprocessedRow(t)>>}

ExtractOfServed(t) ==
  /\ responseAudit[t] = "reading"
  /\ handler[t] = "served"
  /\ todo' \in {[todo EXCEPT ![t] = rows] : rows \in Extractions(t)}
  /\ EndSpan(t)
  /\ responseAudit' = [responseAudit EXCEPT ![t] = "emitting"]
  /\ UNCHANGED <<handler, requestAudit, emitted>>

(* onComplete up to its loop of Adds; it runs once the tapped body is      *)
(* closed, and ends the span.                                              *)
Extract(t) ==
  /\ responseAudit[t] = "reading"
  /\ handler[t] \in {"served", "aborted"}
  /\ todo' \in {[todo EXCEPT ![t] = rows] : rows \in Extractions(t)}
  /\ EndSpan(t)
  /\ responseAudit' = [responseAudit EXCEPT ![t] = "emitting"]
  /\ UNCHANGED <<handler, requestAudit, emitted>>

AuditResponse(t) ==
  /\ responseAudit[t] = "emitting"
  /\ Emit(Head(todo[t]))
  /\ todo' = [todo EXCEPT ![t] = Tail(@)]
  /\ responseAudit' =
       [responseAudit EXCEPT ![t] = IF Len(todo[t]) = 1 THEN "done" ELSE @]
  /\ UNCHANGED <<handler, requestAudit, ended>>

-------------------------------------------------------------------------------

Serve(t) == CallUpstream(t) \/ UpstreamFails(t) \/ UpstreamResponds(t) \/ CloseBody(t)
Audit(t) == AuditRequest(t) \/ Extract(t) \/ AuditResponse(t)

Next == \E t \in Turn : Arrive(t) \/ Serve(t) \/ Audit(t)

Spec == Init /\ [][Next]_vars

(* Every goroutine is scheduled; the server's ReadTimeout ends a request   *)
(* body, the transport's ResponseHeaderTimeout an upstream call.  Nothing  *)
(* ends the copying of a silent response body.                             *)
ServeFairness ==
  \A t \in Turn : WF_vars(CallUpstream(t) \/ UpstreamFails(t) \/ UpstreamResponds(t))
AuditFairness ==
  \A t \in Turn : WF_vars(AuditRequest(t)) /\ WF_vars(Extract(t) \/ AuditResponse(t))

FairSpec == Spec /\ ServeFairness /\ AuditFairness

-------------------------------------------------------------------------------
(* Properties.                                                             *)

TypeOK ==
  /\ handler \in [Turn -> {"idle", "roundTrip", "upstream", "copying"} \cup Final]
  /\ requestAudit \in [Turn -> {"none", "running", "done"}]
  /\ responseAudit \in [Turn -> {"none", "reading", "emitting", "done"}]
  /\ ended \in [Turn -> Nat]
  /\ todo \in [Turn -> Seq(Rows)]
  /\ emitted \subseteq Rows

(* What has become of the response of turn t.                              *)
ResponseEmitted(t)    == {r \in emitted : r.turn = t /\ r.kind = "response"}
UnprocessedEmitted(t) == UnprocessedRow(t) \in emitted

(* The error path of RoundTrip and the callback of the tap never both end  *)
(* a span, and no row is offered for a response whose span is still open.  *)
SpanEndsOnce ==
  \A t \in Turn :
    /\ ended[t] \in {0, 1}
    /\ ended[t] = 1 => handler[t] \in Final
    /\ ResponseEmitted(t) # {} \/ UnprocessedEmitted(t) => ended[t] = 1

(* A response is recorded in the event table or in the unprocessed table,  *)
(* never in both, and only after the client had all it will get of it.     *)
OneRecord ==
  \A t \in Turn :
    /\ ~(ResponseEmitted(t) # {} /\ UnprocessedEmitted(t))
    /\ ResponseEmitted(t) # {} \/ UnprocessedEmitted(t) =>
         handler[t] \in {"served", "aborted"}

(* The turns as their records show them: CloseBody closes a response, the  *)
(* requests' and the tap's goroutines record rows, and AuditResponse's     *)
(* last row finishes a record.  No row of a response is offered before its *)
(* close, the calls' rows come without gaps, and nothing joins them later. *)
Trail == INSTANCE AuditTrail WITH
  closed   <- {t \in Turn : handler[t] \in {"served", "aborted"}},
  finished <- {t \in Turn : responseAudit[t] = "done"},
  trail    <- emitted

ImplementsTrail == Trail!Spec

(* No row is offered twice: what is still to come is not out yet.          *)
OfferedOnce ==
  \A t \in Turn :
    /\ IsInjective(todo[t])
    /\ Range(todo[t]) \cap emitted = {}
    /\ RequestRow(t) \in emitted => requestAudit[t] = "done"

(* Every request that reached RoundTrip is recorded, whether or not its    *)
(* upstream answered.                                                      *)
RequestRecorded ==
  \A t \in Turn : (handler[t] = "upstream") ~> (RequestRow(t) \in emitted)

(* Every response whose body was closed is recorded completely, also after *)
(* the client went away or upstream cut it short.                          *)
ResponseRecorded ==
  \A t \in Turn :
    (handler[t] \in {"served", "aborted"}) ~>
      (responseAudit[t] = "done" /\ todo[t] = <<>> /\
       (ResponseEmitted(t) # {} \/ UnprocessedEmitted(t)))

(* Nothing that a turn owes the audit trail stays unwritten.               *)
TurnRecorded == RequestRecorded /\ ResponseRecorded

(* A started span is ended; it stays open only while the response's body   *)
(* is being copied, and for ever after a 101.                              *)
SpanEnds ==
  \A t \in Turn :
    (handler[t] \in {"upstream", "served", "aborted"}) ~>
      (ended[t] = 1 \/ handler[t] \in {"copying", "refused"})
===============================================================================
