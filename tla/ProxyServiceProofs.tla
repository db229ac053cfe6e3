-------------------------- MODULE ProxyServiceProofs --------------------------
(***************************************************************************)
(* The safety of ProxyService for every set of turns, every number of tool *)
(* calls and every size of the batchers.  The proofs of the components are *)
(* instantiated beside the components, so that what AuditTransportProofs   *)
(* and BatcherProofs show of each alone is cited here for the whole.       *)
(***************************************************************************)
EXTENDS ProxyService, TLAPS, SequenceTheorems

TP == INSTANCE AuditTransportProofs

BP == INSTANCE BatcherProofs WITH
  Event <- T!EventRows,
  ch <- bCh, done <- bDone, ticker <- bTicker, pc <- bPc, batch <- bBatch,
  stage <- bStage, rows <- bRows, wire <- bWire, table <- bTable,
  offered <- bOffered, dropped <- bDropped, late <- bLate,
  acked <- bAcked, discarded <- bDiscarded

UP == INSTANCE BatcherProofs WITH
  Event <- T!UnprocessedRows,
  ch <- uCh, done <- uDone, ticker <- uTicker, pc <- uPc, batch <- uBatch,
  stage <- uStage, rows <- uRows, wire <- uWire, table <- uTable,
  offered <- uOffered, dropped <- uDropped, late <- uLate,
  acked <- uAcked, discarded <- uDiscarded

-------------------------------------------------------------------------------
(* Every step of the service is a step of each component, or leaves it     *)
(* alone.                                                                  *)

LEMMA TurnSteps == [Next]_vars => [T!Next]_T!vars
<1>1. ASSUME NEW t \in Turn,
             \/ Arrive(t) \/ Serve(t) \/ AuditRequest(t) \/ Extract(t)
             \/ AuditResponse(t)
      PROVE  T!Next
  <2>1. \/ T!Arrive(t) \/ T!Serve(t) \/ T!AuditRequest(t) \/ T!Extract(t)
        \/ T!AuditResponse(t)
    BY <1>1 DEF Arrive, Serve, AuditRequest, Extract, AuditResponse,
                AuditEvents, AuditUnprocessed
  <2> QED
    BY <2>1 DEF T!Next, T!Audit
<1>2. ASSUME \/ RunEvents \/ RunUnprocessed \/ Commit \/ Signal \/ ServerFails
             \/ Main \/ UNCHANGED vars
      PROVE  UNCHANGED T!vars
  BY <1>2 DEF RunEvents, RunUnprocessed, EventStep, UnprocessedStep, Commit, Signal,
              ServerFails, Main, ShutdownReturns, StopEvents, StopUnprocessed, Exit,
              vars, turnVars, T!vars
<1> QED
  BY <1>1, <1>2 DEF Next

LEMMA EventSteps == [Next]_vars => [B!Next]_B!vars
<1>1. ASSUME NEW t \in Turn, AuditRequest(t) \/ AuditEvents(t)
      PROVE  B!Next
  BY <1>1 DEF AuditRequest, AuditEvents, T!EventRows, B!Next
<1>2. RunEvents => B!Next
  BY DEF RunEvents, EventStep, B!Next
<1>3. StopEvents => B!Next
  BY DEF StopEvents, B!Next
<1>4. Commit => B!Next \/ UNCHANGED bVars
  BY DEF Commit, B!Next
<1>5. ASSUME NEW t \in Turn,
             Arrive(t) \/ Serve(t) \/ Extract(t) \/ AuditUnprocessed(t)
      PROVE  UNCHANGED bVars
  BY <1>5 DEF Arrive, Serve, Extract, AuditUnprocessed
<1>6. ASSUME \/ RunUnprocessed \/ Signal \/ ServerFails \/ ShutdownReturns
             \/ StopUnprocessed \/ Exit \/ UNCHANGED vars
      PROVE  UNCHANGED bVars
  BY <1>6 DEF RunUnprocessed, UnprocessedStep, Signal, ServerFails,
              ShutdownReturns, StopUnprocessed, Exit, vars
<1>7. UNCHANGED bVars => UNCHANGED B!vars
  BY DEF bVars, B!vars, B!runner, B!server, B!calls, B!fates
<1> QED
  BY <1>1, <1>2, <1>3, <1>4, <1>5, <1>6, <1>7 DEF Next, Main, AuditResponse

LEMMA UnprocessedSteps == [Next]_vars => [U!Next]_U!vars
<1>1. ASSUME NEW t \in Turn, AuditUnprocessed(t)
      PROVE  U!Next
  BY <1>1 DEF AuditUnprocessed, U!Next
<1>2. RunUnprocessed => U!Next
  BY DEF RunUnprocessed, UnprocessedStep, U!Next
<1>3. StopUnprocessed => U!Next
  BY DEF StopUnprocessed, U!Next
<1>4. Commit => U!Next \/ UNCHANGED uVars
  BY DEF Commit, U!Next
<1>5. ASSUME NEW t \in Turn,
             Arrive(t) \/ Serve(t) \/ Extract(t) \/ AuditRequest(t) \/ AuditEvents(t)
      PROVE  UNCHANGED uVars
  BY <1>5 DEF Arrive, Serve, Extract, AuditRequest, AuditEvents
<1>6. ASSUME \/ RunEvents \/ Signal \/ ServerFails \/ ShutdownReturns
             \/ StopEvents \/ Exit \/ UNCHANGED vars
      PROVE  UNCHANGED uVars
  BY <1>6 DEF RunEvents, EventStep, Signal, ServerFails,
              ShutdownReturns, StopEvents, Exit, vars
<1>7. UNCHANGED uVars => UNCHANGED U!vars
  BY DEF uVars, U!vars, U!runner, U!server, U!calls, U!fates
<1> QED
  BY <1>1, <1>2, <1>3, <1>4, <1>5, <1>6, <1>7 DEF Next, Main, AuditResponse

(* The service runs each of its components: what happens to the turns, to  *)
(* the event batcher and to the unprocessed batcher, whatever main and the *)
(* other components do meanwhile, is a behaviour of AuditTransport and of  *)
(* Batcher.                                                                *)
THEOREM ComponentsImplemented == Spec => T!Spec /\ B!Spec /\ U!Spec
<1>1. Init => T!Init /\ B!Init /\ U!Init
  BY DEF Init
<1> QED
  BY <1>1, TurnSteps, EventSteps, UnprocessedSteps, PTL
     DEF Spec, T!Spec, B!Spec, U!Spec

-------------------------------------------------------------------------------
(* The instances of the components' proofs are about the same steps.       *)

LEMMA SameInit == Init => TP!Init /\ BP!Init /\ UP!Init
  BY DEF Init, T!Init, TP!Init, B!Init, BP!Init, U!Init, UP!Init

(* The actions of AuditTransport that the service takes.                   *)
LEMMA SameTurnActions ==
  ASSUME NEW t \in Turn
  PROVE  /\ T!Arrive(t) => TP!Arrive(t)
         /\ T!Serve(t) => TP!Serve(t)
         /\ T!Extract(t) => TP!Extract(t)
         /\ T!AuditRequest(t) => TP!AuditRequest(t)
         /\ T!AuditResponse(t) => TP!AuditResponse(t)
<1>1. T!Arrive(t) => TP!Arrive(t)
  BY DEF T!Arrive, T!Become, TP!Arrive, TP!Become
<1>2. T!Serve(t) => TP!Serve(t)
  BY DEF T!Serve, T!CallUpstream, T!UpstreamFails, T!UpstreamResponds,
         T!CloseBody, T!Become, T!EndSpan,
         TP!Serve, TP!CallUpstream, TP!UpstreamFails, TP!UpstreamResponds,
         TP!CloseBody, TP!Become, TP!EndSpan
<1>3. T!Extract(t) => TP!Extract(t)
  BY DEF T!Extract, T!EndSpan, T!Extractions, T!ResponseRow, T!UnprocessedRow, T!Row,
         TP!Extract, TP!EndSpan, TP!Extractions, TP!ResponseRow, TP!UnprocessedRow,
         TP!Row
<1>4. T!AuditRequest(t) => TP!AuditRequest(t)
  BY DEF T!AuditRequest, T!Emit, T!RequestRow, T!Row,
         TP!AuditRequest, TP!Emit, TP!RequestRow, TP!Row
<1>5. T!AuditResponse(t) => TP!AuditResponse(t)
  BY DEF T!AuditResponse, T!Emit, TP!AuditResponse, TP!Emit
<1> QED
  BY <1>1, <1>2, <1>3, <1>4, <1>5

LEMMA TurnNext == [Next]_vars => [TP!Next]_TP!vars
<1>1. T!Next => TP!Next
  BY SameTurnActions DEF T!Next, T!Audit, TP!Next, TP!Audit
<1>2. UNCHANGED T!vars => UNCHANGED TP!vars
  BY DEF T!vars, TP!vars
<1> QED
  BY <1>1, <1>2, TurnSteps

(* The actions of the two batchers.                                        *)
LEMMA SameEventActions ==
  /\ \A e : B!Add(e) => BP!Add(e)
  /\ B!Run => BP!Run
  /\ B!Tick => BP!Tick
  /\ B!Stop => BP!Stop
  /\ \A block : B!Commit(block) => BP!Commit(block)
<1>1. ASSUME NEW e, B!Add(e)
      PROVE  BP!Add(e)
  BY <1>1 DEF B!Add, B!Enqueue, B!Handoff, B!Drop, B!Offer, B!Lateness, B!Take,
              B!Capacity, B!server, B!fates,
              BP!Add, BP!Enqueue, BP!Handoff, BP!Drop, BP!Offer, BP!Lateness, BP!Take,
              BP!Capacity, BP!server, BP!fates
<1>2. ASSUME B!ReceiveEvent \/ B!ReceiveTick \/ B!ReceiveDone \/ B!Drain
      PROVE  BP!Run
  BY <1>2 DEF B!ReceiveEvent, B!ReceiveTick, B!ReceiveDone, B!Drain, B!DrainEvent,
              B!DrainEmpty, B!Take, B!server, B!calls, B!fates,
              BP!Run, BP!ReceiveEvent, BP!ReceiveTick, BP!ReceiveDone, BP!Drain,
              BP!DrainEvent, BP!DrainEmpty, BP!Take, BP!server, BP!calls, BP!fates
<1>3. ASSUME B!Write
      PROVE  BP!Run
  BY <1>3 DEF B!Write, B!PrepareBatch, B!AppendRow, B!Send, B!WriteOk, B!WriteErr,
              B!Block, B!Range, B!FlushReturns, B!FlushPCs, B!server, B!calls, B!fates,
              BP!Run, BP!Write, BP!PrepareBatch, BP!AppendRow, BP!Send, BP!WriteOk,
              BP!WriteErr, BP!Block, BP!Range, BP!FlushReturns, BP!FlushPCs,
              BP!server, BP!calls, BP!fates
<1>4. B!Tick => BP!Tick
  BY DEF B!Tick, B!runner, B!server, B!calls, B!fates,
         BP!Tick, BP!runner, BP!server, BP!calls, BP!fates
<1>5. B!Stop => BP!Stop
  BY DEF B!Stop, B!runner, B!server, B!calls, B!fates,
         BP!Stop, BP!runner, BP!server, BP!calls, BP!fates
<1>6. ASSUME NEW block, B!Commit(block)
      PROVE  BP!Commit(block)
  BY <1>6 DEF B!Commit, B!runner, B!calls, B!fates,
              BP!Commit, BP!runner, BP!calls, BP!fates
<1> QED
  BY <1>1, <1>2, <1>3, <1>4, <1>5, <1>6 DEF B!Run

LEMMA EventsNext == [Next]_vars => [BP!Next]_BP!vars
<1>1. B!Next => BP!Next
  BY SameEventActions DEF B!Next, BP!Next
<1>2. UNCHANGED B!vars => UNCHANGED BP!vars
  BY DEF B!vars, B!runner, B!server, B!calls, B!fates,
         BP!vars, BP!runner, BP!server, BP!calls, BP!fates
<1> QED
  BY <1>1, <1>2, EventSteps

LEMMA SameUnprocessedActions ==
  /\ \A e : U!Add(e) => UP!Add(e)
  /\ U!Run => UP!Run
  /\ U!Tick => UP!Tick
  /\ U!Stop => UP!Stop
  /\ \A block : U!Commit(block) => UP!Commit(block)
<1>1. ASSUME NEW e, U!Add(e)
      PROVE  UP!Add(e)
  BY <1>1 DEF U!Add, U!Enqueue, U!Handoff, U!Drop, U!Offer, U!Lateness, U!Take,
              U!Capacity, U!server, U!fates,
              UP!Add, UP!Enqueue, UP!Handoff, UP!Drop, UP!Offer, UP!Lateness, UP!Take,
              UP!Capacity, UP!server, UP!fates
<1>2. ASSUME U!ReceiveEvent \/ U!ReceiveTick \/ U!ReceiveDone \/ U!Drain
      PROVE  UP!Run
  BY <1>2 DEF U!ReceiveEvent, U!ReceiveTick, U!ReceiveDone, U!Drain, U!DrainEvent,
              U!DrainEmpty, U!Take, U!server, U!calls, U!fates,
              UP!Run, UP!ReceiveEvent, UP!ReceiveTick, UP!ReceiveDone, UP!Drain,
              UP!DrainEvent, UP!DrainEmpty, UP!Take, UP!server, UP!calls, UP!fates
<1>3. ASSUME U!Write
      PROVE  UP!Run
  BY <1>3 DEF U!Write, U!PrepareBatch, U!AppendRow, U!Send, U!WriteOk, U!WriteErr,
              U!Block, U!Range, U!FlushReturns, U!FlushPCs, U!server, U!calls, U!fates,
              UP!Run, UP!Write, UP!PrepareBatch, UP!AppendRow, UP!Send, UP!WriteOk,
              UP!WriteErr, UP!Block, UP!Range, UP!FlushReturns, UP!FlushPCs,
              UP!server, UP!calls, UP!fates
<1>4. U!Tick => UP!Tick
  BY DEF U!Tick, U!runner, U!server, U!calls, U!fates,
         UP!Tick, UP!runner, UP!server, UP!calls, UP!fates
<1>5. U!Stop => UP!Stop
  BY DEF U!Stop, U!runner, U!server, U!calls, U!fates,
         UP!Stop, UP!runner, UP!server, UP!calls, UP!fates
<1>6. ASSUME NEW block, U!Commit(block)
      PROVE  UP!Commit(block)
  BY <1>6 DEF U!Commit, U!runner, U!calls, U!fates,
              UP!Commit, UP!runner, UP!calls, UP!fates
<1> QED
  BY <1>1, <1>2, <1>3, <1>4, <1>5, <1>6 DEF U!Run

LEMMA UnprocessedNext == [Next]_vars => [UP!Next]_UP!vars
<1>1. U!Next => UP!Next
  BY SameUnprocessedActions DEF U!Next, UP!Next
<1>2. UNCHANGED U!vars => UNCHANGED UP!vars
  BY DEF U!vars, U!runner, U!server, U!calls, U!fates,
         UP!vars, UP!runner, UP!server, UP!calls, UP!fates
<1> QED
  BY <1>1, <1>2, UnprocessedSteps

-------------------------------------------------------------------------------
(* Type correctness, and the components' invariants.                       *)

MainOK ==
  /\ main \in {"serving", "shutdown", "stopEvents", "stopUnprocessed",
               "otelShutdown", "exited"}
  /\ graceful \in BOOLEAN

Components ==
  /\ TP!Inv
  /\ BP!Typed /\ BP!Ledger
  /\ UP!Typed /\ UP!Ledger

LEMMA MainNext == MainOK /\ [Next]_vars => MainOK'
<1> SUFFICES ASSUME MainOK, [Next]_vars
             PROVE  MainOK'
  OBVIOUS
<1>1. CASE UNCHANGED server
  BY <1>1 DEF server, MainOK
<1>2. CASE Signal \/ ServerFails \/ StopEvents \/ StopUnprocessed \/ Exit
  BY <1>2 DEF Signal, ServerFails, StopEvents, StopUnprocessed, Exit, MainOK
<1>3. CASE ShutdownReturns
  <2>1. NoActiveHandler \in BOOLEAN
    BY Zenon DEF NoActiveHandler
  <2> QED
    BY <1>3, <2>1, Zenon DEF ShutdownReturns, MainOK
<1>4. ASSUME NEW t \in Turn,
             \/ Arrive(t) \/ Serve(t) \/ AuditRequest(t) \/ Extract(t)
             \/ AuditResponse(t)
      PROVE  UNCHANGED server
  BY <1>4 DEF Arrive, Serve, AuditRequest, Extract, AuditResponse, AuditEvents,
              AuditUnprocessed
<1>5. ASSUME RunEvents \/ RunUnprocessed \/ Commit \/ UNCHANGED vars
      PROVE  UNCHANGED server
  BY <1>5 DEF RunEvents, RunUnprocessed, EventStep, UnprocessedStep, Commit, vars
<1> QED
  BY <1>1, <1>2, <1>3, <1>4, <1>5 DEF Next, Main

LEMMA ComponentsInit == Init => Components
  BY BoundsAssumption, SameInit, TP!InvInit, BP!TypedInit, BP!LedgerInit,
     UP!TypedInit, UP!LedgerInit DEF Components

LEMMA ComponentsNext == Components /\ [Next]_vars => Components'
<1> SUFFICES ASSUME Components, [Next]_vars
             PROVE  Components'
  OBVIOUS
<1>1. TP!Inv'
  BY BoundsAssumption, TurnNext, TP!InvNext DEF Components
<1>2. BP!Typed' /\ BP!Ledger'
  BY BoundsAssumption, EventsNext, BP!TypedNext, BP!LedgerNext DEF Components
<1>3. UP!Typed' /\ UP!Ledger'
  BY BoundsAssumption, UnprocessedNext, UP!TypedNext, UP!LedgerNext DEF Components
<1> QED
  BY <1>1, <1>2, <1>3 DEF Components

LEMMA ComponentsHold == Spec => []Components
  BY ComponentsInit, ComponentsNext, PTL DEF Spec

(* Type correctness.                                                       *)
THEOREM TypeCorrect == Spec => []TypeOK
<1>1. Init => MainOK
  BY DEF Init, MainOK
<1>2. TP!TypeOK => T!TypeOK
  BY DEF TP!TypeOK, T!TypeOK, TP!Final, T!Final, TP!Rows, T!Rows, TP!EventRows,
         T!EventRows, TP!UnprocessedRows, T!UnprocessedRows, TP!RequestRow,
         T!RequestRow, TP!ResponseRow, T!ResponseRow, TP!UnprocessedRow,
         T!UnprocessedRow, TP!Row, T!Row
<1>3. BP!TypeOK => B!TypeOK
  BY DEF BP!TypeOK, B!TypeOK, BP!PCs, B!PCs, BP!FlushPCs, B!FlushPCs,
         BP!Accepted, B!Accepted
<1>4. UP!TypeOK => U!TypeOK
  BY DEF UP!TypeOK, U!TypeOK, UP!PCs, U!PCs, UP!FlushPCs, U!FlushPCs,
         UP!Accepted, U!Accepted
<1>5. Components /\ MainOK => TypeOK
  BY <1>2, <1>3, <1>4 DEF Components, MainOK, TypeOK, TP!Inv, BP!Typed, UP!Typed
<1> QED
  BY <1>1, <1>5, ComponentsHold, MainNext, PTL DEF Spec

-------------------------------------------------------------------------------
(* The rows between a turn and its batchers.                               *)

LEMMA EventCalls ==
  /\ \A e : B!Add(e) => bOffered' = bOffered \cup {e}
  /\ B!Run \/ B!Tick \/ B!Stop \/ (\E block \in bWire : B!Commit(block))
       => bOffered' = bOffered
<1>1. ASSUME NEW e, B!Add(e)
      PROVE  bOffered' = bOffered \cup {e}
  BY <1>1 DEF B!Add, B!Enqueue, B!Handoff, B!Drop, B!Offer
<1>2. B!Run => bOffered' = bOffered
  BY DEF B!Run, B!ReceiveEvent, B!ReceiveTick, B!ReceiveDone, B!Drain, B!DrainEvent,
         B!DrainEmpty, B!Write, B!PrepareBatch, B!AppendRow, B!Send, B!WriteOk,
         B!WriteErr, B!calls
<1>3. B!Tick \/ B!Stop \/ (\E block \in bWire : B!Commit(block)) => bOffered' = bOffered
  BY DEF B!Tick, B!Stop, B!Commit, B!calls
<1> QED
  BY <1>1, <1>2, <1>3

LEMMA UnprocessedCalls ==
  /\ \A e : U!Add(e) => uOffered' = uOffered \cup {e}
  /\ U!Run \/ U!Tick \/ U!Stop \/ (\E block \in uWire : U!Commit(block))
       => uOffered' = uOffered
<1>1. ASSUME NEW e, U!Add(e)
      PROVE  uOffered' = uOffered \cup {e}
  BY <1>1 DEF U!Add, U!Enqueue, U!Handoff, U!Drop, U!Offer
<1>2. U!Run => uOffered' = uOffered
  BY DEF U!Run, U!ReceiveEvent, U!ReceiveTick, U!ReceiveDone, U!Drain, U!DrainEvent,
         U!DrainEmpty, U!Write, U!PrepareBatch, U!AppendRow, U!Send, U!WriteOk,
         U!WriteErr, U!calls
<1>3. U!Tick \/ U!Stop \/ (\E block \in uWire : U!Commit(block)) => uOffered' = uOffered
  BY DEF U!Tick, U!Stop, U!Commit, U!calls
<1> QED
  BY <1>1, <1>2, <1>3

Offered == bOffered \cup uOffered

(* The row that an audit goroutine of turn t offers next.                  *)
Offers(t, r) ==
  \/ T!AuditRequest(t) /\ r = T!RequestRow(t)
  \/ T!AuditResponse(t) /\ r = Head(todo[t])

(* A step offers a row of one turn to one batcher, or nothing.             *)
LEMMA OfferStep ==
  ASSUME [Next]_vars
  PROVE  \/ \E t \in Turn : \E r : /\ Offers(t, r)
                                   /\ Offered' = Offered \cup {r}
                                   /\ emitted' = emitted \cup {r}
         \/ UNCHANGED <<Offered, emitted>>
<1>1. ASSUME NEW t \in Turn, AuditRequest(t)
      PROVE  /\ Offers(t, T!RequestRow(t))
             /\ Offered' = Offered \cup {T!RequestRow(t)}
             /\ emitted' = emitted \cup {T!RequestRow(t)}
  BY <1>1, EventCalls
     DEF AuditRequest, T!AuditRequest, T!Emit, Offers, Offered, uVars
<1>2. ASSUME NEW t \in Turn, AuditEvents(t) \/ AuditUnprocessed(t)
      PROVE  /\ Offers(t, Head(todo[t]))
             /\ Offered' = Offered \cup {Head(todo[t])}
             /\ emitted' = emitted \cup {Head(todo[t])}
  BY <1>2, EventCalls, UnprocessedCalls
     DEF AuditEvents, AuditUnprocessed, T!AuditResponse, T!Emit, Offers, Offered,
         bVars, uVars
<1>3. ASSUME NEW t \in Turn, Arrive(t) \/ Serve(t) \/ Extract(t)
      PROVE  UNCHANGED <<Offered, emitted>>
  BY <1>3 DEF Arrive, T!Arrive, Serve, T!Serve, T!CallUpstream, T!UpstreamFails,
              T!UpstreamResponds, T!CloseBody, Extract, T!Extract, Offered, bVars, uVars
<1>4. RunEvents \/ RunUnprocessed => UNCHANGED <<Offered, emitted>>
  BY EventCalls, UnprocessedCalls
     DEF RunEvents, RunUnprocessed, EventStep, UnprocessedStep, Offered, bVars, uVars,
         turnVars
<1>5. Commit => UNCHANGED <<Offered, emitted>>
  BY EventCalls, UnprocessedCalls DEF Commit, Offered, bVars, uVars, turnVars
<1>6. StopEvents \/ StopUnprocessed => UNCHANGED <<Offered, emitted>>
  BY EventCalls, UnprocessedCalls
     DEF StopEvents, StopUnprocessed, Offered, bVars, uVars, turnVars
<1>7. ASSUME Signal \/ ServerFails \/ ShutdownReturns \/ Exit \/ UNCHANGED vars
      PROVE  UNCHANGED <<Offered, emitted>>
  BY <1>7 DEF Signal, ServerFails, ShutdownReturns, Exit, vars, Offered, bVars, uVars,
              turnVars
<1> QED
  BY <1>1, <1>2, <1>3, <1>4, <1>5, <1>6, <1>7 DEF Next, Main, AuditResponse

(* Who offers a row is at work, and has offered no later row of the turn.  *)
LEMMA OffersInTurn ==
  ASSUME TP!Inv, NEW t \in Turn, NEW r, Offers(t, r)
  PROVE  /\ r.turn = t
         /\ handler[t] # "idle"
         /\ \A n, m \in 1..MaxTools :
              r = T!ResponseRow(t, n) /\ T!ResponseRow(t, m) \in emitted => m < n
<1>1. CASE T!AuditRequest(t) /\ r = T!RequestRow(t)
  <2>1. r.turn = t /\ r.kind = "request"
    BY <1>1 DEF T!RequestRow, T!Row
  <2>2. handler[t] # "idle"
    BY <1>1 DEF T!AuditRequest, TP!Inv, TP!Stages
  <2>3. \A n : T!ResponseRow(t, n).kind = "response"
    BY DEF T!ResponseRow, T!Row
  <2> QED
    BY <2>1, <2>2, <2>3
<1>2. CASE T!AuditResponse(t) /\ r = Head(todo[t])
  <2>1. /\ r.turn = t
        /\ \A s \in TP!Out(t) : r.kind = "response" /\ s.n < r.n
    BY <1>2, BoundsAssumption, SameTurnActions, TP!OfferOrder
  <2>2. handler[t] # "idle"
    BY <1>2 DEF T!AuditResponse, TP!Inv, TP!Stages, TP!Responding
  <2>3. ASSUME NEW n \in 1..MaxTools, NEW m \in 1..MaxTools,
               r = T!ResponseRow(t, n), T!ResponseRow(t, m) \in emitted
        PROVE  m < n
    <3>1. T!ResponseRow(t, m) \in TP!Out(t)
      BY <2>3 DEF TP!Out, T!ResponseRow, T!Row
    <3>2. T!ResponseRow(t, m).n = m /\ r.n = n
      BY <2>3 DEF T!ResponseRow, T!Row
    <3> QED
      BY <2>1, <3>1, <3>2
  <2> QED
    BY <2>1, <2>2, <2>3
<1> QED
  BY <1>1, <1>2 DEF Offers

-------------------------------------------------------------------------------
(* The order of a turn's rows.                                             *)

(* The rows offered are the rows the turns have emitted; in the backlog a  *)
(* row of a response stands before every later row of that response.       *)
Emitted == emitted = Offered

Queued ==
  \A t \in Turn : \A n, m \in 1..MaxTools : n < m =>
    \A i, j \in 1..Len(BP!Backlog) :
      BP!Backlog[i] = T!ResponseRow(t, m) /\ BP!Backlog[j] = T!ResponseRow(t, n)
        => j < i

(* Of two accepted rows of a response the later is not handed over first.  *)
HandedInOrder ==
  \A t \in Turn : \A n, m \in 1..MaxTools :
    n < m /\ T!ResponseRow(t, n) \in BP!Accepted /\ T!ResponseRow(t, m) \in BP!Handed
      => T!ResponseRow(t, n) \in BP!Handed

Ordered == Emitted /\ Queued /\ HandedInOrder

LEMMA EmittedNext == Emitted /\ [Next]_vars => Emitted'
  BY OfferStep DEF Emitted

(* The new row of an Add has no later row of its response before it.       *)
LEMMA NewRow ==
  ASSUME Components, Emitted, [Next]_vars,
         NEW e, e \notin bOffered, bOffered' = bOffered \cup {e}
  PROVE  \A t \in Turn : \A n, m \in 1..MaxTools :
           e = T!ResponseRow(t, n) /\ T!ResponseRow(t, m) \in BP!Accepted => m < n
<1>1. e \notin uOffered
  <2>1. T!EventRows \cap T!UnprocessedRows = {}
    BY DEF T!EventRows, T!UnprocessedRows, T!RequestRow, T!ResponseRow,
           T!UnprocessedRow, T!Row
  <2>2. /\ uOffered \subseteq T!UnprocessedRows
        /\ bOffered' \subseteq T!EventRows
    <3>1. BP!Typed'
      BY ComponentsNext DEF Components
    <3> QED
      BY <3>1 DEF Components, BP!Typed, BP!TypeOK, UP!Typed, UP!TypeOK
  <2> QED
    BY <2>1, <2>2
<1>2. PICK u \in Turn : Offers(u, e)
  BY <1>1, OfferStep DEF Offered
<1>3. BP!Accepted \subseteq emitted
  BY DEF BP!Accepted, Emitted, Offered
<1>4. \A t, n : T!ResponseRow(t, n).turn = t
  BY DEF T!ResponseRow, T!Row
<1>5. /\ e.turn = u
      /\ \A n, m \in 1..MaxTools :
           e = T!ResponseRow(u, n) /\ T!ResponseRow(u, m) \in emitted => m < n
  BY <1>2, OffersInTurn DEF Components
<1> QED
  BY <1>3, <1>4, <1>5

(* The two parts of the backlog.                                           *)
LEMMA BacklogParts ==
  ASSUME Components
  PROVE  /\ BP!Backlog \in Seq(T!EventRows)
         /\ Len(bBatch) \in Nat /\ Len(bCh) \in Nat
         /\ Len(BP!Backlog) = Len(bBatch) + Len(bCh)
         /\ \A i \in 1..Len(bBatch) : BP!Backlog[i] = bBatch[i]
         /\ \A i \in 1..Len(bCh) : BP!Backlog[Len(bBatch) + i] = bCh[i]
         /\ BP!Range(bBatch) = {bBatch[i] : i \in 1..Len(bBatch)}
         /\ \A r \in BP!Accepted :
              r \in BP!Handed \/ \E i \in 1..Len(BP!Backlog) : r = BP!Backlog[i]
<1>1. bBatch \in Seq(T!EventRows) /\ bCh \in Seq(T!EventRows)
  BY DEF Components, BP!Typed, BP!TypeOK
<1>2. /\ Len(bBatch) \in Nat /\ Len(bCh) \in Nat
      /\ bBatch \o bCh \in Seq(T!EventRows)
      /\ Len(bBatch \o bCh) = Len(bBatch) + Len(bCh)
      /\ \A i \in 1..Len(bBatch) : (bBatch \o bCh)[i] = bBatch[i]
      /\ \A i \in 1..Len(bCh) : (bBatch \o bCh)[Len(bBatch) + i] = bCh[i]
  BY <1>1, SMTT(30)
<1>3. \A s \in Seq(T!EventRows) : BP!Range(s) = {s[i] : i \in 1..Len(s)}
  BY LenProperties DEF BP!Range
<1>4. BP!Accepted = BP!Range(BP!Backlog) \cup BP!Handed
  BY DEF Components, BP!Ledger
<1>5. BP!Backlog = bBatch \o bCh
  BY DEF BP!Backlog
<1>6. BP!Range(bBatch) = {bBatch[i] : i \in 1..Len(bBatch)}
  BY <1>1, <1>3
<1>7. ASSUME NEW r \in BP!Accepted, r \notin BP!Handed
      PROVE  \E i \in 1..Len(BP!Backlog) : r = BP!Backlog[i]
  <2>1. BP!Range(BP!Backlog) = {BP!Backlog[i] : i \in 1..Len(BP!Backlog)}
    BY <1>2, <1>3, <1>5
  <2>2. r \in BP!Range(BP!Backlog)
    BY <1>4, <1>7
  <2> QED
    BY <2>1, <2>2
<1> QED
  BY <1>2, <1>5, <1>6, <1>7

LEMMA OrderedNext == Components /\ Ordered /\ [Next]_vars => Queued' /\ HandedInOrder'
<1> SUFFICES ASSUME Components, Ordered, [Next]_vars,
                    NEW t \in Turn, NEW n \in 1..MaxTools, NEW m \in 1..MaxTools, n < m
             PROVE  /\ T!ResponseRow(t, n) \in BP!Accepted'
                         /\ T!ResponseRow(t, m) \in BP!Handed'
                           => T!ResponseRow(t, n) \in BP!Handed'
                    /\ \A i, j \in 1..Len(BP!Backlog') :
                         BP!Backlog'[i] = T!ResponseRow(t, m)
                           /\ BP!Backlog'[j] = T!ResponseRow(t, n) => j < i
  BY DEF Queued, HandedInOrder
<1> DEFINE rn == T!ResponseRow(t, n)
           rm == T!ResponseRow(t, m)
<1>1. /\ rn \in BP!Accepted /\ rm \in BP!Handed => rn \in BP!Handed
      /\ \A i, j \in 1..Len(BP!Backlog) :
           BP!Backlog[i] = rm /\ BP!Backlog[j] = rn => j < i
  BY DEF Ordered, Queued, HandedInOrder
<1>2. BP!Handed \subseteq BP!Accepted
  BY DEF Components, BP!Ledger
<1>3. n \in Nat /\ m \in Nat
  BY BoundsAssumption
<1>4. ASSUME NEW e, e \notin bOffered, bOffered' = bOffered \cup {e},
             e \in T!EventRows,
             BP!Backlog' = Append(BP!Backlog, e),
             BP!Accepted' = BP!Accepted \cup {e}, BP!Handed' = BP!Handed
      PROVE  /\ rn \in BP!Accepted' /\ rm \in BP!Handed' => rn \in BP!Handed'
             /\ \A i, j \in 1..Len(BP!Backlog') :
                  BP!Backlog'[i] = rm /\ BP!Backlog'[j] = rn => j < i
  <2>1. e = rn => rm \notin BP!Accepted
    BY <1>3, <1>4, NewRow DEF Ordered
  <2>2. /\ Len(BP!Backlog) \in Nat
        /\ Len(BP!Backlog') = Len(BP!Backlog) + 1
        /\ \A i \in 1..Len(BP!Backlog) : BP!Backlog'[i] = BP!Backlog[i]
        /\ BP!Backlog'[Len(BP!Backlog) + 1] = e
    BY <1>4, BacklogParts, AppendProperties, LenProperties
  <2>3. \A i \in 1..Len(BP!Backlog) : BP!Backlog[i] \in BP!Accepted
    BY BacklogParts, LenProperties DEF Components, BP!Ledger, BP!Range
  <2>4. rn # rm
    BY <1>3 DEF T!ResponseRow, T!Row
  <2>5. rn \in BP!Accepted' /\ rm \in BP!Handed' => rn \in BP!Handed'
    BY <1>1, <1>2, <1>4, <2>1
  <2>6. ASSUME NEW i \in 1..Len(BP!Backlog'), NEW j \in 1..Len(BP!Backlog'),
               BP!Backlog'[i] = rm, BP!Backlog'[j] = rn
        PROVE  j < i
    <3>1. CASE i \in 1..Len(BP!Backlog) /\ j \in 1..Len(BP!Backlog)
      BY <1>1, <2>2, <2>6, <3>1
    <3>2. CASE i \in 1..Len(BP!Backlog) /\ j = Len(BP!Backlog) + 1
      BY <2>1, <2>2, <2>3, <2>6, <3>2
    <3>3. CASE i = Len(BP!Backlog) + 1 /\ j \in 1..Len(BP!Backlog)
      BY <2>2, <3>3
    <3>4. CASE i = Len(BP!Backlog) + 1 /\ j = Len(BP!Backlog) + 1
      BY <2>4, <2>6, <3>4
    <3> QED
      BY <2>2, <3>1, <3>2, <3>3, <3>4
  <2> QED
    BY <2>5, <2>6
<1>5. ASSUME BP!Backlog' = bCh, BP!Accepted' = BP!Accepted,
             BP!Handed' = BP!Handed \cup BP!Range(bBatch)
      PROVE  /\ rn \in BP!Accepted' /\ rm \in BP!Handed' => rn \in BP!Handed'
             /\ \A i, j \in 1..Len(BP!Backlog') :
                  BP!Backlog'[i] = rm /\ BP!Backlog'[j] = rn => j < i
  <2>1. ASSUME rn \in BP!Accepted, rm \in BP!Range(bBatch), rn \notin BP!Handed
        PROVE  rn \in BP!Range(bBatch)
    <3>1. PICK i \in 1..Len(bBatch) : rm = BP!Backlog[i]
      BY <2>1, BacklogParts
    <3>2. PICK j \in 1..Len(BP!Backlog) : rn = BP!Backlog[j]
      BY <2>1, BacklogParts
    <3>3. j < i
      <4>1. i \in 1..Len(BP!Backlog)
        BY BacklogParts
      <4> QED
        BY <1>1, <3>1, <3>2, <4>1
    <3>4. j \in 1..Len(bBatch)
      BY <3>3, BacklogParts
    <3> QED
      BY <3>2, <3>4, BacklogParts
  <2>2. ASSUME NEW i \in 1..Len(bCh), NEW j \in 1..Len(bCh), bCh[i] = rm, bCh[j] = rn
        PROVE  j < i
    <3>1. /\ Len(bBatch) + i \in 1..Len(BP!Backlog)
          /\ Len(bBatch) + j \in 1..Len(BP!Backlog)
          /\ BP!Backlog[Len(bBatch) + i] = rm /\ BP!Backlog[Len(bBatch) + j] = rn
      <4>1. /\ Len(bBatch) \in Nat /\ Len(bCh) \in Nat
            /\ Len(BP!Backlog) = Len(bBatch) + Len(bCh)
        BY BacklogParts
      <4>2. /\ BP!Backlog[Len(bBatch) + i] = bCh[i]
            /\ BP!Backlog[Len(bBatch) + j] = bCh[j]
        BY BacklogParts
      <4> QED
        BY <2>2, <4>1, <4>2
    <3>2. Len(bBatch) + j < Len(bBatch) + i
      BY <1>1, <3>1
    <3> QED
      BY <3>2, BacklogParts
  <2> QED
    BY <1>1, <1>5, <2>1, <2>2
<1>6. CASE UNCHANGED <<BP!Backlog, BP!Accepted, BP!Handed>>
  BY <1>1, <1>6
<1> HIDE DEF rn, rm
<1>7. \/ \E e \in T!EventRows :
           /\ e \notin bOffered /\ bOffered' = bOffered \cup {e}
           /\ BP!Backlog' = Append(BP!Backlog, e)
           /\ BP!Accepted' = BP!Accepted \cup {e} /\ BP!Handed' = BP!Handed
      \/ /\ BP!Backlog' = bCh
         /\ BP!Accepted' = BP!Accepted
         /\ BP!Handed' = BP!Handed \cup BP!Range(bBatch)
      \/ UNCHANGED <<BP!Backlog, BP!Accepted, BP!Handed>>
  BY BoundsAssumption, EventsNext, BP!BacklogStep DEF Components
<1> QED
  BY <1>4, <1>5, <1>6, <1>7 DEF rn, rm

(* A response is offered without gaps, so a row that was handed over tells *)
(* of every row before it.                                                 *)
LEMMA OrderedFifo == Components /\ Ordered => TurnFifo
<1> SUFFICES ASSUME Components, Ordered,
                    NEW t \in Turn, NEW n \in 1..MaxTools, NEW m \in 1..MaxTools,
                    n < m, T!ResponseRow(t, m) \in B!Handed
             PROVE  T!ResponseRow(t, n) \in B!Handed \cup bDropped
  BY DEF TurnFifo
<1>1. T!ResponseRow(t, m) \in BP!Handed /\ BP!Handed = B!Handed
  BY DEF B!Handed, BP!Handed
<1>2. T!ResponseRow(t, m) \in emitted
  BY <1>1 DEF Components, BP!Ledger, BP!Accepted, Ordered, Emitted, Offered
<1>3. T!ResponseRow(t, n) \in emitted
  <2>1. \A i : T!ResponseRow(t, i) = TP!ResponseRow(t, i)
    BY DEF T!ResponseRow, T!Row, TP!ResponseRow, TP!Row
  <2> QED
    BY <1>2, <2>1, BoundsAssumption, TP!NoGaps DEF Components
<1>4. T!ResponseRow(t, n) \notin uOffered
  <2>1. uOffered \subseteq T!UnprocessedRows
    BY DEF Components, UP!Typed, UP!TypeOK
  <2> QED
    BY <2>1 DEF T!UnprocessedRows, T!UnprocessedRow, T!ResponseRow, T!Row
<1>5. T!ResponseRow(t, n) \in BP!Accepted \cup bDropped
  BY <1>3, <1>4 DEF Ordered, Emitted, Offered, BP!Accepted
<1> QED
  BY <1>1, <1>5 DEF Ordered, HandedInOrder

(* The rows of one response are flushed in the order of its tool calls.    *)
THEOREM TurnFifoHolds == Spec => []TurnFifo
<1>1. Init => Ordered
  <2> SUFFICES ASSUME Init
               PROVE  Ordered
    OBVIOUS
  <2>1. emitted = {} /\ bOffered = {} /\ uOffered = {}
    BY DEF Init, T!Init, B!Init, U!Init
  <2>2. Len(BP!Backlog) = 0 /\ BP!Accepted = {}
    <3>1. bBatch = <<>> /\ bCh = <<>>
      BY DEF Init, B!Init
    <3>2. BP!Backlog = <<>>
      BY <3>1, ConcatEmptySeq, EmptySeq DEF BP!Backlog
    <3> QED
      BY <2>1, <3>2, EmptySeq DEF BP!Accepted
  <2> QED
    BY <2>1, <2>2 DEF Ordered, Emitted, Offered, Queued, HandedInOrder
<1>2. Components /\ Ordered /\ [Next]_vars => Ordered'
  BY EmittedNext, OrderedNext DEF Ordered
<1> QED
  BY <1>1, <1>2, OrderedFifo, ComponentsHold, PTL DEF Spec

-------------------------------------------------------------------------------
(* What the batchers promise, of both of them.                             *)

Whole == Components /\ BP!Kept /\ UP!Kept

LEMMA WholeInit == Init => Whole
  BY BoundsAssumption, SameInit, ComponentsInit, BP!KeptInit, UP!KeptInit DEF Whole

LEMMA WholeNext == Whole /\ [Next]_vars => Whole'
<1> SUFFICES ASSUME Whole, [Next]_vars
             PROVE  Whole'
  OBVIOUS
<1>1. Components'
  BY ComponentsNext DEF Whole
<1>2. BP!Kept'
  BY BoundsAssumption, EventsNext, BP!KeptNext DEF Whole
<1>3. UP!Kept'
  BY BoundsAssumption, UnprocessedNext, UP!KeptNext DEF Whole
<1> QED
  BY <1>1, <1>2, <1>3 DEF Whole

LEMMA WholeHolds == Spec => []Whole
  BY WholeInit, WholeNext, PTL DEF Spec

(* The two instances of a promise say the same.                            *)
LEMMA SameEventPromises ==
  /\ BP!Ledger <=> B!Ledger
  /\ BP!InsertedOnce <=> B!InsertedOnce
  /\ BP!AckedStored <=> B!AckedStored
  /\ BP!BatchBound <=> B!BatchBound
  /\ BP!StopDrains <=> B!StopDrains
  /\ BP!NoEarlyDrop <=> B!NoEarlyDrop
  /\ BP!Drained <=> B!Drained
<1>1. /\ BP!Backlog = B!Backlog /\ BP!Accepted = B!Accepted /\ BP!Handed = B!Handed
      /\ BP!Capacity = B!Capacity /\ BP!Full = B!Full
  BY DEF BP!Backlog, B!Backlog, BP!Accepted, B!Accepted, BP!Handed, B!Handed,
         BP!Capacity, B!Capacity, BP!Full, B!Full
<1>2. BP!Ledger <=> B!Ledger
  BY <1>1 DEF BP!Ledger, B!Ledger, BP!IsInjective, B!IsInjective, BP!Range, B!Range
<1>3. BP!InsertedOnce <=> B!InsertedOnce
  BY DEF BP!InsertedOnce, B!InsertedOnce, BP!Range, B!Range
<1>4. BP!BatchBound <=> B!BatchBound
  BY <1>1 DEF BP!BatchBound, B!BatchBound, BP!Cardinality, B!Cardinality
<1>5. /\ BP!AckedStored <=> B!AckedStored
      /\ BP!StopDrains <=> B!StopDrains
      /\ BP!Drained <=> B!Drained
  BY <1>1 DEF BP!AckedStored, B!AckedStored, BP!StopDrains, B!StopDrains, BP!Drained,
              B!Drained, BP!Range, B!Range
<1>6. BP!NoEarlyDrop <=> B!NoEarlyDrop
  BY <1>1 DEF BP!NoEarlyDrop, B!NoEarlyDrop, BP!Cardinality, B!Cardinality
<1> QED
  BY <1>2, <1>3, <1>4, <1>5, <1>6

LEMMA SameUnprocessedPromises ==
  /\ UP!Ledger <=> U!Ledger
  /\ UP!InsertedOnce <=> U!InsertedOnce
  /\ UP!AckedStored <=> U!AckedStored
  /\ UP!BatchBound <=> U!BatchBound
  /\ UP!StopDrains <=> U!StopDrains
  /\ UP!NoEarlyDrop <=> U!NoEarlyDrop
  /\ UP!Drained <=> U!Drained
<1>1. /\ UP!Backlog = U!Backlog /\ UP!Accepted = U!Accepted /\ UP!Handed = U!Handed
      /\ UP!Capacity = U!Capacity /\ UP!Full = U!Full
  BY DEF UP!Backlog, U!Backlog, UP!Accepted, U!Accepted, UP!Handed, U!Handed,
         UP!Capacity, U!Capacity, UP!Full, U!Full
<1>2. UP!Ledger <=> U!Ledger
  BY <1>1 DEF UP!Ledger, U!Ledger, UP!IsInjective, U!IsInjective, UP!Range, U!Range
<1>3. UP!InsertedOnce <=> U!InsertedOnce
  BY DEF UP!InsertedOnce, U!InsertedOnce, UP!Range, U!Range
<1>4. UP!BatchBound <=> U!BatchBound
  BY <1>1 DEF UP!BatchBound, U!BatchBound, UP!Cardinality, U!Cardinality
<1>5. /\ UP!AckedStored <=> U!AckedStored
      /\ UP!StopDrains <=> U!StopDrains
      /\ UP!Drained <=> U!Drained
  BY <1>1 DEF UP!AckedStored, U!AckedStored, UP!StopDrains, U!StopDrains, UP!Drained,
              U!Drained, UP!Range, U!Range
<1>6. UP!NoEarlyDrop <=> U!NoEarlyDrop
  BY <1>1 DEF UP!NoEarlyDrop, U!NoEarlyDrop, UP!Cardinality, U!Cardinality
<1> QED
  BY <1>2, <1>3, <1>4, <1>5, <1>6

(* The promises of Batcher hold of both batchers of the service.           *)
THEOREM BatchersSafeHolds == Spec => []BatchersSafe
<1>1. Whole => BatchersSafe
  BY SameEventPromises, SameUnprocessedPromises
     DEF Whole, Components, BatchersSafe, BP!Kept, BP!Inserts, BP!Bounded, BP!Room,
         UP!Kept, UP!Inserts, UP!Bounded, UP!Room
<1> QED
  BY <1>1, WholeHolds, PTL

(* A runner that had the time to end has lost nothing but late rows.       *)
THEOREM DrainedIfRunHolds == Spec => []DrainedIfRun
<1>1. Whole => DrainedIfRun
  BY BoundsAssumption, SameEventPromises, SameUnprocessedPromises, BP!DrainedRunner,
     UP!DrainedRunner
     DEF Whole, Components, DrainedIfRun, BP!Kept, UP!Kept
<1> QED
  BY <1>1, WholeHolds, PTL

-------------------------------------------------------------------------------
(* What a stop leaves of the turns.                                        *)

(* The rows of a runner that has ended, but for the late ones.             *)
LEMMA OfferedSettled ==
  ASSUME Whole, bPc = "exited", uPc = "exited",
         NEW r \in Offered, r \notin bLate \cup uLate
  PROVE  Settled(r)
<1>1. B!Drained /\ U!Drained
  BY BoundsAssumption, SameEventPromises, SameUnprocessedPromises, BP!DrainedRunner,
     UP!DrainedRunner
     DEF Whole, Components, BP!Kept, UP!Kept
<1>2. /\ r \in bOffered => r \in bDropped \/ r \in B!Accepted
      /\ r \in uOffered => r \in uDropped \/ r \in U!Accepted
  BY DEF B!Accepted, U!Accepted
<1> QED
  BY <1>1, <1>2 DEF B!Drained, U!Drained, Offered, Settled

(* A turn whose goroutines are done has offered a whole trail.             *)
LEMMA TrailOffered ==
  ASSUME Components, NEW t \in Turn, requestAudit[t] = "done", responseAudit[t] = "done"
  PROVE  /\ T!RequestRow(t) \in emitted
         /\ T!ResponseRow(t, 1) \in emitted \/ T!UnprocessedRow(t) \in emitted
<1>1. TP!RequestRow(t) \in emitted /\ TP!Recorded(t)
  BY DEF Components, TP!Inv, TP!Offers
<1>2. CASE TP!Out(t) = {TP!UnprocessedRow(t)}
  <2>1. TP!UnprocessedRow(t) \in emitted
    BY <1>2 DEF TP!Out
  <2> QED
    BY <1>1, <2>1 DEF TP!RequestRow, TP!UnprocessedRow, TP!Row, T!RequestRow,
                      T!UnprocessedRow, T!Row
<1>3. ASSUME NEW m \in 1..MaxTools, TP!Out(t) = TP!First(t, m)
      PROVE  T!ResponseRow(t, 1) \in emitted
  <2>1. 1 \in 1..m
    BY BoundsAssumption
  <2>2. TP!ResponseRow(t, 1) \in emitted
    BY <1>3, <2>1 DEF TP!First, TP!Out
  <2> QED
    BY <2>2 DEF TP!ResponseRow, TP!Row, T!ResponseRow, T!Row
<1>4. T!RequestRow(t) \in emitted
  BY <1>1 DEF TP!RequestRow, TP!Row, T!RequestRow, T!Row
<1> QED
  BY <1>1, <1>2, <1>3, <1>4 DEF TP!Recorded

LEMMA RunnersSettle ==
  ASSUME Whole, Emitted
  PROVE  StoppedTrail
<1> SUFFICES ASSUME bPc = "exited", uPc = "exited"
             PROVE  /\ \A r \in emitted \ (bLate \cup uLate) : Settled(r)
                    /\ \A t \in Turn :
                         /\ requestAudit[t] = "done" /\ responseAudit[t] = "done"
                         /\ \A r \in bLate \cup uLate : r.turn # t
                         => /\ Settled(T!RequestRow(t))
                            /\ \/ Settled(T!ResponseRow(t, 1))
                               \/ Settled(T!UnprocessedRow(t))
  BY Zenon DEF StoppedTrail
<1>1. ASSUME NEW r \in emitted, r \notin bLate \cup uLate
      PROVE  Settled(r)
  BY <1>1, OfferedSettled DEF Emitted
<1>2. ASSUME NEW t \in Turn, requestAudit[t] = "done", responseAudit[t] = "done",
             \A r \in bLate \cup uLate : r.turn # t
      PROVE  /\ Settled(T!RequestRow(t))
             /\ Settled(T!ResponseRow(t, 1)) \/ Settled(T!UnprocessedRow(t))
  <2>1. /\ T!RequestRow(t) \in emitted
        /\ T!ResponseRow(t, 1) \in emitted \/ T!UnprocessedRow(t) \in emitted
    BY <1>2, TrailOffered DEF Whole
  <2>2. /\ T!RequestRow(t).turn = t /\ T!UnprocessedRow(t).turn = t
        /\ T!ResponseRow(t, 1).turn = t
    BY DEF T!RequestRow, T!UnprocessedRow, T!ResponseRow, T!Row
  <2> QED
    BY <1>1, <1>2, <2>1, <2>2
<1> QED
  BY <1>1, <1>2

(* Two runners that ended lost nothing of a turn that was done in time.    *)
THEOREM StoppedTrailHolds == Spec => []StoppedTrail
<1>1. Init => Emitted
  BY DEF Init, T!Init, B!Init, U!Init, Emitted, Offered
<1> QED
  BY <1>1, EmittedNext, RunnersSettle, WholeHolds, PTL DEF Spec

-------------------------------------------------------------------------------
(* Each batcher is a queue.                                                *)

LEMMA EventQueue ==
  /\ Init => B!Queue!Init
  /\ Whole /\ [Next]_vars => [B!Queue!Next]_(B!Queue!vars)
<1>1. BP!Queue!Init => B!Queue!Init
  BY DEF BP!Queue!Init, B!Queue!Init, BP!Accepted, B!Accepted
<1>2. BP!Queue!Next => B!Queue!Next
  BY DEF BP!Queue!Next, BP!Queue!Accept, BP!Queue!HandOver, BP!Queue!Lose,
         BP!Queue!Leave, BP!Queue!Commit, BP!Accepted,
         B!Queue!Next, B!Queue!Accept, B!Queue!HandOver, B!Queue!Lose,
         B!Queue!Leave, B!Queue!Commit, B!Accepted
<1>3. UNCHANGED BP!Queue!vars => UNCHANGED B!Queue!vars
  BY DEF BP!Queue!vars, B!Queue!vars, BP!Accepted, B!Accepted
<1>4. Init => B!Queue!Init
  BY <1>1, BoundsAssumption, SameInit, BP!QueueInit
<1>5. Whole /\ [Next]_vars => [BP!Queue!Next]_(BP!Queue!vars)
  BY BoundsAssumption, EventsNext, BP!QueueNext DEF Whole, BP!Kept
<1> QED
  BY <1>2, <1>3, <1>4, <1>5

LEMMA UnprocessedQueue ==
  /\ Init => U!Queue!Init
  /\ Whole /\ [Next]_vars => [U!Queue!Next]_(U!Queue!vars)
<1>1. UP!Queue!Init => U!Queue!Init
  BY DEF UP!Queue!Init, U!Queue!Init, UP!Accepted, U!Accepted
<1>2. UP!Queue!Next => U!Queue!Next
  BY DEF UP!Queue!Next, UP!Queue!Accept, UP!Queue!HandOver, UP!Queue!Lose,
         UP!Queue!Leave, UP!Queue!Commit, UP!Accepted,
         U!Queue!Next, U!Queue!Accept, U!Queue!HandOver, U!Queue!Lose,
         U!Queue!Leave, U!Queue!Commit, U!Accepted
<1>3. UNCHANGED UP!Queue!vars => UNCHANGED U!Queue!vars
  BY DEF UP!Queue!vars, U!Queue!vars, UP!Accepted, U!Accepted
<1>4. Init => U!Queue!Init
  BY <1>1, BoundsAssumption, SameInit, UP!QueueInit
<1>5. Whole /\ [Next]_vars => [UP!Queue!Next]_(UP!Queue!vars)
  BY BoundsAssumption, UnprocessedNext, UP!QueueNext DEF Whole, UP!Kept
<1> QED
  BY <1>2, <1>3, <1>4, <1>5

(* What AuditQueue promises, both batchers of the running service keep.    *)
THEOREM TwoQueuesHold == Spec => TwoQueues
  BY WholeInit, WholeNext, EventQueue, UnprocessedQueue, PTL
     DEF Spec, TwoQueues, B!ImplementsQueue, U!ImplementsQueue, B!Queue!Spec,
         U!Queue!Spec

-------------------------------------------------------------------------------
(* The turns' records.                                                     *)

LEMMA TrailStep ==
  /\ Init => T!Trail!Init
  /\ Components /\ [Next]_vars => [T!Trail!Next]_(T!Trail!vars)
<1>1. TP!Trail!Init => T!Trail!Init
  BY DEF TP!Trail!Init, T!Trail!Init
<1>2. TP!Trail!Next => T!Trail!Next
  BY DEF TP!Trail!Next, TP!Trail!RecordRequest, TP!Trail!CloseBody,
         TP!Trail!RecordUnprocessed, TP!Trail!RecordCall, TP!Trail!ResponseTrail,
         TP!Trail!First, TP!Trail!Row,
         T!Trail!Next, T!Trail!RecordRequest, T!Trail!CloseBody,
         T!Trail!RecordUnprocessed, T!Trail!RecordCall, T!Trail!ResponseTrail,
         T!Trail!First, T!Trail!Row
<1>3. UNCHANGED TP!Trail!vars => UNCHANGED T!Trail!vars
  BY DEF TP!Trail!vars, T!Trail!vars
<1>4. Init => T!Trail!Init
  BY <1>1, BoundsAssumption, SameInit, TP!TrailInit
<1>5. Components /\ [Next]_vars => [TP!Trail!Next]_(TP!Trail!vars)
  BY BoundsAssumption, TurnNext, TP!TrailNext DEF Components
<1> QED
  BY <1>2, <1>3, <1>4, <1>5

(* What AuditTrail promises of each turn, the running service keeps.       *)
THEOREM TurnTrailsHold == Spec => TurnTrails
  BY TrailStep, ComponentsHold, PTL DEF Spec, TurnTrails, T!ImplementsTrail, T!Trail!Spec

-------------------------------------------------------------------------------
(* What ClickHouse holds.                                                  *)

(* What a batcher gave to ClickHouse, it accepted from its callers.        *)
LEMMA StoredOffered ==
  ASSUME Whole, Emitted
  PROVE  /\ bTable \cup UNION bWire \subseteq emitted \cap T!EventRows
         /\ uTable \cup UNION uWire \subseteq emitted \cap T!UnprocessedRows
<1>1. \A b \in bWire \cup {bTable} : b \subseteq bOffered /\ b \subseteq T!EventRows
  BY DEF Whole, Components, BP!Kept, BP!Inserts, BP!Provenance, BP!Accepted, BP!Typed,
         BP!TypeOK
<1>2. \A b \in uWire \cup {uTable} :
        b \subseteq uOffered /\ b \subseteq T!UnprocessedRows
  BY DEF Whole, Components, UP!Kept, UP!Inserts, UP!Provenance, UP!Accepted, UP!Typed,
         UP!TypeOK
<1>3. bOffered \subseteq emitted /\ uOffered \subseteq emitted
  BY DEF Emitted, Offered
<1> QED
  BY <1>1, <1>2, <1>3

LEMMA EmittedStored ==
  ASSUME Whole, Emitted
  PROVE  StoredTrail
<1> DEFINE events == bTable \cup UNION bWire
           unprocessed == uTable \cup UNION uWire
<1>1. /\ events \subseteq emitted \cap T!EventRows
      /\ unprocessed \subseteq emitted \cap T!UnprocessedRows
  BY StoredOffered
<1> HIDE DEF events, unprocessed
<1>2. TP!OneRecord /\ TP!SpanEndsOnce
  BY BoundsAssumption, TP!RecordedInOne, TP!SpansEndOnce DEF Whole, Components
<1>3. ASSUME NEW r \in events
      PROVE  \/ r.kind = "request"
             \/ /\ r.kind = "response" /\ r.turn \in Turn
                /\ r \in TP!ResponseEmitted(r.turn)
  <2>1. r \in emitted /\ r \in T!EventRows
    BY <1>1
  <2>2. CASE \E t \in Turn : r = T!RequestRow(t)
    BY <2>2 DEF T!RequestRow, T!Row
  <2>3. CASE \E t \in Turn, n \in 1..MaxTools : r = T!ResponseRow(t, n)
    <3>1. r.kind = "response" /\ r.turn \in Turn
      BY <2>3 DEF T!ResponseRow, T!Row
    <3> QED
      BY <2>1, <3>1 DEF TP!ResponseEmitted
  <2> QED
    BY <2>1, <2>2, <2>3 DEF T!EventRows
<1>4. ASSUME NEW r \in unprocessed
      PROVE  /\ r.kind = "unprocessed" /\ r.turn \in Turn
             /\ TP!UnprocessedEmitted(r.turn)
  <2>1. PICK t \in Turn : r = T!UnprocessedRow(t) /\ r \in emitted
    BY <1>1 DEF T!UnprocessedRows
  <2>2. r.kind = "unprocessed" /\ r.turn = t
    BY <2>1 DEF T!UnprocessedRow, T!Row
  <2> QED
    BY <2>1, <2>2
       DEF TP!UnprocessedEmitted, TP!UnprocessedRow, TP!Row, T!UnprocessedRow, T!Row
<1>5. ASSUME NEW e \in events, NEW u \in unprocessed, e.turn = u.turn
      PROVE  e.kind = "request"
  BY <1>2, <1>3, <1>4, <1>5 DEF TP!OneRecord
<1>6. ASSUME NEW r \in events \cup unprocessed, r.kind # "request"
      PROVE  handler[r.turn] \in {"served", "aborted"} /\ ended[r.turn] = 1
  <2>1. /\ r.turn \in Turn
        /\ TP!ResponseEmitted(r.turn) # {} \/ TP!UnprocessedEmitted(r.turn)
    BY <1>3, <1>4, <1>6
  <2> QED
    BY <1>2, <2>1 DEF TP!OneRecord, TP!SpanEndsOnce
<1> QED
  BY <1>1, <1>5, <1>6 DEF StoredTrail, events, unprocessed

(* The tables, now and after any insert in doubt, hold a turn's trail.     *)
THEOREM StoredTrailHolds == Spec => []StoredTrail
<1>1. Init => Emitted
  BY DEF Init, T!Init, B!Init, U!Init, Emitted, Offered
<1> QED
  BY <1>1, EmittedNext, EmittedStored, WholeHolds, PTL DEF Spec
===============================================================================
