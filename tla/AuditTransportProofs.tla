------------------------- MODULE AuditTransportProofs -------------------------
(***************************************************************************)
(* The safety of AuditTransport for every set of turns and every number of *)
(* tool calls.                                                             *)
(***************************************************************************)
EXTENDS AuditTransport, TLAPS, SequenceTheorems

-------------------------------------------------------------------------------
(* Rows.                                                                   *)

(* The rows of a turn, told apart by kind and number.                      *)
LEMMA RowFields ==
  ASSUME NEW t
  PROVE  /\ RequestRow(t).turn = t /\ RequestRow(t).kind = "request"
         /\ UnprocessedRow(t).turn = t /\ UnprocessedRow(t).kind = "unprocessed"
         /\ \A n : /\ ResponseRow(t, n).turn = t
                   /\ ResponseRow(t, n).kind = "response"
                   /\ ResponseRow(t, n).n = n
  BY DEF RequestRow, UnprocessedRow, ResponseRow, Row

LEMMA RowTypes ==
  ASSUME NEW t \in Turn
  PROVE  /\ RequestRow(t) \in Rows
         /\ UnprocessedRow(t) \in Rows
         /\ \A n \in 1..MaxTools : ResponseRow(t, n) \in Rows
  BY DEF Rows, EventRows, UnprocessedRows

LEMMA RowKinds ==
  ASSUME NEW r \in Rows
  PROVE  r.kind \in {"request", "response", "unprocessed"}
<1>1. ASSUME NEW t \in Turn, r = RequestRow(t) PROVE r.kind = "request"
  BY <1>1, RowFields
<1>2. ASSUME NEW t \in Turn, r = UnprocessedRow(t) PROVE r.kind = "unprocessed"
  BY <1>2, RowFields
<1>3. ASSUME NEW t \in Turn, NEW n, r = ResponseRow(t, n) PROVE r.kind = "response"
  BY <1>3, RowFields
<1> QED
  BY <1>1, <1>2, <1>3 DEF Rows, EventRows, UnprocessedRows

(* What is left of k response rows when m of them were offered.            *)
Left(t, m, k) == [n \in 1..(k - m) |-> ResponseRow(t, m + n)]

LEMMA LeftType ==
  ASSUME NEW t \in Turn, NEW k \in 1..MaxTools, NEW m \in 0..k
  PROVE  /\ Left(t, m, k) \in Seq(Rows)
         /\ Len(Left(t, m, k)) = k - m
<1>1. MaxTools \in Nat
  BY MaxToolsAssumption
<1>2. \A n \in 1..(k - m) : ResponseRow(t, m + n) \in Rows
  BY <1>1, RowTypes
<1>3. Left(t, m, k) \in [1..(k - m) -> Rows]
  BY <1>2 DEF Left
<1>4. k - m \in Nat
  BY <1>1
<1>5. Left(t, m, k) \in Seq(Rows)
  BY <1>3, <1>4, SeqDef
<1>6. DOMAIN Left(t, m, k) = 1..(k - m)
  BY <1>3
<1> QED
  BY <1>4, <1>5, <1>6, LenProperties, SMT

LEMMA LeftNone ==
  ASSUME NEW t \in Turn, NEW k \in 1..MaxTools, NEW m \in 0..k
  PROVE  m = k <=> Left(t, m, k) = <<>>
<1>1. MaxTools \in Nat
  BY MaxToolsAssumption
<1>2. Left(t, m, k) \in Seq(Rows) /\ Len(Left(t, m, k)) = k - m
  BY LeftType
<1> QED
  BY <1>1, <1>2, EmptySeq

(* Offering the head leaves one row fewer.                                 *)
LEMMA LeftStep ==
  ASSUME NEW t \in Turn, NEW k \in 1..MaxTools, NEW m \in 0..(k - 1)
  PROVE  /\ Head(Left(t, m, k)) = ResponseRow(t, m + 1)
         /\ Tail(Left(t, m, k)) = Left(t, m + 1, k)
<1>1. /\ MaxTools \in Nat /\ k \in Nat /\ m \in Nat /\ m < k
      /\ m \in 0..k /\ m + 1 \in 0..k
  BY MaxToolsAssumption
<1>2. /\ Left(t, m, k) \in Seq(Rows) /\ Len(Left(t, m, k)) = k - m
      /\ Left(t, m + 1, k) \in Seq(Rows) /\ Len(Left(t, m + 1, k)) = k - (m + 1)
  BY <1>1, LeftType
<1>3. Left(t, m, k) # <<>>
  BY <1>1, LeftNone
<1>4. /\ Tail(Left(t, m, k)) \in Seq(Rows)
      /\ Len(Tail(Left(t, m, k))) = k - m - 1
      /\ Head(Left(t, m, k)) = Left(t, m, k)[1]
      /\ \A i \in 1..(k - m - 1) : Tail(Left(t, m, k))[i] = Left(t, m, k)[i + 1]
  BY <1>1, <1>2, <1>3, HeadTailProperties
<1>5. \A i \in 1..(k - m) : Left(t, m, k)[i] = ResponseRow(t, m + i)
  BY DEF Left
<1>6. \A i \in 1..(k - (m + 1)) : Left(t, m + 1, k)[i] = ResponseRow(t, (m + 1) + i)
  BY DEF Left
<1>7. \A i \in 1..(k - m - 1) : Tail(Left(t, m, k))[i] = Left(t, m + 1, k)[i]
  <2> SUFFICES ASSUME NEW i \in 1..(k - m - 1)
               PROVE  Tail(Left(t, m, k))[i] = Left(t, m + 1, k)[i]
    OBVIOUS
  <2>1. i \in Nat /\ m + (i + 1) = (m + 1) + i
    BY <1>1
  <2>2. i + 1 \in 1..(k - m) /\ i \in 1..(k - (m + 1))
    BY <1>1
  <2> QED
    BY <1>4, <1>5, <1>6, <2>1, <2>2
<1>8. Tail(Left(t, m, k)) = Left(t, m + 1, k)
  BY <1>1, <1>2, <1>4, <1>7, SeqEqual
<1> QED
  BY <1>1, <1>4, <1>5, <1>8

(* The rows of the first m tool calls.                                     *)
First(t, m) == {ResponseRow(t, n) : n \in 1..m}

LEMMA FirstRows ==
  ASSUME NEW t, NEW m \in Nat, NEW r \in First(t, m)
  PROVE  r.turn = t /\ r.kind = "response" /\ r.n \in 1..m
<1>1. PICK n \in 1..m : r = ResponseRow(t, n)
  BY DEF First
<1> QED
  BY <1>1, RowFields

LEMMA FirstStep ==
  ASSUME NEW t, NEW m \in Nat
  PROVE  First(t, m + 1) = First(t, m) \cup {ResponseRow(t, m + 1)}
<1>1. 1..(m + 1) = (1..m) \cup {m + 1}
  OBVIOUS
<1> QED
  BY <1>1 DEF First

-------------------------------------------------------------------------------
(* What the places of a turn's goroutines say of its span and its rows.    *)

Responding == {"copying", "served", "aborted", "refused"}
Extracted  == {"emitting", "done"}

Stages(t) ==
  /\ responseAudit[t] # "none" <=> handler[t] \in Responding
  /\ responseAudit[t] \in Extracted => handler[t] \in {"served", "aborted"}
  /\ ended[t] = IF handler[t] = "failed" \/ responseAudit[t] \in Extracted
                THEN 1 ELSE 0
  /\ handler[t] \in {"idle", "roundTrip"} => requestAudit[t] = "none"

(* Rows of turn t that are out, other than the request's.                  *)
Out(t) == {r \in emitted : r.turn = t /\ r.kind # "request"}

Recorded(t) ==
  \/ Out(t) = {UnprocessedRow(t)}
  \/ \E m \in 1..MaxTools : Out(t) = First(t, m)

InLoop(t) ==
  \/ todo[t] = <<UnprocessedRow(t)>> /\ Out(t) = {}
  \/ \E k \in 1..MaxTools : \E m \in 0..(k - 1) :
       todo[t] = Left(t, m, k) /\ Out(t) = First(t, m)

Offers(t) ==
  /\ RequestRow(t) \in emitted <=> requestAudit[t] = "done"
  /\ responseAudit[t] = "emitting" => InLoop(t)
  /\ responseAudit[t] # "emitting" => todo[t] = <<>>
  /\ responseAudit[t] \in {"none", "reading"} => Out(t) = {}
  /\ responseAudit[t] = "done" => Recorded(t)

Inv == TypeOK /\ \A t \in Turn : Stages(t) /\ Offers(t)

LEMMA InvInit == Init => Inv
<1> SUFFICES ASSUME Init
             PROVE  Inv
  OBVIOUS
<1>1. <<>> \in Seq(Rows)
  BY EmptySeq
<1>2. todo \in [Turn -> Seq(Rows)]
  BY <1>1, Zenon DEF Init
<1>3. /\ handler = [t \in Turn |-> "idle"]
      /\ requestAudit = [t \in Turn |-> "none"]
      /\ responseAudit = [t \in Turn |-> "none"]
      /\ ended = [t \in Turn |-> 0]
      /\ emitted = {}
      /\ \A t \in Turn : todo[t] = <<>>
  BY Zenon DEF Init
<1>4. TypeOK
  BY <1>2, <1>3 DEF TypeOK, Final
<1>5. ASSUME NEW t \in Turn
      PROVE  Stages(t) /\ Offers(t)
  <2>1. Stages(t)
    BY <1>3 DEF Stages, Responding, Extracted
  <2>2. Out(t) = {} /\ responseAudit[t] = "none" /\ emitted = {} /\ todo[t] = <<>>
    BY <1>3 DEF Out
  <2>3. requestAudit[t] # "done"
    BY <1>3
  <2>4. Offers(t)
    BY <2>2, <2>3, Zenon DEF Offers
  <2> QED
    BY <2>1, <2>4
<1> QED
  BY <1>4, <1>5 DEF Inv

-------------------------------------------------------------------------------
(* Types.                                                                  *)

(* What the callback's loop has before it is a sequence of rows.           *)
LEMMA ExtractionTypes ==
  ASSUME NEW t \in Turn, NEW rows \in Extractions(t)
  PROVE  /\ rows \in Seq(Rows)
         /\ \/ rows = <<UnprocessedRow(t)>>
            \/ \E k \in 1..MaxTools : rows = Left(t, 0, k)
<1>1. CASE rows = <<UnprocessedRow(t)>>
  <2>1. UnprocessedRow(t) \in Rows
    BY RowTypes
  <2> QED
    BY <1>1, <2>1
<1>2. ASSUME NEW k \in 1..MaxTools, rows = [n \in 1..k |-> ResponseRow(t, n)]
      PROVE  rows = Left(t, 0, k) /\ rows \in Seq(Rows)
  <2>1. k \in Nat /\ k - 0 = k /\ 0 \in 0..k
    BY MaxToolsAssumption
  <2>2. \A n \in 1..k : 0 + n = n
    BY <2>1
  <2>3. rows = Left(t, 0, k)
    BY <1>2, <2>1, <2>2 DEF Left
  <2> QED
    BY <2>1, <2>3, LeftType
<1> QED
  BY <1>1, <1>2 DEF Extractions

(* A row about to be offered is the only one of its response, or the next. *)
LEMMA LoopStep ==
  ASSUME Inv, NEW t \in Turn, AuditResponse(t)
  PROVE  LET row == Head(todo[t]) IN
         \/ /\ row = UnprocessedRow(t) /\ Out(t) = {}
            /\ Tail(todo[t]) = <<>> /\ Len(todo[t]) = 1
         \/ \E k \in 1..MaxTools : \E m \in 0..(k - 1) :
              /\ row = ResponseRow(t, m + 1) /\ Out(t) = First(t, m)
              /\ Tail(todo[t]) = Left(t, m + 1, k) /\ Len(todo[t]) = k - m
<1>1. InLoop(t)
  BY DEF AuditResponse, Inv, Offers
<1>2. CASE todo[t] = <<UnprocessedRow(t)>> /\ Out(t) = {}
  BY <1>2
<1>3. ASSUME NEW k \in 1..MaxTools, NEW m \in 0..(k - 1),
             todo[t] = Left(t, m, k), Out(t) = First(t, m)
      PROVE  /\ Head(todo[t]) = ResponseRow(t, m + 1)
             /\ Tail(todo[t]) = Left(t, m + 1, k) /\ Len(todo[t]) = k - m
  <2>1. m \in 0..k
    BY MaxToolsAssumption
  <2> QED
    BY <1>3, <2>1, LeftStep, LeftType
<1> QED
  BY <1>1, <1>2, <1>3 DEF InLoop

(* It is a row of its turn and leaves a list of rows.                      *)
LEMMA LoopTypes ==
  ASSUME Inv, NEW t \in Turn, AuditResponse(t)
  PROVE  LET row == Head(todo[t]) IN
         /\ row \in Rows /\ row.turn = t /\ row.kind # "request"
         /\ emitted' = emitted \cup {row}
         /\ Tail(todo[t]) \in Seq(Rows)
<1> DEFINE row == Head(todo[t])
<1>1. emitted' = emitted \cup {row}
  BY DEF AuditResponse, Emit
<1>2. CASE row = UnprocessedRow(t) /\ Tail(todo[t]) = <<>>
  <2>1. <<>> \in Seq(Rows)
    BY EmptySeq
  <2>2. UnprocessedRow(t) \in Rows
    BY RowTypes
  <2>3. UnprocessedRow(t).turn = t /\ UnprocessedRow(t).kind # "request"
    BY RowFields
  <2> QED
    BY <1>1, <1>2, <2>1, <2>2, <2>3, Zenon
<1>3. ASSUME NEW k \in 1..MaxTools, NEW m \in 0..(k - 1),
             row = ResponseRow(t, m + 1), Tail(todo[t]) = Left(t, m + 1, k)
      PROVE  /\ row \in Rows /\ row.turn = t /\ row.kind = "response"
             /\ Tail(todo[t]) \in Seq(Rows)
  <2>1. m + 1 \in 1..MaxTools /\ m + 1 \in 0..k
    BY MaxToolsAssumption
  <2>2. row \in Rows /\ row.turn = t /\ row.kind = "response"
    BY <1>3, <2>1, RowFields, RowTypes
  <2>3. Tail(todo[t]) \in Seq(Rows)
    BY <1>3, <2>1, LeftType
  <2> QED
    BY <2>2, <2>3
<1> QED
  BY <1>1, <1>2, <1>3, LoopStep

(* The rows of a response are offered in the order of its tool calls.      *)
LEMMA OfferOrder ==
  ASSUME Inv, NEW t \in Turn, AuditResponse(t)
  PROVE  LET row == Head(todo[t]) IN
         /\ row.turn = t /\ row.kind # "request"
         /\ \A r \in Out(t) : row.kind = "response" /\ r.n < row.n
<1> DEFINE row == Head(todo[t])
<1>1. row.turn = t /\ row.kind # "request"
  BY LoopTypes
<1>2. ASSUME NEW k \in 1..MaxTools, NEW m \in 0..(k - 1),
             row = ResponseRow(t, m + 1), Out(t) = First(t, m)
      PROVE  \A r \in Out(t) : row.kind = "response" /\ r.n < row.n
  <2>1. m \in Nat
    BY MaxToolsAssumption
  <2>2. \A r \in Out(t) : r.n \in 1..m
    BY <1>2, <2>1, FirstRows
  <2>3. row.kind = "response" /\ row.n = m + 1
    BY <1>2, RowFields
  <2> QED
    BY <2>1, <2>2, <2>3
<1> QED
  BY <1>1, <1>2, LoopStep

LEMMA TypeNext == Inv /\ [Next]_vars => TypeOK'
<1> SUFFICES ASSUME Inv, [Next]_vars
             PROVE  TypeOK'
  OBVIOUS
<1> USE DEF Inv, TypeOK, Become, Final
<1>1. ASSUME NEW t \in Turn, Arrive(t)
      PROVE  TypeOK'
  BY <1>1 DEF Arrive
<1>2. ASSUME NEW t \in Turn, CallUpstream(t)
      PROVE  TypeOK'
  BY <1>2 DEF CallUpstream
<1>3. ASSUME NEW t \in Turn, UpstreamFails(t)
      PROVE  TypeOK'
  BY <1>3 DEF UpstreamFails, EndSpan
<1>4. ASSUME NEW t \in Turn, UpstreamResponds(t)
      PROVE  TypeOK'
  BY <1>4 DEF UpstreamResponds
<1>5. ASSUME NEW t \in Turn, CloseBody(t)
      PROVE  TypeOK'
  BY <1>5 DEF CloseBody
<1>6. ASSUME NEW t \in Turn, AuditRequest(t)
      PROVE  TypeOK'
  BY <1>6, RowTypes DEF AuditRequest, Emit
<1>7. ASSUME NEW t \in Turn, Extract(t)
      PROVE  TypeOK'
  <2>1. PICK rows \in Extractions(t) : todo' = [todo EXCEPT ![t] = rows]
    BY <1>7 DEF Extract
  <2>2. todo' \in [Turn -> Seq(Rows)]
    BY <2>1, ExtractionTypes
  <2> QED
    BY <1>7, <2>2 DEF Extract, EndSpan
<1>8. ASSUME NEW t \in Turn, AuditResponse(t)
      PROVE  TypeOK'
  <2>1. todo' \in [Turn -> Seq(Rows)]
    BY <1>8, LoopTypes DEF AuditResponse
  <2>2. emitted' \subseteq Rows
    BY <1>8, LoopTypes
  <2> QED
    BY <1>8, <2>1, <2>2 DEF AuditResponse
<1>9. CASE UNCHANGED vars
  BY <1>9 DEF vars
<1> QED
  BY <1>1, <1>2, <1>3, <1>4, <1>5, <1>6, <1>7, <1>8, <1>9
     DEF Next, Serve, Audit

-------------------------------------------------------------------------------
(* Stages and offers.                                                      *)

(* A step of one turn leaves what is said of every other: the rows it      *)
(* offers are its own.                                                     *)
LEMMA OtherTurns ==
  ASSUME NEW t \in Turn, NEW u \in Turn, u # t, Stages(u), Offers(u),
         handler'[u] = handler[u], requestAudit'[u] = requestAudit[u],
         responseAudit'[u] = responseAudit[u], ended'[u] = ended[u],
         todo'[u] = todo[u],
         \A r \in emitted' : r \in emitted \/ r.turn = t,
         emitted \subseteq emitted'
  PROVE  Stages(u)' /\ Offers(u)'
<1>1. Stages(u)'
  BY DEF Stages
<1>2. Out(u)' = Out(u)
  BY DEF Out
<1>3. RequestRow(u) \in emitted' => RequestRow(u) \in emitted
  BY RowFields
<1>4. InLoop(u) => InLoop(u)'
  BY <1>2 DEF InLoop
<1>5. Recorded(u) => Recorded(u)'
  BY <1>2 DEF Recorded
<1>6. Out(u) = {} => Out(u)' = {}
  BY <1>2
<1>7. Offers(u)'
  BY <1>3, <1>4, <1>5, <1>6 DEF Offers
<1> QED
  BY <1>1, <1>7

(* What a step of turn t makes of turn t itself.                           *)
LEMMA OwnTurn ==
  ASSUME Inv, NEW t \in Turn, Arrive(t) \/ Serve(t) \/ Audit(t)
  PROVE  Stages(t)' /\ Offers(t)'
<1> USE DEF Inv, TypeOK, Become, Stages, Responding, Extracted, Final
<1>0. Stages(t) /\ Offers(t)
  BY DEF Inv
<1>1. CASE Arrive(t)
  BY <1>0, <1>1 DEF Arrive, Offers, Out, InLoop, Recorded
<1>2. CASE CallUpstream(t)
  BY <1>0, <1>2 DEF CallUpstream, Offers, Out, InLoop, Recorded
<1>3. CASE UpstreamFails(t)
  BY <1>0, <1>3 DEF UpstreamFails, EndSpan, Offers, Out, InLoop, Recorded
<1>4. CASE UpstreamResponds(t)
  BY <1>0, <1>4 DEF UpstreamResponds, Offers, Out, InLoop, Recorded
<1>5. CASE CloseBody(t)
  BY <1>0, <1>5 DEF CloseBody, Offers, Out, InLoop, Recorded
<1>6. CASE AuditRequest(t)
  <2>1. Stages(t)'
    BY <1>0, <1>6 DEF AuditRequest
  <2>2. Out(t)' = Out(t)
    BY <1>6, RowFields DEF AuditRequest, Emit, Out
  <2>3. RequestRow(t) \in emitted' /\ requestAudit'[t] = "done"
    BY <1>6 DEF AuditRequest, Emit
  <2>4. UNCHANGED <<todo, responseAudit>>
    BY <1>6 DEF AuditRequest
  <2>5. Offers(t)'
    BY <1>0, <2>2, <2>3, <2>4 DEF Offers, InLoop, Recorded
  <2> QED
    BY <2>1, <2>5
<1>7. CASE Extract(t)
  <2>1. Stages(t)'
    BY <1>0, <1>7 DEF Extract, EndSpan
  <2>2. PICK rows \in Extractions(t) : todo' = [todo EXCEPT ![t] = rows]
    BY <1>7 DEF Extract
  <2>3. todo'[t] = rows /\ Out(t)' = {} /\ Out(t) = {}
    BY <1>0, <1>7, <2>2 DEF Extract, Offers, Out
  <2>4. InLoop(t)'
    <3>1. CASE rows = <<UnprocessedRow(t)>>
      BY <2>3, <3>1 DEF InLoop
    <3>2. ASSUME NEW k \in 1..MaxTools, rows = Left(t, 0, k)
          PROVE  InLoop(t)'
      <4>1. 0 \in 0..(k - 1)
        BY MaxToolsAssumption
      <4>2. todo'[t] = Left(t, 0, k) /\ Out(t)' = First(t, 0)
        BY <2>3, <3>2 DEF First
      <4> QED
        BY <4>1, <4>2, Zenon DEF InLoop
    <3> QED
      BY <3>1, <3>2, ExtractionTypes
  <2>5. responseAudit'[t] = "emitting" /\ emitted' = emitted /\ requestAudit' = requestAudit
    BY <1>7 DEF Extract
  <2>6. Offers(t)'
    BY <1>0, <2>4, <2>5 DEF Offers
  <2> QED
    BY <2>1, <2>6
<1>8. CASE AuditResponse(t)
  <2> DEFINE row == Head(todo[t])
  <2>1. Stages(t)'
    BY <1>0, <1>8 DEF AuditResponse
  <2>2. /\ todo'[t] = Tail(todo[t])
        /\ responseAudit'[t] = IF Len(todo[t]) = 1 THEN "done" ELSE "emitting"
        /\ requestAudit' = requestAudit
    BY <1>8 DEF AuditResponse
  <2>3. /\ row.turn = t /\ row.kind # "request"
        /\ emitted' = emitted \cup {row}
    BY <1>8, LoopTypes
  <2>4. Out(t)' = Out(t) \cup {row}
    BY <2>3 DEF Out
  <2>5. RequestRow(t) \in emitted' <=> RequestRow(t) \in emitted
    BY <2>3, RowFields
  <2>6. CASE row = UnprocessedRow(t) /\ Out(t) = {} /\ Tail(todo[t]) = <<>> /\ Len(todo[t]) = 1
    <3>1. Recorded(t)' /\ responseAudit'[t] = "done" /\ todo'[t] = <<>>
      BY <2>2, <2>4, <2>6 DEF Recorded
    <3> QED
      BY <1>0, <2>1, <2>2, <2>5, <3>1 DEF Offers
  <2>7. ASSUME NEW k \in 1..MaxTools, NEW m \in 0..(k - 1),
               row = ResponseRow(t, m + 1), Out(t) = First(t, m),
               Tail(todo[t]) = Left(t, m + 1, k), Len(todo[t]) = k - m
        PROVE  Offers(t)'
    <3>1. k \in Nat /\ m \in Nat /\ m + 1 \in 0..k /\ m + 1 \in 1..MaxTools
      BY MaxToolsAssumption
    <3>2. Out(t)' = First(t, m + 1)
      BY <2>4, <2>7, <3>1, FirstStep
    <3>3. CASE Len(todo[t]) = 1
      <4>1. m + 1 = k
        BY <2>7, <3>1, <3>3
      <4>2. todo'[t] = <<>>
        BY <2>2, <2>7, <3>1, <4>1, LeftNone
      <4>3. Recorded(t)'
        BY <3>1, <3>2 DEF Recorded
      <4> QED
        BY <1>0, <2>2, <2>5, <3>3, <4>2, <4>3 DEF Offers
    <3>4. CASE Len(todo[t]) # 1
      <4>1. m + 1 \in 0..(k - 1)
        BY <2>7, <3>1, <3>4
      <4>2. todo'[t] = Left(t, m + 1, k)
        BY <2>2, <2>7
      <4>3. InLoop(t)'
        BY <3>2, <4>1, <4>2, Zenon DEF InLoop
      <4> QED
        BY <1>0, <2>2, <2>5, <3>4, <4>3 DEF Offers
    <3> QED
      BY <3>3, <3>4
  <2>8. Offers(t)'
    BY <1>8, <2>6, <2>7, LoopStep
  <2> QED
    BY <2>1, <2>8
<1> QED
  BY <1>1, <1>2, <1>3, <1>4, <1>5, <1>6, <1>7, <1>8 DEF Serve, Audit

(* A step of turn t touches nothing else.                                  *)
LEMMA OnlyOwn ==
  ASSUME Inv, NEW t \in Turn, Arrive(t) \/ Serve(t) \/ Audit(t),
         NEW u \in Turn, u # t
  PROVE  /\ handler'[u] = handler[u] /\ requestAudit'[u] = requestAudit[u]
         /\ responseAudit'[u] = responseAudit[u] /\ ended'[u] = ended[u]
         /\ todo'[u] = todo[u]
         /\ \A r \in emitted' : r \in emitted \/ r.turn = t
         /\ emitted \subseteq emitted'
<1> USE DEF Inv, TypeOK, Become, EndSpan, Emit
<1>1. CASE Arrive(t)
  BY <1>1 DEF Arrive
<1>2. CASE CallUpstream(t)
  BY <1>2 DEF CallUpstream
<1>3. CASE UpstreamFails(t)
  BY <1>3 DEF UpstreamFails
<1>4. CASE UpstreamResponds(t)
  BY <1>4 DEF UpstreamResponds
<1>5. CASE CloseBody(t)
  BY <1>5 DEF CloseBody
<1>6. CASE AuditRequest(t)
  BY <1>6, RowFields DEF AuditRequest
<1>7. CASE Extract(t)
  BY <1>7 DEF Extract
<1>8. CASE AuditResponse(t)
  BY <1>8, LoopTypes DEF AuditResponse
<1> QED
  BY <1>1, <1>2, <1>3, <1>4, <1>5, <1>6, <1>7, <1>8 DEF Serve, Audit

LEMMA InvNext == Inv /\ [Next]_vars => Inv'
<1> SUFFICES ASSUME Inv, [Next]_vars
             PROVE  \A u \in Turn : Stages(u)' /\ Offers(u)'
  BY TypeNext DEF Inv
<1>1. ASSUME NEW t \in Turn, Arrive(t) \/ Serve(t) \/ Audit(t), NEW u \in Turn
      PROVE  Stages(u)' /\ Offers(u)'
  <2>1. CASE u = t
    BY <1>1, <2>1, OwnTurn
  <2>2. CASE u # t
    BY <1>1, <2>2, OnlyOwn, OtherTurns DEF Inv
  <2> QED
    BY <2>1, <2>2
<1>2. CASE UNCHANGED vars
  BY <1>2 DEF vars, Inv, Stages, Offers, Out, InLoop, Recorded
<1> QED
  BY <1>1, <1>2 DEF Next

LEMMA InvHolds == Spec => []Inv
  BY InvInit, InvNext, PTL DEF Spec

-------------------------------------------------------------------------------
(* The theorems.                                                           *)

(* Type correctness.                                                       *)
THEOREM TypeCorrect == Spec => []TypeOK
<1>1. Inv => TypeOK
  BY DEF Inv
<1> QED
  BY InvHolds, <1>1, PTL

(* Rows of the response are out only once it was extracted.                *)
LEMMA OutExtracted ==
  ASSUME Inv, NEW t \in Turn
  PROVE  /\ ResponseEmitted(t) # {} \/ UnprocessedEmitted(t) => Out(t) # {}
         /\ Out(t) # {} => responseAudit[t] \in Extracted
<1>1. ResponseEmitted(t) # {} \/ UnprocessedEmitted(t) => Out(t) # {}
  BY RowFields DEF ResponseEmitted, UnprocessedEmitted, Out
<1>2. Out(t) # {} => responseAudit[t] \in Extracted
  BY DEF Inv, TypeOK, Offers, Extracted
<1> QED
  BY <1>1, <1>2

(* They are calls' rows or the unprocessed row.                            *)
LEMMA OneKind ==
  ASSUME Inv, NEW t \in Turn, Out(t) # {}
  PROVE  \/ \A r \in Out(t) : r.kind = "response"
         \/ \A r \in Out(t) : r.kind = "unprocessed"
<1>1. InLoop(t) \/ Recorded(t)
  BY OutExtracted DEF Inv, Offers, Extracted
<1>2. ASSUME NEW m \in Nat, Out(t) = First(t, m)
      PROVE  \A r \in Out(t) : r.kind = "response"
  BY <1>2, FirstRows
<1>3. CASE Out(t) = {UnprocessedRow(t)}
  BY <1>3, RowFields
<1> QED
  BY <1>1, <1>2, <1>3, MaxToolsAssumption DEF InLoop, Recorded

(* A call's row is out only with the rows of all calls before it.          *)
LEMMA NoGaps ==
  ASSUME Inv, NEW t \in Turn, NEW n \in 1..MaxTools, NEW m \in 1..MaxTools, n < m,
         ResponseRow(t, m) \in emitted
  PROVE  ResponseRow(t, n) \in emitted
<1>1. ResponseRow(t, m) \in Out(t) /\ ResponseRow(t, m).n = m
  BY RowFields DEF Out
<1>2. Out(t) # {UnprocessedRow(t)}
  BY <1>1, RowFields DEF Out
<1>3. PICK k \in Nat : Out(t) = First(t, k)
  BY <1>1, <1>2, OutExtracted, MaxToolsAssumption
     DEF Inv, Offers, Extracted, InLoop, Recorded
<1>4. m \in 1..k
  BY <1>1, <1>3, FirstRows
<1>5. n \in 1..k
  BY <1>3, <1>4, MaxToolsAssumption
<1> QED
  BY <1>3, <1>5 DEF First, Out

LEMMA SpansEndOnce == Inv => SpanEndsOnce
  BY OutExtracted DEF Inv, Stages, Final, Extracted, SpanEndsOnce

(* A span ends at most once, at a final place, before any row of its turn. *)
THEOREM SpanEndsOnceHolds == Spec => []SpanEndsOnce
  BY InvHolds, SpansEndOnce, PTL

LEMMA RecordedInOne == Inv => OneRecord
<1> SUFFICES ASSUME Inv, NEW t \in Turn
             PROVE  /\ ~(ResponseEmitted(t) # {} /\ UnprocessedEmitted(t))
                    /\ ResponseEmitted(t) # {} \/ UnprocessedEmitted(t) =>
                         handler[t] \in {"served", "aborted"}
  BY DEF OneRecord
<1>1. /\ UnprocessedEmitted(t) => \E r \in Out(t) : r.kind = "unprocessed"
      /\ ResponseEmitted(t) # {} => \E r \in Out(t) : r.kind = "response"
  BY RowFields DEF ResponseEmitted, UnprocessedEmitted, Out
<1>2. Out(t) # {} =>
        \/ \A r \in Out(t) : r.kind = "response"
        \/ \A r \in Out(t) : r.kind = "unprocessed"
  BY OneKind
<1>3. ~(ResponseEmitted(t) # {} /\ UnprocessedEmitted(t))
  BY <1>1, <1>2
<1> QED
  BY <1>3, OutExtracted DEF Inv, Stages

(* A response is recorded in one of the two tables, after it was served.   *)
THEOREM OneRecordHolds == Spec => []OneRecord
  BY InvHolds, RecordedInOne, PTL

(* The rows still to be offered are different, and none of them is out.    *)
THEOREM OfferedOnceHolds == Spec => []OfferedOnce
<1>1. Inv => OfferedOnce
  <2> SUFFICES ASSUME Inv, NEW t \in Turn
               PROVE  /\ IsInjective(todo[t])
                      /\ Range(todo[t]) \cap emitted = {}
                      /\ RequestRow(t) \in emitted => requestAudit[t] = "done"
    BY DEF OfferedOnce
  <2>1. CASE todo[t] = <<>>
    BY <2>1 DEF Inv, Offers, IsInjective, Range
  <2>2. CASE todo[t] = <<UnprocessedRow(t)>> /\ Out(t) = {}
    BY <2>2, RowFields DEF Inv, Offers, Out, IsInjective, Range
  <2>3. ASSUME NEW k \in 1..MaxTools, NEW m \in 0..(k - 1),
               todo[t] = Left(t, m, k), Out(t) = First(t, m)
        PROVE  IsInjective(todo[t]) /\ Range(todo[t]) \cap emitted = {}
    <3>1. /\ DOMAIN todo[t] = 1..(k - m)
          /\ \A i \in 1..(k - m) : todo[t][i] = ResponseRow(t, m + i)
      BY <2>3 DEF Left
    <3>2. k \in Nat /\ m \in Nat
      BY MaxToolsAssumption
    <3>3. \A i \in 1..(k - m) : /\ todo[t][i].turn = t
                                /\ todo[t][i].kind = "response"
                                /\ todo[t][i].n = m + i
      <4>1. \A n : /\ ResponseRow(t, n).turn = t
                   /\ ResponseRow(t, n).kind = "response"
                   /\ ResponseRow(t, n).n = n
        BY RowFields
      <4> QED
        BY <3>1, <4>1
    <3>4. IsInjective(todo[t])
      <4>1. ASSUME NEW i \in 1..(k - m), NEW j \in 1..(k - m), todo[t][i] = todo[t][j]
            PROVE  i = j
        <5>1. m + i = m + j
          BY <3>3, <4>1
        <5> QED
          BY <3>2, <5>1
      <4> QED
        BY <3>1, <4>1 DEF IsInjective
    <3>5. ASSUME NEW i \in 1..(k - m), todo[t][i] \in emitted
          PROVE  FALSE
      <4>1. todo[t][i] \in Out(t)
        BY <3>3, <3>5 DEF Out
      <4>2. todo[t][i].n \in 1..m
        BY <2>3, <3>2, <4>1, FirstRows
      <4> QED
        BY <3>2, <3>3, <4>2
    <3> QED
      BY <3>1, <3>4, <3>5 DEF Range
  <2> QED
    BY <2>1, <2>2, <2>3 DEF Inv, Offers, InLoop
<1> QED
  BY InvHolds, <1>1, PTL

-------------------------------------------------------------------------------
(* The refinement.                                                         *)

LEMMA SameRows ==
  ASSUME NEW t
  PROVE  /\ \A n : Trail!Row(t, "response", n) = ResponseRow(t, n)
         /\ Trail!Row(t, "request", 0) = RequestRow(t)
         /\ Trail!Row(t, "unprocessed", 0) = UnprocessedRow(t)
         /\ \A m : Trail!First(t, m) = First(t, m)
         /\ Trail!ResponseTrail(t) = Out(t)
  BY DEF Trail!Row, ResponseRow, RequestRow, UnprocessedRow, Row, Trail!First, First,
         Trail!ResponseTrail, Out

Closed   == {t \in Turn : handler[t] \in {"served", "aborted"}}
Finished == {t \in Turn : responseAudit[t] = "done"}

LEMMA TrailInit == Init => Trail!Init
  BY DEF Init, Trail!Init

(* A step that closes no body and offers no row leaves the records.        *)
LEMMA TrailStutters ==
  ASSUME Closed' = Closed, Finished' = Finished, emitted' = emitted
  PROVE  UNCHANGED Trail!vars
  BY DEF Closed, Finished, Trail!vars

LEMMA ServesTrail ==
  ASSUME Inv, NEW t \in Turn, Arrive(t) \/ Serve(t)
  PROVE  [Trail!Next]_Trail!vars
<1> USE DEF Inv, TypeOK, Become, Final
<1>0. Finished' = Finished /\ emitted' = emitted
  <2>1. CASE UpstreamResponds(t)
    <3>1. responseAudit[t] = "none"
      BY <2>1 DEF UpstreamResponds, Stages, Responding
    <3> QED
      BY <2>1, <3>1 DEF UpstreamResponds, Finished
  <2>2. CASE Arrive(t) \/ CallUpstream(t) \/ UpstreamFails(t) \/ CloseBody(t)
    BY <2>2 DEF Arrive, CallUpstream, UpstreamFails, CloseBody, Finished
  <2> QED
    BY <2>1, <2>2 DEF Serve
<1>1. CASE Arrive(t) \/ CallUpstream(t) \/ UpstreamFails(t) \/ UpstreamResponds(t)
  <2>1. Closed' = Closed
    BY <1>1 DEF Arrive, CallUpstream, UpstreamFails, UpstreamResponds, Closed
  <2> QED
    BY <1>0, <2>1, TrailStutters
<1>2. CASE CloseBody(t)
  <2>1. t \notin Closed /\ Closed' = Closed \cup {t}
    BY <1>2 DEF CloseBody, Closed
  <2>2. Trail!CloseBody(t)
    BY <1>0, <2>1 DEF Trail!CloseBody, Closed, Finished
  <2> QED
    BY <2>2 DEF Trail!Next
<1> QED
  BY <1>1, <1>2 DEF Serve

LEMMA AuditsTrail ==
  ASSUME Inv, NEW t \in Turn, Audit(t)
  PROVE  [Trail!Next]_Trail!vars
<1> USE DEF Inv, TypeOK
<1>0. Closed' = Closed
  BY DEF Audit, AuditRequest, Extract, AuditResponse, Closed
<1>1. CASE AuditRequest(t)
  <2>1. RequestRow(t) \notin emitted
    BY <1>1 DEF AuditRequest, Offers
  <2>2. Trail!RecordRequest(t)
    BY <1>0, <1>1, <2>1, SameRows
       DEF AuditRequest, Emit, Trail!RecordRequest, Closed, Finished
  <2> QED
    BY <2>2 DEF Trail!Next
<1>2. CASE Extract(t)
  <2>1. Finished' = Finished /\ emitted' = emitted
    BY <1>2 DEF Extract, Finished
  <2> QED
    BY <1>0, <2>1, TrailStutters
<1>3. CASE AuditResponse(t)
  <2> DEFINE row == Head(todo[t])
  <2>1. t \in Closed /\ t \notin Finished
    BY <1>3 DEF AuditResponse, Stages, Extracted, Closed, Finished
  <2>2. /\ emitted' = emitted \cup {row}
        /\ Finished' = IF Len(todo[t]) = 1 THEN Finished \cup {t} ELSE Finished
    BY <1>3 DEF AuditResponse, Emit, Finished
  <2>3. CASE row = UnprocessedRow(t) /\ Out(t) = {} /\ Len(todo[t]) = 1
    <3>1. Trail!RecordUnprocessed(t)
      BY <1>0, <2>1, <2>2, <2>3, SameRows DEF Trail!RecordUnprocessed, Closed, Finished
    <3> QED
      BY <3>1 DEF Trail!Next
  <2>4. ASSUME NEW k \in 1..MaxTools, NEW m \in 0..(k - 1),
               row = ResponseRow(t, m + 1), Out(t) = First(t, m)
        PROVE  Trail!Next
    <3>1. m + 1 \in 1..MaxTools /\ (m + 1) - 1 = m
      BY MaxToolsAssumption
    <3>2. Trail!ResponseTrail(t) = Trail!First(t, (m + 1) - 1)
      BY <2>4, <3>1, SameRows
    <3>3. Trail!RecordCall(t, m + 1)
      BY <1>0, <2>1, <2>2, <2>4, <3>2, SameRows DEF Trail!RecordCall, Closed, Finished
    <3> QED
      BY <3>1, <3>3 DEF Trail!Next
  <2> QED
    BY <1>3, <2>3, <2>4, LoopStep
<1> QED
  BY <1>1, <1>2, <1>3 DEF Audit

LEMMA TrailNext == Inv /\ [Next]_vars => [Trail!Next]_Trail!vars
<1> SUFFICES ASSUME Inv, [Next]_vars
             PROVE  [Trail!Next]_Trail!vars
  OBVIOUS
<1>1. CASE UNCHANGED vars
  BY <1>1, TrailStutters DEF vars, Closed, Finished
<1>2. CASE Next
  BY <1>2, ServesTrail, AuditsTrail DEF Next
<1> QED
  BY <1>1, <1>2

(* Whatever the transport's goroutines do, the records of each turn grow   *)
(* only by the steps of AuditTrail.                                        *)
THEOREM ImplementsTrailHolds == Spec => ImplementsTrail
  BY InvHolds, TrailInit, TrailNext, PTL DEF Spec, ImplementsTrail, Trail!Spec
===============================================================================
