---------------------------- MODULE StreamTapProofs ----------------------------
(***************************************************************************)
(* The safety of StreamTap for bodies of every length, and that it keeps   *)
(* what BodyCopy promises.                                                 *)
(***************************************************************************)
EXTENDS StreamTap, TLAPS, SequenceTheorems

(* The first chunks are a sequence, and determine their number.            *)
LEMMA FirstChunksSeq ==
  ASSUME NEW n \in Nat, n <= MaxChunks
  PROVE  /\ FirstChunks(n) \in Seq(1..MaxChunks)
         /\ Len(FirstChunks(n)) = n
<1>1. FirstChunks(n) \in [1..n -> 1..MaxChunks]
  BY MaxChunksAssumption DEF FirstChunks
<1>2. FirstChunks(n) \in Seq(1..MaxChunks)
  BY <1>1, SeqDef
<1>3. DOMAIN FirstChunks(n) = 1..n
  BY <1>1
<1> QED
  BY <1>2, <1>3, LenProperties, SMT

(* The next chunk at their end gives one more of them.                     *)
LEMMA FirstChunksAppend ==
  ASSUME NEW n \in Nat, n > 0, n <= MaxChunks
  PROVE  Append(FirstChunks(n - 1), n) = FirstChunks(n)
<1>1. /\ FirstChunks(n - 1) \in Seq(1..MaxChunks)
      /\ Len(FirstChunks(n - 1)) = n - 1
      /\ FirstChunks(n) \in Seq(1..MaxChunks)
      /\ Len(FirstChunks(n)) = n
  <2>1. n - 1 \in Nat /\ n - 1 <= MaxChunks
    BY MaxChunksAssumption
  <2> QED
    BY <2>1, FirstChunksSeq
<1> DEFINE s == Append(FirstChunks(n - 1), n)
<1>2. /\ s \in Seq(1..MaxChunks)
      /\ Len(s) = n
      /\ \A i \in 1..(n - 1) : s[i] = FirstChunks(n - 1)[i]
      /\ s[n] = n
  BY <1>1, MaxChunksAssumption, AppendProperties
<1>3. \A i \in 1..(n - 1) : FirstChunks(n - 1)[i] = i
  BY DEF FirstChunks
<1>4. \A i \in 1..n : s[i] = i
  BY <1>2, <1>3
<1>5. \A i \in 1..n : FirstChunks(n)[i] = i
  BY DEF FirstChunks
<1> HIDE DEF s
<1>6. s = FirstChunks(n)
  BY <1>1, <1>2, <1>4, <1>5, SeqEqual
<1> QED
  BY <1>6 DEF s

-------------------------------------------------------------------------------
(* Where the copy loop's place leaves both copies.  A chunk in the tee is  *)
(* in neither of them, a chunk being written only in the auditor's.  Once  *)
(* the loop has ended, at most the chunk whose write failed is missing at  *)
(* the client.                                                             *)

Looping == copier \in {"read", "tee", "write"}

Places ==
  /\ copier \in {"tee", "write"} => read > 0
  /\ body = FirstChunks(IF copier = "tee" THEN read - 1 ELSE read)
  /\ Looping =>
       /\ ~aborted
       /\ client = FirstChunks(IF copier = "read" THEN read ELSE read - 1)
  /\ ~Looping =>
       \/ client = FirstChunks(read)
       \/ aborted /\ read > 0 /\ client = FirstChunks(read - 1)
  /\ ~Looping /\ ~aborted => source = "eof" /\ read = arrived
  /\ auditor # "reading" => copier = "closed"

Inv == TypeOK /\ Places

LEMMA InvInit == Init => Inv
<1> SUFFICES ASSUME Init
             PROVE  Inv
  OBVIOUS
<1>1. FirstChunks(0) = <<>>
  BY FirstChunksSeq, MaxChunksAssumption, EmptySeq
<1>2. <<>> \in Seq(1..MaxChunks)
  BY EmptySeq
<1>3. TypeOK
  <2>1. client \in Seq(1..MaxChunks) /\ body \in Seq(1..MaxChunks)
    BY <1>2, Zenon DEF Init
  <2>2. arrived \in 0..MaxChunks /\ read \in 0..arrived
    BY MaxChunksAssumption DEF Init
  <2>3. /\ source = "open" /\ copier = "read" /\ auditor = "reading"
        /\ aborted = FALSE
    BY Zenon DEF Init
  <2> QED
    BY <2>1, <2>2, <2>3 DEF TypeOK
<1>4. Places
  BY <1>1 DEF Init, Places, Looping
<1> QED
  BY <1>3, <1>4 DEF Inv

(* Every step keeps types and places.                                      *)
LEMMA InvNext == Inv /\ [Next]_vars => Inv'
<1> SUFFICES ASSUME TypeOK, Places, [Next]_vars
             PROVE  TypeOK' /\ Places'
  BY DEF Inv
<1> USE MaxChunksAssumption DEF TypeOK, Places, Looping
<1>1. CASE Arrive
  BY <1>1 DEF Arrive
<1>2. CASE EndOfBody
  BY <1>2 DEF EndOfBody
<1>3. CASE ReadChunk
  BY <1>3 DEF ReadChunk
<1>4. CASE ReadEnd
  BY <1>4 DEF ReadEnd
<1>5. CASE PipeWrite
  <2>1. /\ read \in Nat /\ read > 0 /\ read <= MaxChunks
        /\ body = FirstChunks(read - 1)
        /\ body' = Append(body, read)
    BY <1>5 DEF PipeWrite
  <2>2. body' = FirstChunks(read)
    BY <2>1, FirstChunksAppend
  <2>3. body' \in Seq(1..MaxChunks)
    BY <2>1, <2>2, FirstChunksSeq
  <2> QED
    BY <1>5, <2>1, <2>2, <2>3 DEF PipeWrite
<1>6. CASE ClientWrite
  <2>1. /\ read \in Nat /\ read > 0 /\ read <= MaxChunks
        /\ client = FirstChunks(read - 1)
        /\ client' = Append(client, read)
    BY <1>6 DEF ClientWrite
  <2>2. client' = FirstChunks(read)
    BY <2>1, FirstChunksAppend
  <2>3. client' \in Seq(1..MaxChunks)
    BY <2>1, <2>2, FirstChunksSeq
  <2> QED
    BY <1>6, <2>1, <2>2, <2>3 DEF ClientWrite
<1>7. CASE ClientGone
  BY <1>7 DEF ClientGone
<1>8. CASE Close
  BY <1>8 DEF Close
<1>9. CASE ReadAllReturns
  BY <1>9 DEF ReadAllReturns
<1>10. CASE OnComplete
  BY <1>10 DEF OnComplete
<1>11. CASE UNCHANGED vars
  BY <1>11 DEF vars
<1> QED
  BY <1>1, <1>2, <1>3, <1>4, <1>5, <1>6, <1>7, <1>8, <1>9, <1>10, <1>11
     DEF Next, Copy, Audit

LEMMA InvHolds == Spec => []Inv
  BY InvInit, InvNext, PTL DEF Spec

(* Type correctness.                                                       *)
THEOREM TypeCorrect == Spec => []TypeOK
<1>1. Inv => TypeOK
  BY DEF Inv
<1> QED
  BY InvHolds, <1>1, PTL

(* The lengths of both copies follow from the places.                      *)
LEMMA Lengths ==
  Inv => /\ Len(body) = IF copier = "tee" THEN read - 1 ELSE read
         /\ client = FirstChunks(Len(client))
         /\ Len(body) - Len(client) \in {0, 1}
<1> SUFFICES ASSUME TypeOK, Places
             PROVE  /\ Len(body) = IF copier = "tee" THEN read - 1 ELSE read
                    /\ client = FirstChunks(Len(client))
                    /\ Len(body) - Len(client) \in {0, 1}
  BY DEF Inv
<1>1. read \in Nat /\ read <= MaxChunks
  BY MaxChunksAssumption DEF TypeOK
<1>2. Len(FirstChunks(read)) = read
  BY <1>1, FirstChunksSeq
<1>3. read > 0 => Len(FirstChunks(read - 1)) = read - 1
  BY <1>1, FirstChunksSeq, MaxChunksAssumption
<1>4. CASE client = FirstChunks(read) /\ copier # "tee"
  BY <1>1, <1>2, <1>4 DEF Places
<1>5. CASE read > 0 /\ client = FirstChunks(read - 1) /\ body = FirstChunks(read)
  BY <1>1, <1>2, <1>3, <1>5 DEF Places, Looping
<1>6. CASE copier = "tee"
  BY <1>1, <1>3, <1>6 DEF Places, Looping
<1> QED
  BY <1>4, <1>5, <1>6 DEF Places, Looping

(* The audit copy is exact and at most one chunk ahead of the client.      *)
THEOREM CopyFaithfulHolds == Spec => []CopyFaithful
<1>1. Inv => CopyFaithful
  BY Lengths DEF Inv, Places, CopyFaithful
<1> QED
  BY InvHolds, <1>1, PTL

(* onComplete sees a closed body and every chunk that was read.            *)
THEOREM CompleteBodyHolds == Spec => []CompleteBody
<1>1. Inv => CompleteBody
  BY DEF Inv, Places, CompleteBody
<1> QED
  BY InvHolds, <1>1, PTL

(* A copy that did not fail delivered the whole response.                  *)
THEOREM WholeUnlessAbortedHolds == Spec => []WholeUnlessAborted
<1>1. Inv => WholeUnlessAborted
  BY DEF Inv, Places, Looping, WholeUnlessAborted
<1> QED
  BY InvHolds, <1>1, PTL

-------------------------------------------------------------------------------
(* BodyCopy.                                                               *)

LEMMA PromiseInit == Init => Promise!Init
  BY DEF Init, Promise!Init

(* Reading from upstream and hearing from it are stutters; PipeWrite is    *)
(* Record, ClientWrite is Deliver, and Close needs no more of the copies.  *)
LEMMA PromiseNext == Inv /\ Inv' /\ [Next]_vars => [Promise!Next]_(Promise!vars)
<1> SUFFICES ASSUME Inv, Inv', [Next]_vars
             PROVE  [Promise!Next]_(Promise!vars)
  OBVIOUS
<1> USE DEF Promise!vars
<1>1. CASE Arrive
  BY <1>1 DEF Arrive
<1>2. CASE EndOfBody
  BY <1>2 DEF EndOfBody
<1>3. CASE ReadChunk
  BY <1>3 DEF ReadChunk
<1>4. CASE ReadEnd
  BY <1>4 DEF ReadEnd
<1>5. CASE PipeWrite
  <2>1. body = client /\ read \in 1..MaxChunks
    BY <1>5, MaxChunksAssumption DEF PipeWrite, Inv, TypeOK, Places, Looping
  <2>2. Promise!Record(read)
    BY <1>5, <2>1 DEF PipeWrite, Promise!Record
  <2> QED
    BY <2>1, <2>2 DEF Promise!Next
<1>6. CASE ClientWrite
  <2>1. /\ auditor = "reading"
        /\ body = FirstChunks(read) /\ body' = body
    BY <1>6 DEF ClientWrite, Inv, TypeOK, Places
  <2>2. /\ body # client
        /\ client' = body
    <3>1. /\ read \in Nat /\ read > 0 /\ read <= MaxChunks
          /\ client = FirstChunks(read - 1)
      BY <1>6, MaxChunksAssumption DEF ClientWrite, Inv, TypeOK, Places, Looping
    <3>2. Len(client) = read - 1 /\ Len(body) = read
      <4>1. /\ read - 1 \in Nat /\ read - 1 <= MaxChunks
        BY <3>1, MaxChunksAssumption
      <4> QED
        BY <2>1, <3>1, <4>1, FirstChunksSeq
    <3>3. client' = FirstChunks(read)
      BY <1>6, <3>1, FirstChunksAppend DEF ClientWrite
    <3> QED
      BY <2>1, <3>1, <3>2, <3>3
  <2>3. Promise!Deliver
    BY <1>6, <2>1, <2>2 DEF ClientWrite, Promise!Deliver
  <2> QED
    BY <2>3 DEF Promise!Next
<1>7. CASE ClientGone
  BY <1>7 DEF ClientGone
<1>8. CASE Close
  <2>1. Promise!CloseBody
    BY <1>8 DEF Close, Promise!CloseBody, Inv, Places
  <2> QED
    BY <2>1 DEF Promise!Next
<1>9. CASE ReadAllReturns
  <2>1. Promise!HandOver
    BY <1>9 DEF ReadAllReturns, Promise!HandOver
  <2> QED
    BY <2>1 DEF Promise!Next
<1>10. CASE OnComplete
  BY <1>10 DEF OnComplete
<1>11. CASE UNCHANGED vars
  BY <1>11 DEF vars
<1> QED
  BY <1>1, <1>2, <1>3, <1>4, <1>5, <1>6, <1>7, <1>8, <1>9, <1>10, <1>11
     DEF Next, Copy, Audit

(* The tap keeps what BodyCopy promises.                                   *)
THEOREM ImplementsBodyCopyHolds == Spec => ImplementsBodyCopy
  BY InvInit, InvNext, PromiseInit, PromiseNext, PTL
     DEF Spec, ImplementsBodyCopy, Promise!Spec
===============================================================================
