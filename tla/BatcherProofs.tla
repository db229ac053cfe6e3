----------------------------- MODULE BatcherProofs -----------------------------
(***************************************************************************)
(* The safety of Batcher for every set of calls, every batch size and      *)
(* every channel capacity.                                                 *)
(***************************************************************************)
EXTENDS Batcher, TLAPS, SequenceTheorems, FiniteSetTheorems

-------------------------------------------------------------------------------
(* Sequences.                                                              *)

(* What Append does to the elements of a sequence.                         *)
LEMMA AppendRange ==
  ASSUME NEW S, NEW s \in Seq(S), NEW e \in S
  PROVE  /\ Append(s, e) \in Seq(S)
         /\ Range(Append(s, e)) = Range(s) \cup {e}
         /\ Len(Append(s, e)) = Len(s) + 1
<1>1. /\ Append(s, e) \in Seq(S)
      /\ Len(Append(s, e)) = Len(s) + 1
      /\ \A i \in 1..Len(s) : Append(s, e)[i] = s[i]
      /\ Append(s, e)[Len(s) + 1] = e
  BY AppendProperties
<1>2. Range(s) = {s[i] : i \in 1..Len(s)}
  BY RangeEquality
<1>3. Range(Append(s, e)) = {Append(s, e)[i] : i \in 1..(Len(s) + 1)}
  BY <1>1, RangeEquality
<1>4. 1..(Len(s) + 1) = 1..Len(s) \cup {Len(s) + 1}
  BY LenProperties
<1>5. {Append(s, e)[i] : i \in 1..Len(s)} = {s[i] : i \in 1..Len(s)}
  BY <1>1
<1> QED
  BY <1>1, <1>2, <1>3, <1>4, <1>5

(* A new element keeps a sequence free of repetitions.                     *)
LEMMA AppendInjection ==
  ASSUME NEW S, NEW s \in Seq(S), NEW e \in S,
         IsInjective(s), e \notin Range(s)
  PROVE  IsInjective(Append(s, e))
<1>1. /\ DOMAIN Append(s, e) = 1..(Len(s) + 1)
      /\ \A i \in 1..Len(s) : Append(s, e)[i] = s[i]
      /\ Append(s, e)[Len(s) + 1] = e
  BY AppendProperties, LenProperties
<1>2. /\ DOMAIN s = 1..Len(s)
      /\ Len(s) \in Nat
      /\ \A i \in 1..Len(s) : s[i] # e
  BY LenProperties DEF Range
<1>3. SUFFICES ASSUME NEW a \in 1..(Len(s) + 1), NEW b \in 1..(Len(s) + 1),
                      Append(s, e)[a] = Append(s, e)[b]
               PROVE  a = b
  BY <1>1 DEF IsInjective
<1>4. CASE a \in 1..Len(s) /\ b \in 1..Len(s)
  BY <1>1, <1>2, <1>3, <1>4 DEF IsInjective
<1>5. CASE a = Len(s) + 1 \/ b = Len(s) + 1
  BY <1>1, <1>2, <1>3, <1>5
<1> QED
  BY <1>2, <1>4, <1>5

(* Moving the head of t to the end of s keeps their concatenation.         *)
LEMMA MoveHead ==
  ASSUME NEW S, NEW s \in Seq(S), NEW t \in Seq(S), t # <<>>
  PROVE  /\ Head(t) \in S
         /\ Tail(t) \in Seq(S)
         /\ Len(Tail(t)) = Len(t) - 1
         /\ Append(s, Head(t)) \o Tail(t) = s \o t
         /\ Range(t) = Range(Tail(t)) \cup {Head(t)}
<1>1. /\ Head(t) \in S
      /\ Tail(t) \in Seq(S)
      /\ Len(Tail(t)) = Len(t) - 1
      /\ \A i \in 1..Len(Tail(t)) : Tail(t)[i] = t[i + 1]
  BY HeadTailProperties
<1>2. t = <<Head(t)>> \o Tail(t)
  BY HeadTailProperties
<1>3. Append(s, Head(t)) = s \o <<Head(t)>>
  BY <1>1, AppendIsConcat
<1>4. Append(s, Head(t)) \o Tail(t) = s \o t
  BY <1>1, <1>2, <1>3, ConcatAssociative
<1>5. <<Head(t)>> \in Seq(S)
  BY <1>1
<1>6. Range(<<Head(t)>> \o Tail(t)) = Range(<<Head(t)>>) \cup Range(Tail(t))
  <2> DEFINE y == <<Head(t)>>
             z == Tail(t)
  <2>1. y \in Seq(S) /\ z \in Seq(S)
    BY <1>1, <1>5
  <2> HIDE DEF y, z
  <2>2. Range(y \o z) = Range(y) \cup Range(z)
    BY <2>1, RangeConcatenation
  <2> QED
    BY <2>2 DEF y, z
<1>7. Range(<<Head(t)>>) = {Head(t)}
  BY DEF Range
<1> QED
  BY <1>1, <1>2, <1>4, <1>6, <1>7

(* The two halves of a sequence free of repetitions.                       *)
LEMMA InjectiveHalves ==
  ASSUME NEW S, NEW s \in Seq(S), NEW t \in Seq(S), IsInjective(s \o t)
  PROVE  /\ IsInjective(t)
         /\ Range(s) \cap Range(t) = {}
<1>1. /\ Len(s) \in Nat /\ Len(t) \in Nat
      /\ DOMAIN s = 1..Len(s) /\ DOMAIN t = 1..Len(t)
      /\ DOMAIN (s \o t) = 1..(Len(s) + Len(t))
      /\ \A i \in 1..Len(s) : (s \o t)[i] = s[i]
      /\ \A i \in 1..Len(t) : (s \o t)[i + Len(s)] = t[i]
  BY SMTT(30)
<1>2. \A i, j \in 1..(Len(s) + Len(t)) : (s \o t)[i] = (s \o t)[j] => i = j
  BY <1>1 DEF IsInjective
<1>3. ASSUME NEW i \in 1..Len(t), NEW j \in 1..Len(t), t[i] = t[j]
      PROVE  i = j
  <2>1. /\ i + Len(s) \in 1..(Len(s) + Len(t))
        /\ j + Len(s) \in 1..(Len(s) + Len(t))
        /\ (s \o t)[i + Len(s)] = (s \o t)[j + Len(s)]
    BY <1>1, <1>3
  <2> QED
    BY <1>1, <1>2, <2>1
<1>4. ASSUME NEW i \in 1..Len(s), NEW j \in 1..Len(t)
      PROVE  s[i] # t[j]
  <2>1. /\ i \in 1..(Len(s) + Len(t))
        /\ j + Len(s) \in 1..(Len(s) + Len(t))
        /\ i # j + Len(s)
    BY <1>1
  <2> QED
    BY <1>1, <1>2, <2>1
<1>5. IsInjective(t)
  BY <1>1, <1>3 DEF IsInjective
<1>6. Range(s) \cap Range(t) = {}
  BY <1>1, <1>4 DEF Range
<1> QED
  BY <1>5, <1>6
-------------------------------------------------------------------------------
(* Types, and what the runner's position says of its slice.                *)

Shape ==
  /\ Len(ch) <= Capacity
  /\ stage # "idle" => pc \in FlushPCs
  /\ stage = "idle" => rows = 0
  /\ stage = "sent" => rows = Len(batch)
  /\ pc \in {"drain", "finalFlush", "exited"} => done
  /\ pc = "exited" => batch = <<>>

Typed == TypeOK /\ Shape

LEMMA CapacityIsNat == size \in Sizes => size \in Nat /\ Capacity \in Nat
  BY SizeAssumption DEF Capacity

(* Nothing changes the size, or what is computed from it.                  *)
LEMMA SameSize == [Next]_vars => UNCHANGED <<size, Capacity, Full>>
<1> SUFFICES ASSUME [Next]_vars
             PROVE  size' = size
  BY DEF Capacity, Full
<1> QED
  BY DEF Next, Add, Enqueue, Handoff, Drop, Offer, Stop, Tick, Run, ReceiveEvent,
         ReceiveTick, ReceiveDone, Drain, DrainEvent, DrainEmpty, Write, PrepareBatch,
         AppendRow, Send, WriteOk, WriteErr, Commit, vars

LEMMA TypedInit == Init => Typed
<1> SUFFICES ASSUME Init
             PROVE  Typed
  OBVIOUS
<1>1. <<>> \in Seq(Event) /\ Len(<<>>) = 0
  BY EmptySeq
<1>2. rows \in 0..Len(batch)
  BY <1>1 DEF Init
<1>3. TypeOK
  BY <1>1, <1>2 DEF Init, TypeOK, PCs, Accepted
<1>4. Shape
  BY <1>1, CapacityIsNat DEF Init, Shape, FlushPCs
<1> QED
  BY <1>3, <1>4 DEF Typed

(* Every step of the specification keeps types and shape.                  *)
LEMMA TypedNext == Typed /\ [Next]_vars => Typed'
<1> SUFFICES ASSUME TypeOK, Shape, [Next]_vars
             PROVE  TypeOK' /\ Shape'
  BY DEF Typed
<1>0. UNCHANGED <<size, Capacity>>
  BY SameSize
<1> USE <1>0 DEF TypeOK, Shape, PCs, FlushPCs, Accepted,
                 runner, server, calls, fates
<1>1. ASSUME NEW e \in Event, Add(e)
      PROVE  TypeOK' /\ Shape'
  <2>1. CASE Enqueue(e)
    <3>1. /\ ch' \in Seq(Event)
          /\ Len(ch') = Len(ch) + 1
      BY <2>1, AppendRange DEF Enqueue, Offer
    <3>2. Len(ch') <= Capacity
      BY <2>1, <3>1, CapacityIsNat, LenProperties DEF Enqueue
    <3> QED
      BY <2>1, <3>1, <3>2 DEF Enqueue, Offer, Lateness
  <2>2. CASE Handoff(e)
    <3>1. batch' \in Seq(Event)
      BY <2>2, AppendRange DEF Handoff, Offer, Take
    <3> QED
      BY <2>2, <3>1 DEF Handoff, Offer, Take
  <2>3. CASE Drop(e)
    <3>1. late \subseteq offered \ dropped /\ e \notin offered
      BY <2>3 DEF Drop, Offer
    <3> QED
      BY <2>3, <3>1 DEF Drop, Offer
  <2> QED
    BY <1>1, <2>1, <2>2, <2>3 DEF Add
<1>2. CASE Stop
  BY <1>2 DEF Stop
<1>3. CASE Tick
  BY <1>3 DEF Tick
<1>4. CASE ReceiveEvent
  <2>1. /\ ch' \in Seq(Event)
        /\ Len(ch') <= Capacity
        /\ batch' \in Seq(Event)
    BY <1>4, MoveHead, AppendRange, CapacityIsNat, LenProperties DEF ReceiveEvent, Take
  <2> QED
    BY <1>4, <2>1 DEF ReceiveEvent, Take
<1>5. CASE ReceiveTick
  BY <1>5 DEF ReceiveTick
<1>6. CASE ReceiveDone
  BY <1>6 DEF ReceiveDone
<1>7. CASE DrainEvent
  <2>1. /\ ch' \in Seq(Event)
        /\ Len(ch') <= Capacity
        /\ batch' \in Seq(Event)
    BY <1>7, MoveHead, AppendRange, CapacityIsNat, LenProperties DEF DrainEvent
  <2> QED
    BY <1>7, <2>1 DEF DrainEvent
<1>8. CASE DrainEmpty
  BY <1>8 DEF DrainEmpty
<1>9. CASE PrepareBatch
  BY <1>9 DEF PrepareBatch
<1>10. CASE AppendRow
  BY <1>10 DEF AppendRow
<1>11. CASE Send
  <2>1. \A i \in 1..rows : batch[i] \in Event
    BY <1>11, ElementOfSeq DEF Send
  <2>2. Block \subseteq Event
    BY <2>1 DEF Block
  <2> QED
    BY <1>11, <2>2 DEF Send
<1>12. CASE WriteOk
  <2>1. Range(batch) \subseteq Event
    BY RangeOfSeq
  <2>2. ticker' \in BOOLEAN
    BY <1>12, Zenon DEF WriteOk, FlushReturns
  <2>3. batch' \in Seq(Event) /\ rows' \in 0..Len(batch')
    BY <1>12, EmptySeq DEF WriteOk, FlushReturns
  <2>4. Shape'
    BY <1>12 DEF WriteOk, FlushReturns
  <2> QED
    BY <1>12, <2>1, <2>2, <2>3, <2>4 DEF WriteOk, FlushReturns
<1>13. CASE WriteErr
  <2>1. Range(batch) \subseteq Event
    BY RangeOfSeq
  <2>2. ticker' \in BOOLEAN
    BY <1>13, Zenon DEF WriteErr, FlushReturns
  <2>3. batch' \in Seq(Event) /\ rows' \in 0..Len(batch')
    BY <1>13, EmptySeq DEF WriteErr, FlushReturns
  <2>4. Shape'
    BY <1>13 DEF WriteErr, FlushReturns
  <2> QED
    BY <1>13, <2>1, <2>2, <2>3, <2>4 DEF WriteErr, FlushReturns
<1>14. ASSUME NEW b \in wire, Commit(b)
       PROVE  TypeOK' /\ Shape'
  BY <1>14 DEF Commit
<1>15. CASE UNCHANGED vars
  BY <1>15 DEF vars
<1> QED
  BY <1>1, <1>2, <1>3, <1>4, <1>5, <1>6, <1>7, <1>8, <1>9, <1>10, <1>11,
     <1>12, <1>13, <1>14, <1>15 DEF Next, Run, Drain, Write

(* Type correctness.                                                       *)
THEOREM TypeCorrect == Spec => []TypeOK
<1>1. Typed => TypeOK
  BY DEF Typed
<1> QED
  BY TypedInit, TypedNext, <1>1, PTL DEF Spec
-------------------------------------------------------------------------------
(* The ledger.                                                             *)

(* A complete insert block is the slice.                                   *)
LEMMA WholeBlock == Typed /\ rows = Len(batch) => Block = Range(batch)
  BY RangeEquality DEF Typed, TypeOK, Block

(* An empty channel leaves nothing between the slice and a new event.      *)
LEMMA BacklogGrows ==
  ASSUME NEW S, NEW s \in Seq(S), NEW t \in Seq(S), NEW e \in S
  PROVE  /\ s \o t \in Seq(S)
         /\ s \o Append(t, e) = Append(s \o t, e)
         /\ t = <<>> => s \o t = s /\ Append(s, e) \o t = Append(s \o t, e)
<1>1. s \o t \in Seq(S)
  BY ConcatProperties
<1>2. <<e>> \in Seq(S)
  OBVIOUS
<1>3. /\ Append(t, e) = t \o <<e>>
      /\ Append(s \o t, e) = (s \o t) \o <<e>>
  BY <1>1, AppendIsConcat
<1>4. s \o (t \o <<e>>) = (s \o t) \o <<e>>
  BY <1>2, ConcatAssociative
<1>5. s \o <<>> = s /\ Append(s, e) \o <<>> = Append(s, e)
  BY ConcatEmptySeq, AppendProperties
<1> QED
  BY <1>1, <1>3, <1>4, <1>5

(* Add puts the new event at the end of the backlog.                       *)
LEMMA AcceptStep ==
  ASSUME Typed, NEW e \in Event, Enqueue(e) \/ Handoff(e)
  PROVE  /\ Backlog \in Seq(Event)
         /\ Backlog' = Append(Backlog, e)
         /\ e \notin offered /\ Accepted' = Accepted \cup {e}
         /\ UNCHANGED <<stage, server, fates>>
<1>1. Backlog \in Seq(Event)
  BY BacklogGrows DEF Typed, TypeOK, Backlog
<1>2. Backlog' = Append(Backlog, e)
  <2>1. CASE Enqueue(e)
    BY <2>1, BacklogGrows DEF Enqueue, Typed, TypeOK, Backlog
  <2>2. CASE Handoff(e)
    <3>1. ch = <<>>
      BY <2>2, EmptySeq, LenProperties DEF Handoff, Typed, TypeOK, Shape
    <3> QED
      BY <2>2, <3>1, BacklogGrows DEF Handoff, Take, Typed, TypeOK, Backlog
  <2> QED
    BY <2>1, <2>2
<1>3. /\ e \notin offered /\ offered' = offered \cup {e} /\ dropped' = dropped
      /\ UNCHANGED <<stage, server, fates>>
  BY DEF Enqueue, Handoff, Offer
<1>4. Accepted' = Accepted \cup {e}
  BY <1>3 DEF Accepted, Typed, TypeOK
<1> QED
  BY <1>1, <1>2, <1>3, <1>4

(* A dropped event was never accepted.                                     *)
LEMMA DropStep ==
  ASSUME Typed, NEW e \in Event, Drop(e)
  PROVE  /\ Accepted' = Accepted
         /\ UNCHANGED <<ch, batch, stage, server, fates>>
  BY DEF Drop, Offer, Accepted, Typed, TypeOK

(* Receiving moves the oldest event of the channel and keeps the backlog.  *)
LEMMA ReceiveStep ==
  ASSUME Typed, ReceiveEvent \/ DrainEvent
  PROVE  /\ Backlog' = Backlog
         /\ Range(batch') = Range(batch) \cup {Head(ch)}
         /\ Range(ch) = Range(ch') \cup {Head(ch)}
         /\ stage = "idle"
         /\ UNCHANGED <<stage, server, calls, fates>>
<1>1. /\ batch' = Append(batch, Head(ch))
      /\ ch # <<>> /\ ch' = Tail(ch)
      /\ UNCHANGED <<stage, server, calls, fates>>
  BY DEF ReceiveEvent, DrainEvent, Take
<1>2. stage = "idle"
  BY DEF ReceiveEvent, DrainEvent, Typed, Shape, TypeOK, FlushPCs
<1>3. Head(ch) \in Event
  BY <1>1, MoveHead DEF Typed, TypeOK
<1> QED
  BY <1>1, <1>2, <1>3, MoveHead, AppendRange DEF Typed, TypeOK, Backlog

(* A flush that returns takes the slice out of the backlog.                *)
LEMMA FlushStep ==
  ASSUME Typed, FlushReturns, UNCHANGED ch
  PROVE  /\ Backlog' = ch
         /\ Range(Backlog) = Range(batch) \cup Range(ch)
         /\ Range(batch') = {}
         /\ stage' = "idle"
<1>1. batch' = <<>> /\ stage' = "idle"
  BY DEF FlushReturns
<1>2. <<>> \o ch = ch
  BY ConcatEmptySeq DEF Typed, TypeOK
<1>3. Range(batch \o ch) = Range(batch) \cup Range(ch)
  BY RangeConcatenation DEF Typed, TypeOK
<1>4. Range(<<>>) = {}
  BY DEF Range
<1> QED
  BY <1>1, <1>2, <1>3, <1>4 DEF Backlog

LEMMA LedgerInit == Init => Ledger
<1> SUFFICES ASSUME Init
             PROVE  Ledger
  OBVIOUS
<1>1. Backlog = <<>>
  BY ConcatEmptySeq, EmptySeq DEF Init, Backlog
<1> QED
  BY <1>1 DEF Init, Ledger, Accepted, Handed, Range, IsInjective

(* Steps that move no event between the backlog and a flush's outcome.     *)
LEMMA LedgerStutter ==
  ASSUME Ledger, UNCHANGED <<Backlog, Accepted, fates>>
  PROVE  Ledger'
  BY DEF Ledger, Handed, fates

LEMMA LedgerNext == Typed /\ Ledger /\ [Next]_vars => Ledger'
<1> SUFFICES ASSUME Typed, Ledger, [Next]_vars
             PROVE  Ledger'
  OBVIOUS
<1>1. ASSUME NEW e \in Event, Enqueue(e) \/ Handoff(e)
      PROVE  Ledger'
  <2>1. e \notin Range(Backlog) /\ e \notin Handed
    BY <1>1, AcceptStep DEF Ledger, Accepted
  <2>2. /\ Range(Backlog') = Range(Backlog) \cup {e}
        /\ IsInjective(Backlog')
    <3>1. Backlog \in Seq(Event) /\ Backlog' = Append(Backlog, e)
      BY <1>1, AcceptStep
    <3>2. Range(Append(Backlog, e)) = Range(Backlog) \cup {e}
      BY <3>1, AppendRange
    <3>3. IsInjective(Append(Backlog, e))
      BY <2>1, <3>1, AppendInjection DEF Ledger
    <3> QED
      BY <3>1, <3>2, <3>3
  <2>3. Handed' = Handed /\ acked' = acked /\ discarded' = discarded
    BY <1>1, AcceptStep DEF Handed, fates
  <2> QED
    BY <1>1, <2>1, <2>2, <2>3, AcceptStep DEF Ledger
<1>2. ASSUME NEW e \in Event, Drop(e)
      PROVE  Ledger'
  BY <1>2, DropStep, LedgerStutter DEF Backlog
<1>3. CASE ReceiveEvent \/ DrainEvent
  BY <1>3, ReceiveStep, LedgerStutter DEF calls, Accepted
<1>4. ASSUME FlushReturns, UNCHANGED <<ch, calls>>,
             \/ acked' = acked \cup Range(batch) /\ discarded' = discarded
             \/ discarded' = discarded \cup Range(batch) /\ acked' = acked
      PROVE  Ledger'
  <2>1. /\ IsInjective(ch)
        /\ Range(batch) \cap Range(ch) = {}
    BY InjectiveHalves DEF Ledger, Backlog, Typed, TypeOK
  <2>2. /\ Backlog' = ch
        /\ Range(Backlog) = Range(batch) \cup Range(ch)
    BY <1>4, FlushStep
  <2>3. /\ Handed' = Handed \cup Range(batch)
        /\ Accepted' = Accepted
    BY <1>4 DEF Handed, calls, Accepted
  <2> QED
    BY <1>4, <2>1, <2>2, <2>3 DEF Ledger, Handed
<1>5. CASE WriteOk
  BY <1>4, <1>5 DEF WriteOk
<1>6. CASE WriteErr
  BY <1>4, <1>6 DEF WriteErr
<1>7. CASE \/ Stop \/ Tick \/ ReceiveTick \/ ReceiveDone \/ DrainEmpty
           \/ PrepareBatch \/ AppendRow \/ Send \/ UNCHANGED vars
  <2>1. UNCHANGED <<batch, ch, calls, fates>>
    BY <1>7 DEF Stop, Tick, ReceiveTick, ReceiveDone, DrainEmpty,
                PrepareBatch, AppendRow, Send, vars, runner
  <2> QED
    BY <2>1, LedgerStutter DEF Backlog, calls, Accepted
<1>8. ASSUME NEW b \in wire, Commit(b)
      PROVE  Ledger'
  BY <1>8, LedgerStutter DEF Commit, runner, calls, Backlog, Accepted
<1> QED
  BY <1>1, <1>2, <1>3, <1>5, <1>6, <1>7, <1>8
     DEF Next, Add, Run, Drain, Write

(* All that ever happens to the backlog: an event joins at its end, or a   *)
(* flush takes a prefix of it away.                                        *)
LEMMA BacklogStep ==
  ASSUME Typed, [Next]_vars
  PROVE  \/ \E e \in Event :
              /\ e \notin offered /\ offered' = offered \cup {e}
              /\ Backlog' = Append(Backlog, e)
              /\ Accepted' = Accepted \cup {e} /\ Handed' = Handed
         \/ /\ Backlog' = ch
            /\ Accepted' = Accepted /\ Handed' = Handed \cup Range(batch)
         \/ UNCHANGED <<Backlog, Accepted, Handed>>
<1>1. ASSUME NEW e \in Event, Enqueue(e) \/ Handoff(e)
      PROVE  /\ e \notin offered /\ offered' = offered \cup {e}
             /\ Backlog' = Append(Backlog, e)
             /\ Accepted' = Accepted \cup {e} /\ Handed' = Handed
  BY <1>1, AcceptStep DEF Handed, fates, Enqueue, Handoff, Offer
<1>2. ASSUME NEW e \in Event, Drop(e)
      PROVE  UNCHANGED <<Backlog, Accepted, Handed>>
  BY <1>2, DropStep DEF Backlog, Handed, fates
<1>3. CASE ReceiveEvent \/ DrainEvent
  BY <1>3, ReceiveStep DEF calls, fates, Accepted, Handed
<1>4. CASE WriteOk \/ WriteErr
  <2>1. FlushReturns /\ UNCHANGED <<ch, calls>>
    BY <1>4 DEF WriteOk, WriteErr
  <2>2. Backlog' = ch
    BY <2>1, FlushStep
  <2> QED
    BY <1>4, <2>1, <2>2 DEF WriteOk, WriteErr, Handed, calls, Accepted
<1>5. CASE \/ Stop \/ Tick \/ ReceiveTick \/ ReceiveDone \/ DrainEmpty
           \/ PrepareBatch \/ AppendRow \/ Send \/ UNCHANGED vars
  <2>1. UNCHANGED <<batch, ch, calls, fates>>
    BY <1>5 DEF Stop, Tick, ReceiveTick, ReceiveDone, DrainEmpty,
                PrepareBatch, AppendRow, Send, vars, runner
  <2> QED
    BY <2>1 DEF Backlog, calls, fates, Accepted, Handed
<1>6. ASSUME NEW b \in wire, Commit(b)
      PROVE  UNCHANGED <<Backlog, Accepted, Handed>>
  BY <1>6 DEF Commit, runner, calls, fates, Backlog, Accepted, Handed
<1> QED
  BY <1>1, <1>2, <1>3, <1>4, <1>5, <1>6 DEF Next, Add, Run, Drain, Write

(* Every accepted event is in exactly one place.                           *)
THEOREM LedgerHolds == Spec => []Ledger
  BY TypedInit, TypedNext, LedgerInit, LedgerNext, PTL DEF Spec

-------------------------------------------------------------------------------
(* At most one row per event.                                              *)

(* Only accepted events reach the server.                                  *)
Provenance == \A b \in wire \cup {table} : b \subseteq Accepted

(* The events that a later insert may still carry.                         *)
Unsent == Range(ch) \cup (IF stage = "sent" THEN {} ELSE Range(batch))

Inserts ==
  /\ Typed /\ Ledger
  /\ Provenance
  /\ InsertedOnce

(* Steps that insert nothing and bring only new events to the backlog.     *)
LEMMA InsertsKept ==
  ASSUME Inserts, UNCHANGED server,
         Accepted \subseteq Accepted',
         Unsent' \cap Accepted \subseteq Unsent
  PROVE  Provenance' /\ InsertedOnce'
<1>1. wire' = wire /\ table' = table
  BY DEF server
<1>2. \A b \in wire \cup {table} : b \subseteq Accepted /\ b \cap Unsent = {}
  BY DEF Inserts, InsertedOnce, Provenance, Unsent
<1>3. \A b \in wire \cup {table} : b \subseteq Accepted' /\ b \cap Unsent' = {}
  BY <1>2
<1> QED
  BY <1>1, <1>3 DEF Inserts, InsertedOnce, Provenance, Unsent

LEMMA InsertsNext == Inserts /\ [Next]_vars => Provenance' /\ InsertedOnce'
<1> SUFFICES ASSUME Inserts, [Next]_vars
             PROVE  Provenance' /\ InsertedOnce'
  OBVIOUS
<1> USE DEF Inserts
<1>1. Range(Backlog) = Range(batch) \cup Range(ch)
  BY RangeConcatenation DEF Typed, TypeOK, Backlog
<1>2. ASSUME NEW e \in Event, Enqueue(e) \/ Handoff(e)
      PROVE  Provenance' /\ InsertedOnce'
  <2>1. CASE Enqueue(e)
    <3>1. Range(ch') = Range(ch) \cup {e} /\ batch' = batch
      BY <2>1, AppendRange DEF Enqueue, Typed, TypeOK
    <3>2. e \notin Accepted
      BY <2>1, AcceptStep DEF Accepted
    <3>3. Unsent' \cap Accepted \subseteq Unsent
      BY <1>2, <3>1, <3>2, AcceptStep DEF Unsent
    <3> QED
      BY <1>2, <3>3, AcceptStep, InsertsKept
  <2>2. CASE Handoff(e)
    <3>1. Range(batch') = Range(batch) \cup {e} /\ ch' = ch
      BY <2>2, AppendRange DEF Handoff, Take, Typed, TypeOK
    <3>2. e \notin Accepted
      BY <2>2, AcceptStep DEF Accepted
    <3>3. Unsent' \cap Accepted \subseteq Unsent
      BY <1>2, <3>1, <3>2, AcceptStep DEF Unsent
    <3> QED
      BY <1>2, <3>3, AcceptStep, InsertsKept
  <2> QED
    BY <1>2, <2>1, <2>2
<1>3. ASSUME NEW e \in Event, Drop(e)
      PROVE  Provenance' /\ InsertedOnce'
  BY <1>3, DropStep, InsertsKept DEF Unsent
<1>4. CASE ReceiveEvent \/ DrainEvent
  <2>1. Unsent' = Unsent /\ Accepted' = Accepted
    BY <1>4, ReceiveStep DEF Unsent, calls, Accepted
  <2> QED
    BY <1>4, <2>1, ReceiveStep, InsertsKept
<1>5. CASE WriteOk \/ WriteErr
  <2>1. FlushReturns /\ UNCHANGED <<ch, server, calls>>
    BY <1>5 DEF WriteOk, WriteErr
  <2>2. Unsent' \subseteq Unsent /\ Accepted' = Accepted
    BY <2>1, FlushStep DEF Unsent, calls, Accepted
  <2> QED
    BY <2>1, <2>2, InsertsKept
<1>6. CASE Send
  <2>1. /\ stage = "append" /\ stage' = "sent"
        /\ wire' = wire \cup {Block}
        /\ rows = Len(batch)
        /\ UNCHANGED <<ch, batch, table, calls>>
    BY <1>6 DEF Send
  <2>2. wire' = wire \cup {Range(batch)}
    BY <2>1, WholeBlock
  <2>3. Range(batch) \subseteq Accepted /\ Accepted' = Accepted
    BY <1>1, <2>1 DEF Ledger, calls, Accepted
  <2>4. \A b \in wire \cup {table} : b \cap (Range(ch) \cup Range(batch)) = {}
    BY <2>1 DEF InsertedOnce
  <2>5. Range(batch) \cap Range(ch) = {}
    BY InjectiveHalves DEF Ledger, Backlog, Typed, TypeOK
  <2>6. Provenance'
    BY <2>1, <2>2, <2>3 DEF Provenance
  <2>7. \A b \in wire' : b \cap table' = {}
    BY <2>1, <2>2, <2>4 DEF InsertedOnce
  <2>8. ASSUME NEW b \in wire', NEW c \in wire', b # c
        PROVE  b \cap c = {}
    <3>1. CASE b \in wire /\ c \in wire
      BY <2>8, <3>1 DEF InsertedOnce
    <3>2. CASE b = Range(batch) /\ c \in wire
      BY <2>4, <3>2
    <3>3. CASE b \in wire /\ c = Range(batch)
      BY <2>4, <3>3
    <3> QED
      BY <2>2, <2>8, <3>1, <3>2, <3>3
  <2>9. \A b \in (wire \cup {table})' :
          b \cap (Range(ch') \cup (IF stage' = "sent" THEN {} ELSE Range(batch'))) = {}
    BY <2>1, <2>2, <2>4, <2>5
  <2> QED
    BY <2>6, <2>7, <2>8, <2>9 DEF InsertedOnce
<1>7. ASSUME NEW b \in wire, Commit(b)
      PROVE  Provenance' /\ InsertedOnce'
  <2>1. /\ wire' = wire \ {b} /\ table' = table \cup b
        /\ UNCHANGED <<ch, batch, stage, calls>>
    BY <1>7 DEF Commit, runner
  <2>2. Accepted' = Accepted
    BY <2>1 DEF calls, Accepted
  <2> QED
    BY <2>1, <2>2 DEF Provenance, InsertedOnce
<1>8. CASE \/ Stop \/ Tick \/ ReceiveTick \/ ReceiveDone \/ DrainEmpty
           \/ PrepareBatch \/ AppendRow \/ UNCHANGED vars
  <2>1. /\ UNCHANGED <<batch, ch, calls, server>>
        /\ stage' = "sent" <=> stage = "sent"
    BY <1>8 DEF Stop, Tick, ReceiveTick, ReceiveDone, DrainEmpty,
                PrepareBatch, AppendRow, vars, runner
  <2>2. Unsent' = Unsent /\ Accepted' = Accepted
    BY <2>1 DEF Unsent, calls, Accepted
  <2> QED
    BY <2>1, <2>2, InsertsKept
<1> QED
  BY <1>2, <1>3, <1>4, <1>5, <1>6, <1>7, <1>8
     DEF Next, Add, Run, Drain, Write

LEMMA InsertsInit == Init => Inserts
<1>1. Init => Provenance /\ InsertedOnce
  BY DEF Init, Provenance, InsertedOnce, Accepted, Range
<1> QED
  BY <1>1, TypedInit, LedgerInit DEF Inserts

LEMMA InsertsStep == Inserts /\ [Next]_vars => Inserts'
  BY TypedNext, LedgerNext, InsertsNext DEF Inserts

(* No event becomes two rows.                                              *)
THEOREM InsertedOnceHolds == Spec => []InsertedOnce
<1>1. Inserts => InsertedOnce
  BY DEF Inserts
<1> QED
  BY <1>1, InsertsInit, InsertsStep, PTL DEF Spec

-------------------------------------------------------------------------------
(* Sizes.                                                                  *)

(* During the drain the slice and the channel share one bound.             *)
DrainBound ==
  /\ IsFiniteSet(late)
  /\ pc = "drain" =>
       Len(batch) + Len(ch) <= (Full - 1) + Capacity + Cardinality(late)

Bounded == Typed /\ BatchBound /\ DrainBound

LEMMA FullIsPositive ==
  size \in Sizes => Full \in Nat /\ Full >= 1 /\ (size # 0 => Full = size)
  BY SizeAssumption DEF Full

LEMMA BoundedInit == Init => Bounded
<1> SUFFICES ASSUME Init
             PROVE  BatchBound /\ DrainBound
  BY TypedInit DEF Bounded
<1>1. Len(<<>>) = 0
  BY EmptySeq
<1> QED
  BY <1>1, FullIsPositive, CapacityIsNat, FS_EmptySet
     DEF Init, BatchBound, DrainBound

LEMMA BoundedNext == Bounded /\ [Next]_vars => Bounded'
<1> SUFFICES ASSUME Bounded, [Next]_vars
             PROVE  BatchBound' /\ DrainBound'
  BY TypedNext DEF Bounded
<1>0. UNCHANGED <<size, Capacity, Full>>
  BY SameSize
<1> USE <1>0
<1>1. /\ Typed' /\ Len(ch') <= Capacity
      /\ Len(ch) \in Nat /\ Len(batch) \in Nat
      /\ Len(ch') \in Nat /\ Len(batch') \in Nat
      /\ Cardinality(late) \in Nat
      /\ Capacity \in Nat /\ Full \in Nat /\ Full >= 1
  BY TypedNext, LenProperties, FS_CardinalityType, CapacityIsNat, FullIsPositive
     DEF Bounded, Typed, TypeOK, Shape, DrainBound
<1>2. ASSUME NEW e \in Event, Enqueue(e)
      PROVE  BatchBound' /\ DrainBound'
  <2>1. /\ UNCHANGED <<pc, batch, done>>
        /\ Len(ch') = Len(ch) + 1
        /\ e \notin late
        /\ late' = IF done THEN late \cup {e} ELSE late
    BY <1>2, AppendRange DEF Enqueue, Offer, Lateness, Bounded, Typed, TypeOK, Accepted
  <2>2. /\ IsFiniteSet(late')
        /\ Cardinality(late') \in Nat
        /\ Cardinality(late) <= Cardinality(late')
        /\ done => Cardinality(late') = Cardinality(late) + 1
    <3>1. CASE done
      <4>1. late' = late \cup {e}
        BY <2>1, <3>1
      <4>2. /\ IsFiniteSet(late \cup {e})
            /\ Cardinality(late \cup {e}) = Cardinality(late) + 1
        BY <2>1, FS_AddElement DEF Bounded, DrainBound
      <4> QED
        BY <1>1, <4>1, <4>2
    <3>2. CASE ~done
      BY <1>1, <2>1, <3>2 DEF Bounded, DrainBound
    <3> QED
      BY <3>1, <3>2
  <2>3. pc \in {"drain", "finalFlush"} => done
    BY DEF Bounded, Typed, Shape
  <2>4. BatchBound'
    BY <1>1, <2>1, <2>2 DEF Bounded, BatchBound
  <2>5. DrainBound'
    BY <1>1, <2>1, <2>2, <2>3 DEF Bounded, DrainBound
  <2> QED
    BY <2>4, <2>5
<1>3. ASSUME NEW e \in Event, Handoff(e)
      PROVE  BatchBound' /\ DrainBound'
  <2>1. /\ Len(batch') = Len(batch) + 1
        /\ UNCHANGED <<ch, late>>
        /\ pc = "select"
        /\ pc' = IF Len(batch) + 1 >= size THEN "sizeFlush" ELSE "select"
    BY <1>3, AppendRange DEF Handoff, Take, Bounded, Typed, TypeOK
  <2> QED
    BY <1>1, <2>1, CapacityIsNat DEF Bounded, BatchBound, DrainBound, Full, Typed, TypeOK
<1>4. ASSUME NEW e \in Event, Drop(e)
      PROVE  BatchBound' /\ DrainBound'
  BY <1>4 DEF Drop, Offer, Bounded, BatchBound, DrainBound
<1>5. CASE ReceiveEvent
  <2>1. /\ Len(batch') = Len(batch) + 1
        /\ late' = late
        /\ pc = "select"
        /\ pc' = IF Len(batch) + 1 >= size THEN "sizeFlush" ELSE "select"
    BY <1>5, MoveHead, AppendRange DEF ReceiveEvent, Take, calls, Bounded, Typed, TypeOK
  <2> QED
    BY <1>1, <2>1, CapacityIsNat DEF Bounded, BatchBound, DrainBound, Full, Typed, TypeOK
<1>6. CASE ReceiveTick
  <2>1. /\ pc = "select" /\ UNCHANGED <<ch, batch, late>>
        /\ pc' = IF batch # <<>> THEN "tickFlush" ELSE "select"
    BY <1>6 DEF ReceiveTick, calls
  <2>2. batch # <<>> => Len(batch) >= 1
    BY EmptySeq, LenProperties DEF Bounded, Typed, TypeOK
  <2> QED
    BY <1>1, <2>1, <2>2 DEF Bounded, BatchBound, DrainBound
<1>7. CASE ReceiveDone
  BY <1>1, <1>7 DEF ReceiveDone, calls, Bounded, BatchBound, DrainBound
<1>8. CASE DrainEvent
  <2>1. /\ Len(batch') = Len(batch) + 1
        /\ Len(ch') = Len(ch) - 1
        /\ late' = late
        /\ pc = "drain" /\ pc' = "drain"
    BY <1>8, MoveHead, AppendRange DEF DrainEvent, calls, Bounded, Typed, TypeOK
  <2> QED
    BY <1>1, <2>1 DEF Bounded, BatchBound, DrainBound
<1>9. CASE DrainEmpty
  BY <1>1, <1>9 DEF DrainEmpty, calls, Bounded, BatchBound, DrainBound
<1>10. CASE WriteOk \/ WriteErr
  <2>1. /\ UNCHANGED <<ch, late>>
        /\ batch' = <<>> /\ Len(batch') = 0
        /\ pc' \in {"select", "exited"}
    BY <1>10, EmptySeq DEF WriteOk, WriteErr, FlushReturns, calls
  <2> QED
    BY <1>1, <2>1 DEF Bounded, BatchBound, DrainBound
<1>11. CASE Stop \/ Tick \/ PrepareBatch \/ AppendRow \/ Send \/ UNCHANGED vars
  <2>1. UNCHANGED <<ch, batch, pc, late>>
    BY <1>11 DEF Stop, Tick, PrepareBatch, AppendRow, Send, vars, runner, calls
  <2> QED
    BY <2>1 DEF Bounded, BatchBound, DrainBound
<1>12. ASSUME NEW b \in wire, Commit(b)
       PROVE  BatchBound' /\ DrainBound'
  BY <1>12 DEF Commit, runner, calls, Bounded, BatchBound, DrainBound
<1> QED
  BY <1>2, <1>3, <1>4, <1>5, <1>6, <1>7, <1>8, <1>9, <1>10, <1>11, <1>12
     DEF Next, Add, Run, Drain, Write

(* The runner's slice, the channel and every flush keep their bounds.      *)
THEOREM BatchBoundHolds == Spec => []BatchBound
<1>1. Bounded => BatchBound
  BY DEF Bounded
<1> QED
  BY BoundedInit, BoundedNext, <1>1, PTL DEF Spec
-------------------------------------------------------------------------------
(* Stop, acknowledgements and drops.                                       *)

LEMMA StopDrainsInit == Init => StopDrains
  BY DEF Init, StopDrains

LEMMA StopDrainsNext == Typed /\ StopDrains /\ [Next]_vars => StopDrains'
<1> SUFFICES ASSUME Typed, StopDrains, [Next]_vars
             PROVE  StopDrains'
  OBVIOUS
<1>1. ASSUME NEW e \in Event, Enqueue(e)
      PROVE  StopDrains'
  <2>1. /\ Range(ch') = Range(ch) \cup {e}
        /\ pc' = pc
        /\ late' = IF done THEN late \cup {e} ELSE late
    BY <1>1, AppendRange DEF Enqueue, Lateness, Typed, TypeOK
  <2> QED
    BY <2>1 DEF StopDrains, Typed, Shape
<1>2. ASSUME NEW e \in Event, Handoff(e) \/ Drop(e)
      PROVE  StopDrains'
  BY <1>2 DEF Handoff, Drop, Take, StopDrains
<1>3. CASE ReceiveEvent
  BY <1>3 DEF ReceiveEvent, Take, StopDrains
<1>4. CASE ReceiveTick \/ ReceiveDone \/ DrainEvent
  BY <1>4 DEF ReceiveTick, ReceiveDone, DrainEvent, StopDrains
<1>5. CASE DrainEmpty
  BY <1>5 DEF DrainEmpty, StopDrains, Range
<1>6. CASE WriteOk \/ WriteErr
  BY <1>6 DEF WriteOk, WriteErr, FlushReturns, calls, StopDrains, Typed, Shape,
              FlushPCs
<1>7. CASE Stop \/ Tick \/ PrepareBatch \/ AppendRow \/ Send \/ UNCHANGED vars
  <2>1. UNCHANGED <<ch, pc, late>>
    BY <1>7 DEF Stop, Tick, PrepareBatch, AppendRow, Send, vars, runner, calls
  <2> QED
    BY <2>1 DEF StopDrains
<1>8. ASSUME NEW b \in wire, Commit(b)
      PROVE  StopDrains'
  BY <1>8 DEF Commit, runner, calls, StopDrains
<1> QED
  BY <1>1, <1>2, <1>3, <1>4, <1>5, <1>6, <1>7, <1>8
     DEF Next, Add, Run, Drain, Write

(* What the drain leaves behind came after Stop.                           *)
THEOREM StopDrainsHolds == Spec => []StopDrains
  BY TypedInit, TypedNext, StopDrainsInit, StopDrainsNext, PTL DEF Spec

(* A runner that has ended holds nothing, and the channel only what came   *)
(* after Stop: the ledger leaves no other place but a flush that is over.  *)
LEMMA DrainedRunner == Typed /\ Ledger /\ StopDrains => Drained
<1> SUFFICES ASSUME Typed, Ledger, StopDrains, pc = "exited"
             PROVE  Accepted \ late \subseteq Handed
  BY DEF Drained
<1>1. Backlog = ch
  <2>1. batch = <<>> /\ ch \in Seq(Event)
    BY DEF Typed, TypeOK, Shape
  <2> QED
    BY <2>1, ConcatEmptySeq DEF Backlog
<1>2. Range(ch) \subseteq late
  BY DEF StopDrains
<1> QED
  BY <1>1, <1>2 DEF Ledger

(* Stop loses nothing that was accepted before it, once run() has ended.   *)
THEOREM DrainedHolds == Spec => []Drained
  BY TypedInit, TypedNext, LedgerInit, LedgerNext, StopDrainsInit, StopDrainsNext,
     DrainedRunner, PTL DEF Spec

LEMMA AckedInit == Init => AckedStored
  BY DEF Init, AckedStored

LEMMA AckedNext == Typed /\ AckedStored /\ [Next]_vars => AckedStored'
<1> SUFFICES ASSUME Typed, AckedStored, [Next]_vars
             PROVE  AckedStored'
  OBVIOUS
<1>1. ASSUME NEW e \in Event, Add(e)
      PROVE  AckedStored'
  BY <1>1 DEF Add, Enqueue, Handoff, Drop, Offer, server, fates, AckedStored
<1>2. CASE Run
  <2>1. CASE WriteOk
    <3>1. Block = Range(batch)
      BY <2>1, WholeBlock DEF WriteOk, Typed, Shape
    <3> QED
      BY <2>1, <3>1 DEF WriteOk, server, AckedStored
  <2>2. CASE ~WriteOk
    BY <1>2, <2>2 DEF Run, ReceiveEvent, ReceiveTick, ReceiveDone, Drain,
                      DrainEvent, DrainEmpty, Write, PrepareBatch, AppendRow, Send,
                      WriteErr, server, fates, AckedStored
  <2> QED
    BY <2>1, <2>2
<1>3. CASE Stop \/ Tick \/ UNCHANGED vars
  BY <1>3 DEF Stop, Tick, vars, server, fates, AckedStored
<1>4. ASSUME NEW b \in wire, Commit(b)
      PROVE  AckedStored'
  BY <1>4 DEF Commit, fates, AckedStored
<1> QED
  BY <1>1, <1>2, <1>3, <1>4 DEF Next

(* A flush that returned nil stored every one of its rows.                 *)
THEOREM AckedStoredHolds == Spec => []AckedStored
  BY TypedInit, TypedNext, AckedInit, AckedNext, PTL DEF Spec

(* A full channel holds Capacity distinct accepted events.                 *)
LEMMA FullChannel ==
  ASSUME Typed, Ledger, IsFiniteSet(Accepted), Len(ch) = Capacity
  PROVE  Cardinality(Accepted) >= Capacity
<1>1. IsInjective(ch)
  BY InjectiveHalves DEF Ledger, Backlog, Typed, TypeOK
<1>2. Range(ch) \subseteq Accepted
  BY RangeConcatenation DEF Ledger, Backlog, Typed, TypeOK
<1>3. ch \in [1..Len(ch) -> Accepted]
  <2>1. /\ ch \in [1..Len(ch) -> Event]
        /\ DOMAIN ch = 1..Len(ch)
    BY LenProperties DEF Typed, TypeOK
  <2> QED
    BY <1>2, <2>1 DEF Range
<1>4. Cardinality(1..Len(ch)) <= Cardinality(Accepted)
  BY <1>1, <1>3, FS_Injection DEF Injection
<1>5. Cardinality(1..Len(ch)) = Len(ch)
  BY FS_Interval, LenProperties DEF Typed, TypeOK
<1>6. Cardinality(Accepted) \in Nat
  BY FS_CardinalityType
<1> QED
  BY <1>4, <1>5, <1>6

(* Accepted events are counted, and were counted when one was dropped.     *)
Room == Typed /\ Ledger /\ IsFiniteSet(Accepted) /\ NoEarlyDrop

LEMMA RoomInit == Init => Room
<1>1. Init => Accepted = {}
  BY DEF Init, Accepted
<1> QED
  BY <1>1, TypedInit, LedgerInit, FS_EmptySet DEF Init, NoEarlyDrop, Room

LEMMA RoomNext == Room /\ [Next]_vars => Room'
<1> SUFFICES ASSUME Room, [Next]_vars
             PROVE  IsFiniteSet(Accepted') /\ NoEarlyDrop'
  BY TypedNext, LedgerNext DEF Room
<1> USE DEF Room
<1>0. Capacity' = Capacity /\ Capacity \in Nat
  BY SameSize, CapacityIsNat DEF Typed, TypeOK
<1>1. ASSUME NEW e \in Event, Enqueue(e) \/ Handoff(e)
      PROVE  IsFiniteSet(Accepted') /\ NoEarlyDrop'
  <2>1. Accepted' = Accepted \cup {e} /\ e \notin Accepted
    BY <1>1, AcceptStep DEF Accepted
  <2>2. dropped' = dropped
    BY <1>1 DEF Enqueue, Handoff
  <2>3. /\ IsFiniteSet(Accepted \cup {e})
        /\ Cardinality(Accepted \cup {e}) = Cardinality(Accepted) + 1
    BY <2>1, FS_AddElement
  <2> QED
    BY <1>0, <2>1, <2>2, <2>3, FS_CardinalityType DEF NoEarlyDrop
<1>2. ASSUME NEW e \in Event, Drop(e)
      PROVE  IsFiniteSet(Accepted') /\ NoEarlyDrop'
  <2>1. Accepted' = Accepted /\ Len(ch) = Capacity
    BY <1>2, DropStep DEF Drop
  <2> QED
    BY <1>0, <2>1, FullChannel DEF NoEarlyDrop
<1>3. CASE UNCHANGED calls
  BY <1>0, <1>3 DEF calls, Accepted, NoEarlyDrop
<1> QED
  BY <1>1, <1>2, <1>3
     DEF Next, Add, Stop, Tick, Run, ReceiveEvent, ReceiveTick, ReceiveDone,
         Drain, DrainEvent, DrainEmpty, Write, PrepareBatch, AppendRow, Send,
         WriteOk, WriteErr, Commit, vars

(* A burst that fits the channel loses nothing.                            *)
THEOREM NoEarlyDropHolds == Spec => []NoEarlyDrop
<1>1. Room => NoEarlyDrop
  BY DEF Room
<1> QED
  BY <1>1, RoomInit, RoomNext, PTL DEF Spec

(* All of it together, for the modules that run a batcher.                 *)
Kept == Inserts /\ Bounded /\ StopDrains /\ AckedStored /\ Room

LEMMA KeptInit == Init => Kept
  BY InsertsInit, BoundedInit, StopDrainsInit, AckedInit, RoomInit DEF Kept

LEMMA KeptNext == Kept /\ [Next]_vars => Kept'
<1>1. Kept => Typed
  BY DEF Kept, Room
<1> QED
  BY <1>1, InsertsStep, BoundedNext, StopDrainsNext, AckedNext, RoomNext DEF Kept

-------------------------------------------------------------------------------
(* The batcher implements the queue.                                       *)

Pending == (IF stage = "sent" THEN <<>> ELSE batch) \o ch

(* The first Len(s) elements of s \o t leave t behind.                     *)
LEMMA DropPrefix ==
  ASSUME NEW S, NEW s \in Seq(S), NEW t \in Seq(S)
  PROVE  /\ SubSeq(s \o t, Len(s) + 1, Len(s \o t)) = t
         /\ Len(s) <= Len(s \o t)
         /\ {(s \o t)[i] : i \in 1..Len(s)} = {s[i] : i \in 1..Len(s)}
<1>1. /\ Len(s) \in Nat /\ Len(t) \in Nat
      /\ Len(s \o t) = Len(s) + Len(t)
      /\ \A i \in 1..(Len(s) + Len(t)) :
           (s \o t)[i] = IF i <= Len(s) THEN s[i] ELSE t[i - Len(s)]
  BY ConcatProperties, LenProperties
<1>2. \A i \in 1..Len(s) : (s \o t)[i] = s[i]
  BY <1>1
<1>3. \A i \in 1..Len(t) : (s \o t)[Len(s) + i] = t[i]
  BY <1>1
<1>4. SubSeq(s \o t, Len(s) + 1, Len(s \o t)) = t
  BY <1>1, <1>3, SeqEqual, SMTT(30)
<1> QED
  BY <1>1, <1>2, <1>4

LEMMA QueueInit == Init => Queue!Init
<1> SUFFICES ASSUME Init
             PROVE  Queue!Init
  OBVIOUS
<1>1. Pending = <<>>
  BY EmptySeq, ConcatEmptySeq DEF Init, Pending
<1> QED
  BY <1>1 DEF Init, Queue!Init, Pending, Accepted

(* Accepting an event, in the channel or by hand-off, is the abstract      *)
(* Accept; Send hands a prefix over; a flush that fails before Send loses  *)
(* it; a commit is a commit; every other step stutters.                    *)
LEMMA QueueNext == Bounded /\ [Next]_vars => [Queue!Next]_Queue!vars
<1> SUFFICES ASSUME Bounded, [Next]_vars
             PROVE  Queue!Next \/ UNCHANGED Queue!vars
  BY DEF Queue!vars
<1>0. /\ Typed
      /\ stage # "idle" => pc \in FlushPCs
      /\ pc \in FlushPCs => batch # <<>>
  <2>1. pc = "sizeFlush" \/ pc = "tickFlush" => Len(batch) >= 1
    BY FullIsPositive DEF Bounded, BatchBound, Typed, TypeOK
  <2>2. Len(<<>>) = 0
    BY EmptySeq
  <2> QED
    BY <2>1, <2>2 DEF Bounded, BatchBound, Typed, Shape, FlushPCs
<1>1. ASSUME NEW e \in Event, Enqueue(e) \/ Handoff(e)
      PROVE  Queue!Next
  <2>1. /\ Pending \in Seq(Event)
        /\ Pending' = Append(Pending, e)
    <3>1. CASE Enqueue(e)
      <4> DEFINE front == IF stage = "sent" THEN <<>> ELSE batch
      <4>1. front \in Seq(Event) /\ front' = front
        BY <1>0, <3>1, EmptySeq DEF Enqueue, Offer, Typed, TypeOK
      <4>2. Pending = front \o ch /\ Pending' = front' \o Append(ch, e)
        BY <3>1 DEF Enqueue, Pending
      <4> HIDE DEF front
      <4> QED
        BY <1>0, <4>1, <4>2, BacklogGrows DEF Typed, TypeOK
    <3>2. CASE Handoff(e)
      <4>1. stage = "idle" /\ stage' = "idle"
        BY <1>0, <3>2 DEF Handoff, Offer, Typed, TypeOK, FlushPCs
      <4>2. Pending = Backlog /\ Pending' = Backlog'
        BY <4>1 DEF Pending, Backlog
      <4> QED
        BY <1>0, <3>2, <4>2, AcceptStep
    <3> QED
      BY <1>1, <3>1, <3>2
  <2>2. Queue!Accept(e)
    BY <1>0, <1>1, <2>1, AcceptStep DEF Queue!Accept, Pending, server, Accepted
  <2> QED
    BY <2>2 DEF Queue!Next
<1>2. ASSUME NEW e \in Event, Drop(e)
      PROVE  UNCHANGED Queue!vars
  BY <1>0, <1>2, DropStep DEF Queue!vars, server
<1>3. CASE ReceiveEvent \/ DrainEvent
  BY <1>0, <1>3, ReceiveStep DEF Queue!vars, server, calls, Backlog, Accepted
<1>4. ASSUME stage # "sent", pc \in FlushPCs, Pending' = ch,
             UNCHANGED <<Accepted, table>>,
             \/ wire' = wire
             \/ wire' = wire \cup {{batch[i] : i \in 1..Len(batch)}}
      PROVE  Queue!Next
  <2>0. batch \in Seq(Event) /\ ch \in Seq(Event)
    BY <1>0 DEF Typed, TypeOK
  <2>1. /\ SubSeq(batch \o ch, Len(batch) + 1, Len(batch \o ch)) = ch
        /\ Len(batch) <= Len(batch \o ch)
        /\ {(batch \o ch)[i] : i \in 1..Len(batch)} = {batch[i] : i \in 1..Len(batch)}
    BY ONLY <2>0, DropPrefix
  <2>2. Pending = batch \o ch
    BY <1>4 DEF Pending
  <2>3. Queue!HandOver(Len(batch)) \/ Queue!Lose(Len(batch))
    BY <1>4, <2>1, <2>2 DEF Queue!HandOver, Queue!Lose, Queue!Leave, Pending
  <2>4. Len(batch) \in 1..Len(Pending)
    <3>1. Len(batch) \in Nat \ {0}
      BY <1>0, <1>4, EmptySeq DEF Typed, TypeOK
    <3>2. Len(batch \o ch) \in Nat
      BY <1>0, ConcatProperties, LenProperties DEF Typed, TypeOK
    <3> QED
      BY <2>1, <2>2, <3>1, <3>2
  <2> QED
    BY <2>3, <2>4 DEF Queue!Next, Pending
<1>5. CASE Send
  <2>1. <<>> \o ch = ch
    BY <1>0, ConcatEmptySeq DEF Typed, TypeOK
  <2> QED
    BY <1>0, <1>4, <1>5, <2>1 DEF Send, Block, Pending, calls, Accepted
<1>6. CASE WriteOk \/ WriteErr
  <2>1. /\ FlushReturns
        /\ UNCHANGED <<ch, server, calls>>
        /\ pc \in FlushPCs
    BY <1>0, <1>6 DEF WriteOk, WriteErr
  <2>2. Pending' = ch /\ UNCHANGED <<Accepted, wire, table>>
    BY <1>0, <2>1, FlushStep DEF Pending, Backlog, server, calls, Accepted
  <2>3. CASE stage = "sent"
    <3>1. Pending = ch
      BY <1>0, <2>3, ConcatEmptySeq DEF Pending, Typed, TypeOK
    <3> QED
      BY <2>2, <3>1 DEF Queue!vars, Pending
  <2>4. CASE stage # "sent"
    BY <1>4, <2>1, <2>2, <2>4
  <2> QED
    BY <2>3, <2>4
<1>7. CASE \/ Stop \/ Tick \/ ReceiveTick \/ ReceiveDone \/ DrainEmpty
           \/ PrepareBatch \/ AppendRow \/ UNCHANGED vars
  <2>1. /\ UNCHANGED <<batch, ch, calls, server>>
        /\ stage' = "sent" <=> stage = "sent"
    BY <1>7 DEF Stop, Tick, ReceiveTick, ReceiveDone, DrainEmpty,
                PrepareBatch, AppendRow, vars, runner
  <2> QED
    BY <2>1 DEF Queue!vars, calls, server, Accepted
<1>8. ASSUME NEW b \in wire, Commit(b)
      PROVE  Queue!Next
  BY <1>8 DEF Commit, runner, calls, Accepted, Queue!Next, Queue!Commit
<1> QED
  BY <1>1, <1>2, <1>3, <1>5, <1>6, <1>7, <1>8
     DEF Next, Add, Run, Drain, Write

(* Whatever the sizes and the interleaving, callers see the queue.         *)
THEOREM ImplementsQueueHolds == Spec => ImplementsQueue
  BY BoundedInit, BoundedNext, QueueInit, QueueNext, PTL
     DEF Spec, ImplementsQueue, Queue!Spec
===============================================================================
