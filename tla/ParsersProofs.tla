----------------------------- MODULE ParsersProofs -----------------------------
(***************************************************************************)
(* Proofs about the two stream parsers, for answers of any size: any       *)
(* number of calls, of blocks and of pieces.                               *)
(***************************************************************************)
EXTENDS MCParsers, Integers, SequenceTheorems, FiniteSetTheorems,
        WellFoundedInduction, TLAPS

-------------------------------------------------------------------------------
(* Naturals.                                                               *)

LEMMA LeastNatural ==
  \A S : S \subseteq Nat /\ S # {} => \E m \in S : \A n \in S : m <= n
<1> SUFFICES ASSUME NEW S, S \subseteq Nat, S # {}
             PROVE  \E m \in S : \A n \in S : m <= n
  OBVIOUS
<1>1. PICK m \in S : \A n \in S : ~(<<n, m>> \in OpToRel(<, Nat))
  BY NatLessThanWellFounded, WFMin, Zenon
<1>2. \A n \in S : ~(n < m)
  BY <1>1 DEF OpToRel
<1> QED
  BY <1>2

LEMMA InductionOnNat ==
  \A S : 0 \in S /\ (\A n \in Nat : n \in S => n + 1 \in S) => Nat \subseteq S
<1> SUFFICES ASSUME NEW S, 0 \in S, \A n \in Nat : n \in S => n + 1 \in S,
                    NEW k \in Nat, k \notin S
             PROVE  FALSE
  OBVIOUS
<1> DEFINE T == {n \in Nat : n \notin S}
<1>1. PICK m \in T : \A n \in T : m <= n
  BY LeastNatural, Zenon
<1>2. m # 0 /\ m - 1 \in Nat /\ m - 1 \notin T
  BY <1>1
<1>3. m - 1 \in S
  BY <1>2
<1>4. (m - 1) + 1 \in S
  BY <1>2, <1>3
<1> QED
  BY <1>1, <1>2, <1>4

LEMMA IntervalFromZero ==
  \A n \in Nat : IsFiniteSet(0..(n - 1)) /\ Cardinality(0..(n - 1)) = n
<1> TAKE n \in Nat
<1>1. 0 \in Int /\ n - 1 \in Int
  OBVIOUS
<1> QED
  BY <1>1, FS_Interval

(* The n-th smallest element of a set of naturals.                         *)
LEMMA NthSmallest ==
  ASSUME NEW b \in Nat, NEW S, S \subseteq 0..(b - 1)
  PROVE  \A n \in 1..Cardinality(S) :
           \E x \in S : Cardinality({y \in S : y < x}) = n - 1
<1> DEFINE Below(k) == {y \in S : y < k}
           P(k) == \A n \in 1..Cardinality(Below(k)) :
                     \E x \in S : Cardinality(Below(x)) = n - 1
           T == {k \in Nat : P(k)}
<1>0. \A y \in S : y \in Nat /\ y < b
  OBVIOUS
<1>1. IsFiniteSet(S)
  BY IntervalFromZero, FS_Subset
<1>2. \A k : IsFiniteSet(Below(k)) /\ Cardinality(Below(k)) \in Nat
  BY <1>1, FS_Subset, FS_CardinalityType
<1>3. 0 \in T
  <2>1. \A y \in S : ~(y < 0)
    BY <1>0
  <2>2. Below(0) = {}
    BY <2>1
  <2> QED
    BY <2>2, FS_EmptySet
<1>4. ASSUME NEW k \in Nat, k \in T
      PROVE  k + 1 \in T
  <2>0. \A y \in S : y < k + 1 <=> y < k \/ y = k
    BY <1>0
  <2>1. CASE k \notin S
    <3>1. Below(k + 1) = Below(k)
      BY <2>0, <2>1, Zenon
    <3> QED
      BY <1>4, <3>1
  <2>2. CASE k \in S
    <3>1. Below(k + 1) = Below(k) \cup {k}
      BY <2>0, <2>2, Zenon
    <3>2. k \notin Below(k)
      OBVIOUS
    <3>3. Cardinality(Below(k + 1)) = Cardinality(Below(k)) + 1
      BY <1>2, <3>1, <3>2, FS_AddElement
    <3>4. P(k)
      BY <1>4
    <3> HIDE DEF Below
    <3>5. ASSUME NEW n \in 1..Cardinality(Below(k + 1))
          PROVE  \E x \in S : Cardinality(Below(x)) = n - 1
      <4>1. CASE n = Cardinality(Below(k)) + 1
        BY <1>2, <2>2, <4>1
      <4>2. CASE n # Cardinality(Below(k)) + 1
        <5>1. n \in 1..Cardinality(Below(k))
          BY <1>2, <3>3, <4>2
        <5> QED
          BY <3>4, <5>1
      <4> QED
        BY <4>1, <4>2
    <3> QED
      BY <3>5
  <2> QED
    BY <2>1, <2>2
<1> HIDE DEF T
<1>5. Nat \subseteq T
  BY <1>3, <1>4, InductionOnNat
<1>6. P(b)
  BY <1>5 DEF T
<1>7. Below(b) = S
  BY <1>0
<1> QED
  BY <1>6, <1>7

(* A set of positions that has, with one, all before it.                   *)
LEMMA InitialSegment ==
  ASSUME NEW n \in Nat, NEW S, S \subseteq 1..n,
         \A i \in S : \A j \in 1..n : j < i => j \in S
  PROVE  \E m \in 0..n : S = 1..m
<1> DEFINE P(k) == \E m \in 0..k : S \cap 1..k = 1..m
           T == {k \in Nat : k <= n => P(k)}
<1>1. 0 \in T
  <2>1. S \cap 1..0 = 1..0
    OBVIOUS
  <2> QED
    BY <2>1
<1>2. ASSUME NEW k \in Nat, k \in T
      PROVE  k + 1 \in T
  <2> SUFFICES ASSUME k + 1 <= n
               PROVE  P(k + 1)
    OBVIOUS
  <2>1. CASE k + 1 \in S
    <3>1. S \cap 1..(k + 1) = 1..(k + 1)
      BY <2>1
    <3> QED
      BY <3>1
  <2>2. CASE k + 1 \notin S
    <3>1. S \cap 1..(k + 1) = S \cap 1..k
      BY <2>2
    <3>2. PICK m \in 0..k : S \cap 1..k = 1..m
      BY <1>2
    <3> QED
      BY <3>1, <3>2
  <2> QED
    BY <2>1, <2>2
<1> HIDE DEF T
<1>3. Nat \subseteq T
  BY <1>1, <1>2, InductionOnNat
<1>4. P(n)
  BY <1>3 DEF T
<1>5. S \cap 1..n = S
  OBVIOUS
<1> QED
  BY <1>4, <1>5

-------------------------------------------------------------------------------
(* OpenAI: types, for any number of choices.                               *)

OpenAITyped ==
  /\ texts \in [O!Choice -> 0..MaxPieces]
  /\ calls \in [O!Choice -> UNION {[1..n -> 0..MaxPieces] : n \in 0..MaxCalls}]
  /\ DOMAIN sentCalls = O!Choice
  /\ O!TypeOK

(* The calls of a choice.                                                  *)
LEMMA CallsOf ==
  ASSUME OpenAITyped, NEW c \in O!Choice
  PROVE  \E n \in 0..MaxCalls : /\ calls[c] \in [1..n -> 0..MaxPieces]
                                /\ DOMAIN calls[c] = 1..n
                                /\ sentCalls[c] \in [1..n -> 0..(MaxPieces + 1)]
<1>1. calls[c] \in UNION {[1..n -> 0..MaxPieces] : n \in 0..MaxCalls}
  BY DEF OpenAITyped
<1>2. PICK n \in 0..MaxCalls : calls[c] \in [1..n -> 0..MaxPieces]
  BY <1>1
<1>3. sentCalls[c] \in [1..n -> 0..(MaxPieces + 1)]
  BY <1>2 DEF OpenAITyped, O!TypeOK
<1> QED
  BY <1>2, <1>3

LEMMA OpenAIInitTyped == O!Init => OpenAITyped
<1> SUFFICES ASSUME O!Init
             PROVE  OpenAITyped
  OBVIOUS
<1>1. /\ texts \in [O!Choice -> 0..MaxPieces]
      /\ calls \in [O!Choice -> UNION {[1..n -> 0..MaxPieces] : n \in 0..MaxCalls}]
      /\ sentText = [c \in O!Choice |-> 0]
      /\ sentCalls = [c \in O!Choice |-> [i \in DOMAIN calls[c] |-> 0]]
      /\ usageSent = FALSE /\ lost = {} /\ tooLong = FALSE /\ usage = FALSE
      /\ phase = "streaming" /\ fragments = << >>
  BY DEF O!Init
<1>2. sentText \in [O!Choice -> 0..MaxPieces]
  BY <1>1, BoundsAssumption
<1>3. ASSUME NEW c \in O!Choice
      PROVE  sentCalls[c] \in [DOMAIN calls[c] -> 0..(MaxPieces + 1)]
  BY <1>1, BoundsAssumption
<1>4. DOMAIN fragments = {}
  BY <1>1
<1> QED
  BY <1>1, <1>2, <1>3, <1>4 DEF OpenAITyped, O!TypeOK

LEMMA OpenAINextTyped == OpenAITyped /\ [O!Next]_O!vars => OpenAITyped'
<1> SUFFICES ASSUME OpenAITyped, [O!Next]_O!vars
             PROVE  OpenAITyped'
  OBVIOUS
<1>1. ASSUME NEW c \in O!Choice, O!NextText(c)
      PROVE  /\ UNCHANGED <<texts, calls, sentCalls, usageSent, phase>>
             /\ sentText' \in [O!Choice -> 0..MaxPieces]
  BY <1>1, BoundsAssumption DEF O!NextText, O!completion, OpenAITyped, O!TypeOK
<1>2. ASSUME NEW c \in O!Choice, NEW i \in DOMAIN calls[c], O!NextFragment(c, i)
      PROVE  /\ UNCHANGED <<texts, calls, sentText, usageSent, phase>>
             /\ DOMAIN sentCalls' = O!Choice
             /\ \A d \in O!Choice : sentCalls'[d] \in [DOMAIN calls[d] -> 0..(MaxPieces + 1)]
             /\ i - 1 \in 0..(MaxCalls - 1) /\ i \in 0..MaxCalls
  <2>1. PICK n \in 0..MaxCalls : /\ calls[c] \in [1..n -> 0..MaxPieces]
                                 /\ DOMAIN calls[c] = 1..n
                                 /\ sentCalls[c] \in [1..n -> 0..(MaxPieces + 1)]
    BY CallsOf
  <2>2. /\ sentCalls[c][i] <= calls[c][i]
        /\ sentCalls' = [sentCalls EXCEPT ![c][i] = @ + 1]
        /\ UNCHANGED <<texts, calls, sentText, usageSent, phase>>
    BY <1>2 DEF O!NextFragment, O!completion
  <2> DEFINE counts == [sentCalls[c] EXCEPT ![i] = sentCalls[c][i] + 1]
  <2>3. counts \in [1..n -> 0..(MaxPieces + 1)]
    <3>1. i \in 1..n /\ calls[c][i] \in 0..MaxPieces /\ sentCalls[c][i] \in 0..(MaxPieces + 1)
      BY <2>1
    <3>2. sentCalls[c][i] + 1 \in 0..(MaxPieces + 1)
      BY <2>2, <3>1, BoundsAssumption
    <3> QED
      BY <2>1, <3>2
  <2>4. /\ DOMAIN sentCalls' = DOMAIN sentCalls
        /\ sentCalls'[c] = counts
        /\ \A d \in O!Choice : d # c => sentCalls'[d] = sentCalls[d]
    BY <2>2 DEF OpenAITyped
  <2> HIDE DEF counts
  <2>5. /\ DOMAIN sentCalls' = O!Choice
        /\ \A d \in O!Choice : sentCalls'[d] \in [DOMAIN calls[d] -> 0..(MaxPieces + 1)]
    BY <2>1, <2>3, <2>4 DEF OpenAITyped, O!TypeOK
  <2>6. i - 1 \in 0..(MaxCalls - 1) /\ i \in 0..MaxCalls
    <3>1. MaxCalls \in Nat /\ n \in 0..MaxCalls /\ i \in 1..n
      BY <2>1, BoundsAssumption, Zenon
    <3> QED
      BY <3>1
  <2> QED
    BY <2>2, <2>5, <2>6
<1>3. ASSUME O!NextUsage
      PROVE  UNCHANGED <<texts, calls, sentText, sentCalls, phase>> /\ usageSent' = TRUE
  BY <1>3 DEF O!NextUsage, O!completion
<1>4. ASSUME O!NextChunk, UNCHANGED <<usage, textBuf, fragments>>,
             lost' \subseteq (0..NumChoices) \X (0..MaxCalls), tooLong' \in BOOLEAN
      PROVE  OpenAITyped'
  <2>1. CASE \E c \in O!Choice : O!NextText(c)
    BY <1>1, <1>4, <2>1 DEF OpenAITyped, O!TypeOK
  <2>2. CASE \E c \in O!Choice : \E i \in DOMAIN calls[c] : O!NextFragment(c, i)
    BY <1>2, <1>4, <2>2 DEF OpenAITyped, O!TypeOK
  <2>3. CASE O!NextUsage
    BY <1>3, <1>4, <2>3 DEF OpenAITyped, O!TypeOK
  <2> QED
    BY <1>4, <2>1, <2>2, <2>3 DEF O!NextChunk
<1>5. CASE \E c \in O!Choice : O!TextChunk(c)
  BY <1>1, <1>5 DEF O!TextChunk, O!Read, OpenAITyped, O!TypeOK
<1>6. ASSUME NEW c \in O!Choice, NEW i \in DOMAIN calls[c], O!CallChunk(c, i)
      PROVE  OpenAITyped'
  <2> DEFINE name == IF sentCalls[c][i] = 0 THEN O!Name(c, i) ELSE << >>
             args == IF sentCalls[c][i] = 0 THEN << >> ELSE << <<c, i, sentCalls[c][i]>> >>
             frag == O!Fragment(i - 1)
             new == O!ToolCall(frag.name \o name, frag.args \o args)
  <2>1. /\ O!NextFragment(c, i) /\ UNCHANGED <<lost, tooLong, usage, textBuf>>
        /\ O!Write(i - 1, name, args)
    BY <1>6 DEF O!CallChunk, O!Read
  <2>2. fragments' = [x \in DOMAIN fragments \cup {i - 1} |->
                        IF x = i - 1 THEN new ELSE fragments[x]]
    BY <2>1 DEF O!Write
  <2>3. DOMAIN new = {"name", "args"}
    BY DEF O!ToolCall
  <2> HIDE DEF new
  <2>4. /\ DOMAIN fragments' \subseteq 0..(MaxCalls - 1)
        /\ \A x \in DOMAIN fragments' : DOMAIN fragments'[x] = {"name", "args"}
    BY <1>2, <2>1, <2>2, <2>3 DEF OpenAITyped, O!TypeOK
  <2> QED
    BY <1>2, <2>1, <2>4 DEF OpenAITyped, O!TypeOK
<1>7. CASE O!UsageChunk
  BY <1>3, <1>7 DEF O!UsageChunk, O!Read, OpenAITyped, O!TypeOK
<1>8. CASE O!SkippedChunk
  <2>1. UNCHANGED <<tooLong, usage, textBuf, fragments>>
    BY <1>8 DEF O!SkippedChunk, O!parser
  <2>2. /\ O!NextChunk
        /\ \/ \E c \in O!Choice : lost' = lost \cup {<<c, 0>>}
           \/ \E c \in O!Choice, i \in 0..MaxCalls : lost' = lost \cup {<<c, i>>}
           \/ lost' = lost \cup {<<0, 0>>}
    BY <1>2, <1>8 DEF O!SkippedChunk, O!NextChunk
  <2>3. O!Choice \subseteq 0..NumChoices /\ 0 \in 0..NumChoices /\ 0 \in 0..MaxCalls
    BY BoundsAssumption DEF O!Choice
  <2>4. lost \subseteq (0..NumChoices) \X (0..MaxCalls) /\ tooLong \in BOOLEAN
    BY DEF OpenAITyped, O!TypeOK
  <2>5. lost' \subseteq (0..NumChoices) \X (0..MaxCalls)
    BY <2>2, <2>3, <2>4
  <2> QED
    BY <1>4, <2>1, <2>2, <2>4, <2>5
<1>11. CASE O!UnscannedChunk
  BY <1>4, <1>11 DEF O!UnscannedChunk, O!parser, OpenAITyped, O!TypeOK
<1>9. CASE O!EndOfBody
  BY <1>9 DEF O!EndOfBody, O!completion, O!stream, O!parser, OpenAITyped, O!TypeOK
<1>10. CASE UNCHANGED O!vars
  BY <1>10 DEF O!vars, O!completion, O!stream, O!parser, OpenAITyped, O!TypeOK
<1> QED
  BY <1>5, <1>6, <1>7, <1>8, <1>9, <1>10, <1>11 DEF O!Next
-------------------------------------------------------------------------------
(* OpenAI: the buffers of a completion with one choice.                    *)

(* Pieces of one string, in their order, of which the first n were sent.   *)
Increasing(c, i, n, args) ==
  /\ args \in Seq({<<c, i, p>> : p \in 1..n})
  /\ \A k, l \in DOMAIN args : k < l => args[k][3] < args[l][3]

LEMMA IncreasingMore ==
  ASSUME NEW c, NEW i, NEW n \in Nat, NEW args, Increasing(c, i, n, args)
  PROVE  /\ Increasing(c, i, n + 1, args)
         /\ Increasing(c, i, n + 1, args \o << <<c, i, n + 1>> >>)
<1> DEFINE P == {<<c, i, p>> : p \in 1..n}
           Q == {<<c, i, p>> : p \in 1..(n + 1)}
           x == <<c, i, n + 1>>
           more == args \o << x >>
<1>1. P \subseteq Q /\ x \in Q
  OBVIOUS
<1>2. args \in Seq(P) /\ \A k, l \in DOMAIN args : k < l => args[k][3] < args[l][3]
  BY DEF Increasing
<1>3. \A q \in P : q[3] < x[3]
  OBVIOUS
<1> HIDE DEF P, Q, x
<1>4. args \in Seq(Q)
  BY <1>1, <1>2, SeqMonotonic
<1>5. /\ Len(args) \in Nat /\ DOMAIN args = 1..Len(args)
      /\ \A k \in 1..Len(args) : args[k] \in P
  BY <1>2, LenProperties
<1>6. << x >> \in Seq(Q) /\ Len(<< x >>) = 1 /\ << x >>[1] = x
  BY <1>1
<1>7. /\ more \in Seq(Q) /\ Len(more) = Len(args) + 1
      /\ \A k \in 1..(Len(args) + 1) : more[k] = IF k <= Len(args) THEN args[k]
                                                 ELSE << x >>[k - Len(args)]
  BY <1>4, <1>6, ConcatProperties
<1>8. DOMAIN more = 1..(Len(args) + 1)
  BY <1>5, <1>7, LenProperties
<1> HIDE DEF more
<1>9. /\ \A k \in 1..Len(args) : more[k] = args[k]
      /\ more[Len(args) + 1] = x
  BY <1>5, <1>6, <1>7
<1>10. ASSUME NEW k \in DOMAIN more, NEW l \in DOMAIN more, k < l
       PROVE  more[k][3] < more[l][3]
  <2>1. k \in 1..Len(args)
    BY <1>5, <1>8, <1>10
  <2>2. CASE l = Len(args) + 1
    BY <1>3, <1>5, <1>9, <2>1, <2>2
  <2>3. CASE l # Len(args) + 1
    <3>1. l \in 1..Len(args)
      BY <1>5, <1>8, <2>3
    <3> QED
      BY <1>2, <1>5, <1>9, <1>10, <2>1, <3>1
  <2> QED
    BY <2>2, <2>3
<1> QED
  BY <1>2, <1>4, <1>7, <1>10 DEF Increasing, Q, x, more

LEMMA IncreasingEmpty == \A c, i, n : Increasing(c, i, n, << >>)
<1> TAKE c, i, n
<1>1. << >> \in Seq({<<c, i, p>> : p \in 1..n}) /\ DOMAIN << >> = {}
  BY EmptySeq
<1> QED
  BY <1>1 DEF Increasing

(* A sequence is its front with its last element behind.                   *)
LEMMA FrontAndLast ==
  ASSUME NEW S, NEW s \in Seq(S), NEW t \in Seq(S), Len(t) = Len(s) + 1,
         \A k \in 1..Len(s) : s[k] = t[k]
  PROVE  Append(s, t[Len(s) + 1]) = t /\ s \o << t[Len(s) + 1] >> = t
<1> DEFINE x == t[Len(s) + 1]
<1>1. Len(s) \in Nat /\ x \in S
  BY LenProperties
<1>2. /\ Append(s, x) \in Seq(S) /\ Len(Append(s, x)) = Len(s) + 1
      /\ \A k \in 1..Len(s) : Append(s, x)[k] = s[k]
      /\ Append(s, x)[Len(s) + 1] = x
  BY <1>1, AppendProperties
<1>3. \A k \in 1..(Len(s) + 1) : Append(s, x)[k] = t[k]
  BY <1>1, <1>2
<1>4. Append(s, x) = t
  BY <1>1, <1>2, <1>3, SeqEqual
<1> QED
  BY <1>1, <1>4, AppendIsConcat

(* One more piece of a call's arguments, or of a text.                     *)
LEMMA OnePieceMore ==
  ASSUME NEW n \in Nat
  PROVE  /\ \A c, i : O!Pieces(c, i, n) \o << <<c, i, n + 1>> >> = O!Pieces(c, i, n + 1)
         /\ \A c : Append([k \in 1..n |-> <<c, k>>], <<c, n + 1>>) = [k \in 1..(n + 1) |-> <<c, k>>]
<1>1. ASSUME NEW c, NEW i
      PROVE  O!Pieces(c, i, n) \o << <<c, i, n + 1>> >> = O!Pieces(c, i, n + 1)
  <2> DEFINE S == {<<c, i, k>> : k \in Nat}
             s == O!Pieces(c, i, n)
             t == O!Pieces(c, i, n + 1)
  <2>1. /\ s \in Seq(S) /\ Len(s) = n /\ t \in Seq(S) /\ Len(t) = n + 1
        /\ \A k \in 1..n : s[k] = t[k]
        /\ t[n + 1] = <<c, i, n + 1>>
    BY DEF O!Pieces
  <2> HIDE DEF S, s, t
  <2> QED
    BY <2>1, FrontAndLast DEF s, t
<1>2. ASSUME NEW c
      PROVE  Append([k \in 1..n |-> <<c, k>>], <<c, n + 1>>) = [k \in 1..(n + 1) |-> <<c, k>>]
  <2> DEFINE S == {<<c, k>> : k \in Nat}
             s == [k \in 1..n |-> <<c, k>>]
             t == [k \in 1..(n + 1) |-> <<c, k>>]
  <2>1. /\ s \in Seq(S) /\ Len(s) = n /\ t \in Seq(S) /\ Len(t) = n + 1
        /\ \A k \in 1..n : s[k] = t[k]
        /\ t[n + 1] = <<c, n + 1>>
    OBVIOUS
  <2> HIDE DEF S, s, t
  <2> QED
    BY <2>1, FrontAndLast DEF s, t
<1> QED
  BY <1>1, <1>2

(* What is in the fragments, whatever was skipped.                         *)
OwnPieces(x) ==
  /\ x + 1 \in DOMAIN calls[1] /\ sentCalls[1][x + 1] > 0
  /\ fragments[x].name \in {<< >>, O!Name(1, x + 1)}
  /\ Increasing(1, x + 1, sentCalls[1][x + 1] - 1, fragments[x].args)

(* What is in the buffers of which nothing was.                            *)
WholeCall(i) ==
  /\ i - 1 \in DOMAIN fragments
  /\ fragments[i - 1] = O!ToolCall(O!Name(1, i), O!Pieces(1, i, sentCalls[1][i] - 1))

CallsWhole ==
  \A i \in DOMAIN calls[1] : sentCalls[1][i] > 0 /\ <<1, i>> \notin lost => WholeCall(i)

TextWhole == <<1, 0>> \notin lost => textBuf = [k \in 1..sentText[1] |-> <<1, k>>]

UsageWhole == <<0, 0>> \notin lost => usage = usageSent

CallsStartInOrder ==
  \A i, j \in DOMAIN calls[1] : j < i /\ sentCalls[1][i] > 0 => sentCalls[1][j] > 0

OpenAIBuffers ==
  /\ phase = "parsed" => ~tooLong
  /\ CallsStartInOrder
  /\ \A x \in DOMAIN fragments : OwnPieces(x)
  /\ ~tooLong => CallsWhole /\ TextWhole /\ UsageWhole

OneChoice == NumChoices = 1

LEMMA TheChoice == OneChoice => O!Choice = {1}
BY DEF OneChoice, O!Choice

(* The next piece of a call, and what it leaves alone.                     *)
LEMMA FragmentSent ==
  ASSUME OneChoice, OpenAITyped, NEW i \in DOMAIN calls[1], O!NextFragment(1, i)
  PROVE  /\ UNCHANGED <<texts, calls, sentText, usageSent, phase>>
         /\ phase = "streaming"
         /\ \A j \in DOMAIN calls[1] : sentCalls[1][j] \in Nat
         /\ sentCalls'[1][i] = sentCalls[1][i] + 1
         /\ \A j \in DOMAIN calls[1] : j # i => sentCalls'[1][j] = sentCalls[1][j]
         /\ \A j \in DOMAIN calls[1] : j < i => sentCalls[1][j] > 0
         /\ DOMAIN calls[1] \subseteq Nat \ {0}
<1>1. 1 \in O!Choice
  BY TheChoice
<1>2. PICK n \in 0..MaxCalls : /\ calls[1] \in [1..n -> 0..MaxPieces]
                               /\ DOMAIN calls[1] = 1..n
                               /\ sentCalls[1] \in [1..n -> 0..(MaxPieces + 1)]
  BY <1>1, CallsOf
<1>3. /\ phase = "streaming"
      /\ \A j \in 1..(i - 1) : sentCalls[1][j] > 0
      /\ sentCalls' = [sentCalls EXCEPT ![1][i] = @ + 1]
      /\ UNCHANGED <<texts, calls, sentText, usageSent, phase>>
  BY DEF O!NextFragment, O!completion
<1>4. sentCalls'[1] = [sentCalls[1] EXCEPT ![i] = sentCalls[1][i] + 1]
  BY <1>1, <1>3 DEF OpenAITyped
<1>5. /\ sentCalls'[1][i] = sentCalls[1][i] + 1
      /\ \A j \in 1..n : j # i => sentCalls'[1][j] = sentCalls[1][j]
  BY <1>2, <1>4
<1>6. \A j \in 1..n : j < i => j \in 1..(i - 1)
  BY <1>2
<1>7. \A j \in 1..n : sentCalls[1][j] \in Nat
  BY <1>2, BoundsAssumption
<1>8. 1..n \subseteq Nat \ {0}
  BY <1>2
<1> QED
  BY <1>2, <1>3, <1>5, <1>6, <1>7, <1>8, Zenon

LEMMA OpenAIBuffersInit == OneChoice /\ O!Init => OpenAIBuffers
<1> SUFFICES ASSUME OneChoice, O!Init
             PROVE  OpenAIBuffers
  OBVIOUS
<1>1. 1 \in O!Choice
  BY TheChoice
<1>2. /\ sentText = [c \in O!Choice |-> 0]
      /\ sentCalls = [c \in O!Choice |-> [i \in DOMAIN calls[c] |-> 0]]
      /\ usageSent = FALSE /\ usage = FALSE /\ tooLong = FALSE
      /\ textBuf = << >> /\ fragments = << >>
  BY DEF O!Init
<1>3. sentText[1] = 0 /\ \A i \in DOMAIN calls[1] : sentCalls[1][i] = 0
  BY <1>1, <1>2
<1>4. DOMAIN fragments = {} /\ textBuf = [k \in 1..sentText[1] |-> <<1, k>>]
  BY <1>2, <1>3
<1>5. CallsStartInOrder
  BY <1>3 DEF CallsStartInOrder
<1>6. \A i \in DOMAIN calls[1] : ~(sentCalls[1][i] > 0)
  BY <1>3
<1>7. CallsWhole /\ TextWhole /\ UsageWhole
  BY <1>2, <1>4, <1>6, Zenon DEF CallsWhole, TextWhole, UsageWhole
<1> QED
  BY <1>2, <1>4, <1>5, <1>7 DEF OpenAIBuffers

(* A fragment that is not read leaves every buffer as it was.              *)
LEMMA FragmentUnread ==
  ASSUME OneChoice, OpenAITyped, OpenAIBuffers,
         NEW i \in DOMAIN calls[1], O!NextFragment(1, i), UNCHANGED fragments
  PROVE  CallsStartInOrder' /\ \A x \in DOMAIN fragments' : OwnPieces(x)'
<1>1. /\ UNCHANGED calls
      /\ \A j \in DOMAIN calls[1] : sentCalls[1][j] \in Nat
      /\ sentCalls'[1][i] = sentCalls[1][i] + 1
      /\ \A j \in DOMAIN calls[1] : j # i => sentCalls'[1][j] = sentCalls[1][j]
      /\ \A j \in DOMAIN calls[1] : j < i => sentCalls[1][j] > 0
  BY FragmentSent
<1>2. CallsStartInOrder'
  BY <1>1 DEF OpenAIBuffers, CallsStartInOrder
<1>3. ASSUME NEW x \in DOMAIN fragments
      PROVE  OwnPieces(x)'
  <2> DEFINE n == sentCalls[1][x + 1]
             args == fragments[x].args
  <2>1. /\ x + 1 \in DOMAIN calls[1] /\ n > 0 /\ n \in Nat
        /\ fragments[x].name \in {<< >>, O!Name(1, x + 1)}
        /\ Increasing(1, x + 1, n - 1, args)
    BY <1>1 DEF OpenAIBuffers, OwnPieces
  <2>2. sentCalls'[1][x + 1] \in {n, n + 1}
    BY <1>1, <2>1
  <2>3. Increasing(1, x + 1, n, args)
    <3>1. n - 1 \in Nat /\ (n - 1) + 1 = n
      BY <2>1
    <3> HIDE DEF n, args
    <3> QED
      BY <2>1, <3>1, IncreasingMore
  <2>4. Increasing(1, x + 1, sentCalls'[1][x + 1] - 1, args)
    <3>1. (n + 1) - 1 = n
      BY <2>1
    <3> HIDE DEF n, args
    <3> QED
      BY <2>1, <2>2, <2>3, <3>1
  <2>5. O!Name(1, x + 1)' = O!Name(1, x + 1)
    BY DEF O!Name
  <2>6. sentCalls'[1][x + 1] > 0
    BY <2>1, <2>2
  <2> QED
    BY <1>1, <2>1, <2>4, <2>5, <2>6 DEF OwnPieces
<1> QED
  BY <1>2, <1>3
(* The parser reads a fragment.                                            *)
LEMMA FragmentRead ==
  ASSUME OneChoice, OpenAITyped, OpenAIBuffers,
         NEW i \in DOMAIN calls[1], O!CallChunk(1, i)
  PROVE  OpenAIBuffers'
<1> DEFINE n == sentCalls[1][i]
           x == i - 1
           name == IF n = 0 THEN O!Name(1, i) ELSE << >>
           args == IF n = 0 THEN << >> ELSE << <<1, i, n>> >>
           frag == O!Fragment(x)
           new == O!ToolCall(frag.name \o name, frag.args \o args)
<1>1. /\ UNCHANGED <<texts, calls, sentText, usageSent, phase>>
      /\ phase = "streaming"
      /\ \A j \in DOMAIN calls[1] : sentCalls[1][j] \in Nat
      /\ sentCalls'[1][i] = n + 1
      /\ \A j \in DOMAIN calls[1] : j # i => sentCalls'[1][j] = sentCalls[1][j]
      /\ DOMAIN calls[1] \subseteq Nat \ {0}
  BY FragmentSent DEF O!CallChunk
<1>2. /\ ~tooLong /\ UNCHANGED <<lost, tooLong, usage, textBuf>>
      /\ fragments' = [y \in DOMAIN fragments \cup {x} |-> IF y = x THEN new ELSE fragments[y]]
  BY DEF O!CallChunk, O!Read, O!Write
<1>3. i \in Nat \ {0} /\ x + 1 = i /\ n \in Nat
  BY <1>1
<1>4. /\ new.name = frag.name \o name /\ new.args = frag.args \o args
      /\ new = O!ToolCall(frag.name \o name, frag.args \o args)
  BY DEF O!ToolCall
<1>5. /\ x \in DOMAIN fragments => OwnPieces(x) /\ frag = fragments[x]
      /\ x \notin DOMAIN fragments => frag.name = << >> /\ frag.args = << >>
  BY DEF OpenAIBuffers, O!Fragment, O!ToolCall
<1>6. n = 0 => new.name = O!Name(1, i) /\ new.args = << >>
  <2> SUFFICES ASSUME n = 0
               PROVE  new.name = O!Name(1, i) /\ new.args = << >>
    OBVIOUS
  <2>1. x \notin DOMAIN fragments
    BY <1>3, <1>5 DEF OwnPieces
  <2>2. << >> \o O!Name(1, i) = O!Name(1, i) /\ << >> \o << >> = << >>
    BY DEF O!Name
  <2> QED
    BY <1>4, <1>5, <2>1, <2>2
<1>7. frag.name \in {<< >>, O!Name(1, i)} /\ Increasing(1, i, n - 1, frag.args)
  BY <1>3, <1>5, IncreasingEmpty DEF OwnPieces
<1>8. n # 0 => new.name = frag.name /\ new.args = frag.args \o << <<1, i, n>> >>
  <2>1. << >> \o << >> = << >> /\ O!Name(1, i) \o << >> = O!Name(1, i)
    BY DEF O!Name
  <2> QED
    BY <1>4, <1>7, <2>1
<1> HIDE DEF n, x, name, args, frag, new
<1>9. new.name \in {<< >>, O!Name(1, i)} /\ Increasing(1, i, n, new.args)
  <2>1. CASE n = 0
    BY <1>6, <2>1, IncreasingEmpty
  <2>2. CASE n # 0
    <3>1. n - 1 \in Nat /\ (n - 1) + 1 = n
      BY <1>3, <2>2
    <3> QED
      BY <1>7, <1>8, <2>2, <3>1, IncreasingMore
  <2> QED
    BY <2>1, <2>2
<1>10. ASSUME NEW y \in DOMAIN fragments'
       PROVE  OwnPieces(y)'
  <2>1. O!Name(1, y + 1)' = O!Name(1, y + 1)
    BY DEF O!Name
  <2>2. CASE y = x
    <3>1. fragments'[y] = new /\ y + 1 = i
      BY <1>2, <1>3, <2>2
    <3>2. sentCalls'[1][y + 1] > 0 /\ sentCalls'[1][y + 1] - 1 = n
      BY <1>1, <1>3, <3>1 DEF n
    <3> QED
      BY <1>1, <1>9, <2>1, <3>1, <3>2 DEF OwnPieces
  <2>3. CASE y # x
    <3>1. y \in DOMAIN fragments /\ fragments'[y] = fragments[y]
      BY <1>2, <2>3
    <3>2. OwnPieces(y)
      BY <3>1 DEF OpenAIBuffers
    <3>3. y \in 0..(MaxCalls - 1)
      BY <3>1 DEF OpenAITyped, O!TypeOK
    <3>4. y + 1 # i
      BY <1>3, <2>3, <3>3, BoundsAssumption DEF x
    <3>5. sentCalls'[1][y + 1] = sentCalls[1][y + 1]
      BY <1>1, <3>2, <3>4 DEF OwnPieces
    <3> QED
      BY <1>1, <2>1, <3>1, <3>2, <3>5 DEF OwnPieces
  <2> QED
    BY <2>2, <2>3
<1>11. CallsStartInOrder'
  <2>1. \A j \in DOMAIN calls[1] : j < i => sentCalls[1][j] > 0
    BY FragmentSent DEF O!CallChunk
  <2> QED
    BY <1>1, <1>3, <2>1 DEF OpenAIBuffers, CallsStartInOrder, n
<1>12. CallsWhole /\ TextWhole /\ UsageWhole
  BY <1>2 DEF OpenAIBuffers
<1>13. ASSUME <<1, i>> \notin lost
       PROVE  new = O!ToolCall(O!Name(1, i), O!Pieces(1, i, n))
  <2>1. CASE n = 0
    <3>1. O!Pieces(1, i, 0) = << >>
      BY DEF O!Pieces
    <3> QED
      BY <1>4, <1>6, <2>1, <3>1
  <2>2. CASE n # 0
    <3>1. n - 1 \in Nat /\ (n - 1) + 1 = n /\ n > 0
      BY <1>3, <2>2
    <3>2. WholeCall(i)
      BY <1>12, <1>13, <3>1 DEF CallsWhole, n
    <3>3. x \in DOMAIN fragments /\ fragments[x] = O!ToolCall(O!Name(1, i), O!Pieces(1, i, n - 1))
      BY <3>2 DEF WholeCall, n, x
    <3>4. frag.name = O!Name(1, i) /\ frag.args = O!Pieces(1, i, n - 1)
      BY <1>5, <3>3 DEF O!ToolCall
    <3>5. O!Pieces(1, i, n - 1) \o << <<1, i, n>> >> = O!Pieces(1, i, n)
      BY <3>1, OnePieceMore
    <3> QED
      BY <1>4, <1>8, <2>2, <3>4, <3>5
  <2> QED
    BY <2>1, <2>2
<1>14. ASSUME NEW j \in DOMAIN calls[1], sentCalls'[1][j] > 0, <<1, j>> \notin lost
       PROVE  /\ j - 1 \in DOMAIN fragments'
              /\ fragments'[j - 1] = O!ToolCall(O!Name(1, j), O!Pieces(1, j, sentCalls'[1][j] - 1))
  <2>1. CASE j = i
    <3>1. sentCalls'[1][j] - 1 = n /\ j - 1 = x
      BY <1>1, <1>3, <2>1 DEF x
    <3>2. x \in DOMAIN fragments' /\ fragments'[x] = new
      BY <1>2
    <3> QED
      BY <1>13, <1>14, <2>1, <3>1, <3>2
  <2>2. CASE j # i
    <3>1. j - 1 # x
      BY <1>1, <1>3, <2>2 DEF x
    <3>2. sentCalls'[1][j] = sentCalls[1][j]
      BY <1>1, <2>2
    <3>3. WholeCall(j)
      BY <1>12, <1>14, <3>2 DEF CallsWhole
    <3>4. j - 1 \in DOMAIN fragments' /\ fragments'[j - 1] = fragments[j - 1]
      BY <1>2, <3>1, <3>3 DEF WholeCall
    <3> QED
      BY <3>2, <3>3, <3>4 DEF WholeCall
  <2> QED
    BY <2>1, <2>2
<1>15. CallsWhole'
  BY <1>1, <1>2, <1>14 DEF CallsWhole, WholeCall, O!ToolCall, O!Name, O!Pieces
<1>16. TextWhole' /\ UsageWhole'
  BY <1>1, <1>2, <1>12 DEF TextWhole, UsageWhole
<1> QED
  BY <1>1, <1>2, <1>10, <1>11, <1>15, <1>16 DEF OpenAIBuffers
LEMMA OpenAIBuffersNext ==
  OneChoice /\ OpenAITyped /\ OpenAIBuffers /\ [O!Next]_O!vars => OpenAIBuffers'
<1> SUFFICES ASSUME OneChoice, OpenAITyped, OpenAIBuffers, [O!Next]_O!vars
             PROVE  OpenAIBuffers'
  OBVIOUS
<1>1. O!Choice = {1} /\ 1 \in O!Choice
  BY TheChoice
(* Steps that leave the calls and the fragments alone.                     *)
<1>2. ASSUME UNCHANGED <<calls, sentCalls, fragments>>
      PROVE  CallsStartInOrder' /\ \A x \in DOMAIN fragments' : OwnPieces(x)'
  BY <1>2 DEF OpenAIBuffers, CallsStartInOrder, OwnPieces, Increasing, O!Name
(* Steps that leave the calls and what was lost of them alone.             *)
<1>9. ASSUME UNCHANGED <<calls, sentCalls, fragments>>, lost \subseteq lost', CallsWhole
      PROVE  CallsWhole'
  <2>1. ASSUME NEW i \in DOMAIN calls[1], WholeCall(i)
        PROVE  WholeCall(i)'
    BY <1>9, <2>1 DEF WholeCall, O!ToolCall, O!Name, O!Pieces
  <2> QED
    BY <1>9, <2>1 DEF CallsWhole
<1>3. CASE O!TextChunk(1)
  <2>1. /\ UNCHANGED <<texts, calls, sentCalls, usageSent, phase, lost, tooLong, usage, fragments>>
        /\ ~tooLong /\ phase = "streaming"
        /\ sentText' = [sentText EXCEPT ![1] = @ + 1]
        /\ textBuf' = Append(textBuf, <<1, sentText'[1]>>)
    BY <1>3 DEF O!TextChunk, O!NextText, O!Read, O!completion
  <2>2. sentText'[1] = sentText[1] + 1 /\ sentText[1] \in Nat
    BY <1>1, <2>1, BoundsAssumption DEF OpenAITyped, O!TypeOK
  <2>3. ASSUME textBuf = [k \in 1..sentText[1] |-> <<1, k>>]
        PROVE  textBuf' = [k \in 1..sentText'[1] |-> <<1, k>>]
    BY <2>1, <2>2, <2>3, OnePieceMore
  <2>4. CallsWhole /\ TextWhole /\ UsageWhole => (CallsWhole /\ TextWhole /\ UsageWhole)'
    BY <1>9, <2>1, <2>3 DEF TextWhole, UsageWhole
  <2> QED
    BY <1>2, <2>1, <2>4 DEF OpenAIBuffers
<1>4. ASSUME NEW i \in DOMAIN calls[1], O!CallChunk(1, i)
      PROVE  OpenAIBuffers'
  BY <1>4, FragmentRead
<1>5. CASE O!UsageChunk
  <2>1. /\ UNCHANGED <<texts, calls, sentText, sentCalls, phase, lost, tooLong, textBuf, fragments>>
        /\ usageSent' = TRUE /\ usage' = TRUE
    BY <1>5 DEF O!UsageChunk, O!NextUsage, O!Read, O!completion
  <2>2. CallsWhole /\ TextWhole /\ UsageWhole => (CallsWhole /\ TextWhole /\ UsageWhole)'
    BY <1>9, <2>1 DEF TextWhole, UsageWhole
  <2> QED
    BY <1>2, <2>1, <2>2 DEF OpenAIBuffers
<1>6. ASSUME O!NextChunk, UNCHANGED <<usage, textBuf, fragments>>
      PROVE  /\ phase = "streaming" /\ phase' = "streaming"
             /\ CallsStartInOrder' /\ \A x \in DOMAIN fragments' : OwnPieces(x)'
  <2>1. phase = "streaming" /\ phase' = "streaming"
    BY <1>6 DEF O!NextChunk, O!NextText, O!NextFragment, O!NextUsage
  <2>2. CASE \E i \in DOMAIN calls[1] : O!NextFragment(1, i)
    BY <1>6, <2>1, <2>2, FragmentUnread
  <2>3. CASE O!NextText(1) \/ O!NextUsage
    BY <1>2, <1>6, <2>1, <2>3 DEF O!NextText, O!NextUsage, O!completion
  <2> QED
    BY <1>1, <1>6, <2>2, <2>3 DEF O!NextChunk
<1>10. CASE O!UnscannedChunk
  <2>1. O!NextChunk /\ UNCHANGED <<usage, textBuf, fragments>> /\ tooLong' = TRUE
    BY <1>10 DEF O!UnscannedChunk, O!parser
  <2> QED
    BY <1>6, <2>1 DEF OpenAIBuffers
<1>11. CASE O!SkippedChunk
  <2>1. ~tooLong /\ UNCHANGED <<tooLong, usage, textBuf, fragments>>
    BY <1>11 DEF O!SkippedChunk, O!parser
  <2>2. CallsWhole /\ TextWhole /\ UsageWhole
    BY <2>1 DEF OpenAIBuffers
  <2>3. ASSUME O!NextText(1), lost' = lost \cup {<<1, 0>>}
        PROVE  O!NextChunk /\ (CallsWhole /\ TextWhole /\ UsageWhole)'
    <3>1. O!NextChunk /\ UNCHANGED <<calls, sentCalls, usageSent>>
      BY <1>1, <2>3 DEF O!NextText, O!completion, O!NextChunk
    <3> QED
      BY <1>9, <2>1, <2>2, <2>3, <3>1 DEF TextWhole, UsageWhole
  <2>4. ASSUME NEW i \in DOMAIN calls[1], O!NextFragment(1, i), lost' = lost \cup {<<1, i>>}
        PROVE  O!NextChunk /\ (CallsWhole /\ TextWhole /\ UsageWhole)'
    <3>1. /\ UNCHANGED <<texts, calls, sentText, usageSent>>
          /\ \A j \in DOMAIN calls[1] : j # i => sentCalls'[1][j] = sentCalls[1][j]
      BY <2>4, FragmentSent
    <3>2. O!NextChunk
      BY <1>1, <2>4 DEF O!NextChunk
    <3>3. ASSUME NEW j \in DOMAIN calls[1], sentCalls'[1][j] > 0, <<1, j>> \notin lost'
          PROVE  WholeCall(j)'
      <4>1. sentCalls'[1][j] = sentCalls[1][j] /\ <<1, j>> \notin lost
        BY <2>4, <3>1, <3>3
      <4>2. WholeCall(j)
        BY <2>2, <3>3, <4>1 DEF CallsWhole
      <4> QED
        BY <2>1, <4>1, <4>2 DEF WholeCall, O!ToolCall, O!Name, O!Pieces
    <3>4. CallsWhole'
      BY <3>1, <3>3 DEF CallsWhole
    <3>5. TextWhole' /\ UsageWhole'
      BY <2>1, <2>2, <2>4, <3>1 DEF TextWhole, UsageWhole
    <3> QED
      BY <3>2, <3>4, <3>5
  <2>5. ASSUME O!NextUsage, lost' = lost \cup {<<0, 0>>}
        PROVE  O!NextChunk /\ (CallsWhole /\ TextWhole /\ UsageWhole)'
    <3>1. O!NextChunk /\ UNCHANGED <<calls, sentCalls, sentText>>
      BY <2>5 DEF O!NextUsage, O!completion, O!NextChunk
    <3> QED
      BY <1>9, <2>1, <2>2, <2>5, <3>1 DEF TextWhole, UsageWhole
  <2>6. O!NextChunk /\ (CallsWhole /\ TextWhole /\ UsageWhole)'
    BY <1>1, <1>11, <2>3, <2>4, <2>5 DEF O!SkippedChunk
  <2> QED
    BY <1>6, <2>1, <2>6 DEF OpenAIBuffers
<1>7. CASE O!EndOfBody
  <2>1. /\ phase' = IF tooLong THEN "failed" ELSE "parsed"
        /\ UNCHANGED <<texts, calls, sentText, sentCalls, usageSent, lost, tooLong,
                       usage, textBuf, fragments>>
    BY <1>7 DEF O!EndOfBody, O!completion, O!stream, O!parser
  <2>2. CallsWhole /\ TextWhole /\ UsageWhole => (CallsWhole /\ TextWhole /\ UsageWhole)'
    BY <1>9, <2>1 DEF TextWhole, UsageWhole
  <2>3. phase' = "parsed" => ~tooLong'
    BY <2>1
  <2> QED
    BY <1>2, <2>1, <2>2, <2>3 DEF OpenAIBuffers
<1>8. CASE UNCHANGED O!vars
  <2>1. UNCHANGED <<texts, calls, sentText, sentCalls, usageSent, lost, tooLong, phase,
                    usage, textBuf, fragments>>
    BY <1>8 DEF O!vars, O!completion, O!stream, O!parser
  <2>2. CallsWhole /\ TextWhole /\ UsageWhole => (CallsWhole /\ TextWhole /\ UsageWhole)'
    BY <1>9, <2>1 DEF TextWhole, UsageWhole
  <2> QED
    BY <1>2, <2>1, <2>2 DEF OpenAIBuffers
<1> QED
  BY <1>1, <1>3, <1>4, <1>5, <1>7, <1>8, <1>10, <1>11 DEF O!Next

-------------------------------------------------------------------------------
(* OpenAI: the properties.                                                 *)

(* One sequence, flattened.                                                *)
LEMMA FlattenOne == \A s : O!FlattenSeq(<< s >>) = s
<1> TAKE s
<1> DEFINE F(f) == [i \in 1..1 |-> IF i = 1 THEN << s >>[i] ELSE f[i - 1] \o << s >>[i]]
           f == CHOOSE f : f = F(f)
           g == [i \in 1..1 |-> s]
<1>1. Len(<< s >>) = 1 /\ << s >>[1] = s
  OBVIOUS
<1>2. O!FlattenSeq(<< s >>) = f[1]
  BY <1>1 DEF O!FlattenSeq
<1>3. g = F(g)
  BY <1>1
<1>4. f = F(f)
  <2> HIDE DEF F, g
  <2> QED
    BY <1>3
<1> HIDE DEF f
<1>5. f[1] = F(f)[1]
  BY <1>4
<1> QED
  BY <1>1, <1>2, <1>5
(* The instances' Cardinality is that of FiniteSets.                       *)
LEMMA SameCardinality ==
  \A S : O!Cardinality(S) = Cardinality(S) /\ A!Cardinality(S) = Cardinality(S)
BY DEF Cardinality, O!Cardinality, A!Cardinality

(* The rows are those of the fragments that the loop reaches.              *)
LEMMA EmittedReached ==
  ASSUME OpenAITyped, NEW n \in DOMAIN O!EmittedIndices
  PROVE  O!EmittedIndices[n] \in O!Reached
<1> DEFINE b == Cardinality(DOMAIN fragments)
<1>1. DOMAIN fragments \subseteq 0..(MaxCalls - 1)
  BY DEF OpenAITyped, O!TypeOK
<1>2. b \in Nat
  <2>1. IsFiniteSet(0..(MaxCalls - 1))
    BY IntervalFromZero, BoundsAssumption
  <2> QED
    BY <1>1, <2>1, FS_Subset, FS_CardinalityType
<1>3. O!Reached \subseteq 0..(b - 1)
  BY <1>1, <1>2, SameCardinality, BoundsAssumption DEF O!Reached
<1>4. n \in 1..Cardinality(O!Reached) /\ O!EmittedIndices[n] = O!Nth(O!Reached, n)
  BY SameCardinality DEF O!EmittedIndices
<1>5. \E x \in O!Reached : Cardinality({y \in O!Reached : y < x}) = n - 1
  BY <1>2, <1>3, <1>4, NthSmallest
<1>6. O!Nth(O!Reached, n) \in O!Reached
  BY <1>5, SameCardinality DEF O!Nth
<1> QED
  BY <1>4, <1>6

(* Every fragment that the loop reaches has a row.                         *)
LEMMA ReachedEmitted ==
  ASSUME OpenAITyped, NEW x \in O!Reached
  PROVE  \E n \in DOMAIN O!EmittedIndices : O!EmittedIndices[n] = x
<1> DEFINE S == O!Reached
           Below(z) == {y \in S : y < z}
           n == Cardinality(Below(x)) + 1
<1>1. S \subseteq 0..(MaxCalls - 1) /\ MaxCalls \in Nat
  BY BoundsAssumption DEF OpenAITyped, O!TypeOK, O!Reached
<1>2. \A y \in S : y \in Nat
  BY <1>1
<1>3. IsFiniteSet(S)
  BY <1>1, IntervalFromZero, FS_Subset
<1>4. \A z : Below(z) \subseteq S
  OBVIOUS
<1>5. \A z : /\ IsFiniteSet(Below(z)) /\ Cardinality(Below(z)) \in Nat
             /\ Cardinality(Below(z)) <= Cardinality(S)
  BY <1>3, <1>4, FS_Subset, FS_CardinalityType
<1>6. \A z : z \in S => z \notin Below(z)
  BY <1>2
<1>7. n \in 1..Cardinality(S)
  <2>1. Cardinality(Below(x)) # Cardinality(S)
    BY <1>3, <1>4, <1>6, FS_Subset
  <2>2. Cardinality(S) \in Nat
    BY <1>3, FS_CardinalityType
  <2>3. Cardinality(Below(x)) \in Nat /\ Cardinality(Below(x)) <= Cardinality(S)
    BY <1>5
  <2> QED
    BY <2>1, <2>2, <2>3
<1>8. ASSUME NEW z \in S, NEW w \in S, z < w
      PROVE  Cardinality(Below(z)) # Cardinality(Below(w))
  <2>1. z \in Below(w) /\ z \notin Below(z)
    BY <1>6, <1>8
  <2>2. Below(z) \subseteq Below(w)
    BY <1>2, <1>8
  <2> QED
    BY <1>5, <2>1, <2>2, FS_Subset
<1>9. ASSUME NEW z \in S, Cardinality(Below(z)) = Cardinality(Below(x))
      PROVE  z = x
  <2>1. z \in Nat /\ x \in Nat
    BY <1>2
  <2>2. ~(z < x) /\ ~(x < z)
    BY <1>8, <1>9
  <2> QED
    BY <2>1, <2>2
<1>10. n - 1 = Cardinality(Below(x))
  BY <1>5
<1>11. O!Nth(S, n) = x
  <2>1. O!Nth(S, n) = CHOOSE z \in S : Cardinality(Below(z)) = n - 1
    BY SameCardinality DEF O!Nth
  <2> HIDE DEF S, Below, n
  <2>2. x \in S
    BY DEF S
  <2> QED
    BY <1>9, <1>10, <2>1, <2>2
<1>12. n \in DOMAIN O!EmittedIndices /\ O!EmittedIndices[n] = O!Nth(S, n)
  <2>1. O!EmittedIndices = [k \in 1..Cardinality(S) |-> O!Nth(S, k)]
    BY SameCardinality DEF O!EmittedIndices
  <2> HIDE DEF S, n
  <2> QED
    BY <1>7, <2>1
<1> QED
  BY <1>11, <1>12

LEMMA InvRowsUnmixed == OneChoice /\ OpenAITyped /\ OpenAIBuffers => O!RowsUnmixed
<1> SUFFICES ASSUME OneChoice, OpenAITyped, OpenAIBuffers, NEW n \in DOMAIN O!StreamTools,
                    O!StreamTools[n].args # O!Braces
             PROVE  \E c \in O!Choice : \E i \in DOMAIN calls[c] :
                      /\ O!StreamTools[n].name \in {<< >>, O!Name(c, i)}
                      /\ \A k \in DOMAIN O!StreamTools[n].args :
                           O!StreamTools[n].args[k] \in {<<c, i, p>> : p \in 1..MaxPieces}
                      /\ \A k, l \in DOMAIN O!StreamTools[n].args :
                           k < l => O!StreamTools[n].args[k][3] < O!StreamTools[n].args[l][3]
  BY DEF O!RowsUnmixed
<1> DEFINE x == O!EmittedIndices[n]
           i == x + 1
           args == fragments[x].args
<1>1. DOMAIN O!StreamTools = DOMAIN O!EmittedIndices
  BY DEF O!StreamTools
<1>2. x \in DOMAIN fragments
  BY <1>1, EmittedReached DEF O!Reached
<1>3. OwnPieces(x)
  BY <1>2 DEF OpenAIBuffers
<1>4. /\ O!StreamTools[n].name = fragments[x].name
      /\ O!StreamTools[n].args = O!OrBraces(args)
  BY <1>1 DEF O!StreamTools, O!ToolCall
<1>5. O!StreamTools[n].args = args
  BY <1>4 DEF O!OrBraces
<1>6. 1 \in O!Choice
  BY TheChoice
<1>7. /\ i \in DOMAIN calls[1]
      /\ fragments[x].name \in {<< >>, O!Name(1, i)}
      /\ args \in Seq({<<1, i, p>> : p \in 1..(sentCalls[1][i] - 1)})
      /\ \A k, l \in DOMAIN args : k < l => args[k][3] < args[l][3]
  BY <1>3 DEF OwnPieces, Increasing
<1>8. sentCalls[1][i] \in 0..(MaxPieces + 1)
  BY <1>6, <1>7, CallsOf
<1>9. {<<1, i, p>> : p \in 1..(sentCalls[1][i] - 1)} \subseteq {<<1, i, p>> : p \in 1..MaxPieces}
  BY <1>8, BoundsAssumption
<1>10. \A k \in DOMAIN args : args[k] \in {<<1, i, p>> : p \in 1..MaxPieces}
  BY <1>7, <1>9, LenProperties
<1> HIDE DEF x, i, args
<1> QED
  BY <1>4, <1>5, <1>6, <1>7, <1>10

(* A call that was read whole has its row exactly if the loop reaches it.  *)
LEMMA InvLossIsLocal == OneChoice /\ OpenAITyped /\ OpenAIBuffers => O!LossIsLocal
<1> SUFFICES ASSUME OneChoice, OpenAITyped, OpenAIBuffers, ~tooLong
             PROVE  /\ \A i \in DOMAIN calls[1] :
                         sentCalls[1][i] > 0 /\ <<1, i>> \notin lost =>
                           ((\E n \in DOMAIN O!StreamTools : O!StreamTools[n] = O!RowSoFar(1, i))
                              <=> i <= O!Cardinality(DOMAIN fragments))
                    /\ <<1, 0>> \notin lost => textBuf = [k \in 1..sentText[1] |-> <<1, k>>]
                    /\ <<0, 0>> \notin lost => usage = usageSent
  BY TheChoice DEF O!LossIsLocal
<1>1. CallsWhole /\ TextWhole /\ UsageWhole
  BY DEF OpenAIBuffers
<1>2. ASSUME NEW i \in DOMAIN calls[1], sentCalls[1][i] > 0, <<1, i>> \notin lost
      PROVE  (\E n \in DOMAIN O!StreamTools : O!StreamTools[n] = O!RowSoFar(1, i))
               <=> i <= O!Cardinality(DOMAIN fragments)
  <2> DEFINE b == O!Cardinality(DOMAIN fragments)
  <2>1. WholeCall(i)
    BY <1>1, <1>2 DEF CallsWhole
  <2>2. DOMAIN fragments \subseteq 0..(MaxCalls - 1) /\ MaxCalls \in Nat
    BY BoundsAssumption DEF OpenAITyped, O!TypeOK
  <2>3. b \in Nat
    <3>1. IsFiniteSet(DOMAIN fragments)
      BY <2>2, IntervalFromZero, FS_Subset
    <3> QED
      BY <3>1, FS_CardinalityType, SameCardinality
  <2>4. i \in Nat
    <3>1. 1 \in O!Choice
      BY TheChoice
    <3>2. PICK m \in 0..MaxCalls : DOMAIN calls[1] = 1..m
      BY <3>1, CallsOf
    <3> QED
      BY <3>2
  <2>5. \A x : x \in O!Reached <=> x \in DOMAIN fragments /\ x < b
    BY DEF O!Reached
  <2>6. DOMAIN O!StreamTools = DOMAIN O!EmittedIndices
    BY DEF O!StreamTools
  <2>7. \A n \in DOMAIN O!StreamTools :
          O!StreamTools[n] = O!ToolCall(fragments[O!EmittedIndices[n]].name,
                                        O!OrBraces(fragments[O!EmittedIndices[n]].args))
    BY <2>6 DEF O!StreamTools
  <2> HIDE DEF b
  <2>8. ASSUME NEW n \in DOMAIN O!StreamTools, O!StreamTools[n] = O!RowSoFar(1, i)
        PROVE  i <= b
    <3> DEFINE x == O!EmittedIndices[n]
    <3>1. x \in O!Reached
      BY <2>6, EmittedReached
    <3>2. OwnPieces(x) /\ x \in Nat /\ x < b
      BY <2>2, <2>5, <3>1 DEF OpenAIBuffers
    <3>3. fragments[x].name = O!Name(1, i)
      BY <2>7, <2>8 DEF O!RowSoFar, O!ToolCall
    <3> HIDE DEF x
    <3>4. O!Name(1, i) = O!Name(1, x + 1)
      <4>1. O!Name(1, i) # << >>
        BY DEF O!Name
      <4> QED
        BY <3>2, <3>3, <4>1 DEF OwnPieces
    <3>5. i = x + 1
      <4>1. O!Name(1, i)[1] = <<1, i>> /\ O!Name(1, x + 1)[1] = <<1, x + 1>>
        BY DEF O!Name
      <4>2. <<1, i>> = <<1, x + 1>>
        BY <3>4, <4>1
      <4> QED
        BY <4>2
    <3> QED
      BY <2>3, <3>2, <3>5
  <2>9. ASSUME i <= b
        PROVE  \E n \in DOMAIN O!StreamTools : O!StreamTools[n] = O!RowSoFar(1, i)
    <3>1. i - 1 < b
      BY <2>3, <2>4, <2>9
    <3>2. i - 1 \in O!Reached
      BY <2>1, <2>5, <3>1 DEF WholeCall
    <3>3. PICK n \in DOMAIN O!EmittedIndices : O!EmittedIndices[n] = i - 1
      BY <3>2, ReachedEmitted
    <3>4. /\ fragments[i - 1].name = O!Name(1, i)
          /\ fragments[i - 1].args = O!Pieces(1, i, sentCalls[1][i] - 1)
      BY <2>1 DEF WholeCall, O!ToolCall
    <3>5. O!StreamTools[n] = O!RowSoFar(1, i)
      BY <2>6, <2>7, <3>3, <3>4 DEF O!RowSoFar
    <3> QED
      BY <2>6, <3>5
  <2> QED
    BY <2>8, <2>9 DEF b
<1>3. /\ <<1, 0>> \notin lost => textBuf = [k \in 1..sentText[1] |-> <<1, k>>]
      /\ <<0, 0>> \notin lost => usage = usageSent
  BY <1>1 DEF TextWhole, UsageWhole
<1> QED
  BY <1>2, <1>3

(* What is in all the buffers when nothing was skipped.                    *)
Undamaged ==
  /\ \A i \in DOMAIN calls[1] : sentCalls[1][i] > 0 => i - 1 \in DOMAIN fragments
  /\ \A x \in DOMAIN fragments :
       fragments[x] = O!ToolCall(O!Name(1, x + 1), O!Pieces(1, x + 1, sentCalls[1][x + 1] - 1))
  /\ textBuf = [k \in 1..sentText[1] |-> <<1, k>>]
  /\ usage = usageSent

LEMMA NothingLost ==
  ASSUME OpenAITyped, OpenAIBuffers, lost = {}, ~tooLong
  PROVE  Undamaged
<1>1. CallsWhole /\ TextWhole /\ UsageWhole
  BY DEF OpenAIBuffers
<1>2. ASSUME NEW x \in DOMAIN fragments
      PROVE  fragments[x] =
               O!ToolCall(O!Name(1, x + 1), O!Pieces(1, x + 1, sentCalls[1][x + 1] - 1))
  <2>1. x + 1 \in DOMAIN calls[1] /\ sentCalls[1][x + 1] > 0
    BY DEF OpenAIBuffers, OwnPieces
  <2>2. (x + 1) - 1 = x
    BY BoundsAssumption DEF OpenAITyped, O!TypeOK
  <2>3. WholeCall(x + 1)
    BY <1>1, <2>1 DEF CallsWhole
  <2> QED
    BY <2>2, <2>3 DEF WholeCall
<1>3. \A i \in DOMAIN calls[1] : sentCalls[1][i] > 0 => i - 1 \in DOMAIN fragments
  BY <1>1 DEF CallsWhole, WholeCall
<1>4. /\ textBuf = [k \in 1..sentText[1] |-> <<1, k>>]
      /\ usage = usageSent
  BY <1>1 DEF TextWhole, UsageWhole
<1> QED
  BY <1>2, <1>3, <1>4 DEF Undamaged

(* The rows of a stream of which no chunk was lost.                        *)
LEMMA WholeRows ==
  ASSUME OneChoice, OpenAITyped, OpenAIBuffers, lost = {}, ~tooLong
  PROVE  \E m \in Nat :
           /\ {i \in DOMAIN calls[1] : sentCalls[1][i] > 0} = 1..m
           /\ O!StreamTools = [i \in 1..m |->
                O!ToolCall(O!Name(1, i), O!OrBraces(O!Pieces(1, i, sentCalls[1][i] - 1)))]
<1> DEFINE started == {i \in DOMAIN calls[1] : sentCalls[1][i] > 0}
<1>1. 1 \in O!Choice
  BY TheChoice
<1>2. PICK n \in 0..MaxCalls : DOMAIN calls[1] = 1..n
  BY <1>1, CallsOf
<1>3. PICK m \in 0..n : started = 1..m
  <2>1. n \in Nat /\ started \subseteq 1..n
    BY <1>2, BoundsAssumption
  <2>2. \A i \in started : \A j \in 1..n : j < i => j \in started
    BY <1>2 DEF OpenAIBuffers, CallsStartInOrder
  <2> HIDE DEF started
  <2> QED
    BY <2>1, <2>2, InitialSegment
<1>4. m \in Nat /\ Undamaged
  BY <1>2, <1>3, NothingLost, BoundsAssumption
<1>5. DOMAIN fragments = 0..(m - 1)
  <2>1. ASSUME NEW x \in DOMAIN fragments
        PROVE  x \in 0..(m - 1)
    <3>1. x \in 0..(MaxCalls - 1) /\ x + 1 \in started
      BY DEF OpenAITyped, O!TypeOK, OpenAIBuffers, OwnPieces
    <3> QED
      BY <1>3, <1>4, <3>1, BoundsAssumption
  <2>2. ASSUME NEW x \in 0..(m - 1)
        PROVE  x \in DOMAIN fragments
    <3>1. x + 1 \in started /\ (x + 1) - 1 = x
      BY <1>3, <1>4
    <3> QED
      BY <1>4, <3>1 DEF Undamaged
  <2> QED
    BY <2>1, <2>2
<1>6. O!EmittedIndices = [i \in 1..m |-> i - 1]
  <2>1. Cardinality(DOMAIN fragments) = m
    BY <1>4, <1>5, IntervalFromZero
  <2>2. O!Reached = 0..(m - 1)
    BY <1>4, <1>5, <2>1, SameCardinality DEF O!Reached
  <2>3. Cardinality(O!Reached) = m
    BY <1>4, <2>2, IntervalFromZero
  <2>4. \A x \in O!Reached : Cardinality({y \in O!Reached : y < x}) = x
    <3>1. \A x \in O!Reached : {y \in O!Reached : y < x} = 0..(x - 1) /\ x \in Nat
      BY <1>4, <2>2
    <3> QED
      BY <3>1, IntervalFromZero
  <2>5. ASSUME NEW i \in 1..m
        PROVE  O!Nth(O!Reached, i) = i - 1
    <3>1. i - 1 \in O!Reached
      BY <1>4, <2>2
    <3> QED
      BY <2>4, <3>1, SameCardinality DEF O!Nth
  <2> QED
    BY <2>3, <2>5, SameCardinality DEF O!EmittedIndices
<1>7. ASSUME NEW i \in 1..m
      PROVE  /\ i \in DOMAIN O!EmittedIndices /\ O!EmittedIndices[i] = i - 1
             /\ fragments[i - 1].name = O!Name(1, i)
             /\ fragments[i - 1].args = O!Pieces(1, i, sentCalls[1][i] - 1)
  <2>1. i \in DOMAIN O!EmittedIndices /\ O!EmittedIndices[i] = i - 1
    BY <1>6
  <2>2. i - 1 \in DOMAIN fragments /\ (i - 1) + 1 = i
    BY <1>4, <1>5
  <2>3. fragments[i - 1] = O!ToolCall(O!Name(1, i), O!Pieces(1, i, sentCalls[1][i] - 1))
    BY <1>4, <2>2 DEF Undamaged
  <2> QED
    BY <2>1, <2>3 DEF O!ToolCall
<1>8. DOMAIN O!EmittedIndices = 1..m
  BY <1>6
<1>9. O!StreamTools = [i \in 1..m |->
        O!ToolCall(O!Name(1, i), O!OrBraces(O!Pieces(1, i, sentCalls[1][i] - 1)))]
  BY <1>7, <1>8 DEF O!StreamTools
<1> QED
  BY <1>3, <1>4, <1>9

(* A sequence of one sequence, flattened.                                  *)
LEMMA FlattenOnly ==
  ASSUME NEW f, DOMAIN f = {1}, f = [c \in {1} |-> f[c]]
  PROVE  O!FlattenSeq(f) = f[1]
<1>1. /\ 1..1 = {1} /\ << f[1] >> \in Seq({f[1]})
      /\ DOMAIN << f[1] >> = {1} /\ << f[1] >>[1] = f[1]
  OBVIOUS
<1>2. << f[1] >> = [c \in {1} |-> f[c]]
  BY <1>1
<1> QED
  BY <1>2, FlattenOne

LEMMA InvCutStream == OneChoice /\ OpenAITyped /\ OpenAIBuffers => O!CutStream
<1> SUFFICES ASSUME OneChoice, OpenAITyped, OpenAIBuffers, phase = "parsed", lost = {}
             PROVE  LET started == {i \in DOMAIN calls[1] : sentCalls[1][i] > 0}
                    IN  O!StreamTools = [i \in 1..O!Cardinality(started) |->
                          O!ToolCall(O!Name(1, i), O!OrBraces(O!Pieces(1, i, sentCalls[1][i] - 1)))]
  BY TheChoice DEF O!CutStream
<1> DEFINE started == {i \in DOMAIN calls[1] : sentCalls[1][i] > 0}
<1>1. ~tooLong
  BY DEF OpenAIBuffers
<1>2. PICK m \in Nat :
        /\ started = 1..m
        /\ O!StreamTools = [i \in 1..m |->
             O!ToolCall(O!Name(1, i), O!OrBraces(O!Pieces(1, i, sentCalls[1][i] - 1)))]
  BY <1>1, WholeRows
<1>3. O!Cardinality(started) = m
  <2>1. Cardinality(1..m) = m
    BY FS_Interval
  <2> QED
    BY <1>2, <2>1, SameCardinality
<1> QED
  BY <1>2, <1>3

LEMMA InvOpenAISameAsFull ==
  OneChoice /\ OpenAITyped /\ OpenAIBuffers => O!SameAsFull
<1> SUFFICES ASSUME OneChoice, OpenAITyped, OpenAIBuffers, phase = "parsed", O!Complete
             PROVE  /\ O!StreamTools = O!FullTools /\ O!StreamTexts = O!FullTexts
                    /\ usage = usageSent
  BY DEF O!SameAsFull
<1>1. O!Choice = {1} /\ 1 \in O!Choice
  BY TheChoice
<1>2. lost = {} /\ ~tooLong /\ sentText = texts
      /\ \A i \in DOMAIN calls[1] : sentCalls[1][i] = calls[1][i] + 1
  BY <1>1 DEF O!Complete, O!AllSent, OpenAIBuffers
<1>3. Undamaged
  BY <1>2, NothingLost
<1>4. PICK n \in 0..MaxCalls : /\ calls[1] \in [1..n -> 0..MaxPieces]
                               /\ DOMAIN calls[1] = 1..n
  BY <1>1, CallsOf
<1>5. \A i \in 1..n : calls[1][i] \in Nat /\ sentCalls[1][i] - 1 = calls[1][i]
                      /\ sentCalls[1][i] > 0
  <2> TAKE i \in 1..n
  <2>1. calls[1][i] \in 0..MaxPieces
    BY <1>4
  <2>2. sentCalls[1][i] = calls[1][i] + 1
    BY <1>2, <1>4
  <2> QED
    BY <2>1, <2>2, BoundsAssumption
<1>6. O!StreamTools = O!FullTools
  <2> DEFINE row(i) == O!ToolCall(O!Name(1, i), O!OrBraces(O!Pieces(1, i, calls[1][i])))
             rows(c) == [i \in DOMAIN calls[c] |->
                           O!ToolCall(O!Name(c, i), O!OrBraces(O!Pieces(c, i, calls[c][i])))]
             all == [c \in O!Choice |-> rows(c)]
  <2>1. PICK m \in Nat :
          /\ {i \in DOMAIN calls[1] : sentCalls[1][i] > 0} = 1..m
          /\ O!StreamTools = [i \in 1..m |->
               O!ToolCall(O!Name(1, i), O!OrBraces(O!Pieces(1, i, sentCalls[1][i] - 1)))]
    BY <1>2, WholeRows
  <2>2. 1..m = 1..n
    BY <1>4, <1>5, <2>1
  <2>3. O!StreamTools = [i \in 1..n |-> row(i)]
    BY <1>5, <2>1, <2>2
  <2>4. rows(1) = [i \in 1..n |-> row(i)]
    BY <1>4
  <2>5. O!FullTools = O!FlattenSeq(all)
    BY DEF O!FullTools
  <2> HIDE DEF rows
  <2>6. DOMAIN all = {1} /\ all = [c \in {1} |-> all[c]] /\ all[1] = rows(1)
    BY <1>1
  <2> HIDE DEF all
  <2>7. O!FlattenSeq(all) = all[1]
    BY <2>6, FlattenOnly
  <2> QED
    BY <2>3, <2>4, <2>5, <2>6, <2>7
<1>7. O!StreamTexts = O!FullTexts
  <2> DEFINE pieces(c) == [k \in 1..texts[c] |-> <<c, k>>]
             entry(c) == IF texts[c] = 0 THEN << >> ELSE << pieces(c) >>
             all == [c \in O!Choice |-> entry(c)]
  <2>1. texts[1] \in Nat
    BY <1>1, BoundsAssumption DEF OpenAITyped
  <2>2. textBuf = pieces(1)
    BY <1>2, <1>3 DEF Undamaged
  <2>3. textBuf = << >> <=> texts[1] = 0
    <3>1. DOMAIN textBuf = 1..texts[1]
      BY <2>2
    <3>2. texts[1] = 0 => pieces(1) = << >>
      OBVIOUS
    <3>3. texts[1] # 0 => 1 \in DOMAIN textBuf
      BY <2>1, <3>1
    <3> QED
      BY <2>2, <3>2, <3>3
  <2>4. O!StreamTexts = entry(1)
    BY <2>2, <2>3 DEF O!StreamTexts
  <2>5. O!FullTexts = O!FlattenSeq(all)
    BY DEF O!FullTexts
  <2> HIDE DEF entry
  <2>6. DOMAIN all = {1} /\ all = [c \in {1} |-> all[c]] /\ all[1] = entry(1)
    BY <1>1
  <2> HIDE DEF all
  <2>7. O!FlattenSeq(all) = all[1]
    BY <2>6, FlattenOnly
  <2> QED
    BY <2>4, <2>5, <2>6, <2>7
<1>8. usage = usageSent
  BY <1>3 DEF Undamaged
<1> QED
  BY <1>6, <1>7, <1>8

-------------------------------------------------------------------------------
(* Anthropic: types.                                                       *)

Kinds == {"thinking", "text", "tool_use"}

AnthropicTyped ==
  /\ A!TypeOK
  /\ step \in 0..A!LastStep
  /\ current \notin DOMAIN content => step = 0

LEMMA BlocksOf ==
  ASSUME AnthropicTyped
  PROVE  /\ Len(content) \in Nat /\ DOMAIN content = 1..Len(content)
         /\ \A i \in 1..Len(content) : /\ content[i].type \in A!BlockTypes
                                       /\ content[i].pieces \in 0..MaxPieces
<1>1. content \in Seq(A!Block)
  BY DEF AnthropicTyped, A!TypeOK
<1>2. \A i \in 1..Len(content) : content[i] \in A!Block
  BY <1>1, LenProperties
<1> QED
  BY <1>1, <1>2, LenProperties DEF A!Block

(* One more event, and what it leaves alone.                               *)
LEMMA Advanced ==
  ASSUME AnthropicTyped, A!Advance
  PROVE  /\ UNCHANGED <<content, phase>> /\ phase = "streaming"
         /\ current \in Nat /\ step \in Nat /\ current <= Len(content) + 1
         /\ \/ /\ step = A!LastStep /\ current' = current + 1 /\ step' = 0
            \/ /\ step # A!LastStep /\ current' = current /\ step' = step + 1
               /\ current \in DOMAIN content
         /\ current' \in 0..(Len(content) + 2)
         /\ step' \in 0..A!LastStep'
         /\ step' \in 0..(MaxPieces + 1)
         /\ current' \notin DOMAIN content => step' = 0
<1>1. /\ phase = "streaming" /\ current <= Len(content) + 1
      /\ IF step = A!LastStep THEN current' = current + 1 /\ step' = 0
                              ELSE current' = current /\ step' = step + 1
      /\ UNCHANGED <<content, phase>>
  BY DEF A!Advance
<1>2. /\ Len(content) \in Nat /\ DOMAIN content = 1..Len(content)
      /\ \A i \in 1..Len(content) : content[i].pieces \in 0..MaxPieces
  BY BlocksOf
<1>3. current \in 0..(Len(content) + 2) /\ step \in 0..A!LastStep
  BY DEF AnthropicTyped, A!TypeOK
<1>4. A!LastStep = IF current \in DOMAIN content THEN content[current].pieces + 1 ELSE 0
  BY DEF A!LastStep, A!InBlock
<1>5. A!LastStep' = IF current' \in DOMAIN content THEN content[current'].pieces + 1 ELSE 0
  BY <1>1 DEF A!LastStep, A!InBlock
<1>6. /\ A!LastStep \in 0..(MaxPieces + 1) /\ A!LastStep' \in Nat
      /\ current \notin DOMAIN content => A!LastStep = 0
  BY <1>2, <1>4, <1>5, BoundsAssumption
<1>7. step \in Nat /\ current \in Nat /\ step <= A!LastStep
  BY <1>2, <1>3, <1>6
<1>8. CASE step = A!LastStep
  <2>1. current' = current + 1 /\ step' = 0
    BY <1>1, <1>8
  <2> QED
    BY <1>1, <1>2, <1>3, <1>6, <1>7, <1>8, <2>1, BoundsAssumption
<1>9. CASE step # A!LastStep
  <2>1. current' = current /\ step' = step + 1
    BY <1>1, <1>9
  <2>2. A!LastStep' = A!LastStep
    BY <1>4, <1>5, <2>1
  <2>3. current \in DOMAIN content
    BY <1>6, <1>7, <1>9
  <2>4. step' \in 0..A!LastStep /\ step' \in 0..(MaxPieces + 1)
    BY <1>6, <1>7, <1>9, <2>1, BoundsAssumption
  <2> QED
    BY <1>1, <1>3, <1>7, <1>9, <2>1, <2>2, <2>3, <2>4
<1> QED
  BY <1>8, <1>9

LEMMA AnthropicInitTyped == A!Init => AnthropicTyped
<1> SUFFICES ASSUME A!Init
             PROVE  AnthropicTyped
  OBVIOUS
<1>1. PICK n \in 0..MaxBlocks : content \in [1..n -> A!Block]
  BY DEF A!Init
<1>2. n \in Nat /\ content \in Seq(A!Block)
  BY <1>1, BoundsAssumption
<1>3. /\ current = 0 /\ step = 0 /\ damaged = {} /\ tooLong = FALSE
      /\ phase = "streaming" /\ blocks = << >> /\ usage = {}
      /\ DOMAIN result = Kinds
  BY DEF A!Init, A!NoEntries, Kinds
<1>4. DOMAIN blocks = {}
  BY <1>3
<1>5. 0 \notin DOMAIN content
  BY <1>1
<1>6. A!LastStep = 0
  BY <1>3, <1>5 DEF A!LastStep, A!InBlock
<1>7. Len(content) \in Nat
  BY <1>2, LenProperties
<1>8. current \in 0..(Len(content) + 2) /\ step \in 0..(MaxPieces + 1) /\ step \in 0..A!LastStep
  BY <1>3, <1>6, <1>7, BoundsAssumption
<1>9. /\ damaged \subseteq 0..(Len(content) + 1) /\ tooLong \in BOOLEAN
      /\ usage \subseteq {"input", "output"} /\ DOMAIN blocks \subseteq 1..Len(content)
      /\ phase \in {"streaming", "parsed", "failed"}
  BY <1>3, <1>4, Zenon
<1> QED
  BY <1>2, <1>3, <1>8, <1>9 DEF AnthropicTyped, A!TypeOK, Kinds

LEMMA ReportKinds ==
  ASSUME NEW r, DOMAIN r = Kinds, NEW i, NEW type, NEW value
  PROVE  DOMAIN A!Report(r, i, type, value) = Kinds
BY DEF A!Report, Kinds

LEMMA AnthropicNextTyped == AnthropicTyped /\ [A!Next]_A!vars => AnthropicTyped'
<1> SUFFICES ASSUME AnthropicTyped, [A!Next]_A!vars
             PROVE  AnthropicTyped'
  OBVIOUS
<1>1. /\ content \in Seq(A!Block) /\ damaged \subseteq 0..(Len(content) + 1)
      /\ tooLong \in BOOLEAN /\ usage \subseteq {"input", "output"}
      /\ DOMAIN blocks \subseteq DOMAIN content /\ DOMAIN result = Kinds
      /\ DOMAIN content = 1..Len(content)
  BY LenProperties DEF AnthropicTyped, A!TypeOK, Kinds
<1>2. ASSUME A!Advance,
             damaged' \subseteq damaged \cup {current}, tooLong' \in BOOLEAN,
             usage' \subseteq {"input", "output"},
             DOMAIN blocks' \subseteq DOMAIN content, DOMAIN result' = Kinds
      PROVE  AnthropicTyped'
  <2>1. /\ UNCHANGED <<content, phase>> /\ phase = "streaming"
        /\ current' \in 0..(Len(content) + 2)
        /\ step' \in 0..A!LastStep' /\ step' \in 0..(MaxPieces + 1)
        /\ current' \notin DOMAIN content => step' = 0
    BY <1>2, Advanced
  <2>2. current \in 0..(Len(content) + 1)
    <3>1. Len(content) \in Nat
      BY BlocksOf
    <3> QED
      BY <1>2, <3>1, Advanced
  <2>3. damaged' \subseteq 0..(Len(content) + 1)
    BY <1>1, <1>2, <2>2
  <2> QED
    BY <1>1, <1>2, <2>1, <2>3 DEF AnthropicTyped, A!TypeOK, Kinds
<1>3. CASE A!MessageStart \/ A!MessageDelta
  BY <1>1, <1>2, <1>3 DEF A!MessageStart, A!MessageDelta, A!Read
<1>4. CASE A!BlockStart
  <2>1. /\ A!Advance /\ UNCHANGED <<damaged, tooLong, usage, result>>
        /\ current \in DOMAIN content
        /\ DOMAIN blocks' = DOMAIN blocks \cup {current}
    BY <1>4 DEF A!BlockStart, A!Read, A!InBlock
  <2> QED
    BY <1>1, <1>2, <2>1
<1>5. CASE A!BlockDelta
  <2>1. /\ A!Advance /\ UNCHANGED <<damaged, tooLong, usage, result>>
        /\ DOMAIN blocks' = DOMAIN blocks
    BY <1>5 DEF A!BlockDelta, A!Read
  <2> QED
    BY <1>1, <1>2, <2>1
<1>6. CASE A!BlockStop
  <2>1. /\ A!Advance /\ UNCHANGED <<damaged, tooLong, usage>>
        /\ IF current \in DOMAIN blocks
             THEN /\ result' = A!Report(result, current, blocks[current].type, blocks[current].buf)
                  /\ blocks' = [x \in DOMAIN blocks \ {current} |-> blocks[x]]
             ELSE UNCHANGED <<result, blocks>>
    BY <1>6 DEF A!BlockStop, A!Read
  <2>2. DOMAIN blocks' \subseteq DOMAIN blocks
    BY <2>1
  <2>3. DOMAIN result' = Kinds
    BY <1>1, <2>1, ReportKinds
  <2> QED
    BY <1>1, <1>2, <2>1, <2>2, <2>3
<1>7. CASE A!SkippedEvent \/ A!UnscannedEvent
  BY <1>1, <1>2, <1>7 DEF A!SkippedEvent, A!UnscannedEvent, A!parser
<1>8. CASE A!EndOfBody
  BY <1>8 DEF A!EndOfBody, A!stream, A!parser, AnthropicTyped, A!TypeOK, A!LastStep, A!InBlock
<1>9. CASE UNCHANGED A!vars
  BY <1>9 DEF A!vars, A!stream, A!parser, AnthropicTyped, A!TypeOK, A!LastStep, A!InBlock
<1> QED
  BY <1>3, <1>4, <1>5, <1>6, <1>7, <1>8, <1>9 DEF A!Next

-------------------------------------------------------------------------------
(* Anthropic: what the parser of the whole message returns.                *)

(* The first n pieces of block i.                                          *)
BlockPieces(i, n) == [k \in 1..n |-> <<i, k>>]

FullOf(c) ==
  CHOOSE f : f = [n \in 0..Len(c) |->
    IF n = 0 THEN A!NoEntries
    ELSE A!Report(f[n - 1], n, c[n].type, BlockPieces(n, c[n].pieces))]

LEMMA FullIsFullOf == A!Full = FullOf(content)
BY DEF A!Full, FullOf, A!Value, BlockPieces

LEMMA FullExists ==
  ASSUME NEW c
  PROVE  \A n \in Nat : \E f : f = [i \in 0..n |->
           IF i = 0 THEN A!NoEntries
           ELSE A!Report(f[i - 1], i, c[i].type, BlockPieces(i, c[i].pieces))]
<1> DEFINE next(r, i) == A!Report(r, i, c[i].type, BlockPieces(i, c[i].pieces))
           P(n) == \E f : f = [i \in 0..n |-> IF i = 0 THEN A!NoEntries ELSE next(f[i - 1], i)]
           S == {n \in Nat : P(n)}
<1> HIDE DEF next
<1>1. 0 \in S
  <2> DEFINE f == [i \in 0..0 |-> A!NoEntries]
  <2>1. f = [i \in 0..0 |-> IF i = 0 THEN A!NoEntries ELSE next(f[i - 1], i)]
    OBVIOUS
  <2> QED
    BY <2>1
<1>2. ASSUME NEW n \in Nat, n \in S
      PROVE  n + 1 \in S
  <2>1. PICK f : f = [i \in 0..n |-> IF i = 0 THEN A!NoEntries ELSE next(f[i - 1], i)]
    BY <1>2
  <2> DEFINE m == n + 1
             g == [i \in 0..m |-> IF i = m THEN next(f[n], m) ELSE f[i]]
             h == [i \in 0..m |-> IF i = 0 THEN A!NoEntries ELSE next(g[i - 1], i)]
  <2>2. ASSUME NEW i \in 0..m
        PROVE  g[i] = IF i = 0 THEN A!NoEntries ELSE next(g[i - 1], i)
    <3>1. CASE i = m
      <4>1. i - 1 = n /\ n \in 0..m /\ n # m /\ m # 0
        BY <3>1
      <4> QED
        BY <3>1, <4>1
    <3>2. CASE i # m
      <4>1. i \in 0..n /\ g[i] = f[i]
        BY <3>2
      <4>2. f[i] = IF i = 0 THEN A!NoEntries ELSE next(f[i - 1], i)
        BY <2>1, <4>1
      <4>3. i # 0 => g[i - 1] = f[i - 1]
        BY <3>2, <4>1
      <4> QED
        BY <4>1, <4>2, <4>3
    <3> QED
      BY <3>1, <3>2
  <2>3. g = h
    BY <2>2
  <2> HIDE DEF g
  <2>4. P(m)
    BY <2>3
  <2> HIDE DEF P
  <2> QED
    BY <2>4
<1> HIDE DEF S
<1>3. Nat \subseteq S
  BY <1>1, <1>2, InductionOnNat
<1>4. \A n \in Nat : P(n)
  BY <1>3 DEF S
<1> QED
  BY <1>4 DEF next

LEMMA FullSteps ==
  ASSUME NEW c, Len(c) \in Nat
  PROVE  /\ FullOf(c)[0] = A!NoEntries
         /\ \A n \in 1..Len(c) :
              FullOf(c)[n] = A!Report(FullOf(c)[n - 1], n, c[n].type, BlockPieces(n, c[n].pieces))
<1> DEFINE F(f) == [n \in 0..Len(c) |->
                     IF n = 0 THEN A!NoEntries
                     ELSE A!Report(f[n - 1], n, c[n].type, BlockPieces(n, c[n].pieces))]
           f == FullOf(c)
<1>1. \E g : g = F(g)
  BY FullExists
<1>2. f = CHOOSE g : g = F(g)
  BY DEF FullOf
<1>3. f = F(f)
  <2> HIDE DEF F, f
  <2> QED
    BY <1>1, <1>2
<1> HIDE DEF f
<1>4. \A n \in 0..Len(c) : f[n] = F(f)[n]
  BY <1>3
<1>5. f[0] = A!NoEntries
  BY <1>4
<1>6. \A n \in 1..Len(c) : f[n] = A!Report(f[n - 1], n, c[n].type, BlockPieces(n, c[n].pieces))
  BY <1>4
<1> QED
  BY <1>5, <1>6 DEF f

-------------------------------------------------------------------------------
(* Anthropic: the lists of the result.                                     *)

(* Pieces of one block, in their order.                                    *)
InOrder ==
  {e \in Seq(Nat \X Nat) :
     \A k, l \in DOMAIN e : e[k][1] = e[l][1] /\ (k < l => e[k][2] < e[l][2])}

Lists(r) ==
  /\ DOMAIN r = Kinds
  /\ r.thinking \in Seq(InOrder) /\ r.text \in Seq(InOrder)
  /\ r.tool_use \in Seq([name : Nat, input : InOrder])

(* The lists s begin with the lists r.                                     *)
Extends(s, r) ==
  \A kind \in Kinds : \A k \in DOMAIN r[kind] : k \in DOMAIN s[kind] /\ s[kind][k] = r[kind][k]

(* Block i of a message is in the lists r.                                 *)
Whole(c, r, i) ==
  LET pieces == BlockPieces(i, c[i].pieces)
  IN  /\ \A kind \in {"thinking", "text"} :
           c[i].type = kind /\ c[i].pieces > 0 => \E k \in DOMAIN r[kind] : r[kind][k] = pieces
      /\ c[i].type = "tool_use" =>
           \E k \in DOMAIN r.tool_use :
             r.tool_use[k] = [name |-> i, input |-> IF c[i].pieces = 0 THEN A!Braces ELSE pieces]

LEMMA AppendKeeps ==
  ASSUME NEW S, NEW s \in Seq(S), NEW x \in S
  PROVE  /\ Append(s, x) \in Seq(S)
         /\ \A k \in DOMAIN s : k \in DOMAIN Append(s, x) /\ Append(s, x)[k] = s[k]
         /\ \E k \in DOMAIN Append(s, x) : Append(s, x)[k] = x
<1>1. /\ Len(s) \in Nat /\ DOMAIN s = 1..Len(s)
      /\ Append(s, x) \in Seq(S) /\ Len(Append(s, x)) = Len(s) + 1
      /\ \A k \in 1..Len(s) : Append(s, x)[k] = s[k]
      /\ Append(s, x)[Len(s) + 1] = x
  BY LenProperties, AppendProperties
<1>2. DOMAIN Append(s, x) = 1..(Len(s) + 1)
  BY <1>1, LenProperties
<1> QED
  BY <1>1, <1>2

LEMMA ExtendsItself == \A r : Extends(r, r)
BY DEF Extends

LEMMA WholeStays ==
  ASSUME NEW c, NEW r, NEW s, NEW i, Whole(c, r, i), Extends(s, r)
  PROVE  Whole(c, s, i)
BY Zenon DEF Whole, Extends, Kinds

LEMMA BracesInOrder == A!Braces \in InOrder
<1>1. A!Braces \in Seq(Nat \X Nat) /\ DOMAIN A!Braces = {1}
  BY DEF A!Braces
<1> QED
  BY <1>1 DEF InOrder

(* One of the lists gets one more entry, x of S.                           *)
OneMore(s, r, kind, S, x) ==
  /\ Extends(s, r)
  /\ s[kind] \in Seq(S)
  /\ \E k \in DOMAIN s[kind] : s[kind][k] = x

LEMMA OneEntryMore ==
  ASSUME NEW r, NEW s, NEW kind \in Kinds, NEW S, r[kind] \in Seq(S), NEW x \in S,
         s[kind] = Append(r[kind], x), \A k \in Kinds : k # kind => s[k] = r[k]
  PROVE  OneMore(s, r, kind, S, x)
<1> DEFINE old == r[kind]
           new == Append(old, x)
<1>1. /\ new \in Seq(S)
      /\ \A k \in DOMAIN old : k \in DOMAIN new /\ new[k] = old[k]
      /\ \E k \in DOMAIN new : new[k] = x
  BY AppendKeeps
<1> HIDE DEF new
<1>2. s[kind] = new
  BY DEF new
<1>3. Extends(s, r)
  BY <1>1, <1>2, Zenon DEF Extends
<1> QED
  BY <1>1, <1>2, <1>3, Zenon DEF OneMore

(* What Report adds, and what it keeps.                                    *)
LEMMA ReportAdds ==
  ASSUME NEW r, Lists(r), NEW i \in Nat, NEW type \in A!BlockTypes, NEW value \in InOrder
  PROVE  LET s == A!Report(r, i, type, value)
         IN  /\ Lists(s) /\ Extends(s, r)
             /\ \A kind \in {"thinking", "text"} :
                  type = kind /\ value # << >> => \E k \in DOMAIN s[kind] : s[kind][k] = value
             /\ type = "tool_use" =>
                  \E k \in DOMAIN s.tool_use :
                    s.tool_use[k] = [name |-> i, input |-> IF value = << >> THEN A!Braces ELSE value]
<1> DEFINE s == A!Report(r, i, type, value)
           call == [name |-> i, input |-> IF value = << >> THEN A!Braces ELSE value]
<1> SUFFICES /\ Lists(s) /\ Extends(s, r)
             /\ type = "thinking" /\ value # << >> => \E k \in DOMAIN s.thinking : s.thinking[k] = value
             /\ type = "text" /\ value # << >> => \E k \in DOMAIN s.text : s.text[k] = value
             /\ type = "tool_use" => \E k \in DOMAIN s.tool_use : s.tool_use[k] = call
  OBVIOUS
<1>1. DOMAIN r = Kinds
  BY DEF Lists
<1>2. CASE type = "thinking" /\ value # << >>
  <2>1. s = [r EXCEPT !["thinking"] = Append(r["thinking"], value)]
    BY <1>2 DEF A!Report
  <2>2. DOMAIN s = Kinds /\ s.text = r.text /\ s.tool_use = r.tool_use
        /\ s.thinking = Append(r.thinking, value)
    BY <1>1, <2>1 DEF Kinds
  <2> HIDE DEF s
  <2>3. Lists(s) /\ Extends(s, r) /\ \E k \in DOMAIN s.thinking : s.thinking[k] = value
    <3>1. "thinking" \in Kinds /\ r["thinking"] \in Seq(InOrder)
      BY DEF Kinds, Lists
    <3>2. s["thinking"] = Append(r["thinking"], value) /\ \A k \in Kinds : k # "thinking" => s[k] = r[k]
      BY <2>2 DEF Kinds
    <3>3. OneMore(s, r, "thinking", InOrder, value)
      BY <3>1, <3>2, OneEntryMore
    <3> QED
      BY <2>2, <3>3 DEF Lists, OneMore
  <2> QED
    BY <1>2, <2>3
<1>3. CASE type = "text" /\ value # << >>
  <2>1. s = [r EXCEPT !["text"] = Append(r["text"], value)]
    BY <1>3 DEF A!Report
  <2>2. DOMAIN s = Kinds /\ s.thinking = r.thinking /\ s.tool_use = r.tool_use
        /\ s.text = Append(r.text, value)
    BY <1>1, <2>1 DEF Kinds
  <2> HIDE DEF s
  <2>3. Lists(s) /\ Extends(s, r) /\ \E k \in DOMAIN s.text : s.text[k] = value
    <3>1. "text" \in Kinds /\ r["text"] \in Seq(InOrder)
      BY DEF Kinds, Lists
    <3>2. s["text"] = Append(r["text"], value) /\ \A k \in Kinds : k # "text" => s[k] = r[k]
      BY <2>2 DEF Kinds
    <3>3. OneMore(s, r, "text", InOrder, value)
      BY <3>1, <3>2, OneEntryMore
    <3> QED
      BY <2>2, <3>3 DEF Lists, OneMore
  <2> QED
    BY <1>3, <2>3
<1>4. CASE type = "tool_use"
  <2>1. s = [r EXCEPT !["tool_use"] = Append(r["tool_use"], call)]
    BY <1>4 DEF A!Report, A!ToolCall
  <2>2. DOMAIN s = Kinds /\ s.thinking = r.thinking /\ s.text = r.text
        /\ s.tool_use = Append(r.tool_use, call)
    BY <1>1, <2>1 DEF Kinds
  <2>3. call \in [name : Nat, input : InOrder]
    BY BracesInOrder
  <2> HIDE DEF s, call
  <2>4. Lists(s) /\ Extends(s, r) /\ \E k \in DOMAIN s.tool_use : s.tool_use[k] = call
    <3>1. "tool_use" \in Kinds /\ r["tool_use"] \in Seq([name : Nat, input : InOrder])
      BY DEF Kinds, Lists
    <3>2. s["tool_use"] = Append(r["tool_use"], call) /\ \A k \in Kinds : k # "tool_use" => s[k] = r[k]
      BY <2>2 DEF Kinds
    <3>3. OneMore(s, r, "tool_use", [name : Nat, input : InOrder], call)
      BY <3>1, <3>2, <2>3, OneEntryMore
    <3> QED
      BY <2>2, <3>3 DEF Lists, OneMore
  <2> QED
    BY <1>4, <2>4
<1>5. CASE type = "other" \/ ((type = "thinking" \/ type = "text") /\ value = << >>)
  <2>1. s = r
    BY <1>5 DEF A!Report
  <2> HIDE DEF s
  <2> QED
    BY <1>5, <2>1, ExtendsItself
<1>6. type \in {"thinking", "text", "tool_use", "other"}
  BY DEF A!BlockTypes
<1> HIDE DEF s, call
<1>7. type = "thinking" \/ type = "text" \/ type = "tool_use" \/ type = "other"
  BY <1>6
<1>8. \/ type = "thinking" /\ value # << >>
      \/ type = "text" /\ value # << >>
      \/ type = "tool_use"
      \/ type = "other" \/ ((type = "thinking" \/ type = "text") /\ value = << >>)
  BY <1>7
<1> QED
  BY <1>2, <1>3, <1>4, <1>5, <1>8

-------------------------------------------------------------------------------
(* Anthropic: the open blocks and the result, against what was streamed.   *)

(* An open block has pieces of its own, in order, none yet to come.        *)
OwnBlock(x) ==
  /\ x <= current /\ (x = current => step > 0)
  /\ DOMAIN blocks[x] = {"type", "buf"} /\ blocks[x].type = content[x].type
  /\ blocks[x].buf \in InOrder
  /\ \A k \in DOMAIN blocks[x].buf :
       blocks[x].buf[k][1] = x /\ (x = current => blocks[x].buf[k][2] < step)

(* A block none of whose events was skipped: its buffer has all that came, *)
(* and once it was stopped its entry is in the result.                     *)
Intact(i) ==
  /\ i = current /\ step > 0 => i \in DOMAIN blocks /\ blocks[i].buf = BlockPieces(i, step - 1)
  /\ i < current => Whole(content, result, i)

(* The blocks that were stopped.                                           *)
Finished == IF current = 0 THEN 0
            ELSE IF current > Len(content) THEN Len(content) ELSE current - 1

(* A stream without a skipped event.                                       *)
WholeSoFar ==
  /\ result = FullOf(content)[Finished]
  /\ current > 0 => "input" \in usage
  /\ current > Len(content) + 1 => "output" \in usage

AnthropicBuffers ==
  /\ phase = "parsed" => ~tooLong
  /\ \A x \in DOMAIN blocks : OwnBlock(x)
  /\ Lists(result)
  /\ ~tooLong => \A i \in DOMAIN content : i \notin damaged => Intact(i)
  /\ ~tooLong /\ damaged = {} => WholeSoFar

LEMMA BlockPiecesFacts ==
  ASSUME NEW i \in Nat, NEW n \in Nat
  PROVE  /\ BlockPieces(i, n) \in InOrder
         /\ Append(BlockPieces(i, n), <<i, n + 1>>) = BlockPieces(i, n + 1)
         /\ BlockPieces(i, n) = << >> <=> n = 0
<1>1. BlockPieces(i, n) \in InOrder
  <2>1. /\ BlockPieces(i, n) \in Seq(Nat \X Nat) /\ DOMAIN BlockPieces(i, n) = 1..n
        /\ \A k \in 1..n : BlockPieces(i, n)[k] = <<i, k>>
    BY DEF BlockPieces
  <2> QED
    BY <2>1 DEF InOrder
<1>2. Append(BlockPieces(i, n), <<i, n + 1>>) = BlockPieces(i, n + 1)
  BY OnePieceMore DEF BlockPieces
<1>3. BlockPieces(i, n) = << >> <=> n = 0
  <2>1. n = 0 => BlockPieces(i, n) = << >>
    BY DEF BlockPieces
  <2>2. n # 0 => 1 \in DOMAIN BlockPieces(i, n)
    BY DEF BlockPieces
  <2> QED
    BY <2>1, <2>2
<1> QED
  BY <1>1, <1>2, <1>3

LEMMA AppendInOrder ==
  ASSUME NEW buf \in InOrder, NEW x \in Nat, NEW p \in Nat,
         \A k \in DOMAIN buf : buf[k][1] = x /\ buf[k][2] < p
  PROVE  /\ Append(buf, <<x, p>>) \in InOrder
         /\ \A k \in DOMAIN Append(buf, <<x, p>>) :
              Append(buf, <<x, p>>)[k][1] = x /\ Append(buf, <<x, p>>)[k][2] < p + 1
<1> DEFINE new == Append(buf, <<x, p>>)
<1>1. buf \in Seq(Nat \X Nat) /\ <<x, p>> \in Nat \X Nat
  BY DEF InOrder
<1>2. /\ Len(buf) \in Nat /\ DOMAIN buf = 1..Len(buf)
      /\ new \in Seq(Nat \X Nat) /\ Len(new) = Len(buf) + 1
      /\ \A k \in 1..Len(buf) : new[k] = buf[k]
      /\ new[Len(buf) + 1] = <<x, p>>
  BY <1>1, LenProperties, AppendProperties
<1>3. DOMAIN new = 1..(Len(buf) + 1)
  BY <1>2, LenProperties
<1>4. \A k \in 1..Len(buf) : buf[k] \in Nat \X Nat
  BY <1>1, LenProperties
<1> HIDE DEF new
<1>5. /\ \A k \in 1..Len(buf) : new[k][1] = x /\ new[k][2] < p /\ new[k][2] \in Nat
      /\ new[Len(buf) + 1][1] = x /\ new[Len(buf) + 1][2] = p
  <2>1. new[Len(buf) + 1][1] = x /\ new[Len(buf) + 1][2] = p
    BY <1>2
  <2>2. ASSUME NEW k \in 1..Len(buf)
        PROVE  new[k][1] = x /\ new[k][2] < p /\ new[k][2] \in Nat
    <3>1. new[k] = buf[k] /\ buf[k] \in Nat \X Nat /\ k \in DOMAIN buf
      BY <1>2, <1>4
    <3> QED
      BY <3>1
  <2> QED
    BY <2>1, <2>2
<1>6. ASSUME NEW k \in DOMAIN new
      PROVE  /\ new[k][1] = x /\ new[k][2] < p + 1
  <2>1. k \in 1..Len(buf) \/ k = Len(buf) + 1
    BY <1>2, <1>3
  <2> QED
    BY <1>5, <2>1
<1>7. ASSUME NEW k \in DOMAIN new, NEW l \in DOMAIN new, k < l
      PROVE  new[k][2] < new[l][2]
  <2>1. k \in 1..Len(buf)
    BY <1>2, <1>3, <1>7
  <2>2. CASE l = Len(buf) + 1
    BY <1>5, <2>1, <2>2
  <2>3. CASE l # Len(buf) + 1
    <3>1. l \in 1..Len(buf)
      BY <1>2, <1>3, <2>3
    <3>2. buf[k][2] < buf[l][2]
      BY <1>2, <1>7, <2>1, <3>1 DEF InOrder
    <3> QED
      BY <1>2, <2>1, <3>1, <3>2
  <2> QED
    BY <2>2, <2>3
<1>8. new \in InOrder
  BY <1>2, <1>6, <1>7 DEF InOrder
<1> QED
  BY <1>6, <1>8 DEF new

LEMMA AnthropicBuffersInit == A!Init => AnthropicBuffers
<1> SUFFICES ASSUME A!Init
             PROVE  AnthropicBuffers
  OBVIOUS
<1>1. /\ current = 0 /\ step = 0 /\ damaged = {} /\ tooLong = FALSE
      /\ phase = "streaming" /\ blocks = << >> /\ result = A!NoEntries
  BY DEF A!Init
<1>2. AnthropicTyped
  BY AnthropicInitTyped
<1>3. Len(content) \in Nat /\ DOMAIN content = 1..Len(content)
  BY <1>2, BlocksOf
<1>4. DOMAIN blocks = {}
  BY <1>1
<1>5. Lists(result)
  <2>1. /\ DOMAIN result = Kinds
        /\ result.thinking = << >> /\ result.text = << >> /\ result.tool_use = << >>
    BY <1>1 DEF A!NoEntries, Kinds
  <2> QED
    BY <2>1, EmptySeq DEF Lists
<1>6. WholeSoFar
  BY <1>1, <1>3, FullSteps DEF WholeSoFar, Finished
<1>7. \A i \in DOMAIN content : Intact(i)
  BY <1>1, <1>3 DEF Intact
<1> QED
  BY <1>1, <1>4, <1>5, <1>6, <1>7 DEF AnthropicBuffers

LEMMA FinishedNext ==
  ASSUME AnthropicTyped, A!Advance
  PROVE  /\ current' = current => Finished' = Finished
         /\ current' # current /\ current \notin DOMAIN content => Finished' = Finished
         /\ current' # current /\ current \in DOMAIN content =>
              Finished = current - 1 /\ Finished' = current
<1>1. /\ Len(content) \in Nat /\ DOMAIN content = 1..Len(content)
      /\ UNCHANGED content /\ current \in Nat /\ current <= Len(content) + 1
      /\ current' = current \/ current' = current + 1
  BY BlocksOf, Advanced
<1>2. Finished' = IF current' = 0 THEN 0
                  ELSE IF current' > Len(content) THEN Len(content) ELSE current' - 1
  BY <1>1 DEF Finished
<1>3. CASE current' = current
  BY <1>1, <1>2, <1>3 DEF Finished
<1>4. CASE current' = current + 1 /\ current \in DOMAIN content
  <2>1. Finished = current - 1
    BY <1>1, <1>4 DEF Finished
  <2>2. Finished' = current
    <3>1. current' # 0 /\ current' - 1 = current
      BY <1>1, <1>4
    <3>2. current' > Len(content) => current = Len(content)
      <4> DEFINE n == Len(content)
      <4>1. n \in Nat /\ current \in 1..n /\ current' = current + 1
        BY <1>1, <1>4
      <4> HIDE DEF n
      <4>2. current' > n => current = n
        BY <4>1
      <4> QED
        BY <4>2 DEF n
    <3> QED
      BY <1>2, <3>1, <3>2
  <2> QED
    BY <1>1, <1>4, <2>1, <2>2
<1>5. CASE current' = current + 1 /\ current \notin DOMAIN content
  <2>1. current = 0 \/ current = Len(content) + 1
    BY <1>1, <1>5
  <2>2. Finished = IF current = 0 THEN 0 ELSE Len(content)
    BY <1>1, <2>1 DEF Finished
  <2>3. Finished' = IF current = 0 THEN 0 ELSE Len(content)
    BY <1>1, <1>2, <1>5, <2>1
  <2> QED
    BY <1>1, <1>5, <2>2, <2>3
<1> QED
  BY <1>1, <1>3, <1>4, <1>5

(* An open block that an event leaves alone.                               *)
LEMMA OwnBlockStays ==
  ASSUME AnthropicTyped, A!Advance, NEW x \in DOMAIN blocks, OwnBlock(x), blocks'[x] = blocks[x]
  PROVE  OwnBlock(x)'
<1>1. /\ UNCHANGED content /\ current \in Nat /\ step \in Nat
      /\ \/ current' = current + 1
         \/ current' = current /\ step' = step + 1
  BY Advanced
<1>2. x \in Nat
  BY BlocksOf DEF AnthropicTyped, A!TypeOK
<1>3. blocks[x].buf \in Seq(Nat \X Nat) /\ blocks[x].buf \in InOrder
  BY DEF OwnBlock, InOrder
<1>4. \A k \in DOMAIN blocks[x].buf : blocks[x].buf[k][2] \in Nat
  <2> TAKE k \in DOMAIN blocks[x].buf
  <2>1. blocks[x].buf[k] \in Nat \X Nat
    BY <1>3, LenProperties
  <2> QED
    BY <2>1
<1>5. x <= current' /\ (x = current' => step' > 0)
  BY <1>1, <1>2 DEF OwnBlock
<1>6. \A k \in DOMAIN blocks[x].buf :
        blocks[x].buf[k][1] = x /\ (x = current' => blocks[x].buf[k][2] < step')
  BY <1>1, <1>2, <1>4 DEF OwnBlock
<1> QED
  BY <1>1, <1>3, <1>5, <1>6 DEF OwnBlock

(* A block that upstream is not sending, whatever it sends.                *)
LEMMA IntactStays ==
  ASSUME AnthropicTyped, A!Advance, NEW i \in DOMAIN content, i # current,
         Intact(i), Extends(result', result)
  PROVE  Intact(i)'
<1>1. /\ UNCHANGED content /\ current \in Nat
      /\ \/ current' = current + 1 /\ step' = 0
         \/ current' = current /\ step' = step + 1
  BY Advanced
<1>2. i \in Nat
  BY BlocksOf
<1>3. ~(i = current' /\ step' > 0)
  BY <1>1
<1>4. i < current' => Whole(content, result, i)
  BY <1>1, <1>2 DEF Intact
<1>5. i < current' => Whole(content, result', i)
  BY <1>4, WholeStays
<1> QED
  BY <1>1, <1>3, <1>5 DEF Intact

(* What is left to show of an event the parser reads, or skips.            *)
LEMMA AnthropicBuffersEvent ==
  ASSUME AnthropicTyped, AnthropicBuffers, A!Advance,
         \A x \in DOMAIN blocks' : OwnBlock(x)',
         Lists(result'), Extends(result', result),
         ~tooLong' => ~tooLong /\ damaged \subseteq damaged',
         \A i \in DOMAIN content : ~tooLong' /\ i = current /\ i \notin damaged' => Intact(i)',
         ~tooLong' /\ damaged' = {} => WholeSoFar'
  PROVE  AnthropicBuffers'
<1>1. UNCHANGED <<content, phase>> /\ phase = "streaming"
  BY Advanced
<1>2. ASSUME ~tooLong', NEW i \in DOMAIN content, i \notin damaged'
      PROVE  Intact(i)'
  <2>1. CASE i = current
    BY <1>2, <2>1
  <2>2. CASE i # current
    BY <1>2, <2>2, IntactStays DEF AnthropicBuffers
  <2> QED
    BY <2>1, <2>2
<1> QED
  BY <1>1, <1>2 DEF AnthropicBuffers

LEMMA MessageStartKeeps ==
  AnthropicTyped /\ AnthropicBuffers /\ (A!MessageStart \/ A!MessageDelta) => AnthropicBuffers'
<1> SUFFICES ASSUME AnthropicTyped, AnthropicBuffers, A!MessageStart \/ A!MessageDelta
             PROVE  AnthropicBuffers'
  OBVIOUS
<1>1. /\ A!Advance /\ ~tooLong /\ UNCHANGED <<damaged, tooLong, blocks, result>>
      /\ \/ current = 0 /\ usage' = usage \cup {"input"}
         \/ current = Len(content) + 1 /\ usage' = usage \cup {"output"}
  BY DEF A!MessageStart, A!MessageDelta, A!Read
<1>2. Len(content) \in Nat /\ current \notin DOMAIN content
  BY <1>1, BlocksOf
<1>3. UNCHANGED content /\ current' = current + 1 /\ current \in Nat
  BY <1>1, <1>2, Advanced
<1>4. \A x \in DOMAIN blocks' : OwnBlock(x)'
  BY <1>1, OwnBlockStays DEF AnthropicBuffers
<1>5. ASSUME damaged = {}
      PROVE  WholeSoFar'
  <2>1. WholeSoFar
    BY <1>1, <1>5 DEF AnthropicBuffers
  <2>2. Finished' = Finished
    BY <1>1, <1>2, <1>3, FinishedNext
  <2>3. "input" \in usage' /\ (current' > Len(content) + 1 => "output" \in usage')
    <3>1. CASE current = 0
      BY <1>1, <1>2, <1>3, <3>1
    <3>2. CASE current # 0
      BY <1>1, <1>2, <1>3, <2>1, <3>2 DEF WholeSoFar
    <3> QED
      BY <3>1, <3>2
  <2> QED
    BY <1>1, <1>3, <2>1, <2>2, <2>3 DEF WholeSoFar
<1> QED
  BY <1>1, <1>2, <1>4, <1>5, ExtendsItself, AnthropicBuffersEvent DEF AnthropicBuffers

(* Upstream sends block i: its events, and the numbers that are involved.  *)
LEMMA InABlock ==
  ASSUME AnthropicTyped, A!Advance, A!InBlock
  PROVE  /\ UNCHANGED content /\ current \in DOMAIN content /\ current \in Nat /\ current > 0
         /\ step \in Nat /\ content[current].pieces \in Nat
         /\ content[current].type \in A!BlockTypes
         /\ A!LastStep = content[current].pieces + 1
         /\ step # A!LastStep => current' = current /\ step' = step + 1
         /\ step = A!LastStep => current' = current + 1 /\ step' = 0
<1>1. current \in DOMAIN content /\ A!LastStep = content[current].pieces + 1
  BY DEF A!InBlock, A!LastStep
<1>2. current > 0 /\ content[current].pieces \in Nat /\ content[current].type \in A!BlockTypes
  BY <1>1, BlocksOf, BoundsAssumption
<1> QED
  BY <1>1, <1>2, Advanced

(* Nothing of the result changes within a block.                           *)
LEMMA WholeSoFarStays ==
  ASSUME AnthropicTyped, A!Advance, current' = current, WholeSoFar,
         UNCHANGED <<content, usage, result>>
  PROVE  WholeSoFar'
<1>1. Finished' = Finished
  BY FinishedNext
<1> QED
  BY <1>1 DEF WholeSoFar

LEMMA BlockStartKeeps ==
  AnthropicTyped /\ AnthropicBuffers /\ A!BlockStart => AnthropicBuffers'
<1> SUFFICES ASSUME AnthropicTyped, AnthropicBuffers, A!BlockStart
             PROVE  AnthropicBuffers'
  OBVIOUS
<1> DEFINE i == current
           new == [type |-> content[i].type, buf |-> << >>]
<1>1. /\ A!Advance /\ A!InBlock /\ ~tooLong /\ step = 0
      /\ UNCHANGED <<damaged, tooLong, usage, result>>
      /\ blocks' = [x \in DOMAIN blocks \cup {i} |-> IF x = i THEN new ELSE blocks[x]]
  BY DEF A!BlockStart, A!Read
<1>2. /\ UNCHANGED content /\ i \in DOMAIN content /\ i \in Nat
      /\ current' = i /\ step' = 1
  BY <1>1, InABlock
<1>3. DOMAIN new = {"type", "buf"} /\ new.type = content[i].type /\ new.buf = << >>
  OBVIOUS
<1> HIDE DEF new
<1>4. << >> \in InOrder /\ DOMAIN << >> = {} /\ << >> = BlockPieces(i, 0)
  BY <1>2, BlockPiecesFacts, EmptySeq
<1>5. ASSUME NEW x \in DOMAIN blocks'
      PROVE  OwnBlock(x)'
  <2>1. CASE x = i
    <3>1. blocks'[x] = new /\ x = current'
      BY <1>1, <1>2, <2>1
    <3> QED
      BY <1>2, <1>3, <1>4, <2>1, <3>1 DEF OwnBlock
  <2>2. CASE x # i
    <3>1. x \in DOMAIN blocks /\ blocks'[x] = blocks[x]
      BY <1>1, <2>2
    <3> QED
      BY <1>1, <3>1, OwnBlockStays DEF AnthropicBuffers
  <2> QED
    BY <2>1, <2>2
<1>6. ASSUME NEW j \in DOMAIN content, j = i
      PROVE  Intact(j)'
  <2>1. j \in DOMAIN blocks' /\ blocks'[j].buf = << >>
    BY <1>1, <1>3, <1>6
  <2>2. step' - 1 = 0 /\ ~(j < current')
    BY <1>2, <1>6
  <2> QED
    BY <1>4, <1>6, <2>1, <2>2 DEF Intact
<1>7. damaged = {} => WholeSoFar'
  BY <1>1, <1>2, WholeSoFarStays DEF AnthropicBuffers
<1> QED
  BY <1>1, <1>5, <1>6, <1>7, ExtendsItself, AnthropicBuffersEvent DEF AnthropicBuffers

LEMMA BlockDeltaKeeps ==
  AnthropicTyped /\ AnthropicBuffers /\ A!BlockDelta => AnthropicBuffers'
<1> SUFFICES ASSUME AnthropicTyped, AnthropicBuffers, A!BlockDelta
             PROVE  AnthropicBuffers'
  OBVIOUS
<1> DEFINE i == current
           n == step
           buf == blocks[i].buf
<1>1. /\ A!Advance /\ A!InBlock /\ ~tooLong /\ step \in 1..content[current].pieces
      /\ UNCHANGED <<damaged, tooLong, usage, result>>
      /\ blocks' = IF i \in DOMAIN blocks
                     THEN [blocks EXCEPT ![i].buf = Append(@, <<i, n>>)] ELSE blocks
  BY DEF A!BlockDelta, A!Read
<1>2. /\ UNCHANGED content /\ i \in DOMAIN content /\ i \in Nat /\ n \in Nat /\ n > 0
      /\ current' = i /\ step' = n + 1
  BY <1>1, InABlock
<1>3. ASSUME i \in DOMAIN blocks
      PROVE  /\ DOMAIN blocks' = DOMAIN blocks
             /\ DOMAIN blocks'[i] = {"type", "buf"} /\ blocks'[i].type = content[i].type
             /\ blocks'[i].buf = Append(buf, <<i, n>>)
             /\ \A x \in DOMAIN blocks : x # i => blocks'[x] = blocks[x]
  <2>1. DOMAIN blocks[i] = {"type", "buf"} /\ blocks[i].type = content[i].type
    BY <1>3 DEF AnthropicBuffers, OwnBlock
  <2>2. blocks' = [blocks EXCEPT ![i].buf = Append(buf, <<i, n>>)]
    BY <1>1, <1>3
  <2>3. blocks'[i] = [blocks[i] EXCEPT !.buf = Append(buf, <<i, n>>)]
    BY <1>3, <2>2
  <2>4. DOMAIN blocks' = DOMAIN blocks /\ \A x \in DOMAIN blocks : x # i => blocks'[x] = blocks[x]
    BY <2>2
  <2> QED
    BY <2>1, <2>3, <2>4
<1>4. ASSUME i \in DOMAIN blocks
      PROVE  /\ Append(buf, <<i, n>>) \in InOrder
             /\ \A k \in DOMAIN Append(buf, <<i, n>>) :
                  Append(buf, <<i, n>>)[k][1] = i /\ Append(buf, <<i, n>>)[k][2] < n + 1
  <2>1. buf \in InOrder /\ \A k \in DOMAIN buf : buf[k][1] = i /\ buf[k][2] < n
    BY <1>4 DEF AnthropicBuffers, OwnBlock
  <2> QED
    BY <1>2, <2>1, AppendInOrder
<1>5. ASSUME NEW x \in DOMAIN blocks'
      PROVE  OwnBlock(x)'
  <2>1. CASE x = i
    <3>1. i \in DOMAIN blocks
      BY <1>1, <2>1
    <3>2. /\ DOMAIN blocks'[x] = {"type", "buf"} /\ blocks'[x].type = content'[x].type
          /\ blocks'[x].buf = Append(buf, <<i, n>>)
      BY <1>2, <1>3, <2>1, <3>1
    <3> QED
      BY <1>2, <1>4, <2>1, <3>1, <3>2 DEF OwnBlock
  <2>2. CASE x # i
    <3>1. x \in DOMAIN blocks /\ blocks'[x] = blocks[x]
      BY <1>1, <1>3, <2>2
    <3> QED
      BY <1>1, <3>1, OwnBlockStays DEF AnthropicBuffers
  <2> QED
    BY <2>1, <2>2
<1>6. ASSUME NEW j \in DOMAIN content, j = i, j \notin damaged
      PROVE  Intact(j)'
  <2>1. i \in DOMAIN blocks /\ buf = BlockPieces(i, n - 1)
    BY <1>1, <1>2, <1>6 DEF AnthropicBuffers, Intact
  <2>2. Append(BlockPieces(i, n - 1), <<i, n>>) = BlockPieces(i, n)
    <3>1. n - 1 \in Nat /\ (n - 1) + 1 = n
      BY <1>2
    <3> QED
      BY <1>2, <3>1, BlockPiecesFacts
  <2>3. i \in DOMAIN blocks' /\ blocks'[i].buf = BlockPieces(i, n)
    <3>1. DOMAIN blocks' = DOMAIN blocks /\ blocks'[i].buf = Append(buf, <<i, n>>)
      BY <1>3, <2>1
    <3> QED
      BY <2>1, <2>2, <3>1
  <2>4. step' - 1 = n /\ ~(i < current')
    BY <1>2
  <2> QED
    BY <1>6, <2>3, <2>4 DEF Intact
<1>7. damaged = {} => WholeSoFar'
  BY <1>1, <1>2, WholeSoFarStays DEF AnthropicBuffers
<1> QED
  BY <1>1, <1>5, <1>6, <1>7, ExtendsItself, AnthropicBuffersEvent DEF AnthropicBuffers

LEMMA BlockStopKeeps ==
  AnthropicTyped /\ AnthropicBuffers /\ A!BlockStop => AnthropicBuffers'
<1> SUFFICES ASSUME AnthropicTyped, AnthropicBuffers, A!BlockStop
             PROVE  AnthropicBuffers'
  OBVIOUS
<1> DEFINE i == current
           b == blocks[i]
           pieces == content[i].pieces
           new == A!Report(result, i, content[i].type, b.buf)
<1>1. /\ A!Advance /\ A!InBlock /\ ~tooLong /\ step = A!LastStep
      /\ UNCHANGED <<damaged, tooLong, usage>>
      /\ IF i \in DOMAIN blocks
           THEN /\ result' = A!Report(result, i, b.type, b.buf)
                /\ blocks' = [x \in DOMAIN blocks \ {i} |-> blocks[x]]
           ELSE UNCHANGED <<result, blocks>>
  BY DEF A!BlockStop, A!Read
<1>2. /\ UNCHANGED content /\ i \in DOMAIN content /\ i \in Nat /\ i > 0
      /\ pieces \in Nat /\ content[i].type \in A!BlockTypes
      /\ step - 1 = pieces /\ step > 0
      /\ current' = i + 1 /\ step' = 0
  BY <1>1, InABlock
<1>3. Lists(result)
  BY DEF AnthropicBuffers
<1>4. ASSUME i \in DOMAIN blocks
      PROVE  /\ result' = new /\ b.buf \in InOrder
             /\ Lists(new) /\ Extends(new, result)
             /\ \A kind \in {"thinking", "text"} :
                  content[i].type = kind /\ b.buf # << >> =>
                    \E k \in DOMAIN new[kind] : new[kind][k] = b.buf
             /\ content[i].type = "tool_use" =>
                  \E k \in DOMAIN new.tool_use :
                    new.tool_use[k] =
                      [name |-> i, input |-> IF b.buf = << >> THEN A!Braces ELSE b.buf]
  <2>1. b.type = content[i].type /\ b.buf \in InOrder
    BY <1>4 DEF AnthropicBuffers, OwnBlock
  <2>2. result' = new
    BY <1>1, <1>4, <2>1
  <2> HIDE DEF b
  <2> QED
    BY <1>2, <1>3, <2>1, <2>2, ReportAdds
<1> HIDE DEF new
<1>5. Lists(result') /\ Extends(result', result)
  BY <1>1, <1>3, <1>4, ExtendsItself
<1>6. \A x \in DOMAIN blocks' : OwnBlock(x)'
  <2>1. \A x \in DOMAIN blocks' : x \in DOMAIN blocks /\ blocks'[x] = blocks[x]
    BY <1>1
  <2> QED
    BY <1>1, <2>1, OwnBlockStays DEF AnthropicBuffers
<1>7. ASSUME i \notin damaged
      PROVE  i \in DOMAIN blocks /\ b.buf = BlockPieces(i, pieces)
  BY <1>1, <1>2, <1>7 DEF AnthropicBuffers, Intact
<1>8. ASSUME NEW j \in DOMAIN content, j = i, j \notin damaged
      PROVE  Intact(j)'
  <2>1. BlockPieces(i, pieces) = << >> <=> pieces = 0
    BY <1>2, BlockPiecesFacts
  <2>2. Whole(content, new, i)
    BY <1>2, <1>4, <1>7, <1>8, <2>1 DEF Whole
  <2> QED
    BY <1>2, <1>4, <1>7, <1>8, <2>2 DEF Intact
<1>9. ASSUME damaged = {}
      PROVE  WholeSoFar'
  <2>1. WholeSoFar /\ i \notin damaged
    BY <1>1, <1>9 DEF AnthropicBuffers
  <2>2. Finished = i - 1 /\ Finished' = i
    BY <1>1, <1>2, FinishedNext
  <2>3. Len(content) \in Nat /\ i \in 1..Len(content)
    BY <1>2, BlocksOf
  <2>4. result' = FullOf(content)[i]
    <3> DEFINE full == FullOf(content)
    <3>1. full[i] = A!Report(full[i - 1], i, content[i].type, BlockPieces(i, content[i].pieces))
      BY <2>3, FullSteps
    <3>2. result = full[i - 1]
      BY <2>1, <2>2 DEF WholeSoFar
    <3> HIDE DEF full
    <3>3. new = full[i]
      BY <1>7, <2>1, <3>1, <3>2 DEF new
    <3> QED
      BY <1>4, <1>7, <2>1, <3>3 DEF full
  <2>5. ~(current' > Len(content) + 1) /\ "input" \in usage
    BY <1>2, <2>1, <2>3 DEF WholeSoFar
  <2> QED
    BY <1>1, <1>2, <2>2, <2>4, <2>5 DEF WholeSoFar
<1> QED
  BY <1>1, <1>5, <1>6, <1>8, <1>9, AnthropicBuffersEvent

LEMMA AnthropicBuffersNext ==
  AnthropicTyped /\ AnthropicBuffers /\ [A!Next]_A!vars => AnthropicBuffers'
<1> SUFFICES ASSUME AnthropicTyped, AnthropicBuffers, [A!Next]_A!vars
             PROVE  AnthropicBuffers'
  OBVIOUS
<1>1. CASE A!MessageStart \/ A!MessageDelta
  BY <1>1, MessageStartKeeps
<1>2. CASE A!BlockStart
  BY <1>2, BlockStartKeeps
<1>3. CASE A!BlockDelta
  BY <1>3, BlockDeltaKeeps
<1>4. CASE A!BlockStop
  BY <1>4, BlockStopKeeps
<1>5. CASE A!SkippedEvent
  <2>1. /\ A!Advance /\ ~tooLong /\ damaged' = damaged \cup {current}
        /\ UNCHANGED <<tooLong, blocks, usage, result>>
    BY <1>5 DEF A!SkippedEvent, A!parser
  <2>2. \A x \in DOMAIN blocks' : OwnBlock(x)'
    BY <2>1, OwnBlockStays DEF AnthropicBuffers
  <2>3. damaged' # {} /\ \A j \in DOMAIN content : ~(j = current /\ j \notin damaged')
    BY <2>1
  <2> QED
    BY <2>1, <2>2, <2>3, ExtendsItself, AnthropicBuffersEvent DEF AnthropicBuffers
<1>6. CASE A!UnscannedEvent
  <2>1. A!Advance /\ tooLong' = TRUE /\ UNCHANGED <<damaged, blocks, usage, result>>
    BY <1>6 DEF A!UnscannedEvent, A!parser
  <2>2. \A x \in DOMAIN blocks' : OwnBlock(x)'
    BY <2>1, OwnBlockStays DEF AnthropicBuffers
  <2> QED
    BY <2>1, <2>2, ExtendsItself, AnthropicBuffersEvent DEF AnthropicBuffers
<1>7. ASSUME UNCHANGED <<content, current, step, damaged, tooLong, blocks, usage, result>>,
             phase' = "parsed" => ~tooLong'
      PROVE  AnthropicBuffers'
  <2>1. \A x \in DOMAIN blocks : OwnBlock(x) => OwnBlock(x)'
    BY <1>7 DEF OwnBlock
  <2>2. \A j \in DOMAIN content : Intact(j) => Intact(j)'
    BY <1>7 DEF Intact
  <2>3. WholeSoFar => WholeSoFar'
    BY <1>7 DEF WholeSoFar, Finished
  <2> QED
    BY <1>7, <2>1, <2>2, <2>3 DEF AnthropicBuffers
<1>8. CASE A!EndOfBody
  <2>1. /\ phase' = IF tooLong THEN "failed" ELSE "parsed"
        /\ UNCHANGED <<content, current, step, damaged, tooLong, blocks, usage, result>>
    BY <1>8 DEF A!EndOfBody, A!stream, A!parser
  <2>2. phase' = "parsed" => ~tooLong'
    BY <2>1
  <2> QED
    BY <1>7, <2>1, <2>2
<1>9. CASE UNCHANGED A!vars
  BY <1>7, <1>9 DEF A!vars, A!stream, A!parser, AnthropicBuffers
<1> QED
  BY <1>1, <1>2, <1>3, <1>4, <1>5, <1>6, <1>8, <1>9 DEF A!Next

LEMMA InvAnthropicSameAsFull == AnthropicTyped /\ AnthropicBuffers => A!SameAsFull
<1> SUFFICES ASSUME AnthropicTyped, AnthropicBuffers, phase = "parsed", damaged = {}
             PROVE  /\ result = A!Full[A!Cardinality(A!Stopped)]
                    /\ current > Len(content) + 1 => usage = {"input", "output"}
  BY DEF A!SameAsFull
<1>1. WholeSoFar
  BY DEF AnthropicBuffers
<1>2. /\ Len(content) \in Nat /\ DOMAIN content = 1..Len(content)
      /\ current \in Nat /\ usage \subseteq {"input", "output"}
  BY BlocksOf DEF AnthropicTyped, A!TypeOK
<1>3. A!Cardinality(A!Stopped) = Finished
  <2>1. Finished \in Nat
    BY <1>2 DEF Finished
  <2>2. A!Stopped = 1..Finished
    BY <1>2 DEF A!Stopped, Finished
  <2>3. Cardinality(1..Finished) = Finished
    BY <2>1, FS_Interval
  <2> QED
    BY <2>2, <2>3, SameCardinality
<1>4. result = A!Full[A!Cardinality(A!Stopped)]
  BY <1>1, <1>3, FullIsFullOf DEF WholeSoFar
<1>5. ASSUME current > Len(content) + 1
      PROVE  usage = {"input", "output"}
  <2>1. "input" \in usage /\ "output" \in usage
    BY <1>1, <1>2, <1>5 DEF WholeSoFar
  <2> QED
    BY <1>2, <2>1
<1> QED
  BY <1>4, <1>5

LEMMA InvAnthropicDamageIsLocal == AnthropicTyped /\ AnthropicBuffers => A!DamageIsLocal
<1> SUFFICES ASSUME AnthropicTyped, AnthropicBuffers
             PROVE  A!DamageIsLocal
  OBVIOUS
<1>1. \A i : A!Value(i) = BlockPieces(i, content[i].pieces)
  BY DEF A!Value, BlockPieces
<1>2. ASSUME ~tooLong, NEW i \in A!Stopped, i \notin damaged
      PROVE  /\ content[i].type \in {"thinking", "text"} /\ content[i].pieces > 0 =>
                  A!Value(i) \in A!Entries
             /\ content[i].type = "tool_use" =>
                  \E k \in DOMAIN result.tool_use :
                    result.tool_use[k] =
                      A!ToolCall(i, IF content[i].pieces = 0 THEN A!Braces ELSE A!Value(i))
  <2>1. i \in DOMAIN content /\ i < current
    BY DEF A!Stopped
  <2>2. Whole(content, result, i)
    BY <1>2, <2>1 DEF AnthropicBuffers, Intact
  <2>3. ASSUME content[i].type \in {"thinking", "text"}, content[i].pieces > 0
        PROVE  A!Value(i) \in A!Entries
    <3>1. CASE content[i].type = "thinking"
      <4>1. \E k \in DOMAIN result.thinking : result.thinking[k] = A!Value(i)
        BY <1>1, <2>2, <2>3, <3>1 DEF Whole
      <4> QED
        BY <4>1 DEF A!Entries
    <3>2. CASE content[i].type = "text"
      <4>1. \E k \in DOMAIN result.text : result.text[k] = A!Value(i)
        BY <1>1, <2>2, <2>3, <3>2 DEF Whole
      <4> QED
        BY <4>1 DEF A!Entries
    <3> QED
      BY <2>3, <3>1, <3>2
  <2>4. ASSUME content[i].type = "tool_use"
        PROVE  \E k \in DOMAIN result.tool_use :
                 result.tool_use[k] =
                   A!ToolCall(i, IF content[i].pieces = 0 THEN A!Braces ELSE A!Value(i))
    BY <1>1, <2>2, <2>4 DEF Whole, A!ToolCall
  <2> QED
    BY <2>3, <2>4
<1>3. ASSUME NEW entry \in A!Entries
      PROVE  entry \in InOrder
  <2>1. /\ result.thinking \in Seq(InOrder) /\ result.text \in Seq(InOrder)
        /\ result.tool_use \in Seq([name : Nat, input : InOrder])
    BY DEF AnthropicBuffers, Lists
  <2>2. /\ \A k \in DOMAIN result.thinking : result.thinking[k] \in InOrder
        /\ \A k \in DOMAIN result.text : result.text[k] \in InOrder
        /\ \A k \in DOMAIN result.tool_use : result.tool_use[k] \in [name : Nat, input : InOrder]
    BY <2>1, LenProperties
  <2>3. \A k \in DOMAIN result.tool_use : result.tool_use[k].input \in InOrder
    BY <2>2
  <2> QED
    BY <2>2, <2>3 DEF A!Entries
<1>4. \A entry \in A!Entries \ {A!Braces} :
        \A k, l \in DOMAIN entry :
          entry[k][1] = entry[l][1] /\ (k < l => entry[k][2] < entry[l][2])
  BY <1>3 DEF InOrder
<1> QED
  BY <1>2, <1>4 DEF A!DamageIsLocal

-------------------------------------------------------------------------------
(* The parser at work.                                                     *)

Typed ==
  /\ upstream \in {"openai", "anthropic"}
  /\ upstream = "openai" => OpenAITyped
  /\ upstream = "anthropic" => AnthropicTyped

Buffers ==
  /\ upstream = "openai" => OpenAIBuffers
  /\ upstream = "anthropic" => AnthropicBuffers

LEMMA ParserSteps ==
  [Next]_vars =>
    \/ upstream = "openai" /\ upstream' = "openai" /\ [O!Next]_O!vars
    \/ upstream = "anthropic" /\ upstream' = "anthropic" /\ [A!Next]_A!vars
    \/ upstream \notin {"openai", "anthropic"} /\ UNCHANGED upstream
<1> SUFFICES ASSUME [Next]_vars
             PROVE  \/ upstream = "openai" /\ upstream' = "openai" /\ [O!Next]_O!vars
                    \/ upstream = "anthropic" /\ upstream' = "anthropic" /\ [A!Next]_A!vars
                    \/ upstream \notin {"openai", "anthropic"} /\ UNCHANGED upstream
  OBVIOUS
<1>1. CASE Next
  BY <1>1 DEF Next
<1>2. CASE UNCHANGED vars
  <2>1. UNCHANGED upstream /\ UNCHANGED O!vars /\ UNCHANGED A!vars
    BY <1>2 DEF vars, openaiVars, anthropicVars, O!vars, O!completion, O!stream, O!parser,
                A!vars, A!stream, A!parser
  <2> QED
    BY <2>1
<1> QED
  BY <1>1, <1>2

LEMMA TypedInit == Init => Typed
BY OpenAIInitTyped, AnthropicInitTyped DEF Init, Typed

LEMMA TypedNext == Typed /\ [Next]_vars => Typed'
BY ParserSteps, OpenAINextTyped, AnthropicNextTyped DEF Typed

LEMMA BuffersInit == OneChoice /\ Init => Buffers
BY OpenAIBuffersInit, AnthropicBuffersInit DEF Init, Buffers

LEMMA BuffersNext == OneChoice /\ Typed /\ Buffers /\ [Next]_vars => Buffers'
BY ParserSteps, OpenAIBuffersNext, AnthropicBuffersNext DEF Typed, Buffers

(* Whatever is streamed, in any number of choices, calls, blocks and       *)
(* pieces, and wherever it is cut, damaged or too long, both parsers keep  *)
(* their state well formed: buffers only under indices of calls or blocks  *)
(* of the answer, and lists of the three kinds.                            *)
THEOREM TypeCorrect == Spec => []TypeOK
<1>1. Typed => TypeOK
  BY DEF Typed, TypeOK, Of, OpenAITyped, AnthropicTyped
<1> QED
  BY TypedInit, TypedNext, <1>1, PTL DEF Spec

(* A stream gives what the whole response would have given, and a cut      *)
(* stream the rows of what it started or finished, for completions with    *)
(* one choice and for every message: the parsers' fragments and open       *)
(* blocks always hold the pieces that came, whatever their order.  With    *)
(* several choices the parser merges calls that have the same index.       *)
THEOREM SameAsFullHolds == NumChoices = 1 => (Spec => []SameAsFull)
<1> SUFFICES ASSUME NumChoices = 1
             PROVE  Spec => []SameAsFull
  OBVIOUS
<1>1. OneChoice
  BY DEF OneChoice
<1>2. Init => Typed /\ Buffers
  BY <1>1, TypedInit, BuffersInit
<1>3. Typed /\ Buffers /\ [Next]_vars => (Typed /\ Buffers)'
  BY <1>1, TypedNext, BuffersNext
<1>4. Typed /\ Buffers => SameAsFull
  BY <1>1, InvOpenAISameAsFull, InvCutStream, InvAnthropicSameAsFull
  DEF Typed, Buffers, SameAsFull, Of
<1> QED
  BY <1>2, <1>3, <1>4, PTL DEF Spec

(* No row and no entry mixes two calls or blocks, and what a skipped chunk *)
(* or event costs is exactly this: a block of Anthropic's itself; of       *)
(* OpenAI's, for completions with one choice, the text, the call or the    *)
(* usage itself and the rows of the last calls, where calls before them    *)
(* were skipped whole.  The fragments always hold, under its own index,    *)
(* all that was streamed of every call that lost no chunk.                 *)
THEOREM DamageIsLocalHolds == NumChoices = 1 => (Spec => []DamageIsLocal)
<1> SUFFICES ASSUME NumChoices = 1
             PROVE  Spec => []DamageIsLocal
  OBVIOUS
<1>1. OneChoice
  BY DEF OneChoice
<1>2. Init => Typed /\ Buffers
  BY <1>1, TypedInit, BuffersInit
<1>3. Typed /\ Buffers /\ [Next]_vars => (Typed /\ Buffers)'
  BY <1>1, TypedNext, BuffersNext
<1>4. Typed /\ Buffers => DamageIsLocal
  BY <1>1, InvRowsUnmixed, InvLossIsLocal, InvAnthropicDamageIsLocal
  DEF Typed, Buffers, DamageIsLocal, Of
<1> QED
  BY <1>2, <1>3, <1>4, PTL DEF Spec
===============================================================================
