---------------------------- MODULE TurnAuditProofs ----------------------------
(***************************************************************************)
(* Proofs about TurnRecord and TurnAudit: for all configurations, requests *)
(* and answers, and not only those of MCTurnAudit.                         *)
(***************************************************************************)
EXTENDS TurnAudit, SequenceTheorems, FiniteSetTheorems, WellFoundedInduction,
        TLAPS

-------------------------------------------------------------------------------
(* Naturals and sequences.                                                 *)

LEMMA LeastNatural ==
  \A S : S \subseteq Nat /\ S # {} => \E m \in S : \A n \in S : m <= n
<1> SUFFICES ASSUME NEW S, S \subseteq Nat, S # {}
             PROVE  \E m \in S : \A n \in S : m <= n
  OBVIOUS
<1>1. PICK m \in S : \A n \in S : ~(<<n, m>> \in OpToRel(<, Nat))
  BY NatLessThanWellFounded, WFMin, Zenon
<1>2. \A n \in S : ~(n < m)
  BY <1>1 DEF OpToRel
<1> QED
  BY <1>2

LEMMA InductionOnNat ==
  \A S : 0 \in S /\ (\A n \in Nat : n \in S => n + 1 \in S) => Nat \subseteq S
<1> SUFFICES ASSUME NEW S, 0 \in S, \A n \in Nat : n \in S => n + 1 \in S,
                    NEW k \in Nat, k \notin S
             PROVE  FALSE
  OBVIOUS
<1> DEFINE T == {n \in Nat : n \notin S}
<1>1. PICK m \in T : \A n \in T : m <= n
  BY LeastNatural, Zenon
<1>2. m # 0 /\ m - 1 \in Nat /\ m - 1 \notin T
  BY <1>1
<1>3. m - 1 \in S
  BY <1>2
<1>4. (m - 1) + 1 \in S
  BY <1>2, <1>3
<1> QED
  BY <1>1, <1>2, <1>4

(* FlattenSeq, as the end of a chain that starts with << >>.               *)
IsFlattening(g, seqs) ==
  /\ g[0] = << >>
  /\ \A i \in 1..Len(seqs) : g[i] = g[i - 1] \o seqs[i]

LEMMA FlatteningUnique ==
  ASSUME NEW seqs, Len(seqs) \in Nat, NEW g, NEW h,
         IsFlattening(g, seqs), IsFlattening(h, seqs)
  PROVE  \A i \in 0..Len(seqs) : g[i] = h[i]
<1> DEFINE n == Len(seqs)
           S == {i \in Nat : i <= n => g[i] = h[i]}
<1>1. 0 \in S
  BY DEF IsFlattening
<1>2. ASSUME NEW i \in Nat, i \in S
      PROVE  i + 1 \in S
  <2>1. CASE i + 1 <= n
    <3>1. i + 1 \in 1..n /\ i <= n /\ (i + 1) - 1 = i
      BY <2>1
    <3>2. g[i + 1] = g[i] \o seqs[i + 1] /\ h[i + 1] = h[i] \o seqs[i + 1]
      BY <3>1 DEF IsFlattening
    <3>3. g[i] = h[i]
      BY <1>2, <3>1
    <3>4. g[i + 1] = h[i + 1]
      BY <3>2, <3>3
    <3> QED
      BY <3>4
  <2> QED
    BY <2>1
<1> HIDE DEF S
<1>3. Nat \subseteq S
  BY <1>1, <1>2, InductionOnNat
<1> QED
  BY <1>3 DEF S

(* The recursive function in FlattenSeq exists.                            *)
LEMMA FlattenExists ==
  ASSUME NEW seqs
  PROVE  \A n \in Nat : \E f : f = [i \in 1..n |-> IF i = 1 THEN seqs[i] ELSE f[i - 1] \o seqs[i]]
<1> DEFINE P(n) == \E f : f = [i \in 1..n |-> IF i = 1 THEN seqs[i] ELSE f[i - 1] \o seqs[i]]
           S == {n \in Nat : P(n)}
<1>1. 0 \in S
  <2> DEFINE f == [i \in 1..0 |-> << >>]
  <2>1. f = [i \in 1..0 |-> IF i = 1 THEN seqs[i] ELSE f[i - 1] \o seqs[i]]
    OBVIOUS
  <2> QED
    BY <2>1
<1>2. ASSUME NEW n \in Nat, n \in S
      PROVE  n + 1 \in S
  <2>1. PICK f : f = [i \in 1..n |-> IF i = 1 THEN seqs[i] ELSE f[i - 1] \o seqs[i]]
    BY <1>2
  <2> DEFINE m == n + 1
             g == [i \in 1..m |-> IF i = m THEN (IF m = 1 THEN seqs[m] ELSE f[n] \o seqs[m])
                                  ELSE f[i]]
             h == [i \in 1..m |-> IF i = 1 THEN seqs[i] ELSE g[i - 1] \o seqs[i]]
  <2>2. ASSUME NEW i \in 1..m
        PROVE  g[i] = IF i = 1 THEN seqs[i] ELSE g[i - 1] \o seqs[i]
    <3>1. CASE i = m
      <4>1. CASE m = 1
        BY <3>1, <4>1
      <4>2. CASE m # 1
        <5>1. i - 1 = n /\ n \in 1..m /\ n # m
          BY <3>1, <4>2
        <5>2. g[n] = f[n] /\ g[i] = f[n] \o seqs[m]
          BY <3>1, <4>2, <5>1
        <5> QED
          BY <3>1, <4>2, <5>1, <5>2
      <4> QED
        BY <4>1, <4>2
    <3>2. CASE i # m
      <4>1. i \in 1..n /\ g[i] = f[i]
        BY <3>2
      <4>2. f[i] = IF i = 1 THEN seqs[i] ELSE f[i - 1] \o seqs[i]
        BY <2>1, <4>1
      <4>3. i # 1 => g[i - 1] = f[i - 1]
        BY <3>2, <4>1
      <4> QED
        BY <4>1, <4>2, <4>3
    <3> QED
      BY <3>1, <3>2
  <2>3. g = h
    BY <2>2
  <2> HIDE DEF g
  <2>4. P(m)
    BY <2>3
  <2> HIDE DEF P
  <2> QED
    BY <2>4
<1> HIDE DEF S
<1>3. Nat \subseteq S
  BY <1>1, <1>2, InductionOnNat
<1> QED
  BY <1>3 DEF S

LEMMA FlattenIs ==
  ASSUME NEW S, NEW seqs \in Seq(Seq(S)), NEW g, IsFlattening(g, seqs)
  PROVE  FlattenSeq(seqs) = g[Len(seqs)]
<1> DEFINE n == Len(seqs)
           F(f) == [i \in 1..n |-> IF i = 1 THEN seqs[i] ELSE f[i - 1] \o seqs[i]]
           f == CHOOSE f : f = F(f)
           h == [i \in 0..n |-> IF i = 0 THEN << >> ELSE f[i]]
<1>1. n \in Nat /\ \A i \in 1..n : seqs[i] \in Seq(S)
  BY LenProperties
<1>2. CASE n = 0
  <2>1. FlattenSeq(seqs) = seqs
    BY <1>2 DEF FlattenSeq
  <2>2. seqs = << >>
    BY <1>2, EmptySeq
  <2> QED
    BY <1>2, <2>1, <2>2 DEF IsFlattening
<1>3. CASE n # 0
  <2>1. FlattenSeq(seqs) = f[n]
    BY <1>3 DEF FlattenSeq
  <2>2. f = F(f)
    BY <1>1, FlattenExists
  <2> HIDE DEF f
  <2>3. \A i \in 1..n : f[i] = IF i = 1 THEN seqs[i] ELSE f[i - 1] \o seqs[i]
    BY <2>2
  <2>4. IsFlattening(h, seqs)
    <3>1. h[0] = << >>
      BY <1>1
    <3>2. ASSUME NEW i \in 1..n
          PROVE  h[i] = h[i - 1] \o seqs[i]
      <4>1. CASE i = 1
        <5>1. h[1] = seqs[1] /\ h[0] = << >> /\ 1 - 1 = 0
          BY <1>1, <2>3, <3>1, <4>1
        <5>2. << >> \o seqs[1] = seqs[1]
          BY <1>1, <4>1, ConcatEmptySeq
        <5> QED
          BY <4>1, <5>1, <5>2
      <4>2. CASE i # 1
        <5>1. h[i] = f[i] /\ h[i - 1] = f[i - 1]
          BY <1>1, <4>2
        <5> QED
          BY <2>3, <4>2, <5>1
      <4> QED
        BY <4>1, <4>2
    <3> QED
      BY <3>1, <3>2 DEF IsFlattening
  <2>5. h[n] = f[n]
    BY <1>1, <1>3
  <2>6. g[n] = h[n]
    BY <1>1, <2>4, FlatteningUnique
  <2> QED
    BY <2>1, <2>5, <2>6
<1> QED
  BY <1>2, <1>3

(* The chain that FlattenSeq ends exists, and its elements are sequences.  *)
LEMMA FlatteningExists ==
  ASSUME NEW S, NEW seqs \in Seq(Seq(S))
  PROVE  \E g \in [0..Len(seqs) -> Seq(S)] : IsFlattening(g, seqs)
<1> DEFINE n == Len(seqs)
           P(k) == \E g \in [0..k -> Seq(S)] :
                     /\ g[0] = << >>
                     /\ \A i \in 1..k : g[i] = g[i - 1] \o seqs[i]
           T == {k \in Nat : k <= n => P(k)}
<1> HIDE DEF P
<1>1. n \in Nat /\ \A i \in 1..n : seqs[i] \in Seq(S)
  BY LenProperties
<1>2. 0 \in T
  <2> DEFINE g == [i \in 0..0 |-> << >>]
  <2>1. g \in [0..0 -> Seq(S)]
    BY EmptySeq
  <2>2. g[0] = << >> /\ \A i \in 1..0 : g[i] = g[i - 1] \o seqs[i]
    OBVIOUS
  <2> HIDE DEF g
  <2>3. P(0)
    BY <2>1, <2>2 DEF P
  <2> QED
    BY <2>3
<1>3. ASSUME NEW k \in Nat, k \in T
      PROVE  k + 1 \in T
  <2> SUFFICES ASSUME k + 1 <= n
               PROVE  P(k + 1)
    OBVIOUS
  <2>1. P(k)
    BY <1>1, <1>3
  <2>2. PICK g \in [0..k -> Seq(S)] : /\ g[0] = << >>
                                      /\ \A i \in 1..k : g[i] = g[i - 1] \o seqs[i]
    BY <2>1 DEF P
  <2> DEFINE m == k + 1
             h == [i \in 0..m |-> IF i = m THEN g[k] \o seqs[m] ELSE g[i]]
  <2>3. m \in 1..n /\ seqs[m] \in Seq(S) /\ g[k] \in Seq(S)
    BY <1>1
  <2>4. g[k] \o seqs[m] \in Seq(S)
    BY <2>3, ConcatProperties
  <2>5. h \in [0..m -> Seq(S)]
    BY <2>4
  <2>6. h[0] = << >>
    BY <2>2
  <2>7. ASSUME NEW i \in 1..m
        PROVE  h[i] = h[i - 1] \o seqs[i]
    <3>1. CASE i = m
      <4>1. i - 1 = k /\ i - 1 \in 0..m /\ i - 1 # m
        BY <3>1
      <4>2. h[i] = g[k] \o seqs[m] /\ h[i - 1] = g[k]
        BY <3>1, <4>1
      <4> QED
        BY <3>1, <4>2
    <3>2. CASE i # m
      <4>1. i \in 1..k /\ i - 1 \in 0..m /\ i - 1 # m
        BY <3>2
      <4>2. h[i] = g[i] /\ h[i - 1] = g[i - 1]
        BY <3>2, <4>1
      <4> QED
        BY <2>2, <4>1, <4>2
    <3> QED
      BY <3>1, <3>2
  <2> HIDE DEF h
  <2> QED
    BY <2>5, <2>6, <2>7 DEF P
<1> HIDE DEF T
<1>4. Nat \subseteq T
  BY <1>2, <1>3, InductionOnNat
<1>5. P(n)
  BY <1>1, <1>4 DEF T
<1> QED
  BY <1>5 DEF P, IsFlattening

LEMMA FlattenType ==
  ASSUME NEW S, NEW seqs \in Seq(Seq(S))
  PROVE  FlattenSeq(seqs) \in Seq(S)
<1>1. PICK g \in [0..Len(seqs) -> Seq(S)] : IsFlattening(g, seqs)
  BY FlatteningExists
<1>2. FlattenSeq(seqs) = g[Len(seqs)]
  BY <1>1, FlattenIs
<1>3. Len(seqs) \in 0..Len(seqs)
  BY LenProperties
<1> QED
  BY <1>1, <1>2, <1>3

(* One more sequence is appended to what the others make.                  *)
LEMMA FlattenAppend ==
  ASSUME NEW S, NEW seqs \in Seq(Seq(S)), NEW x \in Seq(S)
  PROVE  FlattenSeq(Append(seqs, x)) = FlattenSeq(seqs) \o x
<1> DEFINE more == Append(seqs, x)
           n == Len(seqs)
<1>1. PICK g \in [0..n -> Seq(S)] : IsFlattening(g, seqs)
  BY FlatteningExists
<1>2. FlattenSeq(seqs) = g[n]
  BY <1>1, FlattenIs
<1>3. /\ n \in Nat /\ more \in Seq(Seq(S)) /\ Len(more) = n + 1
      /\ \A i \in 1..n : more[i] = seqs[i]
      /\ more[n + 1] = x
  BY AppendProperties, LenProperties
<1> DEFINE h == [i \in 0..(n + 1) |-> IF i = n + 1 THEN g[n] \o x ELSE g[i]]
<1> HIDE DEF more
<1>4. IsFlattening(h, more)
  <2>1. h[0] = << >>
    BY <1>1, <1>3 DEF IsFlattening
  <2>2. ASSUME NEW i \in 1..(n + 1)
        PROVE  h[i] = h[i - 1] \o more[i]
    <3>1. CASE i = n + 1
      <4>1. i - 1 = n /\ n \in 0..(n + 1) /\ n # n + 1 /\ i \in 0..(n + 1)
        BY <1>3, <3>1
      <4>2. h[i] = g[n] \o x /\ h[i - 1] = g[n]
        BY <3>1, <4>1
      <4> QED
        BY <1>3, <3>1, <4>2
    <3>2. CASE i # n + 1
      <4>1. i \in 1..n /\ i - 1 \in 0..(n + 1) /\ i - 1 # n + 1
        BY <1>3, <3>2
      <4>2. h[i] = g[i] /\ h[i - 1] = g[i - 1] /\ more[i] = seqs[i]
        BY <1>3, <3>2, <4>1
      <4> QED
        BY <1>1, <4>1, <4>2 DEF IsFlattening
    <3> QED
      BY <3>1, <3>2
  <2> QED
    BY <1>3, <2>1, <2>2 DEF IsFlattening
<1>5. FlattenSeq(more) = h[n + 1]
  BY <1>3, <1>4, FlattenIs
<1>6. h[n + 1] = g[n] \o x
  BY <1>3
<1> QED
  BY <1>2, <1>5, <1>6 DEF more

(* The tail of a sequence that one element was put before.                 *)
LEMMA TailOfConcat ==
  ASSUME NEW x, NEW s, \E S : s \in Seq(S)
  PROVE  /\ Tail(<<x>> \o s) = s
         /\ (<<x>> \o s)[1] = x
         /\ Len(<<x>> \o s) = 1 + Len(s)
         /\ \A i \in DOMAIN s : (<<x>> \o s)[1 + i] = s[i]
<1>1. PICK S : s \in Seq(S)
  OBVIOUS
<1> DEFINE T == S \cup {x}
           c == <<x>> \o s
<1>2. s \in Seq(T) /\ <<x>> \in Seq(T)
  BY <1>1, SMT
<1>3. /\ c \in Seq(T) /\ Len(c) = 1 + Len(s) /\ Len(s) \in Nat
      /\ \A i \in 1..Len(c) : c[i] = IF i <= 1 THEN x ELSE s[i - 1]
  BY <1>2, ConcatProperties, LenProperties
<1>4. Tail(c) \in Seq(T) /\ Len(Tail(c)) = Len(s) /\ \A i \in 1..Len(s) : Tail(c)[i] = s[i]
  <2>1. c # << >>
    BY <1>3
  <2>2. /\ Tail(c) \in Seq(T) /\ Len(Tail(c)) = Len(c) - 1
        /\ \A i \in 1..Len(Tail(c)) : Tail(c)[i] = c[i + 1]
    BY <1>3, <2>1, HeadTailProperties
  <2> QED
    BY <1>3, <2>2
<1>5. Tail(c) = s
  BY <1>2, <1>4, SeqEqual
<1> HIDE DEF c
<1>6. DOMAIN s = 1..Len(s)
  BY <1>1, LenProperties
<1>7. \A i \in 1..Len(s) : c[1 + i] = s[i]
  BY <1>3
<1> QED
  BY <1>3, <1>5, <1>6, <1>7 DEF c

-------------------------------------------------------------------------------
(* Headers.                                                                *)

LEMMA FirstOfOne ==
  \A h, a, d :
    /\ a \in h => FirstOf(h, <<a>>, d) = a
    /\ a \notin h => FirstOf(h, <<a>>, d) = d
<1> TAKE h, a, d
<1> DEFINE names == <<a>>
           present == {i \in DOMAIN names : names[i] \in h}
<1>1. DOMAIN names = {1} /\ names[1] = a
  OBVIOUS
<1>2. FirstOf(h, names, d) =
        IF present = {} THEN d ELSE names[CHOOSE i \in present : \A j \in present : i <= j]
  BY DEF FirstOf
<1>3. CASE a \in h
  <2>1. present = {1}
    BY <1>1, <1>3
  <2>2. (CHOOSE i \in present : \A j \in present : i <= j) = 1
    BY <2>1
  <2> QED
    BY <1>1, <1>2, <1>3, <2>1, <2>2
<1>4. CASE a \notin h
  BY <1>1, <1>2, <1>4
<1> QED
  BY <1>3, <1>4

LEMMA FirstOfTwo ==
  \A h, a, b, d :
    /\ a \in h => FirstOf(h, <<a, b>>, d) = a
    /\ a \notin h /\ b \in h => FirstOf(h, <<a, b>>, d) = b
    /\ a \notin h /\ b \notin h => FirstOf(h, <<a, b>>, d) = d
<1> TAKE h, a, b, d
<1> DEFINE names == <<a, b>>
           present == {i \in DOMAIN names : names[i] \in h}
           first == CHOOSE i \in present : \A j \in present : i <= j
<1>1. DOMAIN names = {1, 2} /\ names[1] = a /\ names[2] = b
  OBVIOUS
<1>2. FirstOf(h, names, d) = IF present = {} THEN d ELSE names[first]
  BY DEF FirstOf
<1>3. CASE a \in h
  <2>1. 1 \in present /\ \A j \in present : 1 <= j
    BY <1>1, <1>3
  <2>2. \A i \in present : (\A j \in present : i <= j) => i = 1
    BY <1>1, <2>1
  <2>3. first = 1
    BY <2>1, <2>2
  <2> QED
    BY <1>1, <1>2, <1>3, <2>1, <2>3
<1>4. CASE a \notin h /\ b \in h
  <2>1. present = {2}
    BY <1>1, <1>4
  <2>2. first = 2
    BY <2>1
  <2> QED
    BY <1>1, <1>2, <1>4, <2>1, <2>2
<1>5. CASE a \notin h /\ b \notin h
  BY <1>1, <1>2, <1>5
<1> QED
  BY <1>3, <1>4, <1>5

Private == {"X-Audit-User", "X-Audit-Team", "X-Audit-Project", "X-Audit-Branch",
            "X-Audit-Session-ID", "X-Audit-Agent"}

(* The identity that headers h give, in a row or in meta.                  *)
IdentityOf(h, m) ==
  /\ Private \cap {m.user, m.team, m.project, m.branch, m.session, m.agent} = Private \cap h
  /\ m.session = "X-Session-ID" <=> "X-Session-ID" \in h /\ "X-Audit-Session-ID" \notin h
  /\ m.agent = "User-Agent" <=> "User-Agent" \in h /\ "X-Audit-Agent" \notin h

(* What the rows take from the headers.                                    *)
LEMMA MetaIdentity ==
  \A h, path :
    /\ IdentityOf(h, MetaOf(h, path))
    /\ MetaOf(h, path).group # "" <=> "AI-Resource-Group" \in h
    /\ DOMAIN MetaOf(h, path) = DOMAIN NoMeta
<1> TAKE h, path
<1> DEFINE m == MetaOf(h, path)
<1> DEFINE fields == {m.user, m.team, m.project, m.branch, m.session, m.agent}
<1>1. /\ m.session = FirstOf(h, <<"X-Audit-Session-ID", "X-Session-ID">>, "new uuid")
      /\ m.agent = FirstOf(h, <<"X-Audit-Agent", "User-Agent">>, "unknown")
      /\ m.project = FirstOf(h, <<"X-Audit-Project">>, "AUDIT_PROJECT")
      /\ m.branch = FirstOf(h, <<"X-Audit-Branch">>, "AUDIT_BRANCH")
      /\ m.user = Get(h, "X-Audit-User")
      /\ m.team = Get(h, "X-Audit-Team")
      /\ m.group = Get(h, "AI-Resource-Group")
  BY DEF MetaOf
<1>2. DOMAIN m = DOMAIN NoMeta
  BY DEF MetaOf, NoMeta
<1> HIDE DEF m
<1>3. /\ "X-Audit-Session-ID" \in h => m.session = "X-Audit-Session-ID"
      /\ "X-Audit-Session-ID" \notin h /\ "X-Session-ID" \in h => m.session = "X-Session-ID"
      /\ "X-Audit-Session-ID" \notin h /\ "X-Session-ID" \notin h => m.session = "new uuid"
  <2>1. LET first == FirstOf(h, <<"X-Audit-Session-ID", "X-Session-ID">>, "new uuid")
        IN  /\ "X-Audit-Session-ID" \in h => first = "X-Audit-Session-ID"
            /\ "X-Audit-Session-ID" \notin h /\ "X-Session-ID" \in h => first = "X-Session-ID"
            /\ "X-Audit-Session-ID" \notin h /\ "X-Session-ID" \notin h => first = "new uuid"
    BY ONLY FirstOfTwo, Zenon
  <2> QED
    BY ONLY <1>1, <2>1
<1>4. /\ "X-Audit-Agent" \in h => m.agent = "X-Audit-Agent"
      /\ "X-Audit-Agent" \notin h /\ "User-Agent" \in h => m.agent = "User-Agent"
      /\ "X-Audit-Agent" \notin h /\ "User-Agent" \notin h => m.agent = "unknown"
  <2>1. LET first == FirstOf(h, <<"X-Audit-Agent", "User-Agent">>, "unknown")
        IN  /\ "X-Audit-Agent" \in h => first = "X-Audit-Agent"
            /\ "X-Audit-Agent" \notin h /\ "User-Agent" \in h => first = "User-Agent"
            /\ "X-Audit-Agent" \notin h /\ "User-Agent" \notin h => first = "unknown"
    BY ONLY FirstOfTwo, Zenon
  <2> QED
    BY ONLY <1>1, <2>1
<1>5. /\ "X-Audit-Project" \in h => m.project = "X-Audit-Project"
      /\ "X-Audit-Project" \notin h => m.project = "AUDIT_PROJECT"
      /\ "X-Audit-Branch" \in h => m.branch = "X-Audit-Branch"
      /\ "X-Audit-Branch" \notin h => m.branch = "AUDIT_BRANCH"
  BY <1>1, FirstOfOne, Zenon
<1>6. /\ m.user = IF "X-Audit-User" \in h THEN "X-Audit-User" ELSE ""
      /\ m.team = IF "X-Audit-Team" \in h THEN "X-Audit-Team" ELSE ""
      /\ m.group = IF "AI-Resource-Group" \in h THEN "AI-Resource-Group" ELSE ""
  BY <1>1 DEF Get
<1>7. \A x \in Private : x \in fields <=> x \in h
  BY ONLY <1>3, <1>4, <1>5, <1>6 DEF Private
<1>8. /\ m.session = "X-Session-ID" <=> "X-Session-ID" \in h /\ "X-Audit-Session-ID" \notin h
      /\ m.agent = "User-Agent" <=> "User-Agent" \in h /\ "X-Audit-Agent" \notin h
      /\ m.group # "" <=> "AI-Resource-Group" \in h
  BY ONLY <1>3, <1>4, <1>6
<1> QED
  BY <1>2, <1>7, <1>8 DEF IdentityOf, m

-------------------------------------------------------------------------------
(* The invariant: at every place of the turn, all of its state is what the *)
(* configuration, the request and the answer make of it.                   *)

Stages == {"idle", "arrived", "directed", "sent", "recorded"}

(* After the director.                                                     *)
Directed ==
  LET up  == DetectUpstream(cfg, request.host, request.path)
      out == RewriteRequest(request.path, up)
  IN  /\ upstream = up.name
      /\ meta = MetaOf(request.headers, out.path)
      /\ forwarded = [host |-> out.host, path |-> out.path,
                      headers |-> IF pc = "directed" THEN request.headers
                                  ELSE request.headers \ internalHeaders]

Routed ==
  /\ pc = "idle" => request = Nothing
  /\ pc # "idle" => request \in Requests
  /\ pc \in {"idle", "arrived"} => upstream = "" /\ meta = NoMeta /\ forwarded = Nothing
  /\ pc \in {"directed", "sent", "recorded"} => Directed
  /\ pc \in {"idle", "arrived", "directed"} => answer = NoAnswer
  /\ pc \in {"sent", "recorded"} => answer \in Answers

Written ==
  /\ pc \in {"idle", "arrived", "directed"} => events = << >> /\ unprocessed = << >>
  /\ pc = "sent" => events = << BareRow("request") >> /\ unprocessed = << >>
  /\ pc = "recorded" =>
       IF Meaningful(Parsed)
         THEN events = << BareRow("request") >> \o ResponseRows(Parsed) /\ unprocessed = << >>
         ELSE events = << BareRow("request") >> /\ unprocessed = << BareRow("response") >>

Inv == cfg \in Configs /\ pc \in Stages /\ Routed /\ Written

(* The rows depend on what the director and the upstream left.             *)
LEMMA SameRows ==
  ASSUME UNCHANGED <<upstream, meta, answer>>
  PROVE  /\ Parsed' = Parsed
         /\ BareRow("request")' = BareRow("request")
         /\ BareRow("response")' = BareRow("response")
         /\ ResponseRows(Parsed)' = ResponseRows(Parsed)
<1>1. Parsed' = Parsed
  BY DEF Parsed, ParseSAPAICore
<1>2. \A d, m, t, g : Row(d, m, t, g)' = Row(d, m, t, g)
  BY DEF Row
<1>3. ResponseRows(Parsed)' = ResponseRows(Parsed)
  BY <1>1, <1>2 DEF ResponseRows
<1> QED
  BY <1>1, <1>2, <1>3 DEF BareRow

LEMMA InvNext == Inv /\ [Next]_vars => Inv'
<1> SUFFICES ASSUME Inv, [Next]_vars
             PROVE  Inv'
  OBVIOUS
<1>1. CASE Arrive
  <2>1. cfg' \in Configs /\ pc' \in Stages
    BY <1>1 DEF Inv, Arrive, Stages
  <2>2. Routed'
    BY <1>1 DEF Inv, Arrive, Routed
  <2>3. Written'
    BY <1>1 DEF Inv, Arrive, Written
  <2> QED
    BY <2>1, <2>2, <2>3 DEF Inv
<1>2. CASE director
  <2>1. cfg' \in Configs /\ pc' \in Stages
    BY <1>2 DEF Inv, director, Stages
  <2>2. Directed'
    BY <1>2 DEF Inv, director, Directed
  <2>3. Routed'
    BY <1>2, <2>2 DEF Inv, director, Routed
  <2>4. Written'
    BY <1>2 DEF Inv, director, Written
  <2> QED
    BY <2>1, <2>3, <2>4 DEF Inv
<1>3. CASE Forward
  <2>1. cfg' \in Configs /\ pc' \in Stages
    BY <1>3 DEF Inv, Forward, Stages
  <2>2. Directed /\ pc = "directed" /\ pc' = "sent"
    BY <1>3 DEF Inv, Forward, Routed
  <2>3. Directed'
    BY <1>3, <2>2 DEF Forward, Directed
  <2>4. Routed'
    BY <1>3, <2>2, <2>3 DEF Inv, Forward, Routed
  <2>5. events' = << BareRow("request") >> /\ unprocessed' = << >>
    BY <1>3 DEF Inv, Forward, Written
  <2>6. BareRow("request")' = BareRow("request")
    BY <1>3 DEF Forward, BareRow, Row
  <2>7. Written'
    BY <2>2, <2>5, <2>6 DEF Written
  <2> QED
    BY <2>1, <2>4, <2>7 DEF Inv
<1>4. CASE Record
  <2>1. cfg' \in Configs /\ pc' \in Stages
    BY <1>4 DEF Inv, Record, Stages
  <2>2. Directed /\ pc = "sent" /\ pc' = "recorded"
    BY <1>4 DEF Inv, Record, Routed
  <2>3. Directed'
    BY <1>4, <2>2 DEF Record, Directed
  <2>4. Routed'
    BY <1>4, <2>2, <2>3 DEF Inv, Record, Routed
  <2>5. IF Meaningful(Parsed)
          THEN events' = << BareRow("request") >> \o ResponseRows(Parsed) /\ unprocessed' = << >>
          ELSE events' = << BareRow("request") >> /\ unprocessed' = << BareRow("response") >>
    BY <1>4 DEF Inv, Record, Written
  <2>6. /\ Parsed' = Parsed
        /\ BareRow("request")' = BareRow("request")
        /\ BareRow("response")' = BareRow("response")
        /\ ResponseRows(Parsed)' = ResponseRows(Parsed)
    BY <1>4, SameRows DEF Record
  <2>7. Written'
    BY <2>2, <2>5, <2>6 DEF Written
  <2> QED
    BY <2>1, <2>4, <2>7 DEF Inv
<1>5. CASE UNCHANGED vars
  <2>1. UNCHANGED <<cfg, pc, request, upstream, meta, forwarded, answer, events, unprocessed>>
    BY <1>5 DEF vars, turn
  <2>2. Routed'
    BY <2>1 DEF Inv, Routed, Directed
  <2>3. Written'
    BY <2>1, SameRows DEF Inv, Written
  <2> QED
    BY <2>1, <2>2, <2>3 DEF Inv
<1> QED
  BY <1>1, <1>2, <1>3, <1>4, <1>5 DEF Next

LEMMA InvInit == Init => Inv
BY DEF Init, Inv, Stages, Routed, Written

LEMMA InvHolds == Spec => []Inv
BY InvInit, InvNext, PTL DEF Spec
-------------------------------------------------------------------------------
(* Types.                                                                  *)

Path == Seq(STRING)

IsAnswer(a) ==
  /\ a = Answer(a.parses, a.model, a.text, a.tools)
  /\ a.parses \in BOOLEAN /\ a.text \in BOOLEAN /\ a.tools \in Seq(STRING)

LEMMA RewrittenPath ==
  ASSUME NEW path \in Path, NEW up
  PROVE  RewriteRequest(path, up).path \in Path
BY HeadTailProperties DEF RewriteRequest, Path

LEMMA ToStage ==
  Inv /\ pc \in {"directed", "sent", "recorded"} =>
    /\ request \in [host : STRING, path : Path, headers : SUBSET STRING]
    /\ meta = MetaOf(request.headers, forwarded.path)
    /\ forwarded.path = RewriteRequest(request.path, DetectUpstream(cfg, request.host, request.path)).path
    /\ forwarded.path \in Path
    /\ meta.path = forwarded.path
    /\ forwarded.headers = IF pc = "directed" THEN request.headers
                           ELSE request.headers \ internalHeaders
    /\ upstream = DetectUpstream(cfg, request.host, request.path).name
<1> SUFFICES ASSUME Inv, pc \in {"directed", "sent", "recorded"}
             PROVE  /\ request \in [host : STRING, path : Path, headers : SUBSET STRING]
                    /\ meta = MetaOf(request.headers, forwarded.path)
                    /\ forwarded.path =
                         RewriteRequest(request.path,
                                        DetectUpstream(cfg, request.host, request.path)).path
                    /\ forwarded.path \in Path
                    /\ meta.path = forwarded.path
                    /\ forwarded.headers = IF pc = "directed" THEN request.headers
                                           ELSE request.headers \ internalHeaders
                    /\ upstream = DetectUpstream(cfg, request.host, request.path).name
  OBVIOUS
<1>1. Directed /\ request \in Requests
  BY DEF Inv, Routed
<1>2. request \in [host : STRING, path : Path, headers : SUBSET STRING]
  BY <1>1, InputsAssumption DEF Path
<1>3. request.path \in Path
  BY <1>2
<1>4. forwarded.path \in Path
  BY <1>1, <1>3, RewrittenPath DEF Directed
<1>5. meta = MetaOf(request.headers, forwarded.path)
  BY <1>1 DEF Directed
<1>6. meta.path = forwarded.path
  BY <1>5 DEF MetaOf
<1> QED
  BY <1>1, <1>2, <1>4, <1>5, <1>6 DEF Directed

(* The deployment is the leftmost one.                                     *)
LEMMA DeploymentIDLeftmost ==
  ASSUME NEW path \in Path
  PROVE  /\ DeploymentID(path) = "" <=> Deployments(path) = {}
         /\ \A i \in Deployments(path) :
              (\A j \in 1..(i - 1) : j \notin Deployments(path)) =>
                DeploymentID(path) = path[i + 1]
<1> DEFINE D == Deployments(path)
<1>0. path \in Seq(STRING)
  BY DEF Path
<1>1. Len(path) \in Nat /\ \A i \in 1..Len(path) : path[i] \in STRING
  BY <1>0
<1>4. \A i \in D : i \in 1..(Len(path) - 2) /\ path[i + 1] # ""
  BY DEF Deployments
<1>5. \A i \in D : i \in Nat /\ i >= 1 /\ path[i + 1] \in STRING
  <2> TAKE i \in D
  <2>1. i \in 1..(Len(path) - 2)
    BY <1>4
  <2>2. i + 1 \in 1..Len(path) /\ i \in Nat /\ i >= 1
    BY <1>1, <2>1
  <2> QED
    BY <1>1, <2>2
<1>2. CASE D = {}
  <2>1. DeploymentID(path) = ""
    BY <1>2 DEF DeploymentID
  <2> QED
    BY <1>2, <2>1
<1>3. CASE D # {}
  <2>1. PICK m \in D : \A j \in D : m <= j
    BY <1>5, <1>3, LeastNatural
  <2>2. \A i \in D : (\A j \in D : i <= j) => i = m
    <3> HIDE DEF D
    <3> QED
      BY <1>5, <2>1
  <2> HIDE DEF D
  <2>3. (CHOOSE i \in D : \A j \in D : i <= j) = m
    BY <2>1, <2>2
  <2>4. DeploymentID(path) = path[m + 1]
    <3>1. DeploymentID(path) = path[1 + m]
      BY <1>3, <2>3 DEF DeploymentID, D
    <3> QED
      BY <1>5, <2>1, <3>1
  <2>5. \A i \in D : (\A j \in 1..(i - 1) : j \notin D) => i = m
    BY <1>5, <2>1
  <2> QED
    BY <1>3, <1>4, <1>5, <2>1, <2>4, <2>5 DEF D
<1> QED
  BY <1>2, <1>3
LEMMA ParsedType ==
  Inv /\ pc \in {"sent", "recorded"} => IsAnswer(answer) /\ IsAnswer(Parsed)
<1> SUFFICES ASSUME Inv, pc \in {"sent", "recorded"}
             PROVE  IsAnswer(answer) /\ IsAnswer(Parsed)
  OBVIOUS
<1>1. IsAnswer(answer)
  BY InputsAssumption DEF Inv, Routed, IsAnswer, Answer
<1>2. IsAnswer(NoAnswer)
  BY EmptySeq DEF NoAnswer, Answer, IsAnswer
<1>3. IsAnswer(ParseSAPAICore)
  <2> DEFINE id == DeploymentID(meta.path)
  <2>1. IsAnswer(Answer(TRUE, id, FALSE, << >>))
    BY EmptySeq DEF Answer, IsAnswer
  <2>2. [answer EXCEPT !.model = id] = Answer(answer.parses, id, answer.text, answer.tools)
    BY <1>1 DEF IsAnswer, Answer
  <2>3. IsAnswer([answer EXCEPT !.model = id])
    BY <1>1, <2>2 DEF IsAnswer, Answer
  <2> QED
    BY <1>1, <2>1, <2>3, Zenon DEF ParseSAPAICore
<1> QED
  BY <1>1, <1>2, <1>3 DEF Parsed

GroupOf == IF upstream = "sap-ai-core" THEN meta.group ELSE ""

LEMMA ResponseRowsShape ==
  ASSUME NEW a, IsAnswer(a)
  PROVE  LET rows == ResponseRows(a)
         IN  /\ Len(rows) = IF a.tools = << >> THEN 1 ELSE Len(a.tools)
             /\ DOMAIN rows = 1..Len(rows)
             /\ Len(rows) \in Nat \ {0}
             /\ \A i \in DOMAIN rows :
                  rows[i] = Row("response", a.model,
                                IF a.tools = << >> THEN "" ELSE a.tools[i], GroupOf)
             /\ rows \in Seq(Range(rows))
<1> DEFINE rows == ResponseRows(a)
           row(tool) == Row("response", a.model, tool, GroupOf)
<1>1. a.tools \in Seq(STRING)
  BY DEF IsAnswer
<1>2. rows = IF a.tools = << >> THEN << row("") >>
             ELSE [i \in DOMAIN a.tools |-> row(a.tools[i])]
  BY DEF ResponseRows, GroupOf
<1> HIDE DEF row, rows
<1>3. CASE a.tools = << >>
  <2>1. rows = << row("") >>
    BY <1>2, <1>3
  <2> DEFINE r == row("")
  <2> HIDE DEF r
  <2>2. rows = << r >>
    BY <2>1 DEF r
  <2>3. /\ Len(rows) = 1 /\ DOMAIN rows = {1} /\ rows[1] = r /\ 1..1 = {1}
        /\ rows \in Seq({r})
    BY <2>2
  <2>5. rows \in Seq(Range(rows))
    BY <2>3, SeqOfRange
  <2>4. \A i \in DOMAIN rows : rows[i] = row(IF a.tools = << >> THEN "" ELSE a.tools[i])
    BY <1>3, <2>3 DEF r
  <2>6. /\ Len(rows) = (IF a.tools = << >> THEN 1 ELSE Len(a.tools))
        /\ DOMAIN rows = 1..Len(rows) /\ Len(rows) \in Nat \ {0}
    BY <1>3, <2>3
  <2> QED
    BY ONLY <2>4, <2>5, <2>6 DEF rows, row
<1>4. CASE a.tools # << >>
  <2>1. DOMAIN a.tools = 1..Len(a.tools) /\ Len(a.tools) \in Nat \ {0}
    BY <1>1, <1>4, LenProperties, EmptySeq
  <2>2. rows = [i \in 1..Len(a.tools) |-> row(a.tools[i])]
    BY <1>2, <1>4, <2>1
  <2>3. /\ Len(rows) = Len(a.tools) /\ DOMAIN rows = 1..Len(a.tools)
        /\ rows \in Seq(Range(rows))
    BY <2>1, <2>2 DEF Range
  <2>4. \A i \in DOMAIN rows : rows[i] = row(IF a.tools = << >> THEN "" ELSE a.tools[i])
    BY <1>4, <2>2, <2>3
  <2> QED
    BY <1>4, <2>1, <2>3, <2>4 DEF rows, row
<1> QED
  BY <1>3, <1>4

(* The rows of the turn: the request's, and those of the response.         *)
LEMMA EventsShape ==
  Inv /\ pc \in {"sent", "recorded"} =>
    /\ events = << BareRow("request") >> \o Responses
    /\ Responses = IF pc = "recorded" /\ Meaningful(Parsed) THEN ResponseRows(Parsed) ELSE << >>
    /\ Responses \in Seq(Range(Responses))
    /\ DOMAIN events = 1..(1 + Len(Responses))
    /\ Len(Responses) \in Nat
    /\ events[1] = BareRow("request")
    /\ \A i \in DOMAIN Responses : events[1 + i] = Responses[i]
<1> SUFFICES ASSUME Inv, pc \in {"sent", "recorded"}
             PROVE  /\ events = << BareRow("request") >> \o Responses
                    /\ Responses = IF pc = "recorded" /\ Meaningful(Parsed)
                                     THEN ResponseRows(Parsed) ELSE << >>
                    /\ Responses \in Seq(Range(Responses))
                    /\ DOMAIN events = 1..(1 + Len(Responses))
                    /\ Len(Responses) \in Nat
                    /\ events[1] = BareRow("request")
                    /\ \A i \in DOMAIN Responses : events[1 + i] = Responses[i]
  OBVIOUS
<1> DEFINE first == BareRow("request")
           s == IF pc = "recorded" /\ Meaningful(Parsed) THEN ResponseRows(Parsed) ELSE << >>
<1> HIDE DEF first
<1>1. s \in Seq(Range(s))
  <2>1. CASE pc = "recorded" /\ Meaningful(Parsed)
    BY <2>1, ParsedType, ResponseRowsShape
  <2>2. CASE ~(pc = "recorded" /\ Meaningful(Parsed))
    BY <2>2, EmptySeq
  <2> QED
    BY <2>1, <2>2
<1>2. events = << first >> \o s
  <2>1. CASE pc = "recorded" /\ Meaningful(Parsed)
    BY <2>1 DEF Inv, Written, first
  <2>2. CASE ~(pc = "recorded" /\ Meaningful(Parsed))
    <3>1. events = << first >>
      BY <2>2 DEF Inv, Written, first
    <3>2. << first >> \in Seq({first})
      OBVIOUS
    <3>3. << first >> \o << >> = << first >>
      BY <3>2, ConcatEmptySeq
    <3> QED
      BY <2>2, <3>1, <3>3
  <2> QED
    BY <2>1, <2>2
<1> HIDE DEF s
<1>3. /\ Tail(events) = s /\ events[1] = first
      /\ \A i \in DOMAIN s : events[1 + i] = s[i]
      /\ Len(events) = 1 + Len(s)
  BY <1>1, <1>2, TailOfConcat
<1>4. Len(s) \in Nat
  BY <1>1, LenProperties
<1>5. DOMAIN events = 1..(1 + Len(s))
  <2> DEFINE T == Range(s) \cup {first}
  <2>1. s \in Seq(T) /\ << first >> \in Seq(T)
    BY <1>1
  <2>2. events \in Seq(T)
    BY <1>2, <2>1, ConcatProperties
  <2> QED
    BY <1>3, <2>2, LenProperties
<1> QED
  BY <1>1, <1>2, <1>3, <1>4, <1>5 DEF Responses, s, first

(* A row carries the turn's identity.                                      *)
IsRow(row) ==
  /\ row.session = meta.session /\ row.agent = meta.agent
  /\ row.project = meta.project /\ row.branch = meta.branch
  /\ row.user = meta.user /\ row.team = meta.team

LEMMA RowIsRow == \A d, m, t, g : IsRow(Row(d, m, t, g))
BY DEF Row, IsRow

LEMMA RowFields ==
  /\ \A m, t, g : LET row == Row("response", m, t, g)
                 IN  row.direction = "response" /\ row.model = m /\ row.tool = t /\ row.group = g
  /\ BareRow("request").direction = "request"
BY DEF Row, BareRow

LEMMA RowsAreRows ==
  Inv => /\ Len(unprocessed) \in {0, 1}
         /\ \A row \in Range(Rows) :
              /\ pc \in {"sent", "recorded"}
              /\ row.direction \in {"request", "response"}
              /\ IsRow(row)
<1> SUFFICES ASSUME Inv
             PROVE  /\ Len(unprocessed) \in {0, 1}
                    /\ \A row \in Range(Rows) :
                         /\ pc \in {"sent", "recorded"}
                         /\ row.direction \in {"request", "response"}
                         /\ IsRow(row)
  OBVIOUS
<1> DEFINE Good(row) == row.direction \in {"request", "response"} /\ IsRow(row)
<1>1. /\ \A m, t, g : Good(Row("response", m, t, g))
      /\ Good(BareRow("request")) /\ Good(BareRow("response"))
  BY RowIsRow DEF Row, BareRow
<1>2. CASE pc \in {"idle", "arrived", "directed"}
  <2>1. events = << >> /\ unprocessed = << >>
    BY <1>2 DEF Inv, Written
  <2>2. Rows = << >>
    BY <2>1 DEF Rows
  <2> QED
    BY <2>1, <2>2 DEF Range
<1>3. CASE pc \in {"sent", "recorded"}
  <2> HIDE DEF Good
  <2>1. \A i \in DOMAIN Responses : Good(Responses[i])
    <3>1. CASE pc = "recorded" /\ Meaningful(Parsed)
      <4>1. Responses = ResponseRows(Parsed) /\ IsAnswer(Parsed)
        BY <3>1, EventsShape, ParsedType
      <4>2. \A i \in DOMAIN Responses :
              Responses[i] = Row("response", Parsed.model,
                                 IF Parsed.tools = << >> THEN "" ELSE Parsed.tools[i], GroupOf)
        BY <4>1, ResponseRowsShape
      <4> QED
        BY <1>1, <4>2, Zenon
    <3>2. CASE ~(pc = "recorded" /\ Meaningful(Parsed))
      BY <1>3, <3>2, EventsShape
    <3> QED
      BY <3>1, <3>2
  <2>2. \A i \in DOMAIN events : Good(events[i])
    <3> TAKE i \in DOMAIN events
    <3>1. i \in 1..(1 + Len(Responses)) /\ Len(Responses) \in Nat
      BY <1>3, EventsShape
    <3>2. CASE i = 1
      BY <1>1, <1>3, <3>2, EventsShape
    <3>3. CASE i # 1
      <4> DEFINE k == i - 1
      <4>1. k \in 1..Len(Responses) /\ i = 1 + k
        BY <3>1, <3>3
      <4>2. DOMAIN Responses = 1..Len(Responses)
        BY <1>3, EventsShape, LenProperties
      <4>3. events[1 + k] = Responses[k]
        BY <1>3, <4>1, <4>2, EventsShape
      <4> QED
        BY <2>1, <4>1, <4>2, <4>3
    <3> QED
      BY <3>2, <3>3
  <2>3. unprocessed = << >> \/ unprocessed = << BareRow("response") >>
    BY <1>3 DEF Inv, Written
  <2>4. Len(unprocessed) \in {0, 1} /\ \A i \in DOMAIN unprocessed : Good(unprocessed[i])
    <3> DEFINE r == BareRow("response")
    <3>1. Good(r)
      BY <1>1
    <3> HIDE DEF r
    <3>2. unprocessed = << >> \/ unprocessed = << r >>
      BY <2>3 DEF r
    <3> QED
      BY <3>1, <3>2
  <2>5. \A row \in Range(Rows) : Good(row)
    <3> DEFINE T == Range(events) \cup Range(unprocessed)
    <3>1. events \in Seq(T)
      <4> DEFINE U == Range(Responses) \cup {BareRow("request")}
      <4>1. << BareRow("request") >> \in Seq(U) /\ Responses \in Seq(U)
        BY <1>3, EventsShape
      <4>2. events \in Seq(U)
        <5> DEFINE r == << BareRow("request") >>
                   a == Responses
        <5>1. r \in Seq(U) /\ a \in Seq(U) /\ events = r \o a
          BY <1>3, <4>1, EventsShape
        <5> HIDE DEF r, a, U
        <5>2. r \o a \in Seq(U)
          BY <5>1, ConcatProperties
        <5> QED
          BY <5>1, <5>2
      <4>3. events \in Seq(Range(events))
        BY <4>2, SeqOfRange
      <4> QED
        BY <4>3
    <3>2. unprocessed \in Seq(T)
      <4> DEFINE r == BareRow("response")
      <4> HIDE DEF r
      <4>1. unprocessed = << >> \/ unprocessed = << r >>
        BY <2>3 DEF r
      <4>2. unprocessed \in Seq({r})
        <5>1. << r >> \in Seq({r})
          OBVIOUS
        <5> QED
          BY <4>1, <5>1, EmptySeq
      <4>3. unprocessed \in Seq(Range(unprocessed))
        BY <4>2, SeqOfRange
      <4> QED
        BY <4>3
    <3>3. Range(Rows) = T
      BY <3>1, <3>2, RangeConcatenation DEF Rows
    <3> QED
      BY <2>2, <2>4, <3>3 DEF Range
  <2> QED
    BY <1>3, <2>4, <2>5 DEF Good
<1> QED
  BY <1>2, <1>3 DEF Inv, Stages

-------------------------------------------------------------------------------
(* The properties.                                                         *)

-------------------------------------------------------------------------------
(* The properties.                                                         *)

LEMMA InvIdentityKept == Inv => IdentityKept
<1> SUFFICES ASSUME Inv
             PROVE  IdentityKept
  OBVIOUS
<1> DEFINE h == request.headers
<1>1. ASSUME NEW row \in Range(Rows)
      PROVE  IdentityOf(h, row)
  <2>1. IsRow(row) /\ pc \in {"sent", "recorded"}
    BY RowsAreRows
  <2>2. meta = MetaOf(h, forwarded.path)
    BY <2>1, ToStage
  <2>3. IdentityOf(h, meta)
    BY <2>2, MetaIdentity
  <2> QED
    BY <2>1, <2>3 DEF IsRow, IdentityOf
<1>2. Recorded =>
        h \ forwarded.headers = h \cap (Private \cup {"X-Session-ID", "Accept-Encoding"})
  <2> SUFFICES ASSUME pc = "recorded"
               PROVE  h \ forwarded.headers =
                      h \cap (Private \cup {"X-Session-ID", "Accept-Encoding"})
    BY DEF Recorded
  <2>1. forwarded.headers = h \ internalHeaders
    BY ToStage
  <2>2. internalHeaders = Private \cup {"X-Session-ID", "Accept-Encoding"}
    BY DEF internalHeaders, Private
  <2> QED
    BY <2>1, <2>2
<1> QED
  BY <1>1, <1>2 DEF IdentityKept, IdentityOf, Private

(* Every row of a turn has the identity its headers give, and no header    *)
(* that gives it goes to the upstream.                                     *)
THEOREM IdentityKeptHolds == Spec => []IdentityKept
BY InvHolds, InvIdentityKept, PTL

-------------------------------------------------------------------------------
LEMMA UnderOne ==
  ASSUME NEW path \in Path, NEW x
  PROVE  Under(path, <<x>>) <=> Len(path) > 1 /\ path[1] = x
<1> DEFINE one == <<x>>
           n == Len(path)
<1>1. n \in Nat /\ path \in Seq(STRING)
  BY LenProperties DEF Path
<1>2. one \in Seq({x}) /\ Len(one) = 1 /\ one[1] = x
  OBVIOUS
<1> HIDE DEF one, n
<1>3. SubSeq(one, 1, Len(one)) = one
  BY <1>2, SubSeqFull
<1>4. CASE n = 0
  <2>1. ~(Len(one) <= n) /\ ~(n > 1)
    BY <1>2, <1>4
  <2> QED
    BY <2>1 DEF Under, IsStrictPrefix, IsPrefix, one, n
<1>5. CASE n >= 1
  <2> DEFINE start == SubSeq(path, 1, 1)
  <2>1. start \in Seq(STRING) /\ Len(start) = 1 /\ start[1] = path[1]
    BY <1>1, <1>5, SubSeqProperties DEF n
  <2> HIDE DEF start
  <2>2. one = start <=> path[1] = x
    <3> DEFINE S == STRING \cup {x}
    <3>1. one \in Seq(S) /\ start \in Seq(S)
      BY <1>2, <2>1, SeqMonotonic
    <3> QED
      BY <1>2, <2>1, <3>1, SeqEqual
  <2>3. IsPrefix(one, path) <=> path[1] = x
    BY <1>2, <1>3, <1>5, <2>2 DEF IsPrefix, start, n
  <2>4. ASSUME path[1] = x
        PROVE  one # path <=> n > 1
    <3>1. CASE n = 1
      <4>1. start = path
        BY <1>1, <3>1, SubSeqFull DEF start, n
      <4> QED
        BY <2>2, <2>4, <3>1, <4>1
    <3>2. CASE n # 1
      <4>1. one # path
        BY <1>2, <3>2 DEF n
      <4>2. n > 1
        BY <1>1, <1>5, <3>2
      <4> QED
        BY <4>1, <4>2
    <3> QED
      BY <3>1, <3>2
  <2> QED
    BY <2>3, <2>4 DEF Under, IsStrictPrefix, one, n
<1>6. n = 0 \/ n >= 1
  BY <1>1
<1> QED
  BY <1>4, <1>5, <1>6

LEMMA UnderMessages ==
  ASSUME NEW path \in Path, IsPrefix(<<"v1", "messages">>, path)
  PROVE  path[1] = "v1"
<1>1. Len(path) \in Nat /\ path \in Seq(STRING)
  BY LenProperties DEF Path
<1> DEFINE p == <<"v1", "messages">>
<1>2. Len(p) = 2 /\ p[1] = "v1" /\ SubSeq(p, 1, 2)[1] = p[1]
  OBVIOUS
<1> HIDE DEF p
<1>3. Len(path) >= 2 /\ SubSeq(p, 1, 2) = SubSeq(path, 1, 2)
  BY <1>2 DEF IsPrefix, p
<1>4. SubSeq(path, 1, 2)[1] = path[1]
  BY <1>1, <1>3
<1> QED
  BY <1>2, <1>3, <1>4

(* The path's vendor is that of its local prefix.                          *)
LEMMA PathVendorOfPrefix ==
  ASSUME NEW path \in Path, NEW v \in Vendors, Len(path) > 1, path[1] = v
  PROVE  PathVendor(path) = v
<1>1. \A x : Under(path, <<x>>) <=> x = v
  BY UnderOne
<1>2. ~IsPrefix(<<"v1", "messages">>, path)
  BY UnderMessages DEF Vendors
<1>3. ~IsPrefix(<<"v1", "chat">>, path)
  <2> DEFINE p == <<"v1", "chat">>
  <2>1. Len(p) = 2 /\ p[1] = "v1" /\ SubSeq(p, 1, 2)[1] = p[1]
    OBVIOUS
  <2> HIDE DEF p
  <2>2. SubSeq(path, 1, 2)[1] = path[1]
    BY LenProperties DEF Path
  <2>3. v # "v1"
    BY DEF Vendors
  <2> QED
    BY <2>1, <2>2, <2>3 DEF IsPrefix, p
<1>4. ~Under(path, <<"v1", "chat">>)
  BY <1>3 DEF Under, IsStrictPrefix
<1>5. \A x \in {"anthropic", "openai", "v1beta", "gemini"} : x # v => ~Under(path, <<x>>)
  BY <1>1
<1>6. Under(path, <<v>>)
  BY <1>1
<1>7. CASE v = "anthropic"
  <2>1. /\ Under(path, <<"anthropic">>) /\ ~Under(path, <<"openai">>)
        /\ ~Under(path, <<"v1beta">>) /\ ~Under(path, <<"gemini">>)
    BY <1>5, <1>6, <1>7
  <2> QED
    BY <1>4, <1>7, <2>1 DEF PathVendor
<1>8. CASE v = "openai"
  <2>1. /\ ~Under(path, <<"anthropic">>) /\ Under(path, <<"openai">>)
        /\ ~Under(path, <<"v1beta">>) /\ ~Under(path, <<"gemini">>)
    BY <1>5, <1>6, <1>8
  <2> QED
    BY <1>2, <1>8, <2>1 DEF PathVendor
<1>9. CASE v = "gemini"
  <2>1. /\ ~Under(path, <<"anthropic">>) /\ ~Under(path, <<"openai">>)
        /\ Under(path, <<"gemini">>)
    BY <1>5, <1>6, <1>9
  <2> QED
    BY <1>2, <1>4, <1>9, <2>1 DEF PathVendor
<1> QED
  BY <1>7, <1>8, <1>9 DEF Vendors

LEMMA InvAddressed == Inv => Addressed
<1> SUFFICES ASSUME Inv, pc = "recorded",
                    ~(SAPEnabled(cfg) /\ ContainsAuthHost(cfg, request.host))
             PROVE  LET first == IF Len(request.path) > 1 THEN Head(request.path) ELSE ""
                    IN  /\ request.host \in Vendors => upstream = request.host
                        /\ request.host = "local" /\ first \in Vendors =>
                             upstream = first /\ forwarded.path = Tail(request.path)
  BY DEF Addressed, Recorded
<1> DEFINE host == request.host
           path == request.path
           first == IF Len(path) > 1 THEN Head(path) ELSE ""
<1>1. /\ path \in Path
      /\ upstream = DetectUpstream(cfg, host, path).name
      /\ forwarded.path = RewriteRequest(path, DetectUpstream(cfg, host, path)).path
  BY ToStage
<1> HIDE DEF host, path
<1>2. DetectUpstream(cfg, host, path).name =
        IF host \in Vendors THEN host ELSE PathVendor(path)
  BY DEF DetectUpstream, Upstream, host
<1>3. ASSUME host = "local", first \in Vendors
      PROVE  upstream = first /\ forwarded.path = Tail(path)
  <2>1. Len(path) > 1 /\ first = Head(path)
    BY <1>3 DEF Vendors
  <2>2. path # << >> /\ Head(path) = path[1]
    <3>1. path \in Seq(STRING)
      BY <1>1 DEF Path
    <3>2. Len(<< >>) = 0
      OBVIOUS
    <3>3. path # << >>
      BY <2>1, <3>2
    <3> QED
      BY <3>1, <3>3
  <2>3. PathVendor(path) = first
    BY <1>1, <1>3, <2>1, <2>2, PathVendorOfPrefix
  <2>4. upstream = first
    BY <1>1, <1>2, <1>3, <2>3 DEF Vendors
  <2>5. Head(path) \in LocalPrefixes
    BY <1>3, <2>1 DEF Vendors, LocalPrefixes
  <2>6. forwarded.path = Tail(path)
    BY <1>1, <2>1, <2>2, <2>5 DEF RewriteRequest
  <2> QED
    BY <2>4, <2>6
<1> QED
  BY <1>1, <1>2, <1>3 DEF host, path

(* A vendor's host, and for the proxy's own address a vendor's prefix,     *)
(* decides the upstream of every request.                                  *)
THEOREM AddressedHolds == Spec => []Addressed
BY InvHolds, InvAddressed, PTL

-------------------------------------------------------------------------------
(* No vendor but these.                                                    *)
LEMMA UpstreamName ==
  Inv /\ pc \in {"directed", "sent", "recorded"} =>
    upstream \in Vendors \cup {"sap-ai-core"}
<1> SUFFICES ASSUME Inv, pc \in {"directed", "sent", "recorded"}
             PROVE  upstream \in Vendors \cup {"sap-ai-core"}
  OBVIOUS
<1>1. upstream = DetectUpstream(cfg, request.host, request.path).name
  BY ToStage
<1>2. \A path : PathVendor(path) \in Vendors
  BY DEF PathVendor, Vendors
<1>3. \A name : Upstream(cfg, name).name = name
  BY DEF Upstream
<1> QED
  BY <1>1, <1>2, <1>3 DEF DetectUpstream

LEMMA InvAccounted == Inv => Accounted
<1> SUFFICES ASSUME Inv, pc = "recorded"
             PROVE  Accounted
  BY DEF Accounted, Recorded
<1> DEFINE rows == ResponseRows(Parsed)
<1>0. meta.path \in Path
  BY ToStage
<1>1. /\ IsAnswer(Parsed) /\ IsAnswer(answer)
      /\ upstream \in {"anthropic", "openai", "gemini", "sap-ai-core"}
  BY ParsedType, UpstreamName DEF Vendors
<1>2. /\ Len(rows) \in Nat \ {0} /\ DOMAIN rows = 1..Len(rows)
      /\ \A i \in DOMAIN rows :
           rows[i] = Row("response", Parsed.model,
                         IF Parsed.tools = << >> THEN "" ELSE Parsed.tools[i], GroupOf)
      /\ Len(rows) = IF Parsed.tools = << >> THEN 1 ELSE Len(Parsed.tools)
      /\ rows \in Seq(Range(rows))
  BY <1>1, ResponseRowsShape
<1>3. /\ Responses = IF Meaningful(Parsed) THEN rows ELSE << >>
      /\ DOMAIN events = 1..(1 + Len(Responses))
      /\ Len(Responses) \in Nat
      /\ DOMAIN Responses = 1..Len(Responses)
      /\ events[1] = BareRow("request")
      /\ \A i \in DOMAIN Responses : events[1 + i] = Responses[i]
  BY EventsShape, LenProperties
<1> HIDE DEF rows
<1>4. rows # << >>
  <2>1. Len(<< >>) = 0
    OBVIOUS
  <2> QED
    BY <1>2, <2>1
<1>5. unprocessed = IF Meaningful(Parsed) THEN << >> ELSE << BareRow("response") >>
  BY DEF Inv, Written
<1> DEFINE t(i) == IF Parsed.tools = << >> THEN "" ELSE Parsed.tools[i]
<1> HIDE DEF t
<1>8. \A i \in DOMAIN rows : rows[i].direction = "response" /\ rows[i].tool = t(i)
  <2>1. \A i \in DOMAIN rows : rows[i] = Row("response", Parsed.model, t(i), GroupOf)
    BY <1>2 DEF t
  <2> QED
    BY <2>1, RowFields
<1>9. \A i \in DOMAIN events : events[i].direction = "request" <=> i = 1
  <2> TAKE i \in DOMAIN events
  <2>1. CASE i = 1
    BY <1>3, <2>1, RowFields
  <2>2. CASE i # 1
    <3>1. i - 1 \in 1..Len(Responses) /\ 1 + (i - 1) = i
      BY <1>3, <2>2
    <3>2. events[i] = Responses[i - 1] /\ i - 1 \in DOMAIN Responses
      BY <1>3, <3>1
    <3>3. Responses = rows
      BY <1>3, <3>2
    <3>4. events[i].direction = "response"
      BY <1>8, <3>2, <3>3
    <3> QED
      BY <2>2, <3>4
  <2> QED
    BY <2>1, <2>2
<1> DEFINE parsed == upstream # "gemini" /\ answer.parses
           structured == parsed /\ (HasContent(answer) \/ NamesModel)
           tools == [i \in DOMAIN Responses |-> Responses[i].tool]
<1>10. ~Native =>
         /\ Meaningful(Parsed) <=> structured
         /\ structured => Parsed.tools = answer.tools
  <2> SUFFICES ASSUME ~Native
               PROVE  /\ Meaningful(Parsed) <=> structured
                      /\ structured => Parsed.tools = answer.tools
    OBVIOUS
  <2>1. CASE upstream = "gemini"
    BY <2>1 DEF Parsed, NoAnswer, Answer, Meaningful
  <2>2. CASE upstream # "gemini"
    <3>1. IF upstream = "sap-ai-core" /\ Deployments(meta.path) # {}
            THEN Parsed = [answer EXCEPT !.model = DeploymentID(meta.path)]
                 /\ DeploymentID(meta.path) # ""
            ELSE Parsed = answer
      BY <1>1, <1>0, <2>2, DeploymentIDLeftmost DEF Parsed, ParseSAPAICore, Native
    <3>2. /\ Parsed.tools = answer.tools /\ Parsed.text = answer.text
          /\ Parsed.parses = answer.parses
          /\ Parsed.model # "" <=> NamesModel
      BY <1>1, <3>1 DEF IsAnswer, Answer, NamesModel
    <3> QED
      BY <2>2, <3>2 DEF Meaningful, HasContent
  <2> QED
    BY <2>1, <2>2
<1>11. ASSUME ~Native, structured
       PROVE  tools = IF answer.tools = << >> THEN << "" >> ELSE answer.tools
  <2>1. Parsed.tools = answer.tools
    BY <1>10, <1>11
  <2>2. Meaningful(Parsed)
    BY <1>10, <1>11
  <2>3. Responses = rows
    BY <1>3, <2>2
  <2>4. \A i \in DOMAIN rows :
          rows[i].tool = IF answer.tools = << >> THEN "" ELSE answer.tools[i]
    BY <1>8, <2>1 DEF t
  <2>5. CASE answer.tools = << >>
    <3>1. DOMAIN rows = {1}
      <4>1. Len(rows) = IF Parsed.tools = << >> THEN 1 ELSE Len(Parsed.tools)
        BY <1>2
      <4>2. Len(rows) = 1
        BY ONLY <2>1, <2>5, <4>1
      <4>3. DOMAIN rows = 1..1
        BY <1>2, <4>2
      <4> QED
        BY ONLY <4>3
    <3>2. rows[1].tool = ""
      BY <2>4, <2>5, <3>1
    <3>3. << "" >> = [i \in {1} |-> ""]
      <4>1. \A x : << x >> = [i \in {1} |-> x]
        OBVIOUS
      <4> QED
        BY <4>1, Zenon
    <3> QED
      BY <2>3, <2>5, <3>1, <3>2, <3>3
  <2>6. CASE answer.tools # << >>
    <3>1. answer.tools \in Seq(STRING)
      BY <1>1 DEF IsAnswer
    <3>2. DOMAIN rows = DOMAIN answer.tools
      BY <1>2, <2>1, <2>6, <3>1, LenProperties
    <3>3. answer.tools = [i \in DOMAIN answer.tools |-> answer.tools[i]]
      BY <3>1
    <3> QED
      BY <2>3, <2>4, <2>6, <3>2, <3>3
  <2> QED
    BY <2>5, <2>6
<1>12. ASSUME ~Native, ~structured
       PROVE  Responses = << >>
  BY <1>3, <1>10, <1>12
<1>13. ASSUME Native
       PROVE  tools = IF Deployments(meta.path) = {} THEN << >> ELSE << "" >>
  <2>1. /\ Parsed.parses = TRUE /\ Parsed.model = DeploymentID(meta.path)
        /\ Parsed.text = FALSE /\ Parsed.tools = << >>
    BY <1>13, Zenon DEF Native, Parsed, ParseSAPAICore, Answer
  <2>2. Meaningful(Parsed) <=> Deployments(meta.path) # {}
    BY <1>0, <2>1, DeploymentIDLeftmost DEF Meaningful
  <2>3. CASE Deployments(meta.path) = {}
    <3>1. Responses = << >>
      BY <1>3, <2>2, <2>3
    <3>2. DOMAIN Responses = {}
      BY <3>1
    <3>3. tools = << >>
      BY <3>2
    <3> QED
      BY <2>3, <3>3
  <2>4. CASE Deployments(meta.path) # {}
    <3>1. Responses = rows
      BY <1>3, <2>2, <2>4
    <3>2. Len(rows) = 1
      BY <1>2, <2>1
    <3>3. DOMAIN rows = {1}
      <4>1. DOMAIN rows = 1..1
        BY <1>2, <3>2
      <4> QED
        BY ONLY <4>1
    <3>4. rows[1].tool = ""
      BY <1>8, <2>1, <3>3 DEF t
    <3>5. tools = [i \in {1} |-> ""]
      BY <3>1, <3>3, <3>4
    <3>6. \A x : << x >> = [i \in {1} |-> x]
      OBVIOUS
    <3>7. tools = << "" >>
      BY <3>5, <3>6, Zenon
    <3> QED
      BY <2>4, <3>7
  <2> QED
    BY <2>3, <2>4
<1>14. Len(unprocessed) = IF Responses = << >> THEN 1 ELSE 0
  <2>1. Len(<< >>) = 0 /\ Len(<< BareRow("response") >>) = 1
    OBVIOUS
  <2> QED
    BY <1>3, <1>4, <1>5, <2>1
<1> QED
  BY <1>9, <1>11, <1>12, <1>13, <1>14 DEF Accounted

(* The request has one row, a response that parses into anything one for   *)
(* each tool call, and a response is in one of the tables, never in both.  *)
THEOREM AccountedHolds == Spec => []Accounted
BY InvHolds, InvAccounted, PTL

-------------------------------------------------------------------------------
LEMMA InvDeployment == Inv => Deployment
<1> SUFFICES ASSUME Inv, pc = "recorded", upstream = "sap-ai-core",
                    NEW row \in Range(Responses),
                    NEW i \in Deployments(forwarded.path),
                    \A j \in 1..(i - 1) : j \notin Deployments(forwarded.path)
             PROVE  /\ row.model = forwarded.path[i + 1]
                    /\ row.group # "" <=> "AI-Resource-Group" \in forwarded.headers
  BY DEF Deployment, Recorded
<1>1. /\ meta = MetaOf(request.headers, forwarded.path) /\ meta.path = forwarded.path
      /\ forwarded.path \in Path
      /\ forwarded.headers = request.headers \ internalHeaders
  BY ToStage
<1>2. IsAnswer(answer) /\ IsAnswer(Parsed)
  BY ParsedType
<1>3. PICK k \in DOMAIN Responses : row = Responses[k]
  BY DEF Range
<1>4. Responses = ResponseRows(Parsed)
  BY <1>3, EventsShape
<1> DEFINE t == IF Parsed.tools = << >> THEN "" ELSE Parsed.tools[k]
<1> HIDE DEF t
<1>5. row = Row("response", Parsed.model, t, GroupOf)
  <2> DEFINE rows == ResponseRows(Parsed)
             r(x) == Row("response", Parsed.model,
                         IF Parsed.tools = << >> THEN "" ELSE Parsed.tools[x], GroupOf)
  <2> HIDE DEF rows, r
  <2>1. \A x \in DOMAIN rows : rows[x] = r(x)
    BY <1>2, ResponseRowsShape DEF rows, r
  <2>2. row = r(k)
    BY <1>3, <1>4, <2>1 DEF rows
  <2> QED
    BY <2>2 DEF r, t
<1>6. row.model = Parsed.model /\ row.group = GroupOf
  BY <1>5, RowFields
<1>7. DeploymentID(meta.path) = forwarded.path[i + 1]
  BY <1>1, DeploymentIDLeftmost
<1>8. DeploymentID(meta.path) # ""
  BY <1>1, DeploymentIDLeftmost
<1>9. Parsed.model = DeploymentID(meta.path)
  <2>1. Parsed = ParseSAPAICore
    BY DEF Parsed
  <2>2. CASE NativeMode(meta.path)
    BY <2>1, <2>2 DEF ParseSAPAICore, Answer
  <2>3. CASE ~NativeMode(meta.path)
    <3>1. Parsed = [answer EXCEPT !.model = DeploymentID(meta.path)]
      BY <1>8, <2>1, <2>3 DEF ParseSAPAICore
    <3> QED
      BY <1>2, <3>1 DEF IsAnswer, Answer
  <2> QED
    BY <2>2, <2>3
<1>10. GroupOf = meta.group
  BY DEF GroupOf
<1>11. meta.group # "" <=> "AI-Resource-Group" \in request.headers
  BY <1>1, MetaIdentity
<1>12. "AI-Resource-Group" \notin internalHeaders
  BY DEF internalHeaders
<1> QED
  BY <1>1, <1>6, <1>7, <1>9, <1>10, <1>11, <1>12

(* Rows of SAP AI Core name the first deployment in the path.              *)
THEOREM DeploymentHolds == Spec => []Deployment
BY InvHolds, InvDeployment, PTL

-------------------------------------------------------------------------------
LEMMA InvTypeOK == Inv => TypeOK
<1> SUFFICES ASSUME Inv
             PROVE  TypeOK
  OBVIOUS
<1>1. cfg \in Configs /\ request \in Requests \cup {Nothing} /\ pc \in Stages
  BY DEF Inv, Routed
<1>2. upstream \in Vendors \cup {"sap-ai-core", ""}
  BY UpstreamName DEF Inv, Routed, Stages
<1>3. forwarded.headers \subseteq request.headers
  <2>1. CASE pc \in {"directed", "sent", "recorded"}
    BY <2>1, ToStage
  <2>2. CASE pc \in {"idle", "arrived"}
    <3>1. forwarded = Nothing
      BY <2>2 DEF Inv, Routed
    <3>2. Nothing.headers = {}
      BY DEF Nothing
    <3> QED
      BY <3>1, <3>2
  <2> QED
    BY <1>1, <2>1, <2>2 DEF Stages
<1>4. DOMAIN meta = DOMAIN NoMeta
  <2>1. CASE pc \in {"directed", "sent", "recorded"}
    <3>1. meta = MetaOf(request.headers, forwarded.path)
      BY <2>1, ToStage
    <3> QED
      BY <3>1, MetaIdentity
  <2>2. CASE pc \in {"idle", "arrived"}
    BY <2>2 DEF Inv, Routed
  <2> QED
    BY <1>1, <2>1, <2>2 DEF Stages
<1>5. answer \in Answers \cup {NoAnswer}
  BY DEF Inv, Routed, Stages
<1>6. Len(unprocessed) \in {0, 1}
  BY RowsAreRows
<1>7. Len(unprocessed) <= 1
  <2>1. \A n \in {0, 1} : n <= 1
    OBVIOUS
  <2> QED
    BY <1>6, <2>1, Zenon
<1>8. \A row \in Range(Rows) : row.direction \in {"request", "response"}
  BY RowsAreRows
<1> QED
  BY <1>1, <1>2, <1>3, <1>4, <1>5, <1>7, <1>8 DEF TypeOK, Stages

LEMMA TypeOKHolds == Spec => []TypeOK
BY InvHolds, InvTypeOK, PTL

-------------------------------------------------------------------------------
(* The composition.                                                        *)

(* TurnAudit with the request's parser is a TurnRecord with respect to the *)
(* turn, so that all of the above is true of it.                           *)
THEOREM ImplementsTurnRecord == AuditSpec => Spec
<1>1. AuditInit => Init
  BY DEF AuditInit
<1>2. [AuditNext]_auditVars => [Next]_vars
  BY DEF AuditNext, auditVars, BuildScrubber, ArriveServed, Direct, ForwardAudited,
         RecordAnswer, Next
<1> QED
  BY <1>1, <1>2, PTL DEF AuditSpec, Spec

-------------------------------------------------------------------------------
(* The request.                                                            *)

(* Scrub, of any patterns.                                                 *)
Replacements(text, ps) ==
  CHOOSE after : after = [n \in 0..Len(ps) |->
    IF n = 0 THEN text ELSE R!ReplaceAllString(after[n - 1], ps[n])]

Scrubbed(text, ps) == Replacements(text, ps)[Len(ps)]

ResultOf(captured, ps, b) ==
  IF ~captured
    THEN [user_messages |-> << >>, raw |-> <<"[request capture disabled]">>, captured |-> FALSE]
    ELSE [user_messages |-> [i \in DOMAIN R!UserTexts(b) |-> Scrubbed(R!UserTexts(b)[i], ps)],
          raw |-> Scrubbed(R!Raw(b), ps), captured |-> TRUE]

(* What is stored depends on the scrubber and the body only.               *)
LEMMA SameResult == /\ \A b : R!Result(b) = ResultOf(capture, patterns, b)
                    /\ R!Result(body)' = ResultOf(capture', patterns', body')
BY DEF R!Result, R!Scrub, ResultOf, Scrubbed, Replacements

LEMMA SameFlattening == \A seqs : R!FlattenSeq(seqs) = FlattenSeq(seqs)
BY DEF R!FlattenSeq, FlattenSeq

MessageOf(X) == [role : STRING, content : [kind : STRING, texts : Seq(X)]]
MessageType  == MessageOf(Seq(STRING))

Pattern  == [valid : BOOLEAN, exp : STRING, takes : SUBSET STRING, looks : BOOLEAN]
RuleType == [matches : Seq(STRING), pieces : Seq(Pattern)]

LEMMA OneIs == \A S : \A x \in S : <<x>> \in Seq(S) /\ Len(<<x>>) = 1 /\ <<x>>[1] = x
OBVIOUS

LEMMA FunctionIsSequence == \A S : \A n \in Nat : \A f \in [1..n -> S] : f \in Seq(S)
OBVIOUS

(* No pattern is blank, whatever the rules.                                *)
LEMMA NonBlankPieces ==
  ASSUME rules \in Seq(RuleType)
  PROVE  R!NonBlank \in Seq({p \in Pattern : p.exp # ""})
<1> DEFINE S == {p \in Pattern : p.exp # ""}
           ofRules == [i \in DOMAIN rules |-> rules[i].pieces]
           kept == [i \in DOMAIN R!Pieces |->
                      IF R!Pieces[i].exp # "" THEN << R!Pieces[i] >> ELSE << >>]
<1>2. ofRules \in Seq(Seq(Pattern))
  <2>1. Len(rules) \in Nat /\ DOMAIN rules = 1..Len(rules)
    BY LenProperties
  <2>2. \A i \in 1..Len(rules) : rules[i] \in RuleType
    BY LenProperties
  <2>3. \A r \in RuleType : r.pieces \in Seq(Pattern)
    BY DEF RuleType
  <2>4. \A i \in 1..Len(rules) : rules[i].pieces \in Seq(Pattern)
    BY <2>2, <2>3
  <2>5. ofRules \in [1..Len(rules) -> Seq(Pattern)]
    BY <2>1, <2>4
  <2> QED
    BY <2>1, <2>5
<1>3. R!Pieces \in Seq(Pattern)
  <2>1. R!Pieces = FlattenSeq(ofRules)
    BY SameFlattening DEF R!Pieces
  <2> QED
    BY <1>2, <2>1, FlattenType
<1>4. kept \in Seq(Seq(S))
  <2>1. Len(R!Pieces) \in Nat /\ DOMAIN R!Pieces = 1..Len(R!Pieces)
    BY <1>3, LenProperties
  <2>2. \A i \in 1..Len(R!Pieces) : R!Pieces[i] \in Pattern
    BY <1>3, LenProperties
  <2>3. \A p \in S : << p >> \in Seq(S)
    BY OneIs, Zenon
  <2>4. << >> \in Seq(S)
    BY EmptySeq
  <2>5. \A i \in 1..Len(R!Pieces) :
          (IF R!Pieces[i].exp # "" THEN << R!Pieces[i] >> ELSE << >>) \in Seq(S)
    BY <2>2, <2>3, <2>4
  <2>6. kept \in [1..Len(R!Pieces) -> Seq(S)]
    BY <2>1, <2>5, Zenon
  <2> QED
    BY <2>1, <2>6, FunctionIsSequence, Zenon
<1>5. R!NonBlank = FlattenSeq(kept)
  BY SameFlattening DEF R!NonBlank, R!Where
<1> QED
  BY <1>4, <1>5, FlattenType

RequestInv ==
  /\ rules \in Rules /\ capture \in BOOLEAN
  /\ scrubberPc \in {"start", "refused", "serving", "stored"}
  /\ patterns \in Seq({p \in Pattern : p.valid /\ p.exp # ""})
  /\ body.shape \in {"messages", "other"} /\ body.messages \in Seq(MessageType)
  /\ scrubberPc # "stored" => result = R!NoResult
  /\ scrubberPc = "stored" => result = R!Result(body)
  /\ pc # "idle" => scrubberPc \in {"serving", "stored"}

LEMMA RequestInit == AuditInit => RequestInv
<1> SUFFICES ASSUME AuditInit
             PROVE  RequestInv
  OBVIOUS
<1>1. /\ rules \in Rules /\ capture \in BOOLEAN /\ scrubberPc = "start" /\ patterns = << >>
      /\ body = R!OtherBody /\ result = R!NoResult /\ pc = "idle"
  BY DEF AuditInit, R!Init, Init
<1>2. R!OtherBody.shape = "other" /\ R!OtherBody.messages = << >>
  BY DEF R!OtherBody
<1>3. << >> \in Seq(MessageType)
  BY EmptySeq
<1>4. patterns \in Seq({p \in Pattern : p.valid /\ p.exp # ""})
  BY <1>1, EmptySeq
<1> QED
  BY <1>1, <1>2, <1>3, <1>4 DEF RequestInv

LEMMA RequestNext == Inv /\ RequestInv /\ [AuditNext]_auditVars => RequestInv'
<1> SUFFICES ASSUME Inv, RequestInv, [AuditNext]_auditVars
             PROVE  RequestInv'
  OBVIOUS
<1>1. CASE BuildScrubber
  <2>1. /\ scrubberPc = "start" /\ scrubberPc' \in {"serving", "refused"}
        /\ UNCHANGED <<rules, capture, body, result, pc>>
        /\ \/ patterns' = patterns
           \/ /\ \A i \in DOMAIN R!NonBlank : R!NonBlank[i].valid
              /\ patterns' = R!NonBlank
    BY <1>1 DEF BuildScrubber, R!BuildScrubber, vars
  <2>2. patterns' \in Seq({p \in Pattern : p.valid /\ p.exp # ""})
    <3>1. CASE patterns' = patterns
      BY <3>1 DEF RequestInv
    <3>2. CASE /\ \A i \in DOMAIN R!NonBlank : R!NonBlank[i].valid
               /\ patterns' = R!NonBlank
      <4> DEFINE S == {p \in Pattern : p.exp # ""}
                 T == {p \in Pattern : p.valid /\ p.exp # ""}
                 n == Len(R!NonBlank)
      <4>1. R!NonBlank \in Seq(S)
        BY BodiesAssumption, NonBlankPieces DEF RequestInv, RuleType, Pattern
      <4>2. n \in Nat /\ R!NonBlank \in [1..n -> S] /\ DOMAIN R!NonBlank = 1..n
        BY <4>1, LenProperties
      <4>3. \A i \in 1..n : R!NonBlank[i] \in T
        BY <3>2, <4>2
      <4>4. R!NonBlank \in [1..n -> T]
        BY <4>2, <4>3
      <4> HIDE DEF T, n
      <4>5. R!NonBlank \in Seq(T)
        BY <4>2, <4>4, FunctionIsSequence, Zenon
      <4> QED
        BY <3>2, <4>5 DEF T
    <3> QED
      BY <2>1, <3>1, <3>2
  <2> QED
    BY <2>1, <2>2, Zenon DEF RequestInv
<1>2. CASE ForwardAudited
  <2>1. PICK b \in Bodies(cfg, request) : R!ParseRequest(b)
    BY <1>2 DEF ForwardAudited
  <2>2. /\ scrubberPc = "serving" /\ scrubberPc' = "stored"
        /\ body' = b /\ result' = R!Result(b) /\ UNCHANGED <<rules, capture, patterns>>
    BY <2>1 DEF R!ParseRequest
  <2>3. cfg \in Configs /\ request \in Requests
    BY <1>2 DEF ForwardAudited, Forward, Inv, Routed
  <2>4. b.shape \in {"messages", "other"} /\ b.messages \in Seq(MessageType)
    BY <2>3, BodiesAssumption DEF MessageType, MessageOf
  <2>5. R!Result(body)' = R!Result(b)
    BY <2>2, SameResult
  <2> QED
    BY <2>2, <2>4, <2>5 DEF RequestInv
<1>3. CASE /\ UNCHANGED requestVars
           /\ pc' # "idle" => pc # "idle" \/ scrubberPc = "serving"
  <2>1. UNCHANGED <<rules, capture, scrubberPc, patterns, body, result>>
    BY <1>3 DEF requestVars
  <2>2. R!Result(body)' = R!Result(body)
    BY <2>1, SameResult
  <2> QED
    BY <1>3, <2>1, <2>2 DEF RequestInv, R!NoResult
<1>4. CASE ArriveServed
  BY <1>3, <1>4 DEF ArriveServed
<1>5. CASE Direct \/ RecordAnswer
  BY <1>3, <1>5 DEF Direct, RecordAnswer, director, Record
<1>6. CASE UNCHANGED auditVars
  BY <1>3, <1>6 DEF auditVars, vars
<1> QED
  BY <1>1, <1>2, <1>4, <1>5, <1>6 DEF AuditNext

LEMMA RequestHolds == AuditSpec => [](Inv /\ RequestInv)
<1>1. AuditSpec => []Inv
  BY ImplementsTurnRecord, InvHolds, PTL
<1>2. AuditInit => RequestInv
  BY RequestInit
<1>3. Inv /\ RequestInv /\ [AuditNext]_auditVars => RequestInv'
  BY RequestNext
<1> QED
  BY <1>1, <1>2, <1>3, PTL DEF AuditSpec

LEMMA RequestTypes == Inv /\ RequestInv => AuditTypeOK
<1> SUFFICES ASSUME Inv, RequestInv
             PROVE  AuditTypeOK
  OBVIOUS
<1>1. result.captured => scrubberPc = "stored" /\ capture
  <2>1. R!NoResult.captured = FALSE
    BY DEF R!NoResult
  <2>2. ~capture => R!Result(body).captured = FALSE
    BY DEF R!Result
  <2> QED
    BY <2>1, <2>2 DEF RequestInv
<1>2. \A i \in DOMAIN patterns : patterns[i].valid /\ patterns[i].exp # ""
  <2> DEFINE S == {p \in Pattern : p.valid /\ p.exp # ""}
  <2>1. patterns \in Seq(S)
    BY DEF RequestInv
  <2>2. \A i \in DOMAIN patterns : patterns[i] \in S
    <3> HIDE DEF S
    <3> QED
      BY <2>1, LenProperties
  <2> QED
    BY <2>2
<1>3. R!TypeOK
  BY <1>1, <1>2 DEF RequestInv, R!TypeOK
<1> QED
  BY <1>3, InvTypeOK DEF RequestInv, AuditTypeOK

(* Types, of the turn and of what is stored of its request; no pattern of  *)
(* the scrubber is blank; and no turn begins before there is a scrubber.   *)
THEOREM AuditTypeCorrect == AuditSpec => []AuditTypeOK
BY RequestHolds, RequestTypes, PTL

-------------------------------------------------------------------------------
(* The texts of a malformed message, by induction on the messages.         *)

(* The texts of messages that are put together one by one.                 *)
TextsOf(messages) == [i \in DOMAIN messages |-> R!TextsOfMessage(messages[i])]

LEMMA ContentTexts ==
  ASSUME NEW X, NEW msg \in MessageOf(X)
  PROVE  /\ R!TextsOfMessage(msg) \in Seq(X)
         /\ msg.content.kind = "malformed" => R!TextsOfMessage(msg) = << >>
<1> DEFINE c == msg.content
           S == X
           kept == [i \in DOMAIN c.texts |->
                      IF c.texts[i] # << >> THEN << c.texts[i] >> ELSE << >>]
<1>1. c.texts \in Seq(S)
  BY DEF MessageOf
<1>2. Len(c.texts) \in Nat /\ DOMAIN c.texts = 1..Len(c.texts)
  BY <1>1, LenProperties
<1>3. kept \in Seq(Seq(S))
  <2>1. \A i \in 1..Len(c.texts) : c.texts[i] \in S
    BY <1>1, LenProperties
  <2>2. \A t \in S : << t >> \in Seq(S)
    OBVIOUS
  <2>3. << >> \in Seq(S)
    BY EmptySeq
  <2>4. kept \in [1..Len(c.texts) -> Seq(S)]
    BY <1>2, <2>1, <2>2, <2>3
  <2> QED
    BY <1>2, <2>4
<1>4. FlattenSeq(kept) \in Seq(S)
  BY <1>3, FlattenType
<1>5. R!TextsOfContent(c) = IF c.kind = "malformed" THEN << >> ELSE FlattenSeq(kept)
  BY SameFlattening DEF R!TextsOfContent, R!Where
<1>6. << >> \in Seq(S)
  BY EmptySeq
<1> HIDE DEF kept, S, c
<1>7. R!TextsOfMessage(msg) = IF msg.role = "user" THEN R!TextsOfContent(c) ELSE << >>
  BY DEF R!TextsOfMessage, c
<1>8. R!TextsOfMessage(msg) \in Seq(S)
  BY <1>4, <1>5, <1>6, <1>7
<1>9. c.kind = "malformed" => R!TextsOfMessage(msg) = << >>
  BY <1>5, <1>7
<1> QED
  BY <1>8, <1>9 DEF S, c

LEMMA TextsType ==
  ASSUME NEW X, NEW messages \in Seq(MessageOf(X))
  PROVE  /\ TextsOf(messages) \in Seq(Seq(X))
         /\ Len(TextsOf(messages)) = Len(messages)
         /\ \A i \in 1..Len(messages) : TextsOf(messages)[i] = R!TextsOfMessage(messages[i])
<1> DEFINE n == Len(messages)
           text(i) == R!TextsOfMessage(messages[i])
<1>1. n \in Nat /\ DOMAIN messages = 1..n /\ \A i \in 1..n : messages[i] \in MessageOf(X)
  BY LenProperties
<1>2. \A i \in 1..n : text(i) \in Seq(X)
  BY <1>1, ContentTexts
<1>3. TextsOf(messages) = [i \in 1..n |-> text(i)]
  BY <1>1 DEF TextsOf
<1> HIDE DEF n, text
<1>4. [i \in 1..n |-> text(i)] \in [1..n -> Seq(X)]
  BY <1>2
<1>5. /\ [i \in 1..n |-> text(i)] \in Seq(Seq(X))
      /\ Len([i \in 1..n |-> text(i)]) = n
  BY <1>1, <1>4
<1>6. \A i \in 1..n : TextsOf(messages)[i] = text(i)
  BY <1>3
<1> QED
  BY <1>3, <1>5, <1>6 DEF n, text

LEMMA TextsOfAppend ==
  ASSUME NEW messages \in Seq(MessageType), NEW msg \in MessageType
  PROVE  TextsOf(Append(messages, msg)) = Append(TextsOf(messages), R!TextsOfMessage(msg))
<1> DEFINE n == Len(messages)
           more == Append(messages, msg)
           left == TextsOf(more)
           right == Append(TextsOf(messages), R!TextsOfMessage(msg))
           T == Seq(Seq(STRING))
<1>1. /\ n \in Nat /\ more \in Seq(MessageType) /\ Len(more) = n + 1
      /\ \A i \in 1..n : more[i] = messages[i]
      /\ more[n + 1] = msg
  BY AppendProperties, LenProperties
<1>2. /\ left \in Seq(T) /\ Len(left) = n + 1
      /\ \A i \in 1..(n + 1) : left[i] = R!TextsOfMessage(more[i])
  BY <1>1, TextsType DEF MessageType
<1>3. R!TextsOfMessage(msg) \in T
  BY ContentTexts DEF MessageType
<1>4. /\ TextsOf(messages) \in Seq(T) /\ Len(TextsOf(messages)) = n
      /\ \A i \in 1..n : TextsOf(messages)[i] = R!TextsOfMessage(messages[i])
  BY TextsType DEF MessageType
<1>5. /\ right \in Seq(T) /\ Len(right) = n + 1
      /\ \A i \in 1..n : right[i] = TextsOf(messages)[i]
      /\ right[n + 1] = R!TextsOfMessage(msg)
  BY <1>3, <1>4, AppendProperties
<1> HIDE DEF more, left, right, n, T
<1>6. ASSUME NEW i \in 1..(n + 1)
      PROVE  left[i] = right[i]
  <2>1. CASE i = n + 1
    BY <1>1, <1>2, <1>5, <2>1
  <2>2. CASE i # n + 1
    <3>1. i \in 1..n
      BY <1>1, <2>2
    <3> QED
      BY <1>1, <1>2, <1>4, <1>5, <3>1
  <2> QED
    BY <2>1, <2>2
<1>7. left = right
  BY <1>2, <1>5, <1>6, SeqEqual
<1> QED
  BY <1>7 DEF left, right, more

(* Leaving the malformed messages out changes no text.                     *)
LEMMA WellFormedTexts ==
  ASSUME NEW messages \in Seq(MessageType)
  PROVE  FlattenSeq(TextsOf(R!WellFormed(messages))) = FlattenSeq(TextsOf(messages))
<1> DEFINE n == Len(messages)
           texts == TextsOf(messages)
           kept == [i \in DOMAIN messages |->
                      IF messages[i].content.kind # "malformed" THEN << messages[i] >> ELSE << >>]
           T == Seq(STRING)
<1>1. n \in Nat /\ DOMAIN messages = 1..n /\ \A i \in 1..n : messages[i] \in MessageType
  BY LenProperties
<1>2. texts \in Seq(Seq(T)) /\ Len(texts) = n
      /\ \A i \in 1..n : texts[i] = R!TextsOfMessage(messages[i])
  BY TextsType DEF MessageType
<1>3. \A i \in 1..n : /\ messages[i].content.kind = "malformed" => kept[i] = << >>
                      /\ messages[i].content.kind # "malformed" => kept[i] = << messages[i] >>
  BY <1>1
<1>4. kept \in Seq(Seq(MessageType)) /\ Len(kept) = n
  <2>1. \A m \in MessageType : << m >> \in Seq(MessageType)
    OBVIOUS
  <2>2. << >> \in Seq(MessageType)
    BY EmptySeq
  <2>3. \A i \in 1..n : kept[i] \in Seq(MessageType)
    BY <1>1, <1>3, <2>1, <2>2
  <2>4. DOMAIN kept = 1..n /\ kept = [i \in 1..n |-> kept[i]]
    BY <1>1
  <2> HIDE DEF kept
  <2>5. kept \in [1..n -> Seq(MessageType)]
    BY <2>3, <2>4
  <2> QED
    BY <1>1, <2>5
<1>5. R!WellFormed(messages) = FlattenSeq(kept)
  BY SameFlattening DEF R!WellFormed, R!Where
<1> HIDE DEF n, texts, kept, T
<1>6. PICK w \in [0..n -> Seq(MessageType)] : IsFlattening(w, kept)
  BY <1>4, FlatteningExists
<1>7. PICK u \in [0..n -> Seq(T)] : IsFlattening(u, texts)
  BY <1>2, FlatteningExists
<1> DEFINE S == {k \in Nat : k <= n => FlattenSeq(TextsOf(w[k])) = u[k]}
<1>8. 0 \in S
  <2>1. w[0] = << >> /\ u[0] = << >>
    BY <1>6, <1>7 DEF IsFlattening
  <2>2. TextsOf(<< >>) = << >>
    BY EmptySeq, TextsType
  <2>3. FlattenSeq(<< >>) = << >>
    BY EmptySeq DEF FlattenSeq
  <2> QED
    BY <2>1, <2>2, <2>3
<1>9. ASSUME NEW k \in Nat, k \in S
      PROVE  k + 1 \in S
  <2> SUFFICES ASSUME k + 1 <= n
               PROVE  FlattenSeq(TextsOf(w[k + 1])) = u[k + 1]
    OBVIOUS
  <2> DEFINE m == messages[k + 1]
             v == w[k]
             t == R!TextsOfMessage(m)
  <2>1. /\ k + 1 \in 1..n /\ (k + 1) - 1 = k /\ k \in 0..n
        /\ FlattenSeq(TextsOf(v)) = u[k]
    BY <1>1, <1>9
  <2>2. m \in MessageType /\ v \in Seq(MessageType) /\ u[k] \in Seq(T)
    BY <1>1, <1>6, <1>7, <2>1
  <2>3. w[k + 1] = v \o kept[k + 1] /\ u[k + 1] = u[k] \o t
    BY <1>2, <1>4, <1>6, <1>7, <2>1 DEF IsFlattening
  <2>4. /\ m.content.kind = "malformed" => kept[k + 1] = << >>
        /\ m.content.kind # "malformed" => kept[k + 1] = << m >>
    BY <1>3, <2>1
  <2>5. t \in Seq(T) /\ (m.content.kind = "malformed" => t = << >>)
    BY <2>2, ContentTexts DEF T, MessageType
  <2>6. TextsOf(v) \in Seq(Seq(T))
    BY <2>2, TextsType DEF T, MessageType
  <2>7. TextsOf(Append(v, m)) = Append(TextsOf(v), t)
    BY <2>2, TextsOfAppend
  <2> HIDE DEF m, v, t
  <2>8. CASE m.content.kind = "malformed"
    <3>1. w[k + 1] = v /\ u[k + 1] = u[k]
      BY <2>2, <2>3, <2>4, <2>5, <2>8, ConcatEmptySeq
    <3> QED
      BY <2>1, <3>1
  <2>9. CASE m.content.kind # "malformed"
    <3>1. w[k + 1] = Append(v, m)
      BY <2>2, <2>3, <2>4, <2>9, AppendIsConcat
    <3>2. FlattenSeq(Append(TextsOf(v), t)) = FlattenSeq(TextsOf(v)) \o t
      BY <2>5, <2>6, FlattenAppend
    <3> QED
      BY <2>1, <2>3, <2>7, <3>1, <3>2
  <2> QED
    BY <2>8, <2>9
<1> HIDE DEF S
<1>10. Nat \subseteq S
  BY <1>8, <1>9, InductionOnNat
<1>11. FlattenSeq(TextsOf(w[n])) = u[n]
  BY <1>1, <1>10 DEF S, n
<1>12. FlattenSeq(kept) = w[n] /\ FlattenSeq(texts) = u[n]
  BY <1>2, <1>4, <1>6, <1>7, FlattenIs
<1> QED
  BY <1>5, <1>11, <1>12 DEF texts

LEMMA InvDamageIsLocal == RequestInv => DamageIsLocal
<1> SUFFICES ASSUME RequestInv, scrubberPc = "stored"
             PROVE  result.user_messages = R!Result(R!Body(R!WellFormed(body.messages))).user_messages
  BY DEF DamageIsLocal, R!DamageIsLocal
<1> DEFINE b == R!Body(R!WellFormed(body.messages))
<1>1. result = R!Result(body) /\ body.messages \in Seq(MessageType)
  BY DEF RequestInv
<1>2. b.messages = R!WellFormed(body.messages)
  BY DEF R!Body
<1>3. /\ R!UserTexts(body) = FlattenSeq(TextsOf(body.messages))
      /\ R!UserTexts(b) = FlattenSeq(TextsOf(R!WellFormed(body.messages)))
  BY <1>2, SameFlattening DEF R!UserTexts, TextsOf
<1>4. R!UserTexts(body) = R!UserTexts(b)
  BY <1>1, <1>3, WellFormedTexts
<1> HIDE DEF b
<1>5. \A c : R!Result(c).user_messages =
               IF ~capture THEN << >>
               ELSE [i \in DOMAIN R!UserTexts(c) |-> R!Scrub(R!UserTexts(c)[i])]
  BY DEF R!Result
<1>6. R!Result(body).user_messages = R!Result(b).user_messages
  BY <1>4, <1>5
<1> QED
  BY <1>1, <1>6 DEF b

(* However many messages of a body have contents of an unexpected shape,   *)
(* and wherever, what is stored of the others is what would be stored if   *)
(* those were not there.                                                   *)
THEOREM DamageIsLocalHolds == AuditSpec => []DamageIsLocal
BY RequestHolds, InvDamageIsLocal, PTL

(* Induction from the end of a sequence to its beginning.                  *)
LEMMA Downward ==
  \A n \in Nat : \A S :
    (\A i \in 1..(n + 1) : (\A j \in (i + 1)..(n + 1) : j \in S) => i \in S)
      => 1..(n + 1) \subseteq S
<1> SUFFICES ASSUME NEW n \in Nat, NEW S,
                    \A i \in 1..(n + 1) : (\A j \in (i + 1)..(n + 1) : j \in S) => i \in S,
                    NEW k \in 1..(n + 1), k \notin S
             PROVE  FALSE
  OBVIOUS
<1> DEFINE T == {d \in Nat : d <= n /\ (n + 1) - d \notin S}
<1>1. (n + 1) - k \in T
  BY SMT
<1>2. PICK d \in T : \A e \in T : d <= e
  BY <1>1, LeastNatural, Zenon
<1>3. (n + 1) - d \in 1..(n + 1) /\ (n + 1) - d \notin S
  BY <1>2
<1>4. PICK j \in ((n + 1) - d + 1)..(n + 1) : j \notin S
  BY <1>3
<1>5. (n + 1) - j \in Nat /\ (n + 1) - j < d /\ (n + 1) - ((n + 1) - j) = j /\ (n + 1) - j <= n
  BY <1>2, <1>4
<1>6. (n + 1) - j \in T
  BY <1>4, <1>5
<1> QED
  BY <1>2, <1>5, <1>6

(* Concatenation, position by position.                                    *)
IsConcat(c, s, t) ==
  /\ Len(s) \in Nat /\ Len(t) \in Nat /\ Len(c) = Len(s) + Len(t)
  /\ \A i \in 1..Len(s) : c[i] = s[i]
  /\ \A j \in 1..Len(t) : c[Len(s) + j] = t[j]

LEMMA Concatenated ==
  \A S : \A s, t \in Seq(S) : s \o t \in Seq(S) /\ IsConcat(s \o t, s, t)
<1> SUFFICES ASSUME NEW S, NEW s \in Seq(S), NEW t \in Seq(S)
             PROVE  s \o t \in Seq(S) /\ IsConcat(s \o t, s, t)
  OBVIOUS
<1> DEFINE c == s \o t
<1>1. Len(s) \in Nat /\ Len(t) \in Nat
  BY LenProperties
<1>2. /\ c \in Seq(S) /\ Len(c) = Len(s) + Len(t)
      /\ \A i \in 1..(Len(s) + Len(t)) : c[i] = IF i <= Len(s) THEN s[i] ELSE t[i - Len(s)]
  BY ConcatProperties
<1> HIDE DEF c
<1>3. \A i \in 1..Len(s) : i \in 1..(Len(s) + Len(t)) /\ i <= Len(s)
  BY <1>1
<1>4. \A j \in 1..Len(t) : /\ Len(s) + j \in 1..(Len(s) + Len(t))
                           /\ ~(Len(s) + j <= Len(s)) /\ Len(s) + j - Len(s) = j
  BY <1>1
<1>5. \A i \in 1..Len(s) : c[i] = s[i]
  BY <1>2, <1>3
<1>6. \A j \in 1..Len(t) : c[Len(s) + j] = t[j]
  BY <1>2, <1>4
<1> QED
  BY <1>1, <1>2, <1>5, <1>6 DEF IsConcat, c

(* (A is a parameter so that the provers find the instance of the lemma.)  *)
Associates(A, s, t, u) == (s \o t) \o u = s \o (t \o u)

LEMMA Associate ==
  ASSUME NEW A, NEW s \in Seq(A), NEW t \in Seq(A), NEW u \in Seq(A)
  PROVE  Associates(A, s, t, u)
BY ConcatAssociative, SMTT(30) DEF Associates

(* A text that is put together around one atom.                            *)
IsAround(in, a, x, c) ==
  /\ Len(a) \in Nat /\ Len(c) \in Nat /\ Len(in) = Len(a) + 1 + Len(c)
  /\ \A i \in 1..Len(a) : in[i] = a[i]
  /\ in[Len(a) + 1] = x
  /\ \A j \in 1..Len(c) : in[Len(a) + 1 + j] = c[j]

LEMMA Around ==
  ASSUME NEW S, NEW a \in Seq(S), NEW x \in S, NEW c \in Seq(S)
  PROVE  a \o <<x>> \o c \in Seq(S) /\ IsAround(a \o <<x>> \o c, a, x, c)
<1> DEFINE y == <<x>>
           l == a \o y
           in == l \o c
<1>1. y \in Seq(S) /\ Len(y) = 1 /\ y[1] = x
  BY OneIs
<1> HIDE DEF y
<1>2. l \in Seq(S) /\ IsConcat(l, a, y)
  BY <1>1, Concatenated
<1> HIDE DEF l
<1>3. in \in Seq(S) /\ IsConcat(in, l, c)
  BY <1>2, Concatenated
<1> HIDE DEF in
<1>4. /\ Len(a) \in Nat /\ Len(c) \in Nat /\ Len(l) = Len(a) + 1
      /\ \A i \in 1..Len(a) : l[i] = a[i]
      /\ l[Len(a) + 1] = x
  BY <1>1, <1>2, <1>3 DEF IsConcat
<1>5. /\ Len(in) = Len(a) + 1 + Len(c)
      /\ \A i \in 1..(Len(a) + 1) : in[i] = l[i]
      /\ \A j \in 1..Len(c) : in[Len(a) + 1 + j] = c[j]
  BY <1>3, <1>4 DEF IsConcat
<1>6. /\ Len(a) + 1 \in 1..(Len(a) + 1)
      /\ \A i \in 1..Len(a) : i \in 1..(Len(a) + 1)
  BY <1>4
<1>7. in[Len(a) + 1] = x /\ \A i \in 1..Len(a) : in[i] = a[i]
  BY <1>4, <1>5, <1>6
<1> QED
  BY <1>3, <1>4, <1>5, <1>7 DEF IsAround, in, l, y

(* What ReplaceAllString computes, from every position of the text.        *)
Size(in, p, i) == IF R!Found(p, in, i) = {} THEN 0 ELSE R!Taken(p, R!Found(p, in, i))

Kept(in, from, i) == IF i > Len(in) THEN << >> ELSE <<in[i]>> \o from[<<i + 1, TRUE>>]

Fill(in, p, from, i, fresh) ==
  IF Size(in, p, i) > 0 THEN R!Redacted \o from[<<i + Size(in, p, i), FALSE>>]
  ELSE IF fresh /\ R!Found(p, in, i) # {} THEN R!Redacted \o Kept(in, from, i)
  ELSE Kept(in, from, i)

Places(in, k) == (k..(Len(in) + 1)) \X BOOLEAN

Scan(in, p) ==
  CHOOSE from : from = [at \in Places(in, 1) |-> Fill(in, p, from, at[1], at[2])]

LEMMA ReplaceIsScan == \A in, p : R!ReplaceAllString(in, p) = Scan(in, p)[<<1, TRUE>>]
BY DEF R!ReplaceAllString, Scan, Fill, Size, Kept, Places

(* The match is what was sighted, of atoms that the pattern takes.         *)
LEMMA SizeOf ==
  ASSUME NEW S, NEW in \in Seq(S), NEW p, NEW i \in 1..(Len(in) + 1)
  PROVE  /\ Size(in, p, i) \in 0..(Len(in) + 1 - i)
         /\ \A k \in i..(i + Size(in, p, i) - 1) : in[k] \in p.takes
         /\ R!Found(p, in, i) # {} => R!Sighting(p, in, i, Size(in, p, i)) \in R!Found(p, in, i)
<1> DEFINE found == R!Found(p, in, i)
           room == Len(in) + 1 - i
<1>1. Len(in) \in Nat /\ room \in Nat
  BY LenProperties
<1>2. ASSUME NEW m \in 0..room
      PROVE  LET word == R!Sighting(p, in, i, m).word
             IN  /\ Len(word) = m
                 /\ \A k \in i..(i + m - 1) : in[k] \in Range(word)
  <2> DEFINE word == SubSeq(in, i, i + m - 1)
  <2>1. R!Sighting(p, in, i, m).word = word
    BY DEF R!Sighting
  <2>2. i \in 1..(Len(in) + 1) /\ i + m - 1 \in (i - 1)..Len(in) /\ (i + m - 1) - i + 1 = m
    BY <1>1
  <2>3. /\ word \in Seq(S) /\ Len(word) = m
        /\ \A k \in 1..m : word[k] = in[i + k - 1]
    BY <2>2, SubSeqProperties
  <2>4. DOMAIN word = 1..m
    BY <2>3, LenProperties
  <2> HIDE DEF word
  <2>5. \A k \in i..(i + m - 1) : k - i + 1 \in 1..m /\ i + (k - i + 1) - 1 = k
    BY <1>1
  <2>6. \A k \in 1..m : word[k] \in Range(word)
    BY <2>4, Zenon DEF Range
  <2>7. \A k \in i..(i + m - 1) : in[k] \in Range(word)
    BY <2>3, <2>5, <2>6
  <2> QED
    BY <2>1, <2>3, <2>7
<1>3. CASE found = {}
  BY <1>1, <1>3 DEF Size
<1>4. CASE found # {}
  <2>1. PICK s \in found : Size(in, p, i) = Len(s.word)
    BY <1>4, Zenon DEF Size, R!Taken
  <2>2. PICK m \in 0..room : s = R!Sighting(p, in, i, m)
    BY DEF R!Found
  <2>3. Range(s.word) \subseteq p.takes
    BY DEF R!Found, Range, R!Range
  <2> HIDE DEF found
  <2>4. Len(s.word) = m /\ \A k \in i..(i + m - 1) : in[k] \in Range(s.word)
    BY <1>2, <2>2
  <2> QED
    BY <2>1, <2>2, <2>3, <2>4 DEF found
<1> QED
  BY <1>3, <1>4

LEMMA ScanLocal ==
  ASSUME NEW S, NEW in \in Seq(S), NEW p, NEW i \in 1..(Len(in) + 1), NEW b \in BOOLEAN,
         NEW f, NEW g, \A at \in Places(in, i + 1) : f[at] = g[at]
  PROVE  Fill(in, p, f, i, b) = Fill(in, p, g, i, b)
<1> DEFINE n == Size(in, p, i)
<1>1. Len(in) \in Nat /\ n \in 0..(Len(in) + 1 - i)
  BY SizeOf, LenProperties
<1> HIDE DEF n
<1>2. n > 0 => f[<<i + n, FALSE>>] = g[<<i + n, FALSE>>]
  <2>1. n > 0 => i + n \in (i + 1)..(Len(in) + 1)
    BY <1>1
  <2> QED
    BY <2>1, Zenon DEF Places
<1>3. Kept(in, f, i) = Kept(in, g, i)
  <2>1. ~(i > Len(in)) => i + 1 \in (i + 1)..(Len(in) + 1)
    BY <1>1
  <2>2. ~(i > Len(in)) => f[<<i + 1, TRUE>>] = g[<<i + 1, TRUE>>]
    BY <2>1, Zenon DEF Places
  <2> QED
    BY <2>2, Zenon DEF Kept
<1> QED
  BY <1>2, <1>3, Zenon DEF Fill, n

LEMMA ScanExists ==
  ASSUME NEW S, NEW in \in Seq(S), NEW p
  PROVE  \E f : f = [at \in Places(in, 1) |-> Fill(in, p, f, at[1], at[2])]
<1> DEFINE n == Len(in)
           new(f, at) == Fill(in, p, f, at[1], at[2])
           P(k) == \E f : f = [at \in Places(in, k) |-> new(f, at)]
           T == {k \in 1..(n + 1) : P(k)}
<1>0. n \in Nat
  BY LenProperties
<1>1. ASSUME NEW k \in 1..(n + 1), \A j \in (k + 1)..(n + 1) : j \in T
      PROVE  k \in T
  <2>1. \E f : \A at \in Places(in, k + 1) : f[at] = new(f, at)
    <3>1. CASE k = n + 1
      <4>1. Places(in, k + 1) = {}
        BY <1>0, <3>1 DEF Places
      <4> QED
        BY <4>1
    <3>2. CASE k # n + 1
      <4>1. k + 1 \in T
        BY <1>0, <1>1, <3>2
      <4>2. PICK f : f = [at \in Places(in, k + 1) |-> new(f, at)]
        BY <4>1
      <4> HIDE DEF new
      <4>3. \A at \in Places(in, k + 1) : f[at] = new(f, at)
        BY <4>2
      <4> QED
        BY <4>3
    <3> QED
      BY <3>1, <3>2
  <2>2. PICK f : \A at \in Places(in, k + 1) : f[at] = new(f, at)
    BY <2>1
  <2> DEFINE g == [at \in Places(in, k) |-> IF at[1] = k THEN new(f, at) ELSE f[at]]
             h == [at \in Places(in, k) |-> new(g, at)]
  <2>3. \A at \in Places(in, k) : at[1] \in k..(n + 1) /\ at[2] \in BOOLEAN
    BY DEF Places
  <2>4. \A at \in Places(in, k) : at[1] # k => at \in Places(in, k + 1)
    BY <1>0 DEF Places
  <2>5. \A at \in Places(in, k + 1) : at \in Places(in, k) /\ at[1] # k
    BY <1>0 DEF Places
  <2>6. \A at \in Places(in, k + 1) : g[at] = f[at]
    BY <2>5
  <2>7. \A at \in Places(in, k) : g[at] = new(f, at)
    BY <2>2, <2>4
  <2>8. ASSUME NEW at \in Places(in, k)
        PROVE  new(g, at) = new(f, at)
    <3>1. at[1] \in 1..(n + 1) /\ at[2] \in BOOLEAN
      BY <1>0, <2>3
    <3>2. \A z \in Places(in, at[1] + 1) : z \in Places(in, k + 1)
      BY <1>0, <2>3 DEF Places
    <3>3. \A z \in Places(in, at[1] + 1) : g[z] = f[z]
      BY <2>6, <3>2
    <3> HIDE DEF g
    <3> QED
      BY <3>1, <3>3, ScanLocal
  <2> HIDE DEF new
  <2>9. g = h
    BY <2>7, <2>8
  <2> HIDE DEF g
  <2>10. P(k)
    BY <2>9
  <2> HIDE DEF P
  <2> QED
    BY <2>10
<1>2. 1 \in 1..(n + 1)
  BY <1>0
<1> HIDE DEF T
<1>3. 1..(n + 1) \subseteq T
  BY <1>0, <1>1, Downward
<1>4. P(1)
  BY <1>2, <1>3 DEF T
<1> QED
  BY <1>4

LEMMA ScanSteps ==
  ASSUME NEW S, NEW in \in Seq(S), NEW p, NEW i \in 1..(Len(in) + 1), NEW b \in BOOLEAN
  PROVE  Scan(in, p)[<<i, b>>] = Fill(in, p, Scan(in, p), i, b)
<1> DEFINE F(f) == [at \in Places(in, 1) |-> Fill(in, p, f, at[1], at[2])]
           f == Scan(in, p)
<1>1. \E g : g = F(g)
  BY ScanExists
<1>2. f = F(f)
  <2>1. f = CHOOSE g : g = F(g)
    BY DEF Scan
  <2> HIDE DEF F, f
  <2> QED
    BY <1>1, <2>1
<1> HIDE DEF f
<1>3. <<i, b>> \in Places(in, 1)
  BY DEF Places
<1>4. f[<<i, b>>] = F(f)[<<i, b>>]
  BY <1>2
<1>5. f[<<i, b>>] = Fill(in, p, f, i, b)
  BY <1>3, <1>4
<1> QED
  BY <1>5 DEF f

(* A sequence that one element was put before.                             *)
IsPut(c, x, s) ==
  /\ Len(s) \in Nat /\ Len(c) = Len(s) + 1
  /\ c[1] = x
  /\ \A i \in 1..Len(s) : c[i + 1] = s[i]

LEMMA PutBefore ==
  ASSUME NEW S, NEW s \in Seq(S), NEW x \in S
  PROVE  <<x>> \o s \in Seq(S) /\ IsPut(<<x>> \o s, x, s)
<1>1. <<x>> \in Seq(S) /\ Len(<<x>>) = 1 /\ <<x>>[1] = x
  OBVIOUS
<1>2. Len(s) \in Nat
  BY LenProperties
<1> DEFINE c == <<x>> \o s
<1>3. /\ c \in Seq(S) /\ Len(c) = 1 + Len(s)
      /\ \A i \in 1..(1 + Len(s)) : c[i] = IF i <= 1 THEN <<x>>[i] ELSE s[i - 1]
  BY <1>1, ConcatProperties
<1> HIDE DEF c
<1>4. 1 \in 1..(1 + Len(s)) /\ \A i \in 1..Len(s) : /\ i + 1 \in 1..(1 + Len(s))
                                                     /\ ~(i + 1 <= 1) /\ (i + 1) - 1 = i
  BY <1>2
<1>5. c[1] = x /\ \A i \in 1..Len(s) : c[i + 1] = s[i]
  BY <1>1, <1>3, <1>4
<1> QED
  BY <1>2, <1>3, <1>5 DEF c, IsPut

(* Induction over a scan, from the end of the text to its beginning: what  *)
(* it does to the rest is to put one atom, or the marker, before it.       *)
LEMMA ScanInduction ==
  ASSUME NEW S, NEW in \in Seq(S), NEW p, NEW G,
         << >> \in G[Len(in) + 1],
         \A i \in 1..Len(in) : Size(in, p, i) = 0 =>
           \A s \in G[i + 1] : <<in[i]>> \o s \in G[i],
         \A i \in 1..(Len(in) + 1) : \A n \in 0..(Len(in) + 1 - i) :
           (\A k \in i..(i + n - 1) : in[k] \in p.takes) =>
             \A s \in G[i + n] : R!Redacted \o s \in G[i]
  PROVE  \A i \in 1..(Len(in) + 1) : \A b \in BOOLEAN : Scan(in, p)[<<i, b>>] \in G[i]
<1> DEFINE m == Len(in)
           f == Scan(in, p)
           T == {i \in 1..(m + 1) : \A b \in BOOLEAN : f[<<i, b>>] \in G[i]}
<1>1. m \in Nat
  BY LenProperties
<1>2. \A i \in 1..(m + 1) : \A b \in BOOLEAN : f[<<i, b>>] = Fill(in, p, f, i, b)
  BY ScanSteps
<1>3. \A i \in 1..(m + 1) : /\ Size(in, p, i) \in 0..(m + 1 - i)
                            /\ \A k \in i..(i + Size(in, p, i) - 1) : in[k] \in p.takes
  BY SizeOf
<1> HIDE DEF f, m
<1>4. ASSUME NEW i \in 1..(m + 1), \A j \in (i + 1)..(m + 1) : j \in T
      PROVE  i \in T
  <2> SUFFICES ASSUME NEW b \in BOOLEAN
               PROVE  f[<<i, b>>] \in G[i]
    OBVIOUS
  <2> DEFINE n == Size(in, p, i)
  <2>1. n \in 0..(m + 1 - i) /\ \A k \in i..(i + n - 1) : in[k] \in p.takes
    BY <1>3
  <2>2. f[<<i, b>>] = Fill(in, p, f, i, b)
    BY <1>2
  <2>3. CASE n > 0
    <3>1. i + n \in (i + 1)..(m + 1)
      BY <1>1, <2>1, <2>3
    <3>2. f[<<i + n, FALSE>>] \in G[i + n]
      BY <1>4, <3>1
    <3>3. R!Redacted \o f[<<i + n, FALSE>>] \in G[i]
      BY <2>1, <3>2 DEF m
    <3> QED
      BY <2>2, <2>3, <3>3, Zenon DEF Fill
  <2>4. CASE ~(n > 0)
    <3>1. n = 0
      BY <1>1, <2>1, <2>4
    <3>2. Kept(in, f, i) \in G[i]
      <4>1. CASE i > m
        <5>1. i = m + 1
          BY <1>1, <4>1
        <5> QED
          BY <4>1, <5>1 DEF Kept, m
      <4>2. CASE ~(i > m)
        <5>1. i \in 1..m /\ i + 1 \in (i + 1)..(m + 1)
          BY <1>1, <4>2
        <5>2. f[<<i + 1, TRUE>>] \in G[i + 1]
          BY <1>4, <5>1
        <5>3. <<in[i]>> \o f[<<i + 1, TRUE>>] \in G[i]
          BY <3>1, <5>1, <5>2 DEF m
        <5> QED
          BY <4>2, <5>3 DEF Kept, m
      <4> QED
        BY <4>1, <4>2
    <3>3. R!Redacted \o Kept(in, f, i) \in G[i]
      <4>1. 0 \in 0..(Len(in) + 1 - i) /\ i + 0 = i
        BY <1>1 DEF m
      <4>2. \A k \in i..(i + 0 - 1) : in[k] \in p.takes
        BY <1>1
      <4>3. i \in 1..(Len(in) + 1)
        BY DEF m
      <4>4. \A s \in G[i + 0] : R!Redacted \o s \in G[i]
        BY <4>1, <4>2, <4>3
      <4> QED
        BY <3>2, <4>1, <4>4
    <3> QED
      BY <2>2, <2>4, <3>2, <3>3, Zenon DEF Fill
  <2> QED
    BY <2>3, <2>4
<1> HIDE DEF T
<1>5. 1..(m + 1) \subseteq T
  BY <1>1, <1>4, Downward
<1> QED
  BY <1>5 DEF T, f, m

Marks == {"[", "REDACTED", "]"}

(* The marker, atom by atom.                                               *)
LEMMA MarkBefore ==
  ASSUME NEW S, Marks \subseteq S, NEW s \in Seq(S)
  PROVE  /\ R!Redacted \in Seq(S) /\ R!Redacted \o s \in Seq(S)
         /\ R!Redacted \o s = <<"[">> \o (<<"REDACTED">> \o (<<"]">> \o s))
<1>1. "[" \in S /\ "REDACTED" \in S /\ "]" \in S
  BY DEF Marks
<1>2. <<"[">> \in Seq(S) /\ <<"REDACTED">> \in Seq(S) /\ <<"]">> \in Seq(S)
  BY <1>1, OneIs, Zenon
<1>3. R!Redacted = <<"[">> \o (<<"REDACTED">> \o <<"]">>)
  BY DEF R!Redacted
<1> DEFINE a == <<"[">>
           b == <<"REDACTED">>
           c == <<"]">>
<1> HIDE DEF a, b, c
<1>4. a \in Seq(S) /\ b \in Seq(S) /\ c \in Seq(S)
  BY <1>2 DEF a, b, c
<1>5. b \o c \in Seq(S) /\ a \o (b \o c) \in Seq(S)
  BY <1>4, ConcatProperties
<1>6. Associates(S, a, b \o c, s) /\ Associates(S, b, c, s)
  BY <1>4, <1>5, Associate, Zenon
<1>7. (a \o (b \o c)) \o s = a \o ((b \o c) \o s) /\ (b \o c) \o s = b \o (c \o s)
  BY <1>6, Zenon DEF Associates
<1>8. (a \o (b \o c)) \o s \in Seq(S)
  BY <1>5, ConcatProperties
<1> QED
  BY <1>3, <1>5, <1>7, <1>8, Zenon DEF a, b, c

(* Every position of a scan.                                               *)
LEMMA ScanType ==
  ASSUME NEW S, Marks \subseteq S, NEW in \in Seq(S), NEW p
  PROVE  \A i \in 1..(Len(in) + 1) : \A b \in BOOLEAN : Scan(in, p)[<<i, b>>] \in Seq(S)
<1> DEFINE G == [i \in 1..(Len(in) + 1) |-> Seq(S)]
<1>1. Len(in) \in Nat /\ \A i \in 1..Len(in) : in[i] \in S
  BY LenProperties
<1>2. \A i \in 1..(Len(in) + 1) : G[i] = Seq(S)
  OBVIOUS
<1> HIDE DEF G
<1>3. << >> \in G[Len(in) + 1]
  <2>1. Len(in) + 1 \in 1..(Len(in) + 1)
    BY <1>1
  <2> QED
    BY <1>2, <2>1, EmptySeq
<1>4. ASSUME NEW i \in 1..Len(in), NEW s \in G[i + 1]
      PROVE  <<in[i]>> \o s \in G[i]
  <2>1. i \in 1..(Len(in) + 1) /\ i + 1 \in 1..(Len(in) + 1)
    BY <1>1
  <2>2. s \in Seq(S) /\ in[i] \in S
    BY <1>1, <1>2, <2>1
  <2>3. <<in[i]>> \o s \in Seq(S)
    BY <2>2, PutBefore
  <2> QED
    BY <1>2, <2>1, <2>3
<1>5. ASSUME NEW i \in 1..(Len(in) + 1), NEW n \in 0..(Len(in) + 1 - i), NEW s \in G[i + n]
      PROVE  R!Redacted \o s \in G[i]
  <2>1. i + n \in 1..(Len(in) + 1)
    BY <1>1
  <2>2. s \in Seq(S)
    BY <1>2, <2>1
  <2>3. R!Redacted \o s \in Seq(S)
    BY <2>2, MarkBefore
  <2> QED
    BY <1>2, <2>3
<1>6. \A i \in 1..(Len(in) + 1) : \A b \in BOOLEAN : Scan(in, p)[<<i, b>>] \in G[i]
  BY <1>3, <1>4, <1>5, ScanInduction
<1> QED
  BY <1>2, <1>6

LEMMA ReplaceType ==
  ASSUME NEW S, Marks \subseteq S, NEW in \in Seq(S), NEW p
  PROVE  R!ReplaceAllString(in, p) \in Seq(S)
<1>1. 1 \in 1..(Len(in) + 1)
  BY LenProperties
<1>2. Scan(in, p)[<<1, TRUE>>] \in Seq(S)
  BY <1>1, ScanType
<1> QED
  BY <1>2, ReplaceIsScan

LEMMA SameCardinality == \A S : R!Cardinality(S) = Cardinality(S)
BY DEF Cardinality, R!Cardinality

(* The positions of an atom from the i-th on.                              *)
PlacesFrom(atom, s, i) == {k \in i..Len(s) : s[k] = atom}

LEMMA CountIsPlaces ==
  ASSUME NEW S, NEW s \in Seq(S), NEW atom
  PROVE  R!Count(atom, s) = Cardinality(PlacesFrom(atom, s, 1))
BY SameCardinality, LenProperties DEF R!Count, PlacesFrom

LEMMA PlacesFinite ==
  ASSUME NEW S, NEW s \in Seq(S), NEW atom, NEW i \in Nat
  PROVE  IsFiniteSet(PlacesFrom(atom, s, i))
<1>1. Len(s) \in Nat
  BY LenProperties
<1>2. IsFiniteSet(i..Len(s))
  BY <1>1, FS_Interval
<1> QED
  BY <1>2, FS_Subset DEF PlacesFrom

LEMMA OneMore ==
  ASSUME NEW A, IsFiniteSet(A), NEW i, i \notin A, NEW c \in BOOLEAN, NEW B,
         c => B = A \cup {i}, ~c => B = A
  PROVE  Cardinality(B) = Cardinality(A) + (IF c THEN 1 ELSE 0)
<1>1. Cardinality(A) \in Nat
  BY FS_CardinalityType
<1>2. CASE c
  <2>1. Cardinality(A \cup {i}) = IF i \in A THEN Cardinality(A) ELSE Cardinality(A) + 1
    BY FS_AddElement
  <2> QED
    BY <1>2, <2>1
<1>3. CASE ~c
  BY <1>1, <1>3
<1> QED
  BY <1>2, <1>3

(* One more or none, where an element is put before a sequence.            *)
LEMMA CountPut ==
  ASSUME NEW S, NEW s \in Seq(S), NEW x \in S, NEW atom
  PROVE  R!Count(atom, <<x>> \o s) = R!Count(atom, s) + (IF x = atom THEN 1 ELSE 0)
<1> DEFINE c == <<x>> \o s
           A == PlacesFrom(atom, s, 1)
           B == PlacesFrom(atom, c, 2)
           C == PlacesFrom(atom, c, 1)
           f == [k \in A |-> k + 1]
<1>1. c \in Seq(S) /\ IsPut(c, x, s)
  BY PutBefore
<1> HIDE DEF c
<1>2. /\ Len(s) \in Nat /\ Len(c) = Len(s) + 1 /\ c[1] = x
      /\ \A k \in 1..Len(s) : c[k + 1] = s[k]
  BY <1>1 DEF IsPut
<1>3. IsFiniteSet(A) /\ IsFiniteSet(B)
  BY <1>1, PlacesFinite
<1>4. Cardinality(B) = Cardinality(A)
  <2>1. \A k \in A : k + 1 \in B
    BY <1>2 DEF PlacesFrom
  <2>2. \A l \in B : l - 1 \in A /\ (l - 1) + 1 = l
    <3> SUFFICES ASSUME NEW l \in B
                 PROVE  l - 1 \in A /\ (l - 1) + 1 = l
      OBVIOUS
    <3>1. l \in 2..Len(c) /\ c[l] = atom
      BY DEF PlacesFrom
    <3>2. l - 1 \in 1..Len(s) /\ (l - 1) + 1 = l
      BY <1>2, <3>1
    <3>3. s[l - 1] = atom
      BY <1>2, <3>1, <3>2
    <3> QED
      BY <3>2, <3>3 DEF PlacesFrom
  <2>3. A \subseteq Nat
    BY <1>2 DEF PlacesFrom
  <2> HIDE DEF A, B
  <2>4. f \in [A -> B]
    BY <2>1
  <2>5. f \in Surjection(A, B)
    BY <2>2, <2>4 DEF Surjection
  <2>6. \A k, l \in A : f[k] = f[l] => k = l
    BY <2>3
  <2> HIDE DEF f
  <2>7. f \in Injection(A, B)
    BY <2>4, <2>6 DEF Injection, IsInjective
  <2> QED
    BY <1>3, <2>5, <2>7, FS_Surjection
<1>5. Cardinality(C) = Cardinality(B) + (IF x = atom THEN 1 ELSE 0)
  <2>1. C = IF x = atom THEN B \cup {1} ELSE B
    BY <1>2 DEF PlacesFrom
  <2>2. 1 \notin B
    BY <1>2 DEF PlacesFrom
  <2>3. Cardinality(B) \in Nat
    BY <1>3, FS_CardinalityType
  <2> HIDE DEF B, C
  <2> QED
    BY <1>3, <2>1, <2>2, OneMore
<1>6. R!Count(atom, s) = Cardinality(A) /\ R!Count(atom, c) = Cardinality(C)
  BY <1>1, CountIsPlaces
<1> QED
  BY <1>4, <1>5, <1>6 DEF c

(* An atom that the pattern does not take is kept.                         *)
LEMMA ReplaceCounts ==
  ASSUME NEW S, Marks \subseteq S, NEW in \in Seq(S), NEW p,
         NEW atom, atom \notin Marks, atom \notin p.takes
  PROVE  R!Count(atom, R!ReplaceAllString(in, p)) = R!Count(atom, in)
<1> DEFINE m == Len(in)
           Left(i) == Cardinality(PlacesFrom(atom, in, i))
           G == [i \in 1..(m + 1) |-> {s \in Seq(S) : R!Count(atom, s) = Left(i)}]
<1>1. m \in Nat /\ \A i \in 1..m : in[i] \in S
  BY LenProperties
<1>2. \A i \in 1..(m + 1) : G[i] = {s \in Seq(S) : R!Count(atom, s) = Left(i)}
  OBVIOUS
<1>3. \A i \in 1..(m + 1) : IsFiniteSet(PlacesFrom(atom, in, i))
  BY <1>1, PlacesFinite
<1>4. \A i \in 1..(m + 1) : Left(i) \in Nat
  BY <1>3, FS_CardinalityType
<1> HIDE DEF G
<1>5. << >> \in G[m + 1]
  <2>1. PlacesFrom(atom, in, m + 1) = {}
    BY <1>1 DEF PlacesFrom
  <2>2. R!Count(atom, << >>) = Cardinality({})
    BY SameCardinality DEF R!Count
  <2>3. R!Count(atom, << >>) = Left(m + 1)
    BY <2>1, <2>2
  <2>4. m + 1 \in 1..(m + 1) /\ << >> \in Seq(S)
    BY <1>1, EmptySeq
  <2> HIDE DEF Left, m
  <2> QED
    BY <1>2, <2>3, <2>4
<1>6. ASSUME NEW i \in 1..m, NEW s \in G[i + 1]
      PROVE  <<in[i]>> \o s \in G[i]
  <2>1. i \in 1..(m + 1) /\ i + 1 \in 1..(m + 1) /\ in[i] \in S
    BY <1>1
  <2>2. s \in Seq(S) /\ R!Count(atom, s) = Left(i + 1)
    BY <1>2, <2>1
  <2>3. R!Count(atom, <<in[i]>> \o s) = Left(i + 1) + (IF in[i] = atom THEN 1 ELSE 0)
    BY <2>1, <2>2, CountPut
  <2>4. Left(i) = Left(i + 1) + (IF in[i] = atom THEN 1 ELSE 0)
    <3> DEFINE A == PlacesFrom(atom, in, i + 1)
               B == PlacesFrom(atom, in, i)
    <3>1. B = IF in[i] = atom THEN A \cup {i} ELSE A
      BY <1>1 DEF PlacesFrom
    <3>2. i \notin A
      BY <1>1 DEF PlacesFrom
    <3>3. IsFiniteSet(A)
      BY <1>3, <2>1
    <3> HIDE DEF A, B
    <3>4. Cardinality(B) = Cardinality(A) + (IF in[i] = atom THEN 1 ELSE 0)
      BY <3>1, <3>2, <3>3, OneMore
    <3> QED
      BY <3>4 DEF A, B
  <2>5. <<in[i]>> \o s \in Seq(S)
    BY <2>1, <2>2, PutBefore
  <2> HIDE DEF Left
  <2>6. R!Count(atom, <<in[i]>> \o s) = Left(i)
    BY <2>3, <2>4
  <2> QED
    BY <1>2, <2>1, <2>5, <2>6
<1>7. ASSUME NEW i \in 1..(m + 1), NEW n \in 0..(m + 1 - i),
             \A k \in i..(i + n - 1) : in[k] \in p.takes, NEW s \in G[i + n]
      PROVE  R!Redacted \o s \in G[i]
  <2>1. i + n \in 1..(m + 1)
    BY <1>1
  <2>2. s \in Seq(S) /\ R!Count(atom, s) = Left(i + n)
    BY <1>2, <2>1
  <2> DEFINE a == <<"]">> \o s
             b == <<"REDACTED">> \o a
             c == <<"[">> \o b
  <2>3. /\ "[" \in S /\ "REDACTED" \in S /\ "]" \in S
        /\ "[" # atom /\ "REDACTED" # atom /\ "]" # atom
    BY DEF Marks
  <2>4. a \in Seq(S) /\ R!Count(atom, a) = R!Count(atom, s) + (IF "]" = atom THEN 1 ELSE 0)
    BY <2>2, <2>3, PutBefore, CountPut
  <2>5. b \in Seq(S) /\ R!Count(atom, b) = R!Count(atom, a) + (IF "REDACTED" = atom THEN 1 ELSE 0)
    <3> HIDE DEF a
    <3> QED
      BY <2>3, <2>4, PutBefore, CountPut
  <2>6. c \in Seq(S) /\ R!Count(atom, c) = R!Count(atom, b) + (IF "[" = atom THEN 1 ELSE 0)
    <3> HIDE DEF b
    <3> QED
      BY <2>3, <2>5, PutBefore, CountPut
  <2>7. R!Redacted \o s = c /\ R!Redacted \o s \in Seq(S)
    BY <2>2, MarkBefore
  <2>8. PlacesFrom(atom, in, i) = PlacesFrom(atom, in, i + n)
    <3>1. \A k \in i..(i + n - 1) : in[k] # atom
      BY <1>7
    <3>2. \A k \in i..Len(in) : in[k] = atom => k \in (i + n)..Len(in)
      BY <1>1, <3>1
    <3>3. \A k \in (i + n)..Len(in) : k \in i..Len(in)
      BY <1>1
    <3> QED
      BY <3>2, <3>3 DEF PlacesFrom
  <2>9. Left(i) = Left(i + n) /\ Left(i) \in Nat
    BY <1>4, <2>8
  <2> HIDE DEF Left, a, b, c
  <2>10. R!Count(atom, c) = Left(i)
    BY <2>2, <2>3, <2>4, <2>5, <2>6, <2>9
  <2> QED
    BY <1>2, <2>7, <2>10
<1> HIDE DEF Left
<1>8. \A i \in 1..(m + 1) : \A b \in BOOLEAN : Scan(in, p)[<<i, b>>] \in G[i]
  BY <1>5, <1>6, <1>7, ScanInduction
<1>9. 1 \in 1..(m + 1)
  BY <1>1
<1>10. R!Count(atom, Scan(in, p)[<<1, TRUE>>]) = Left(1)
  BY <1>2, <1>8, <1>9
<1> QED
  BY <1>10, CountIsPlaces, ReplaceIsScan DEF Left

-------------------------------------------------------------------------------
(* What a pattern that does not look around sights: the word.              *)

Part(in, i, n) == SubSeq(in, i, i + n - 1)

Bare(word) == [word |-> word, before |-> R!Edge, after |-> R!Edge]

Matched(p, word) == R!Range(word) \subseteq p.takes /\ Accepts(p.exp, Bare(word))

LEMMA PartIs ==
  ASSUME NEW S, NEW in \in Seq(S), NEW i \in 1..(Len(in) + 1), NEW n \in 0..(Len(in) + 1 - i)
  PROVE  /\ Part(in, i, n) \in Seq(S) /\ Len(Part(in, i, n)) = n
         /\ \A k \in 1..n : Part(in, i, n)[k] = in[i + k - 1]
<1>1. Len(in) \in Nat
  BY LenProperties
<1>2. i \in 1..(Len(in) + 1) /\ i + n - 1 \in (i - 1)..Len(in) /\ (i + n - 1) - i + 1 = n
  BY <1>1
<1> QED
  BY <1>2, SubSeqProperties DEF Part

(* Parts are equal that have the same atoms.                               *)
SameAtoms(in, i, out, j, n) == \A k \in 1..n : in[i + k - 1] = out[j + k - 1]

PartAt(in, i, n) == i \in 1..(Len(in) + 1) /\ n \in 0..(Len(in) + 1 - i)

LEMMA SameParts ==
  ASSUME NEW S, NEW in \in Seq(S), NEW out \in Seq(S), NEW i, NEW j, NEW n,
         PartAt(in, i, n), PartAt(out, j, n), SameAtoms(in, i, out, j, n)
  PROVE  Part(in, i, n) = Part(out, j, n)
<1> DEFINE a == Part(in, i, n)
           b == Part(out, j, n)
<1>1. a \in Seq(S) /\ Len(a) = n /\ \A k \in 1..n : a[k] = in[i + k - 1]
  BY PartIs DEF PartAt
<1>2. b \in Seq(S) /\ Len(b) = n /\ \A k \in 1..n : b[k] = out[j + k - 1]
  BY PartIs DEF PartAt
<1> HIDE DEF a, b
<1>3. \A k \in 1..n : a[k] = b[k]
  BY <1>1, <1>2 DEF SameAtoms
<1> QED
  BY <1>1, <1>2, <1>3, SeqEqual DEF a, b

LEMMA PartOfNone ==
  ASSUME NEW S, NEW in \in Seq(S), NEW i \in 1..(Len(in) + 1)
  PROVE  Part(in, i, 0) = << >>
<1>1. Len(in) \in Nat
  BY LenProperties
<1>2. 0 \in 0..(Len(in) + 1 - i)
  BY <1>1
<1>3. Part(in, i, 0) \in Seq(S) /\ Len(Part(in, i, 0)) = 0
  BY <1>2, PartIs
<1> QED
  BY <1>3, EmptySeq

LEMMA TakesParts ==
  ASSUME NEW S, NEW in \in Seq(S), NEW i \in 1..(Len(in) + 1), NEW n \in 0..(Len(in) + 1 - i),
         NEW p, Matched(p, Part(in, i, n))
  PROVE  \A k \in 1..n : in[i + k - 1] \in p.takes
<1> DEFINE a == Part(in, i, n)
<1>1. a \in Seq(S) /\ Len(a) = n /\ \A k \in 1..n : a[k] = in[i + k - 1]
  BY PartIs
<1>2. DOMAIN a = 1..n
  BY <1>1, LenProperties
<1>3. R!Range(a) \subseteq p.takes
  BY DEF Matched
<1> HIDE DEF a
<1>4. \A k \in 1..n : a[k] \in R!Range(a)
  BY <1>2, Zenon DEF R!Range
<1> QED
  BY <1>1, <1>3, <1>4

LEMMA FoundIs ==
  ASSUME NEW p, ~p.looks, NEW in, NEW i
  PROVE  R!Found(p, in, i) =
           {s \in {Bare(Part(in, i, n)) : n \in 0..(Len(in) + 1 - i)} : Matched(p, s.word)}
<1>1. \A n : R!Sighting(p, in, i, n) = Bare(Part(in, i, n))
  BY DEF R!Sighting, R!Beside, Bare, Part
<1>2. \A n : Bare(Bare(Part(in, i, n)).word) = Bare(Part(in, i, n))
  BY DEF Bare
<1>3. {R!Sighting(p, in, i, n) : n \in 0..(Len(in) + 1 - i)}
        = {Bare(Part(in, i, n)) : n \in 0..(Len(in) + 1 - i)}
  BY <1>1
<1> DEFINE all == {Bare(Part(in, i, n)) : n \in 0..(Len(in) + 1 - i)}
<1>4. \A s \in all : Bare(s.word) = s
  BY <1>2
<1> HIDE DEF all
<1>5. \A s \in all : (R!Range(s.word) \subseteq p.takes /\ Accepts(p.exp, s))
                       <=> Matched(p, s.word)
  BY <1>4, Zenon DEF Matched
<1>6. R!Found(p, in, i) =
        {s \in all : R!Range(s.word) \subseteq p.takes /\ Accepts(p.exp, s)}
  BY <1>3, Zenon DEF R!Found, all
<1> QED
  BY <1>5, <1>6, Zenon DEF all

LEMMA IsFound ==
  ASSUME NEW p, ~p.looks, NEW in, NEW i
  PROVE  /\ \A n \in 0..(Len(in) + 1 - i) :
              Matched(p, Part(in, i, n)) => Bare(Part(in, i, n)) \in R!Found(p, in, i)
         /\ \A s \in R!Found(p, in, i) : \E n \in 0..(Len(in) + 1 - i) :
              s = Bare(Part(in, i, n)) /\ Matched(p, Part(in, i, n))
<1>1. \A w : Bare(w).word = w
  BY DEF Bare
<1>2. R!Found(p, in, i) =
           {s \in {Bare(Part(in, i, n)) : n \in 0..(Len(in) + 1 - i)} : Matched(p, s.word)}
  BY FoundIs
<1>3. ASSUME NEW n \in 0..(Len(in) + 1 - i), Matched(p, Part(in, i, n))
      PROVE  Bare(Part(in, i, n)) \in R!Found(p, in, i)
  <2>1. Bare(Part(in, i, n)).word = Part(in, i, n)
    BY <1>1
  <2>2. Matched(p, Bare(Part(in, i, n)).word)
    BY <1>3, <2>1
  <2> QED
    BY <1>2, <2>2
<1>4. ASSUME NEW s \in R!Found(p, in, i)
      PROVE  \E n \in 0..(Len(in) + 1 - i) :
               s = Bare(Part(in, i, n)) /\ Matched(p, Part(in, i, n))
  <2>1. s \in {Bare(Part(in, i, n)) : n \in 0..(Len(in) + 1 - i)} /\ Matched(p, s.word)
    BY <1>2
  <2>2. PICK n \in 0..(Len(in) + 1 - i) : s = Bare(Part(in, i, n))
    BY <2>1
  <2>3. s.word = Part(in, i, n)
    BY <1>1, <2>2
  <2> QED
    BY <2>1, <2>2, <2>3
<1> QED
  BY <1>3, <1>4

(* No part of a text is a match.                                           *)
Free(p, in) ==
  \A i \in 1..(Len(in) + 1) : \A n \in 0..(Len(in) + 1 - i) : ~Matched(p, Part(in, i, n))

LEMMA FreeOfMatches ==
  ASSUME NEW p, ~p.looks, NEW in
  PROVE  Free(p, in) <=> ~R!HasMatch(p, in)
<1>1. \A i \in 1..(Len(in) + 1) :
        (R!Found(p, in, i) = {}) <=> \A n \in 0..(Len(in) + 1 - i) : ~Matched(p, Part(in, i, n))
  BY IsFound
<1> QED
  BY <1>1, Zenon DEF Free, R!HasMatch

(* A part of a text that one atom was put before.                          *)
LEMMA PartsOfPut ==
  ASSUME NEW S, NEW s \in Seq(S), NEW x \in S
  PROVE  /\ \A i \in 1..(Len(s) + 1) : \A n \in 0..(Len(s) + 1 - i) :
              Part(<<x>> \o s, i + 1, n) = Part(s, i, n)
         /\ \A n \in 0..Len(s) : Part(<<x>> \o s, 1, n + 1) = <<x>> \o Part(s, 1, n)
<1> DEFINE c == <<x>> \o s
<1>1. c \in Seq(S) /\ IsPut(c, x, s)
  BY PutBefore
<1> HIDE DEF c
<1>2. /\ Len(s) \in Nat /\ Len(c) = Len(s) + 1 /\ c[1] = x
      /\ \A k \in 1..Len(s) : c[k + 1] = s[k]
  BY <1>1 DEF IsPut
<1>3. ASSUME NEW i \in 1..(Len(s) + 1), NEW n \in 0..(Len(s) + 1 - i)
      PROVE  Part(c, i + 1, n) = Part(s, i, n)
  <2> DEFINE j == i + 1
  <2>1. PartAt(c, j, n) /\ PartAt(s, i, n)
    BY <1>2 DEF PartAt
  <2>2. \A k \in 1..n : i + k - 1 \in 1..Len(s) /\ j + k - 1 = (i + k - 1) + 1
    BY <1>2
  <2>3. SameAtoms(c, j, s, i, n)
    BY <1>2, <2>2 DEF SameAtoms
  <2> HIDE DEF j
  <2>4. Part(c, j, n) = Part(s, i, n)
    BY <1>1, <2>1, <2>3, SameParts
  <2> QED
    BY <2>4 DEF j
<1>4. ASSUME NEW n \in 0..Len(s)
      PROVE  Part(c, 1, n + 1) = <<x>> \o Part(s, 1, n)
  <2> DEFINE a == Part(c, 1, n + 1)
             b == Part(s, 1, n)
             d == <<x>> \o b
  <2>1. 1 \in 1..(Len(c) + 1) /\ n + 1 \in 0..(Len(c) + 1 - 1)
    BY <1>2
  <2>2. /\ a \in Seq(S) /\ Len(a) = n + 1
        /\ \A k \in 1..(n + 1) : a[k] = c[1 + k - 1]
    BY <1>1, <2>1, PartIs
  <2>3. 1 \in 1..(Len(s) + 1) /\ n \in 0..(Len(s) + 1 - 1)
    BY <1>2
  <2>4. b \in Seq(S) /\ Len(b) = n /\ \A k \in 1..n : b[k] = s[1 + k - 1]
    BY <2>3, PartIs
  <2>5. d \in Seq(S) /\ IsPut(d, x, b)
    <3> HIDE DEF b
    <3> QED
      BY <2>4, PutBefore
  <2> HIDE DEF a, b, d
  <2>6. Len(d) = n + 1 /\ d[1] = x /\ \A k \in 1..n : d[k + 1] = b[k]
    BY <2>4, <2>5 DEF IsPut
  <2>7. ASSUME NEW k \in 1..(n + 1)
        PROVE  a[k] = d[k]
    <3>1. a[k] = c[k]
      <4>1. 1 + k - 1 = k
        OBVIOUS
      <4> QED
        BY <2>2, <4>1
    <3>2. CASE k = 1
      BY <1>2, <2>6, <3>1, <3>2
    <3>3. CASE k # 1
      <4> DEFINE l == k - 1
      <4>1. l \in 1..n /\ k = l + 1 /\ 1 + l - 1 = l /\ l \in 1..Len(s)
        BY <1>2, <3>3
      <4> HIDE DEF l
      <4>2. c[l + 1] = s[l] /\ d[l + 1] = b[l] /\ b[l] = s[l]
        BY <1>2, <2>4, <2>6, <4>1
      <4> QED
        BY <3>1, <4>1, <4>2
    <3> QED
      BY <3>2, <3>3
  <2> QED
    BY <2>2, <2>5, <2>6, <2>7, SeqEqual DEF a, d, b
<1> QED
  BY <1>3, <1>4 DEF c

(* No match is made by putting an atom before a text without any, unless   *)
(* it begins there.                                                        *)
LEMMA FreePut ==
  ASSUME NEW S, NEW s \in Seq(S), NEW x \in S, NEW p, Free(p, s), ~Matched(p, << >>),
         \A n \in 0..Len(s) : ~Matched(p, <<x>> \o Part(s, 1, n))
  PROVE  Free(p, <<x>> \o s)
<1> DEFINE c == <<x>> \o s
<1>1. c \in Seq(S) /\ IsPut(c, x, s)
  BY PutBefore
<1>2. /\ \A i \in 1..(Len(s) + 1) : \A n \in 0..(Len(s) + 1 - i) : Part(c, i + 1, n) = Part(s, i, n)
      /\ \A n \in 0..Len(s) : Part(c, 1, n + 1) = <<x>> \o Part(s, 1, n)
  BY PartsOfPut
<1> HIDE DEF c
<1>3. Len(s) \in Nat /\ Len(c) = Len(s) + 1
  BY <1>1 DEF IsPut
<1>4. ASSUME NEW i \in 1..(Len(c) + 1), NEW n \in 0..(Len(c) + 1 - i)
      PROVE  ~Matched(p, Part(c, i, n))
  <2>1. CASE n = 0
    <3>1. Part(c, i, n) = << >>
      BY <1>1, <2>1, PartOfNone
    <3> QED
      BY <3>1
  <2>2. CASE i = 1 /\ n # 0
    <3> DEFINE m == n - 1
    <3>1. m \in 0..Len(s) /\ n = m + 1
      BY <1>3, <2>2
    <3> HIDE DEF m
    <3>2. Part(c, 1, m + 1) = <<x>> \o Part(s, 1, m) /\ ~Matched(p, <<x>> \o Part(s, 1, m))
      BY <1>2, <3>1
    <3> QED
      BY <2>2, <3>1, <3>2
  <2>3. CASE i # 1
    <3> DEFINE j == i - 1
    <3>1. j \in 1..(Len(s) + 1) /\ n \in 0..(Len(s) + 1 - j) /\ i = j + 1
      BY <1>3, <2>3
    <3> HIDE DEF j
    <3>2. Part(c, j + 1, n) = Part(s, j, n) /\ ~Matched(p, Part(s, j, n))
      BY <1>2, <3>1 DEF Free
    <3> QED
      BY <3>1, <3>2
  <2> QED
    BY <2>1, <2>2, <2>3
<1> QED
  BY <1>4 DEF Free, c

(* A pattern without matches that are, touch or depend on a marker.        *)
LEMMA Ignores ==
  ASSUME NEW p, R!IgnoresMarkers(p)
  PROVE  /\ ~p.looks /\ "[" \notin p.takes /\ "]" \notin p.takes
         /\ ~Matched(p, << >>) /\ ~Matched(p, <<"REDACTED">>)
<1>1. ~p.looks /\ "[" \notin p.takes /\ "]" \notin p.takes /\ ~R!HasMatch(p, R!Redacted)
  BY DEF R!IgnoresMarkers
<1>2. Free(p, R!Redacted)
  BY <1>1, FreeOfMatches
<1>3. R!Redacted \in Seq(Marks) /\ Len(R!Redacted) = 3
  BY DEF R!Redacted, Marks
<1>4. ~Matched(p, Part(R!Redacted, 1, 0)) /\ ~Matched(p, Part(R!Redacted, 2, 1))
  <2>1. /\ 1 \in 1..(3 + 1) /\ 0 \in 0..(3 + 1 - 1)
        /\ 2 \in 1..(3 + 1) /\ 1 \in 0..(3 + 1 - 2)
    OBVIOUS
  <2> QED
    BY <1>2, <1>3, <2>1 DEF Free
<1>5. Part(R!Redacted, 1, 0) = << >>
  BY <1>3, PartOfNone
<1>6. Part(R!Redacted, 2, 1) = <<"REDACTED">>
  <2> DEFINE r == R!Redacted
             a == Part(r, 2, 1)
  <2>3. r[2] = "REDACTED" /\ r \in Seq(Marks) /\ Len(r) = 3
    BY <1>3 DEF R!Redacted
  <2> HIDE DEF r
  <2>1. 2 \in 1..(Len(r) + 1) /\ 1 \in 0..(Len(r) + 1 - 2)
    BY <2>3
  <2>2. a \in Seq(Marks) /\ Len(a) = 1 /\ \A k \in 1..1 : a[k] = r[2 + k - 1]
    BY <2>1, <2>3, PartIs
  <2>4. a[1] = "REDACTED"
    BY <2>2, <2>3
  <2>5. <<"REDACTED">> \in Seq(Marks) /\ Len(<<"REDACTED">>) = 1 /\ <<"REDACTED">>[1] = "REDACTED"
    BY DEF Marks
  <2> HIDE DEF a
  <2>6. \A k \in 1..1 : a[k] = <<"REDACTED">>[k]
    BY <2>4, <2>5
  <2>7. a = <<"REDACTED">>
    BY <2>2, <2>5, <2>6, SeqEqual
  <2> QED
    BY <2>7 DEF a, r
<1> QED
  BY <1>1, <1>4, <1>5, <1>6

(* Up to its first bracket, a text is what another is from the i-th atom.  *)
Unbracketed(s, n) == \A k \in 1..n : s[k] # "[" /\ s[k] # "]"

Follows(s, in, i) ==
  \A n \in 0..Len(s) :
    Unbracketed(s, n) => n \in 0..(Len(in) + 1 - i) /\ Part(s, 1, n) = Part(in, i, n)

LEMMA MatchUnbracketed ==
  ASSUME NEW S, NEW s \in Seq(S), NEW n \in 0..Len(s), NEW p, R!IgnoresMarkers(p),
         Matched(p, Part(s, 1, n))
  PROVE  Unbracketed(s, n)
<1>1. Len(s) \in Nat
  BY LenProperties
<1>2. 1 \in 1..(Len(s) + 1) /\ n \in 0..(Len(s) + 1 - 1)
  BY <1>1
<1>3. \A k \in 1..n : s[1 + k - 1] \in p.takes
  BY <1>2, TakesParts
<1>4. \A k \in 1..n : 1 + k - 1 = k
  OBVIOUS
<1>5. \A k \in 1..n : s[k] \in p.takes
  BY <1>3, <1>4
<1> QED
  BY <1>5, Ignores DEF Unbracketed

(* Nothing goes on over a bracket that is put before it.                   *)
LEMMA FreeBracket ==
  ASSUME NEW S, NEW s \in Seq(S), NEW x \in S, x \in {"[", "]"}, NEW p,
         R!IgnoresMarkers(p), Free(p, s)
  PROVE  Free(p, <<x>> \o s)
<1>1. x \notin p.takes /\ ~Matched(p, << >>)
  BY Ignores
<1>2. ASSUME NEW n \in 0..Len(s), Matched(p, <<x>> \o Part(s, 1, n))
      PROVE  FALSE
  <2> DEFINE c == <<x>> \o s
  <2>1. c \in Seq(S) /\ IsPut(c, x, s)
    BY PutBefore
  <2>2. Part(c, 1, n + 1) = <<x>> \o Part(s, 1, n)
    BY PartsOfPut
  <2> HIDE DEF c
  <2>3. Len(c) = Len(s) + 1 /\ Len(s) \in Nat /\ c[1] = x
    BY <2>1 DEF IsPut
  <2>4. n + 1 \in 0..Len(c) /\ 1 \in 1..(n + 1)
    BY <2>3
  <2>5. Matched(p, Part(c, 1, n + 1))
    BY <1>2, <2>2
  <2> DEFINE m == n + 1
  <2> HIDE DEF m
  <2>6. Unbracketed(c, m)
    BY <2>1, <2>4, <2>5, MatchUnbracketed DEF m
  <2> QED
    BY <2>3, <2>4, <2>6 DEF Unbracketed, m
<1> QED
  BY <1>1, <1>2, FreePut

LEMMA FreeMark ==
  ASSUME NEW S, Marks \subseteq S, NEW s \in Seq(S), NEW p, R!IgnoresMarkers(p), Free(p, s)
  PROVE  Free(p, R!Redacted \o s)
<1> DEFINE a == <<"]">> \o s
           b == <<"REDACTED">> \o a
           c == <<"[">> \o b
<1>1. "[" \in S /\ "REDACTED" \in S /\ "]" \in S
  BY DEF Marks
<1>2. a \in Seq(S) /\ IsPut(a, "]", s) /\ Free(p, a)
  BY <1>1, PutBefore, FreeBracket
<1> HIDE DEF a
<1>3. Len(s) \in Nat /\ Len(a) = Len(s) + 1 /\ a[1] = "]"
  BY <1>2 DEF IsPut
<1>4. b \in Seq(S) /\ IsPut(b, "REDACTED", a)
  BY <1>1, <1>2, PutBefore
<1>5. ~Matched(p, << >>) /\ ~Matched(p, <<"REDACTED">>) /\ "]" \notin p.takes
  BY Ignores
<1>6. ASSUME NEW n \in 0..Len(a), Matched(p, <<"REDACTED">> \o Part(a, 1, n))
      PROVE  FALSE
  <2>1. CASE n = 0
    <3>1. 1 \in 1..(Len(a) + 1)
      BY <1>3
    <3>2. Part(a, 1, 0) = << >>
      BY <1>2, <3>1, PartOfNone
    <3>3. <<"REDACTED">> \o << >> = <<"REDACTED">>
      BY <1>1, OneIs, ConcatEmptySeq
    <3> QED
      BY <1>5, <1>6, <2>1, <3>2, <3>3
  <2>2. CASE n # 0
    <3>1. Part(b, 1, n + 1) = <<"REDACTED">> \o Part(a, 1, n)
      BY <1>1, <1>2, PartsOfPut
    <3> HIDE DEF b
    <3>2. Len(b) = Len(a) + 1 /\ b[1 + 1] = a[1] /\ Len(a) \in Nat
      <4>1. 1 \in 1..Len(a)
        BY <1>3
      <4> QED
        BY <1>4, <4>1 DEF IsPut
    <3> DEFINE m == n + 1
    <3>3. m \in 0..Len(b) /\ 1 + 1 \in 1..m
      BY <2>2, <3>2
    <3>4. Matched(p, Part(b, 1, m))
      BY <1>6, <3>1
    <3> HIDE DEF m
    <3>5. Unbracketed(b, m)
      BY <1>4, <3>3, <3>4, MatchUnbracketed
    <3> QED
      BY <1>3, <3>2, <3>3, <3>5 DEF Unbracketed
  <2> QED
    BY <2>1, <2>2
<1>7. Free(p, b)
  BY <1>1, <1>2, <1>5, <1>6, FreePut
<1> HIDE DEF b
<1>8. Free(p, c)
  BY <1>1, <1>4, <1>7, FreeBracket
<1>9. R!Redacted \o s = c
  BY MarkBefore DEF c, b, a
<1> QED
  BY <1>8, <1>9

LEMMA MarkBrackets ==
  ASSUME NEW S, Marks \subseteq S, NEW s \in Seq(S), NEW in \in Seq(S),
         NEW i \in 1..(Len(in) + 1)
  PROVE  Follows(R!Redacted \o s, in, i)
<1> DEFINE c == R!Redacted \o s
           b == <<"REDACTED">> \o (<<"]">> \o s)
<1>1. c = <<"[">> \o b /\ c \in Seq(S)
  BY MarkBefore
<1>2. b \in Seq(S)
  BY PutBefore DEF Marks
<1> HIDE DEF c, b
<1>3. c[1] = "["
  BY <1>1, <1>2, PutBefore DEF Marks, IsPut
<1>4. ASSUME NEW n \in 0..Len(c), Unbracketed(c, n)
      PROVE  n \in 0..(Len(in) + 1 - i) /\ Part(c, 1, n) = Part(in, i, n)
  <2>1. n = 0
    <3>1. ~(1 \in 1..n)
      BY <1>3, <1>4 DEF Unbracketed
    <3>2. Len(c) \in Nat
      BY <1>1, LenProperties
    <3> QED
      BY <3>1, <3>2
  <2>2. 1 \in 1..(Len(c) + 1) /\ Len(in) \in Nat
    BY <1>1, LenProperties
  <2>3. Part(c, 1, 0) = << >> /\ Part(in, i, 0) = << >>
    BY <1>1, <2>2, PartOfNone
  <2> QED
    BY <2>1, <2>2, <2>3
<1> QED
  BY <1>4 DEF Follows, c

LEMMA PartSplit ==
  ASSUME NEW S, NEW in \in Seq(S), NEW i \in 1..Len(in), NEW n \in 0..(Len(in) - i)
  PROVE  Part(in, i, n + 1) = <<in[i]>> \o Part(in, i + 1, n)
<1> DEFINE x == in[i]
           j == i + 1
           m == n + 1
           a == Part(in, i, m)
           b == Part(in, j, n)
           d == <<x>> \o b
<1>1. Len(in) \in Nat /\ x \in S
  BY LenProperties
<1>2. /\ i \in 1..(Len(in) + 1) /\ m \in 0..(Len(in) + 1 - i)
      /\ j \in 1..(Len(in) + 1) /\ n \in 0..(Len(in) + 1 - j)
  BY <1>1
<1> HIDE DEF m, j
<1>3. a \in Seq(S) /\ Len(a) = m /\ \A k \in 1..m : a[k] = in[i + k - 1]
  BY <1>2, PartIs
<1>4. b \in Seq(S) /\ Len(b) = n /\ \A k \in 1..n : b[k] = in[j + k - 1]
  BY <1>2, PartIs
<1> HIDE DEF a, b, x
<1>5. d \in Seq(S) /\ IsPut(d, x, b)
  BY <1>1, <1>4, PutBefore
<1> HIDE DEF d
<1>6. Len(d) = m /\ d[1] = x /\ \A k \in 1..n : d[k + 1] = b[k]
  BY <1>4, <1>5 DEF IsPut, m
<1>7. ASSUME NEW k \in 1..m
      PROVE  a[k] = d[k]
  <2>1. CASE k = 1
    <3>1. i + 1 - 1 = i
      OBVIOUS
    <3> QED
      BY <1>3, <1>6, <2>1, <3>1 DEF x
  <2>2. CASE k # 1
    <3> DEFINE l == k - 1
    <3>1. l \in 1..n /\ k = l + 1 /\ j + l - 1 = i + k - 1
      BY <2>2 DEF m, j
    <3> HIDE DEF l
    <3>2. d[l + 1] = b[l] /\ b[l] = in[j + l - 1]
      BY <1>4, <1>6, <3>1
    <3> QED
      BY <1>3, <3>1, <3>2
  <2> QED
    BY <2>1, <2>2
<1>8. a = d
  BY <1>3, <1>5, <1>6, <1>7, SeqEqual
<1> QED
  BY <1>8 DEF a, d, b, m, j, x

(* Where a scan replaces nothing, its pattern has no match at all.         *)
LEMMA NotFound ==
  ASSUME NEW S, NEW in \in Seq(S), NEW p, R!IgnoresMarkers(p), NEW i \in 1..(Len(in) + 1),
         ~(Size(in, p, i) > 0)
  PROVE  \A n \in 0..(Len(in) + 1 - i) : ~Matched(p, Part(in, i, n))
<1> SUFFICES ASSUME R!Found(p, in, i) # {}
             PROVE  FALSE
  BY Ignores, IsFound
<1>1. R!Sighting(p, in, i, 0) \in R!Found(p, in, i)
  <2>1. Size(in, p, i) \in 0..(Len(in) + 1 - i)
    BY SizeOf
  <2>2. Size(in, p, i) = 0
    BY <2>1
  <2>3. R!Sighting(p, in, i, Size(in, p, i)) \in R!Found(p, in, i)
    BY SizeOf
  <2> QED
    BY <2>2, <2>3
<1>2. PICK n \in 0..(Len(in) + 1 - i) :
        R!Sighting(p, in, i, 0) = Bare(Part(in, i, n)) /\ Matched(p, Part(in, i, n))
  BY <1>1, Ignores, IsFound
<1>3. R!Sighting(p, in, i, 0).word = Part(in, i, 0)
  BY DEF R!Sighting, Part
<1>4. Bare(Part(in, i, n)).word = Part(in, i, n)
  BY DEF Bare
<1>5. Part(in, i, 0) = << >>
  BY PartOfNone
<1> QED
  BY <1>2, <1>3, <1>4, <1>5, Ignores

(* An atom that is kept begins no match of p.                              *)
LEMMA FreeKept ==
  ASSUME NEW S, NEW in \in Seq(S), NEW p, R!IgnoresMarkers(p), NEW q, p = q \/ Free(p, in),
         NEW i \in 1..Len(in), ~(Size(in, q, i) > 0), NEW x \in S, x = in[i],
         NEW s \in Seq(S), Free(p, s), Follows(s, in, i + 1)
  PROVE  Free(p, <<x>> \o s) /\ Follows(<<x>> \o s, in, i)
<1> DEFINE c == <<x>> \o s
<1>1. Len(in) \in Nat /\ i \in 1..(Len(in) + 1) /\ Len(s) \in Nat
  BY LenProperties
<1>2. \A n \in 0..(Len(in) + 1 - i) : ~Matched(p, Part(in, i, n))
  <2>1. CASE p = q
    BY <1>1, <2>1, NotFound
  <2>2. CASE Free(p, in)
    BY <1>1, <2>2 DEF Free
  <2> QED
    BY <2>1, <2>2
<1>3. \A n \in 0..(Len(in) - i) : Part(in, i, n + 1) = <<x>> \o Part(in, i + 1, n)
  BY PartSplit
<1>4. c \in Seq(S) /\ IsPut(c, x, s)
  BY <1>1, PutBefore
<1>5. \A n \in 0..Len(s) : Part(c, 1, n + 1) = <<x>> \o Part(s, 1, n)
  BY PartsOfPut
<1> HIDE DEF c
<1>6. Len(c) = Len(s) + 1 /\ c[1] = x /\ \A k \in 1..Len(s) : c[k + 1] = s[k]
  BY <1>4 DEF IsPut
<1>7. ASSUME NEW n \in 0..Len(s), Unbracketed(c, n + 1)
      PROVE  n + 1 \in 0..(Len(in) + 1 - i) /\ Part(c, 1, n + 1) = Part(in, i, n + 1)
  <2>1. \A k \in 1..n : k + 1 \in 1..(n + 1) /\ k \in 1..Len(s)
    BY <1>1
  <2>2. Unbracketed(s, n)
    BY <1>6, <1>7, <2>1 DEF Unbracketed
  <2>3. n \in 0..(Len(in) + 1 - (i + 1)) /\ Part(s, 1, n) = Part(in, i + 1, n)
    BY <2>2 DEF Follows
  <2>4. n \in 0..(Len(in) - i) /\ n + 1 \in 0..(Len(in) + 1 - i)
    BY <1>1, <2>3
  <2> QED
    BY <1>3, <1>5, <2>3, <2>4
<1>8. ASSUME NEW n \in 0..Len(s), Matched(p, <<x>> \o Part(s, 1, n))
      PROVE  FALSE
  <2> DEFINE m == n + 1
  <2>1. m \in 0..Len(c)
    BY <1>1, <1>6
  <2>2. Matched(p, Part(c, 1, m))
    BY <1>5, <1>8
  <2> HIDE DEF m
  <2>3. Unbracketed(c, m)
    BY <1>4, <2>1, <2>2, MatchUnbracketed
  <2>4. m \in 0..(Len(in) + 1 - i) /\ Part(c, 1, m) = Part(in, i, m)
    BY <1>7, <2>3 DEF m
  <2> QED
    BY <1>2, <2>2, <2>4
<1>9. Free(p, c)
  BY <1>1, <1>8, FreePut, Ignores DEF c
<1>10. ASSUME NEW n \in 0..Len(c), Unbracketed(c, n)
       PROVE  n \in 0..(Len(in) + 1 - i) /\ Part(c, 1, n) = Part(in, i, n)
  <2>1. CASE n = 0
    <3>1. 1 \in 1..(Len(c) + 1)
      BY <1>1, <1>6
    <3>2. Part(c, 1, 0) = << >> /\ Part(in, i, 0) = << >>
      BY <1>1, <1>4, <3>1, PartOfNone
    <3> QED
      BY <1>1, <2>1, <3>2
  <2>2. CASE n # 0
    <3> DEFINE m == n - 1
    <3>1. m \in 0..Len(s) /\ n = m + 1
      BY <1>1, <1>6, <2>2
    <3> HIDE DEF m
    <3> QED
      BY <1>7, <1>10, <3>1
  <2> QED
    BY <2>1, <2>2
<1>11. Follows(c, in, i)
  BY <1>10 DEF Follows
<1> QED
  BY <1>9, <1>11 DEF c

(* A replacement leaves no match of its pattern and makes none of another, *)
(* if these ignore markers.                                                *)
LEMMA ReplaceFree ==
  ASSUME NEW S, Marks \subseteq S, NEW in \in Seq(S), NEW p, R!IgnoresMarkers(p),
         NEW q, p = q \/ Free(p, in)
  PROVE  Free(p, R!ReplaceAllString(in, q))
<1> DEFINE G == [i \in 1..(Len(in) + 1) |-> {s \in Seq(S) : Free(p, s) /\ Follows(s, in, i)}]
<1>1. Len(in) \in Nat /\ \A i \in 1..Len(in) : in[i] \in S
  BY LenProperties
<1>2. \A i \in 1..(Len(in) + 1) : G[i] = {s \in Seq(S) : Free(p, s) /\ Follows(s, in, i)}
  OBVIOUS
<1> HIDE DEF G
<1>3. << >> \in G[Len(in) + 1]
  <2> DEFINE none == << >>
             last == Len(in) + 1
  <2>1. last \in 1..(Len(in) + 1) /\ 1 \in 1..(Len(none) + 1)
        /\ none \in Seq(S) /\ Len(none) = 0
    BY <1>1, EmptySeq
  <2>2. Part(none, 1, 0) = << >> /\ Part(in, last, 0) = << >>
    <3> HIDE DEF none, last
    <3>1. Part(none, 1, 0) = << >>
      BY <2>1, PartOfNone
    <3>2. Part(in, last, 0) = << >>
      BY <2>1, PartOfNone
    <3> QED
      BY <3>1, <3>2
  <2> HIDE DEF none
  <2>3. Follows(none, in, last)
    BY <1>1, <2>1, <2>2 DEF Follows
  <2>4. Free(p, none)
    <3>1. \A i \in 1..(Len(none) + 1) : i = 1 /\ \A n \in 0..(Len(none) + 1 - i) : n = 0
      BY <2>1
    <3>2. ~Matched(p, Part(none, 1, 0))
      BY <2>2, Ignores
    <3> QED
      BY <3>1, <3>2 DEF Free
  <2> HIDE DEF last
  <2>5. none \in G[last]
    BY <1>2, <2>1, <2>3, <2>4
  <2> QED
    BY <2>5 DEF none, last
<1>4. ASSUME NEW i \in 1..Len(in), Size(in, q, i) = 0, NEW s \in G[i + 1]
      PROVE  <<in[i]>> \o s \in G[i]
  <2>1. i \in 1..(Len(in) + 1) /\ i + 1 \in 1..(Len(in) + 1)
    BY <1>1
  <2>2. s \in Seq(S) /\ Free(p, s) /\ Follows(s, in, i + 1)
    BY <1>2, <2>1
  <2>3. <<in[i]>> \o s \in Seq(S)
    BY <1>1, <2>2, PutBefore
  <2>4. Free(p, <<in[i]>> \o s) /\ Follows(<<in[i]>> \o s, in, i)
    <3>1. in[i] \in S /\ ~(Size(in, q, i) > 0)
      BY <1>1, <1>4
    <3> QED
      BY <2>2, <3>1, FreeKept
  <2> QED
    BY <1>2, <2>1, <2>3, <2>4
<1>5. ASSUME NEW i \in 1..(Len(in) + 1), NEW n \in 0..(Len(in) + 1 - i), NEW s \in G[i + n]
      PROVE  R!Redacted \o s \in G[i]
  <2>1. i + n \in 1..(Len(in) + 1)
    BY <1>1
  <2>2. s \in Seq(S) /\ Free(p, s)
    BY <1>2, <2>1
  <2>3. R!Redacted \o s \in Seq(S)
    BY <2>2, MarkBefore
  <2>4. Free(p, R!Redacted \o s)
    BY <2>2, FreeMark
  <2>5. Follows(R!Redacted \o s, in, i)
    BY <2>2, MarkBrackets
  <2> QED
    BY <1>2, <2>3, <2>4, <2>5
<1>6. \A i \in 1..(Len(in) + 1) : \A b \in BOOLEAN : Scan(in, q)[<<i, b>>] \in G[i]
  BY <1>3, <1>4, <1>5, ScanInduction
<1>7. 1 \in 1..(Len(in) + 1)
  BY <1>1
<1>8. Scan(in, q)[<<1, TRUE>>] \in G[1]
  BY <1>6, <1>7
<1> QED
  BY <1>2, <1>7, <1>8, ReplaceIsScan

(* Scrub, pattern by pattern.                                              *)

AreReplacements(f, text, ps, n) ==
  f = [i \in 0..n |-> IF i = 0 THEN text ELSE R!ReplaceAllString(f[i - 1], ps[i])]

LEMMA ReplacementsExist ==
  ASSUME NEW text, NEW ps
  PROVE  \A n \in Nat : \E f : AreReplacements(f, text, ps, n)
<1> DEFINE next(r, i) == R!ReplaceAllString(r, ps[i])
           P(n) == \E f : f = [i \in 0..n |-> IF i = 0 THEN text ELSE next(f[i - 1], i)]
           S == {n \in Nat : P(n)}
<1> HIDE DEF next
<1>1. 0 \in S
  <2> DEFINE f == [i \in 0..0 |-> text]
  <2>1. f = [i \in 0..0 |-> IF i = 0 THEN text ELSE next(f[i - 1], i)]
    OBVIOUS
  <2> QED
    BY <2>1
<1>2. ASSUME NEW n \in Nat, n \in S
      PROVE  n + 1 \in S
  <2>1. PICK f : f = [i \in 0..n |-> IF i = 0 THEN text ELSE next(f[i - 1], i)]
    BY <1>2
  <2> DEFINE m == n + 1
             g == [i \in 0..m |-> IF i = m THEN next(f[n], m) ELSE f[i]]
             h == [i \in 0..m |-> IF i = 0 THEN text ELSE next(g[i - 1], i)]
  <2>2. ASSUME NEW i \in 0..m
        PROVE  g[i] = IF i = 0 THEN text ELSE next(g[i - 1], i)
    <3>1. CASE i = m
      <4>1. i - 1 = n /\ n \in 0..m /\ n # m /\ m # 0
        BY <3>1
      <4> QED
        BY <3>1, <4>1
    <3>2. CASE i # m
      <4>1. i \in 0..n /\ g[i] = f[i]
        BY <3>2
      <4>2. f[i] = IF i = 0 THEN text ELSE next(f[i - 1], i)
        BY <2>1, <4>1
      <4>3. i # 0 => g[i - 1] = f[i - 1]
        BY <3>2, <4>1
      <4> QED
        BY <4>1, <4>2, <4>3
    <3> QED
      BY <3>1, <3>2
  <2>3. g = h
    BY <2>2
  <2> HIDE DEF g
  <2>4. P(m)
    BY <2>3
  <2> HIDE DEF P
  <2> QED
    BY <2>4
<1> HIDE DEF S
<1>3. Nat \subseteq S
  BY <1>1, <1>2, InductionOnNat
<1>4. \A n \in Nat : P(n)
  BY <1>3 DEF S
<1> QED
  BY <1>4 DEF next, AreReplacements

LEMMA ReplacementSteps ==
  ASSUME NEW text, NEW ps, Len(ps) \in Nat
  PROVE  /\ Replacements(text, ps)[0] = text
         /\ \A n \in 1..Len(ps) : Replacements(text, ps)[n] =
              R!ReplaceAllString(Replacements(text, ps)[n - 1], ps[n])
<1> DEFINE F(f) == [n \in 0..Len(ps) |->
                     IF n = 0 THEN text ELSE R!ReplaceAllString(f[n - 1], ps[n])]
           f == Replacements(text, ps)
<1>1. \E g : g = F(g)
  <2>1. \E g : AreReplacements(g, text, ps, Len(ps))
    BY ReplacementsExist
  <2> QED
    BY <2>1 DEF AreReplacements
<1>2. f = CHOOSE g : g = F(g)
  BY DEF Replacements
<1>3. f = F(f)
  <2> HIDE DEF F, f
  <2> QED
    BY <1>1, <1>2
<1> HIDE DEF f
<1>4. \A n \in 0..Len(ps) : f[n] = F(f)[n]
  BY <1>3
<1>5. \A n \in 0..Len(ps) : f[n] = IF n = 0 THEN text ELSE R!ReplaceAllString(f[n - 1], ps[n])
  BY <1>4
<1>6. 0 \in 0..Len(ps) /\ \A n \in 1..Len(ps) : n \in 0..Len(ps) /\ n # 0
  OBVIOUS
<1> QED
  BY <1>5, <1>6, Zenon DEF f

(* Scrubbing leaves no match of a pattern that ignores markers, although   *)
(* later patterns change what it left, and keeps the atoms that none of    *)
(* them takes.                                                             *)
LEMMA ScrubbedFree ==
  ASSUME NEW S, Marks \subseteq S, NEW text \in Seq(S), NEW ps, Len(ps) \in Nat
  PROVE  /\ Scrubbed(text, ps) \in Seq(S)
         /\ \A i \in 1..Len(ps) : R!IgnoresMarkers(ps[i]) => Free(ps[i], Scrubbed(text, ps))
         /\ \A atom : /\ atom \notin Marks
                      /\ \A i \in 1..Len(ps) : atom \notin ps[i].takes
                      => R!Count(atom, Scrubbed(text, ps)) = R!Count(atom, text)
<1> DEFINE n == Len(ps)
           a == Replacements(text, ps)
           Untaken(atom) == atom \notin Marks /\ \A i \in 1..n : atom \notin ps[i].takes
           P(m) == /\ a[m] \in Seq(S)
                   /\ \A i \in 1..m : R!IgnoresMarkers(ps[i]) => Free(ps[i], a[m])
                   /\ \A atom : Untaken(atom) => R!Count(atom, a[m]) = R!Count(atom, text)
           T == {m \in Nat : m <= n => P(m)}
<1>1. a[0] = text /\ \A m \in 1..n : a[m] = R!ReplaceAllString(a[m - 1], ps[m])
  BY ReplacementSteps
<1> HIDE DEF a, n, Untaken
<1>2. 0 \in T
  BY <1>1
<1>3. ASSUME NEW m \in Nat, m \in T
      PROVE  m + 1 \in T
  <2> SUFFICES ASSUME m + 1 <= n
               PROVE  P(m + 1)
    OBVIOUS
  <2> DEFINE q == ps[m + 1]
             in == a[m]
             out == a[m + 1]
  <2>1. P(m) /\ m + 1 \in 1..n /\ (m + 1) - 1 = m
    BY <1>3 DEF n
  <2>2. out = R!ReplaceAllString(in, q)
    BY <1>1, <2>1
  <2>3. /\ in \in Seq(S)
        /\ \A i \in 1..m : R!IgnoresMarkers(ps[i]) => Free(ps[i], in)
        /\ \A atom : Untaken(atom) => R!Count(atom, in) = R!Count(atom, text)
    BY <2>1
  <2>4. \A atom : Untaken(atom) => atom \notin Marks /\ atom \notin q.takes
    BY <2>1 DEF Untaken
  <2>5. \A i \in 1..(m + 1) : ps[i] = q \/ i \in 1..m
    OBVIOUS
  <2> HIDE DEF q, in, out, P
  <2>6. out \in Seq(S)
    BY <2>2, <2>3, ReplaceType
  <2>7. ASSUME NEW i \in 1..(m + 1), R!IgnoresMarkers(ps[i])
        PROVE  Free(ps[i], out)
    <3>1. ps[i] = q \/ Free(ps[i], in)
      BY <2>3, <2>5, <2>7
    <3>2. Free(ps[i], R!ReplaceAllString(in, q))
      BY <2>3, <2>7, <3>1, ReplaceFree
    <3> QED
      BY <2>2, <3>2
  <2>8. ASSUME NEW atom, Untaken(atom)
        PROVE  R!Count(atom, out) = R!Count(atom, text)
    <3>1. R!Count(atom, R!ReplaceAllString(in, q)) = R!Count(atom, in)
      BY <2>3, <2>4, <2>8, ReplaceCounts
    <3> QED
      BY <2>2, <2>3, <2>8, <3>1
  <2> QED
    BY <2>6, <2>7, <2>8 DEF P, out
<1> HIDE DEF T
<1>4. Nat \subseteq T
  BY <1>2, <1>3, InductionOnNat
<1>5. P(n)
  BY <1>4 DEF T, n
<1> QED
  BY <1>5 DEF Scrubbed, Untaken, n, a

-------------------------------------------------------------------------------
(* The texts of a body, as they are taken out of it and as they are sent.  *)

(* The characters of the JSON around texts and of escapes; every atom.     *)
Syntax  == {"{", "}", ",", "\\", "quote", "newline", "n"}
AnyAtom == STRING \cup Syntax \cup Marks

LEMMA MoreSequences == \A A, B : A \subseteq B => Seq(A) \subseteq Seq(B)
OBVIOUS

LEMMA BodyTexts == RequestInv => body.messages \in Seq(MessageOf(Seq(AnyAtom)))
<1>1. STRING \subseteq AnyAtom
  BY DEF AnyAtom
<1>2. Seq(STRING) \subseteq Seq(AnyAtom)
  BY <1>1, MoreSequences
<1>3. Seq(Seq(STRING)) \subseteq Seq(Seq(AnyAtom))
  BY <1>2, MoreSequences
<1>4. MessageOf(Seq(STRING)) \subseteq MessageOf(Seq(AnyAtom))
  BY <1>3 DEF MessageOf
<1>5. Seq(MessageOf(Seq(STRING))) \subseteq Seq(MessageOf(Seq(AnyAtom)))
  BY <1>4, MoreSequences
<1> QED
  BY <1>5 DEF RequestInv, MessageType

LEMMA UserTextsType ==
  ASSUME NEW X, NEW b, b.messages \in Seq(MessageOf(X))
  PROVE  R!UserTexts(b) \in Seq(X)
<1>1. R!UserTexts(b) = FlattenSeq(TextsOf(b.messages))
  BY SameFlattening DEF R!UserTexts, TextsOf
<1>2. TextsOf(b.messages) \in Seq(Seq(X))
  BY TextsType
<1> QED
  BY <1>1, <1>2, FlattenType

LEMMA SyntaxTexts ==
  ASSUME NEW A, Syntax \subseteq A
  PROVE  \A x \in Syntax : <<x>> \in Seq(A)
<1>1. \A x \in A : <<x>> \in Seq(A)
  OBVIOUS
<1> QED
  BY <1>1

LEMMA EncodeType ==
  ASSUME NEW A, Syntax \subseteq A, NEW t \in Seq(A)
  PROVE  /\ R!Encode(t) = FlattenSeq([i \in 1..Len(t) |-> R!Escape(t[i])])
         /\ [i \in 1..Len(t) |-> R!Escape(t[i])] \in Seq(Seq(A))
         /\ R!Encode(t) \in Seq(A)
<1> DEFINE e == [i \in 1..Len(t) |-> R!Escape(t[i])]
<1>1. Len(t) \in Nat /\ DOMAIN t = 1..Len(t) /\ \A i \in 1..Len(t) : t[i] \in A
  BY LenProperties
<1>2. R!Encode(t) = FlattenSeq(e)
  BY <1>1, SameFlattening DEF R!Encode
<1>3. \A x \in A : R!Escape(x) \in Seq(A)
  <2>1. "\\" \in A /\ "quote" \in A /\ "n" \in A
    BY DEF Syntax
  <2>2. ASSUME NEW x \in A
        PROVE  R!Escape(x) \in {<<"\\", "quote">>, <<"\\", "n">>, <<x>>}
    BY DEF R!Escape
  <2>3. <<"\\", "quote">> \in Seq(A) /\ <<"\\", "n">> \in Seq(A)
    BY <2>1
  <2> QED
    BY <2>2, <2>3, OneIs
<1>4. e \in [1..Len(t) -> Seq(A)]
  BY <1>1, <1>3
<1>5. e \in Seq(Seq(A))
  BY <1>1, <1>4
<1>6. FlattenSeq(e) \in Seq(A)
  BY <1>5, FlattenType
<1> QED
  BY <1>2, <1>5, <1>6

SentTexts(b) == R!FlattenSeq([i \in DOMAIN b.messages |-> b.messages[i].content.texts])
Wrapped(texts) == [i \in DOMAIN texts |-> R!Encode(texts[i]) \o <<",">>]

LEMMA SentTextsType ==
  ASSUME NEW A, NEW b, b.messages \in Seq(MessageOf(Seq(A)))
  PROVE  /\ [i \in DOMAIN b.messages |-> b.messages[i].content.texts] \in Seq(Seq(Seq(A)))
         /\ SentTexts(b) \in Seq(Seq(A))
<1> DEFINE ms == b.messages
           c == [i \in DOMAIN ms |-> ms[i].content.texts]
<1>1. Len(ms) \in Nat /\ DOMAIN ms = 1..Len(ms) /\ \A i \in 1..Len(ms) : ms[i] \in MessageOf(Seq(A))
  BY LenProperties
<1>2. \A msg \in MessageOf(Seq(A)) : msg.content.texts \in Seq(Seq(A))
  BY DEF MessageOf
<1> HIDE DEF ms
<1>3. c \in [1..Len(ms) -> Seq(Seq(A))]
  BY <1>1, <1>2
<1>4. c \in Seq(Seq(Seq(A)))
  BY <1>1, <1>3
<1> HIDE DEF c
<1>5. FlattenSeq(c) \in Seq(Seq(A))
  BY <1>4, FlattenType
<1> QED
  BY <1>4, <1>5, SameFlattening DEF SentTexts, c, ms

LEMMA WrappedType ==
  ASSUME NEW A, Syntax \subseteq A, NEW texts \in Seq(Seq(A))
  PROVE  Wrapped(texts) \in Seq(Seq(A)) /\ Len(Wrapped(texts)) = Len(texts)
<1>1. /\ Len(texts) \in Nat /\ DOMAIN texts = 1..Len(texts)
      /\ \A i \in 1..Len(texts) : texts[i] \in Seq(A)
  BY LenProperties
<1>2. <<",">> \in Seq(A)
  <2>1. "," \in Syntax
    BY DEF Syntax
  <2> QED
    BY <2>1, SyntaxTexts, Zenon
<1>3. \A t \in Seq(A) : R!Encode(t) \o <<",">> \in Seq(A)
  BY <1>2, EncodeType, ConcatProperties
<1>4. Wrapped(texts) \in [1..Len(texts) -> Seq(A)]
  BY <1>1, <1>3 DEF Wrapped
<1> DEFINE w == Wrapped(texts)
           S == Seq(A)
           n == Len(texts)
<1>5. n \in Nat /\ w \in [1..n -> S]
  BY <1>1, <1>4
<1> HIDE DEF w, S, n
<1>6. w \in Seq(S) /\ Len(w) = n
  BY <1>5
<1> QED
  BY <1>6 DEF w, S, n

LEMMA RawType ==
  ASSUME NEW A, Syntax \subseteq A, NEW b, b.messages \in Seq(MessageOf(Seq(A)))
  PROVE  /\ R!Raw(b) = <<"{">> \o FlattenSeq(Wrapped(SentTexts(b))) \o <<"}">>
         /\ R!Raw(b) \in Seq(A)
<1> DEFINE w == FlattenSeq(Wrapped(SentTexts(b)))
<1>1. R!Raw(b) = <<"{">> \o w \o <<"}">>
  BY SameFlattening DEF R!Raw, SentTexts, Wrapped
<1>2. SentTexts(b) \in Seq(Seq(A))
  BY SentTextsType
<1>3. w \in Seq(A)
  BY <1>2, WrappedType, FlattenType
<1>4. <<"{">> \in Seq(A) /\ <<"}">> \in Seq(A)
  <2>1. "{" \in Syntax /\ "}" \in Syntax
    BY DEF Syntax
  <2> QED
    BY <2>1, SyntaxTexts, Zenon
<1> HIDE DEF w
<1>5. <<"{">> \o w \o <<"}">> \in Seq(A)
  BY <1>3, <1>4, ConcatProperties
<1> QED
  BY <1>1, <1>5 DEF w

LEMMA StoredOne ==
  ASSUME NEW texts, NEW x, \E A : texts \in Seq(A)
  PROVE  \A j \in DOMAIN (texts \o <<x>>) :
           (texts \o <<x>>)[j] = x \/ \E i \in DOMAIN texts : (texts \o <<x>>)[j] = texts[i]
<1>1. PICK A : texts \in Seq(A)
  OBVIOUS
<1> DEFINE B == A \cup {x}
           c == texts \o <<x>>
<1>2. texts \in Seq(B) /\ <<x>> \in Seq(B) /\ Len(<<x>>) = 1 /\ <<x>>[1] = x
  BY <1>1
<1>3. Len(texts) \in Nat /\ DOMAIN texts = 1..Len(texts)
  BY <1>1, LenProperties
<1>4. /\ c \in Seq(B) /\ Len(c) = Len(texts) + 1
      /\ \A i \in 1..(Len(texts) + 1) :
           c[i] = IF i <= Len(texts) THEN texts[i] ELSE <<x>>[i - Len(texts)]
  BY <1>2, ConcatProperties
<1> HIDE DEF c, B
<1>5. DOMAIN c = 1..(Len(texts) + 1)
  BY <1>4, LenProperties
<1>6. ASSUME NEW j \in DOMAIN c
      PROVE  c[j] = x \/ \E i \in DOMAIN texts : c[j] = texts[i]
  <2>1. CASE j <= Len(texts)
    <3>1. j \in DOMAIN texts /\ c[j] = texts[j]
      BY <1>3, <1>4, <1>5, <2>1
    <3> QED
      BY <3>1
  <2>2. CASE ~(j <= Len(texts))
    <3>1. j - Len(texts) = 1
      BY <1>3, <1>5, <2>2
    <3>2. c[j] = <<x>>[j - Len(texts)]
      BY <1>4, <1>5, <2>2
    <3> QED
      BY <1>2, <3>1, <3>2
  <2> QED
    BY <2>1, <2>2
<1> QED
  BY <1>6 DEF c

LEMMA InvOnlyMatchesRedacted == RequestInv => OnlyMatchesRedacted
<1> SUFFICES ASSUME RequestInv, scrubberPc = "stored", capture
             PROVE  /\ \A i \in DOMAIN patterns, j \in DOMAIN R!stored :
                         R!IgnoresMarkers(patterns[i]) => ~R!HasMatch(patterns[i], R!stored[j])
                    /\ \A atom \in R!Range(R!Raw(body)) \ R!Range(R!Redacted) :
                         (\A i \in DOMAIN patterns : atom \notin patterns[i].takes) =>
                           R!Count(atom, result.raw) = R!Count(atom, R!Raw(body))
  BY Zenon DEF OnlyMatchesRedacted, R!OnlyMatchesRedacted
<1> DEFINE A == AnyAtom
           um == result.user_messages
           raw == result.raw
           texts == R!UserTexts(body)
           Clean(s) == \A i \in DOMAIN patterns :
                         R!IgnoresMarkers(patterns[i]) => ~R!HasMatch(patterns[i], s)
<1>1. Syntax \subseteq A /\ Marks \subseteq A
  BY DEF AnyAtom
<1>2. R!Raw(body) \in Seq(A) /\ texts \in Seq(Seq(A))
  BY <1>1, BodyTexts, RawType, UserTextsType
<1>3. /\ um = [i \in DOMAIN texts |-> Scrubbed(texts[i], patterns)]
      /\ raw = Scrubbed(R!Raw(body), patterns)
  <2>1. result = ResultOf(capture, patterns, body)
    BY SameResult DEF RequestInv
  <2> QED
    BY <2>1 DEF ResultOf
<1>4. Len(patterns) \in Nat /\ DOMAIN patterns = 1..Len(patterns)
  BY LenProperties DEF RequestInv
<1> HIDE DEF A, um, raw, texts
<1>5. ASSUME NEW t \in Seq(A)
      PROVE  Scrubbed(t, patterns) \in Seq(A) /\ Clean(Scrubbed(t, patterns))
  <2>1. /\ Scrubbed(t, patterns) \in Seq(A)
        /\ \A i \in 1..Len(patterns) :
             R!IgnoresMarkers(patterns[i]) => Free(patterns[i], Scrubbed(t, patterns))
    BY <1>1, <1>4, ScrubbedFree
  <2>2. \A i \in 1..Len(patterns) : R!IgnoresMarkers(patterns[i]) =>
          ~R!HasMatch(patterns[i], Scrubbed(t, patterns))
    BY <2>1, Ignores, FreeOfMatches
  <2> QED
    BY <1>4, <2>1, <2>2
<1>6. ASSUME NEW atom \in R!Range(R!Raw(body)) \ R!Range(R!Redacted),
             \A i \in DOMAIN patterns : atom \notin patterns[i].takes
      PROVE  R!Count(atom, raw) = R!Count(atom, R!Raw(body))
  <2>1. Marks \subseteq R!Range(R!Redacted)
    <3> DEFINE r == R!Redacted
    <3>1. DOMAIN r = {1, 2, 3} /\ r[1] = "[" /\ r[2] = "REDACTED" /\ r[3] = "]"
      BY DEF R!Redacted
    <3> HIDE DEF r
    <3>2. "[" \in R!Range(r) /\ "REDACTED" \in R!Range(r) /\ "]" \in R!Range(r)
      BY <3>1, Zenon DEF R!Range
    <3> QED
      BY <3>2, Zenon DEF Marks, r
  <2>2. atom \notin Marks /\ \A i \in 1..Len(patterns) : atom \notin patterns[i].takes
    BY <1>4, <1>6, <2>1
  <2>3. R!Count(atom, Scrubbed(R!Raw(body), patterns)) = R!Count(atom, R!Raw(body))
    BY <1>1, <1>2, <1>4, <2>2, ScrubbedFree
  <2> QED
    BY <1>3, <2>3
<1> HIDE DEF Clean
<1>7. Clean(raw)
  BY <1>2, <1>3, <1>5
<1>8. um \in Seq(Seq(A)) /\ \A i \in DOMAIN um : Clean(um[i])
  <2>1. Len(texts) \in Nat /\ DOMAIN texts = 1..Len(texts)
        /\ \A i \in 1..Len(texts) : texts[i] \in Seq(A)
    BY <1>2, LenProperties
  <2>2. um \in [1..Len(texts) -> Seq(A)] /\ DOMAIN um = 1..Len(texts)
        /\ \A i \in DOMAIN um : Clean(um[i])
    BY <1>3, <1>5, <2>1
  <2> QED
    BY <2>1, <2>2, FunctionIsSequence
<1>9. \A j \in DOMAIN R!stored : Clean(R!stored[j])
  <2>1. R!stored = um \o <<raw>>
    BY DEF R!stored, um, raw
  <2>2. \A j \in DOMAIN (um \o <<raw>>) :
          (um \o <<raw>>)[j] = raw \/ \E i \in DOMAIN um : (um \o <<raw>>)[j] = um[i]
    BY <1>8, StoredOne
  <2> QED
    BY <1>7, <1>8, <2>1, <2>2, Zenon
<1> QED
  BY <1>6, <1>9, Zenon DEF Clean, raw

(* Whatever the regular expressions, their order, and the bodies: what a   *)
(* pattern that ignores markers matches is in no column, whatever the      *)
(* patterns after it make of the text; and what none of them takes is      *)
(* stored as often as it was sent.                                         *)
THEOREM OnlyMatchesRedactedHolds == AuditSpec => []OnlyMatchesRedacted
BY RequestHolds, InvOnlyMatchesRedacted, PTL

-------------------------------------------------------------------------------
(* Either side of an atom that the pattern does not take.                  *)

(* What matches at i in one text is at j in another.                       *)
Carries(p, in, i, out, j) ==
  \A n : PartAt(in, i, n) /\ Matched(p, Part(in, i, n)) =>
           PartAt(out, j, n) /\ Part(in, i, n) = Part(out, j, n)

LEMMA FoundCarried ==
  ASSUME NEW p, ~p.looks, NEW in, NEW i \in 1..(Len(in) + 1), NEW out, NEW j,
         Carries(p, in, i, out, j)
  PROVE  R!Found(p, in, i) \subseteq R!Found(p, out, j)
<1> SUFFICES ASSUME NEW s \in R!Found(p, in, i)
             PROVE  s \in R!Found(p, out, j)
  OBVIOUS
<1>1. PICK n \in 0..(Len(in) + 1 - i) :
        s = Bare(Part(in, i, n)) /\ Matched(p, Part(in, i, n))
  BY IsFound
<1>2. PartAt(in, i, n)
  BY DEF PartAt
<1>3. PartAt(out, j, n) /\ Part(in, i, n) = Part(out, j, n)
  BY <1>1, <1>2 DEF Carries
<1>4. n \in 0..(Len(out) + 1 - j)
  BY <1>3 DEF PartAt
<1>5. Bare(Part(out, j, n)) \in R!Found(p, out, j)
  BY <1>1, <1>3, <1>4, IsFound
<1> QED
  BY <1>1, <1>3, <1>5

LEMMA FoundAround ==
  ASSUME NEW S, NEW in \in Seq(S), NEW a \in Seq(S), NEW x, NEW c \in Seq(S),
         IsAround(in, a, x, c), NEW p, ~p.looks, x \notin p.takes
  PROVE  /\ \A i \in 1..(Len(a) + 1) : R!Found(p, in, i) = R!Found(p, a, i)
         /\ \A j \in 1..(Len(c) + 1) : R!Found(p, in, Len(a) + 1 + j) = R!Found(p, c, j)
<1> DEFINE la == Len(a)
           lc == Len(c)
<1>1. /\ la \in Nat /\ lc \in Nat /\ Len(in) = la + 1 + lc
      /\ \A i \in 1..la : in[i] = a[i]
      /\ in[la + 1] = x
      /\ \A j \in 1..lc : in[la + 1 + j] = c[j]
  BY DEF IsAround
<1>2. ASSUME NEW i \in 1..(la + 1)
      PROVE  R!Found(p, in, i) = R!Found(p, a, i)
  <2>1. i \in 1..(Len(in) + 1) /\ i \in 1..(Len(a) + 1)
    BY <1>1
  <2>2. ASSUME NEW n \in 0..(la + 1 - i)
        PROVE  PartAt(in, i, n) /\ PartAt(a, i, n) /\ Part(in, i, n) = Part(a, i, n)
    <3>1. PartAt(in, i, n) /\ PartAt(a, i, n)
      BY <1>1 DEF PartAt
    <3>2. SameAtoms(in, i, a, i, n)
      BY <1>1 DEF SameAtoms
    <3> QED
      BY <3>1, <3>2, SameParts
  <2>3. ASSUME NEW n, PartAt(in, i, n), Matched(p, Part(in, i, n))
        PROVE  n \in 0..(la + 1 - i)
    <3>1. n \in 0..(Len(in) + 1 - i)
      BY <2>3 DEF PartAt
    <3>2. \A k \in 1..n : in[i + k - 1] \in p.takes
      BY <2>1, <2>3, <3>1, TakesParts
    <3> SUFFICES ASSUME n \notin 0..(la + 1 - i)
                 PROVE  FALSE
      OBVIOUS
    <3> DEFINE k == la + 2 - i
    <3>3. k \in 1..n /\ i + k - 1 = la + 1
      BY <1>1, <3>1
    <3> HIDE DEF k
    <3> QED
      BY <1>1, <3>2, <3>3
  <2>4. Carries(p, in, i, a, i)
    BY <2>2, <2>3 DEF Carries
  <2>5. Carries(p, a, i, in, i)
    <3>1. \A n : PartAt(a, i, n) => n \in 0..(la + 1 - i)
      BY DEF PartAt
    <3> QED
      BY <2>2, <3>1 DEF Carries
  <2>6. R!Found(p, in, i) \subseteq R!Found(p, a, i)
    BY <2>1, <2>4, FoundCarried
  <2>7. R!Found(p, a, i) \subseteq R!Found(p, in, i)
    BY <2>1, <2>5, FoundCarried
  <2> QED
    BY <2>6, <2>7
<1>3. ASSUME NEW j \in 1..(lc + 1)
      PROVE  R!Found(p, in, la + 1 + j) = R!Found(p, c, j)
  <2> DEFINE i == la + 1 + j
  <2>1. /\ i \in 1..(Len(in) + 1) /\ j \in 1..(Len(c) + 1)
        /\ \A n : PartAt(in, i, n) <=> PartAt(c, j, n)
    BY <1>1 DEF PartAt
  <2>2. ASSUME NEW n, PartAt(c, j, n)
        PROVE  Part(in, i, n) = Part(c, j, n)
    <3>1. n \in 0..(lc + 1 - j)
      BY <2>2 DEF PartAt
    <3>2. \A k \in 1..n : j + k - 1 \in 1..lc /\ i + k - 1 = la + 1 + (j + k - 1)
      BY <1>1, <3>1
    <3>3. SameAtoms(in, i, c, j, n)
      BY <1>1, <3>2 DEF SameAtoms
    <3>4. PartAt(in, i, n)
      BY <2>1, <2>2
    <3> HIDE DEF i
    <3> QED
      BY <2>2, <3>3, <3>4, SameParts
  <2> HIDE DEF i, la, lc
  <2>3. Carries(p, in, i, c, j) /\ Carries(p, c, j, in, i)
    BY <2>1, <2>2 DEF Carries
  <2>4. R!Found(p, in, i) \subseteq R!Found(p, c, j)
    BY <2>1, <2>3, FoundCarried
  <2>5. R!Found(p, c, j) \subseteq R!Found(p, in, i)
    BY <2>1, <2>3, FoundCarried
  <2> QED
    BY <2>4, <2>5 DEF i
<1> QED
  BY <1>2, <1>3

(* A scan that finds the same in front of more text.                       *)
RunsOn(S, p, in, f, out, g, i, mid) ==
  /\ R!Found(p, in, i) = R!Found(p, out, i)
  /\ Kept(out, g, i) \in Seq(S)
  /\ Kept(in, f, i) = Kept(out, g, i) \o mid
  /\ \/ ~(Size(out, p, i) > 0)
     \/ /\ g[<<i + Size(out, p, i), FALSE>>] \in Seq(S)
        /\ f[<<i + Size(out, p, i), FALSE>>] = g[<<i + Size(out, p, i), FALSE>>] \o mid

LEMMA FillMore ==
  ASSUME NEW S, Marks \subseteq S, NEW p, NEW in, NEW out, NEW i, NEW f, NEW g, NEW b,
         NEW mid \in Seq(S), RunsOn(S, p, in, f, out, g, i, mid)
  PROVE  Fill(in, p, f, i, b) = Fill(out, p, g, i, b) \o mid
<1> DEFINE n == Size(out, p, i)
           kept == Kept(out, g, i)
           rest == g[<<i + n, FALSE>>]
           mark == R!Redacted
<1>0. R!Found(p, in, i) = R!Found(p, out, i)
  BY Zenon DEF RunsOn
<1>1. Size(in, p, i) = n
  BY <1>0, Zenon DEF Size
<1>2. mark \in Seq(S)
  BY MarkBefore, EmptySeq
<1> HIDE DEF kept, rest, mark, n
<1>3. ASSUME NEW s \in Seq(S)
      PROVE  (mark \o s) \o mid = mark \o (s \o mid)
  <2>1. Associates(S, mark, s, mid)
    BY <1>2, Associate
  <2> QED
    BY <2>1 DEF Associates
<1>4. CASE n > 0
  <2>1. rest \in Seq(S) /\ f[<<i + n, FALSE>>] = rest \o mid
    BY <1>4, Zenon DEF rest, n, RunsOn
  <2>2. Fill(in, p, f, i, b) = mark \o f[<<i + n, FALSE>>] /\ Fill(out, p, g, i, b) = mark \o rest
    BY <1>1, <1>4, Zenon DEF Fill, rest, n, mark
  <2> QED
    BY <1>3, <2>1, <2>2
<1>5. CASE ~(n > 0)
  <2>1. kept \in Seq(S) /\ Kept(in, f, i) = kept \o mid
    BY Zenon DEF kept, RunsOn
  <2>2. CASE b /\ R!Found(p, out, i) # {}
    <3>1. Fill(in, p, f, i, b) = mark \o (kept \o mid) /\ Fill(out, p, g, i, b) = mark \o kept
      BY <1>0, <1>1, <1>5, <2>1, <2>2, Zenon DEF Fill, kept, n, mark
    <3> QED
      BY <1>3, <2>1, <3>1
  <2>3. CASE ~(b /\ R!Found(p, out, i) # {})
    BY <1>0, <1>1, <1>5, <2>1, <2>3, Zenon DEF Fill, kept, n
  <2> QED
    BY <2>2, <2>3
<1> QED
  BY <1>4, <1>5

(* After an atom that the pattern does not take, a scan does as if the     *)
(* text began there.  (S is a parameter so that the provers find the       *)
(* instance of the lemma.)                                                 *)
ScansAfter(S, p, in, a, c) ==
  \A j \in 1..(Len(c) + 1) : \A b \in BOOLEAN :
    Scan(in, p)[<<Len(a) + 1 + j, b>>] = Scan(c, p)[<<j, b>>]

LEMMA ScanAfter ==
  ASSUME NEW S, NEW in \in Seq(S), NEW a \in Seq(S), NEW x, NEW c \in Seq(S),
         IsAround(in, a, x, c), NEW p, ~p.looks, x \notin p.takes
  PROVE  ScansAfter(S, p, in, a, c)
<1> DEFINE o == Len(a) + 1
           lc == Len(c)
<1>1. /\ o \in Nat /\ lc \in Nat /\ Len(in) = o + lc
      /\ \A j \in 1..lc : in[o + j] = c[j]
  <2>1. Len(a) \in Nat /\ Len(c) \in Nat /\ Len(in) = Len(a) + 1 + Len(c)
    BY Zenon DEF IsAround
  <2>2. \A j \in 1..lc : in[o + j] = c[j]
    BY Zenon DEF IsAround
  <2> QED
    BY <2>1, <2>2
<1> DEFINE f == Scan(in, p)
           g == Scan(c, p)
           T == {j \in 1..(lc + 1) : \A b \in BOOLEAN : f[<<o + j, b>>] = g[<<j, b>>]}
<1>2. \A j \in 1..(lc + 1) : R!Found(p, in, o + j) = R!Found(p, c, j)
  BY FoundAround
<1>3. /\ \A i \in 1..(Len(in) + 1) : \A b \in BOOLEAN : f[<<i, b>>] = Fill(in, p, f, i, b)
      /\ \A j \in 1..(lc + 1) : \A b \in BOOLEAN : g[<<j, b>>] = Fill(c, p, g, j, b)
  BY ScanSteps
<1>4. \A j \in 1..(lc + 1) : Size(c, p, j) \in 0..(lc + 1 - j)
  BY SizeOf
<1>5. \A j \in 1..(lc + 1) : Size(in, p, o + j) = Size(c, p, j)
  BY <1>2, Zenon DEF Size
<1> HIDE DEF f, g, o, lc
<1>6. ASSUME NEW j \in 1..(lc + 1), \A k \in (j + 1)..(lc + 1) : k \in T
      PROVE  j \in T
  <2> DEFINE n == Size(c, p, j)
             i == o + j
  <2>1. i \in 1..(Len(in) + 1)
    BY <1>1
  <2>2. R!Found(p, in, i) = R!Found(p, c, j)
    BY <1>2
  <2>3. Kept(in, f, i) = Kept(c, g, j)
    <3>1. CASE j > lc
      <4>1. i > Len(in)
        BY <1>1, <3>1
      <4> QED
        BY <3>1, <4>1 DEF Kept, lc
    <3>2. CASE ~(j > lc)
      <4>1. ~(i > Len(in)) /\ j \in 1..lc /\ j + 1 \in (j + 1)..(lc + 1) /\ i + 1 = o + (j + 1)
        BY <1>1, <3>2
      <4>2. f[<<o + (j + 1), TRUE>>] = g[<<j + 1, TRUE>>]
        BY <1>6, <4>1
      <4>3. in[i] = c[j]
        BY <1>1, <4>1
      <4> HIDE DEF i
      <4>4. Kept(in, f, i) = <<in[i]>> \o f[<<i + 1, TRUE>>]
        BY <4>1, Zenon DEF Kept
      <4>5. Kept(c, g, j) = <<c[j]>> \o g[<<j + 1, TRUE>>]
        BY <3>2, Zenon DEF Kept, lc
      <4> QED
        BY <4>1, <4>2, <4>3, <4>4, <4>5, Zenon
    <3> QED
      BY <3>1, <3>2
  <2>4. f[<<i + n, FALSE>>] = g[<<j + n, FALSE>>] \/ ~(n > 0)
    <3> SUFFICES ASSUME n > 0
                 PROVE  f[<<i + n, FALSE>>] = g[<<j + n, FALSE>>]
      OBVIOUS
    <3>1. n \in 0..(lc + 1 - j)
      BY <1>4
    <3> HIDE DEF n
    <3>2. j + n \in (j + 1)..(lc + 1) /\ i + n = o + (j + n)
      BY <1>1, <3>1
    <3>3. f[<<o + (j + n), FALSE>>] = g[<<j + n, FALSE>>]
      BY <1>6, <3>2
    <3> HIDE DEF i
    <3> QED
      BY <3>2, <3>3, Zenon
  <2>5. Size(in, p, i) = n
    BY <1>5
  <2>6. Size(c, p, j) = n
    OBVIOUS
  <2> HIDE DEF i, n
  <2>7. ASSUME NEW b \in BOOLEAN
        PROVE  f[<<i, b>>] = g[<<j, b>>]
    <3>1. Fill(in, p, f, i, b) = Fill(c, p, g, j, b)
      BY <2>2, <2>3, <2>4, <2>5, <2>6, Zenon DEF Fill
    <3>2. f[<<i, b>>] = Fill(in, p, f, i, b)
      BY <1>3, <2>1
    <3>3. g[<<j, b>>] = Fill(c, p, g, j, b)
      BY <1>3
    <3> QED
      BY <3>1, <3>2, <3>3
  <2> QED
    BY <2>7 DEF i
<1> HIDE DEF T
<1>7. 1..(lc + 1) \subseteq T
  BY <1>1, <1>6, Downward
<1> QED
  BY <1>7, Zenon DEF T, f, g, o, lc, ScansAfter

(* (S is a parameter so that the provers find the instance of the lemma.)  *)
ReplacesAround(S, p, a, x, c) ==
  R!ReplaceAllString(a \o <<x>> \o c, p)
    = R!ReplaceAllString(a, p) \o <<x>> \o R!ReplaceAllString(c, p)

LEMMA ReplaceAround ==
  ASSUME NEW S, Marks \subseteq S, NEW a \in Seq(S), NEW x \in S, NEW c \in Seq(S),
         NEW p, ~p.looks, x \notin p.takes
  PROVE  ReplacesAround(S, p, a, x, c)
<1> DEFINE in == a \o <<x>> \o c
           la == Len(a)
           f == Scan(in, p)
           g == Scan(a, p)
           h == Scan(c, p)[<<1, TRUE>>]
           mid == <<x>> \o h
           T == {i \in 1..(la + 1) : \A b \in BOOLEAN : f[<<i, b>>] = g[<<i, b>>] \o mid}
<1>1. in \in Seq(S) /\ IsAround(in, a, x, c)
  BY Around
<1> HIDE DEF in
<1>2. /\ la \in Nat /\ Len(c) \in Nat /\ Len(in) = la + 1 + Len(c)
      /\ \A i \in 1..la : in[i] = a[i]
      /\ in[la + 1] = x
  BY <1>1 DEF IsAround
<1>3. \A i \in 1..(la + 1) : R!Found(p, in, i) = R!Found(p, a, i)
  BY <1>1, FoundAround
<1>4. /\ \A i \in 1..(Len(in) + 1) : \A b \in BOOLEAN : f[<<i, b>>] = Fill(in, p, f, i, b)
      /\ \A i \in 1..(la + 1) : \A b \in BOOLEAN : g[<<i, b>>] = Fill(a, p, g, i, b)
  BY <1>1, ScanSteps
<1>5. \A i \in 1..(la + 1) : Size(a, p, i) \in 0..(la + 1 - i)
  BY SizeOf
<1>6. \A i \in 1..(la + 1) : \A b \in BOOLEAN : g[<<i, b>>] \in Seq(S)
  BY ScanType
<1>7. h \in Seq(S) /\ f[<<la + 2, TRUE>>] = h
  <2>1. 1 \in 1..(Len(c) + 1) /\ Len(a) + 1 + 1 = la + 2
    BY <1>2
  <2>2. h \in Seq(S)
    BY <2>1, ScanType
  <2>3. \A j \in 1..(Len(c) + 1) : \A b \in BOOLEAN :
          f[<<Len(a) + 1 + j, b>>] = Scan(c, p)[<<j, b>>]
    <3>1. ScansAfter(S, p, in, a, c)
      BY <1>1, ScanAfter
    <3> QED
      BY <3>1, Zenon DEF ScansAfter
  <2> HIDE DEF f
  <2>4. f[<<Len(a) + 1 + 1, TRUE>>] = h
    BY <2>1, <2>3, Zenon
  <2> HIDE DEF h
  <2> QED
    BY <2>1, <2>2, <2>4
<1> HIDE DEF f, g, h, la
<1>8. mid \in Seq(S) /\ <<x>> \in Seq(S)
  BY <1>7, PutBefore, OneIs
<1> HIDE DEF mid
<1>9. ASSUME NEW i \in 1..(la + 1), \A k \in (i + 1)..(la + 1) : k \in T
      PROVE  i \in T
  <2> DEFINE n == Size(a, p, i)
  <2>1. i \in 1..(Len(in) + 1)
    BY <1>2
  <2>2. Kept(a, g, i) \in Seq(S) /\ Kept(in, f, i) = Kept(a, g, i) \o mid
    <3>1. CASE i = la + 1
      <4>1. i > la /\ ~(i > Len(in)) /\ i + 1 = la + 2
        BY <1>2, <3>1
      <4>2. Kept(a, g, i) = << >>
        BY <4>1, Zenon DEF Kept, la
      <4>3. Kept(in, f, i) = <<in[i]>> \o f[<<i + 1, TRUE>>]
        BY <4>1, Zenon DEF Kept
      <4>4. f[<<i + 1, TRUE>>] = h /\ in[i] = x
        BY <1>2, <1>7, <3>1, <4>1
      <4>5. Kept(in, f, i) = mid
        BY <4>3, <4>4 DEF mid
      <4>6. << >> \o mid = mid /\ << >> \in Seq(S)
        BY <1>8, ConcatEmptySeq, EmptySeq
      <4> QED
        BY <4>2, <4>5, <4>6
    <3>2. CASE i # la + 1
      <4>1. /\ ~(i > la) /\ ~(i > Len(in)) /\ i \in 1..la
            /\ i + 1 \in (i + 1)..(la + 1) /\ i + 1 \in 1..(la + 1)
        BY <1>2, <3>2
      <4> DEFINE u == <<a[i]>>
                 v == g[<<i + 1, TRUE>>]
      <4>2. u \in Seq(S) /\ v \in Seq(S)
        <5>1. a[i] \in S
          BY <4>1, ElementOfSeq DEF la
        <5> QED
          BY <1>6, <4>1, <5>1, OneIs
      <4>3. Kept(a, g, i) = u \o v
        BY <4>1, Zenon DEF Kept, la
      <4>4. Kept(in, f, i) = <<in[i]>> \o f[<<i + 1, TRUE>>]
        BY <4>1, Zenon DEF Kept
      <4>5. in[i] = a[i] /\ f[<<i + 1, TRUE>>] = v \o mid
        BY <1>2, <1>9, <4>1
      <4>6. Kept(in, f, i) = u \o (v \o mid)
        BY <4>4, <4>5
      <4> HIDE DEF u, v
      <4>7. Associates(S, u, v, mid)
        BY <1>8, <4>2, Associate
      <4>8. u \o v \in Seq(S)
        BY <4>2, ConcatProperties
      <4> QED
        BY <4>3, <4>6, <4>7, <4>8, Zenon DEF Associates
    <3> QED
      BY <3>1, <3>2
  <2>3. \/ ~(n > 0)
        \/ /\ g[<<i + n, FALSE>>] \in Seq(S)
           /\ f[<<i + n, FALSE>>] = g[<<i + n, FALSE>>] \o mid
    <3> SUFFICES ASSUME n > 0
                 PROVE  /\ g[<<i + n, FALSE>>] \in Seq(S)
                        /\ f[<<i + n, FALSE>>] = g[<<i + n, FALSE>>] \o mid
      OBVIOUS
    <3>1. i + n \in (i + 1)..(la + 1) /\ i + n \in 1..(la + 1)
      BY <1>2, <1>5
    <3> QED
      BY <1>6, <1>9, <3>1
  <2>4. R!Found(p, in, i) = R!Found(p, a, i)
    BY <1>3
  <2> DEFINE ahead == RunsOn(S, p, in, f, a, g, i, mid)
  <2>5. ahead
    BY <2>2, <2>3, <2>4, Zenon DEF RunsOn
  <2> HIDE DEF n, ahead
  <2>6. ASSUME NEW b \in BOOLEAN
        PROVE  f[<<i, b>>] = g[<<i, b>>] \o mid
    <3>1. Fill(in, p, f, i, b) = Fill(a, p, g, i, b) \o mid
      BY <1>8, <2>5, FillMore DEF ahead
    <3>2. f[<<i, b>>] = Fill(in, p, f, i, b)
      BY <1>4, <2>1
    <3>3. g[<<i, b>>] = Fill(a, p, g, i, b)
      BY <1>4
    <3> QED
      BY <3>1, <3>2, <3>3
  <2> QED
    BY <2>6
<1> HIDE DEF T
<1>10. 1..(la + 1) \subseteq T
  BY <1>2, <1>9, Downward
<1> DEFINE u == g[<<1, TRUE>>]
<1>11. f[<<1, TRUE>>] = u \o mid /\ u \in Seq(S)
  <2>1. 1 \in 1..(la + 1)
    BY <1>2
  <2> QED
    BY <1>6, <1>10, <2>1 DEF T
<1> HIDE DEF u
<1>12. u \o (<<x>> \o h) = (u \o <<x>>) \o h
  <2>1. Associates(S, u, <<x>>, h)
    BY <1>7, <1>8, <1>11, Associate
  <2> QED
    BY <2>1 DEF Associates
<1>13. /\ R!ReplaceAllString(in, p) = f[<<1, TRUE>>]
       /\ R!ReplaceAllString(a, p) = u /\ R!ReplaceAllString(c, p) = h
  BY ReplaceIsScan DEF f, g, h, u
<1> QED
  BY <1>11, <1>12, <1>13 DEF in, mid, ReplacesAround

LEMMA SplitAt ==
  ASSUME NEW S, NEW s \in Seq(S), NEW k \in 1..Len(s)
  PROVE  /\ SubSeq(s, 1, k - 1) \in Seq(S) /\ Len(SubSeq(s, 1, k - 1)) = k - 1
         /\ SubSeq(s, k + 1, Len(s)) \in Seq(S) /\ Len(SubSeq(s, k + 1, Len(s))) = Len(s) - k
         /\ s[k] \in S
         /\ s = SubSeq(s, 1, k - 1) \o <<s[k]>> \o SubSeq(s, k + 1, Len(s))
<1>1. Len(s) \in Nat /\ \A i \in 1..Len(s) : s[i] \in S
  BY LenProperties
<1>2. SubSeq(s, 1, k - 1) \in Seq(S) /\ Len(SubSeq(s, 1, k - 1)) = k - 1
  <2>1. \A i \in 1..(k - 1) : s[i] \in S
    BY <1>1
  <2>2. (IF 1 <= k - 1 THEN (k - 1) - 1 + 1 ELSE 0) = k - 1
    OBVIOUS
  <2>3. k - 1 \in Int
    OBVIOUS
  <2> QED
    BY <2>1, <2>2, <2>3, SubSeqProperties
<1>3. SubSeq(s, k + 1, Len(s)) \in Seq(S) /\ Len(SubSeq(s, k + 1, Len(s))) = Len(s) - k
  <2>1. \A i \in (k + 1)..Len(s) : s[i] \in S
    BY <1>1
  <2>2. (IF k + 1 <= Len(s) THEN Len(s) - (k + 1) + 1 ELSE 0) = Len(s) - k
    BY <1>1
  <2>3. k + 1 \in Int
    OBVIOUS
  <2> QED
    BY <1>1, <2>1, <2>2, <2>3, SubSeqProperties
<1>4. SubSeq(s, 1, k - 1) \o <<s[k]>> = SubSeq(s, 1, k)
  <2>1. 1 \in 1..Len(s) /\ k \in 1..Len(s)
    BY <1>1
  <2> QED
    BY <2>1, SubSeqRecursiveSecond
<1>5. SubSeq(s, 1, k) \o SubSeq(s, k + 1, Len(s)) = s
  <2>1. 1 \in 1..(Len(s) + 1) /\ k \in (1 - 1)..Len(s) /\ Len(s) \in k..Len(s)
    BY <1>1
  <2>2. SubSeq(s, 1, k) \o SubSeq(s, k + 1, Len(s)) = SubSeq(s, 1, Len(s))
    BY <2>1, ConcatAdjacentSubSeq
  <2> QED
    BY <2>2, SubSeqFull
<1> QED
  BY <1>1, <1>2, <1>3, <1>4, <1>5

LEMMA FlattenConcat ==
  ASSUME NEW S, NEW s \in Seq(Seq(S)), NEW t \in Seq(Seq(S))
  PROVE  FlattenSeq(s \o t) = FlattenSeq(s) \o FlattenSeq(t)
<1> DEFINE c == s \o t
           n == Len(s)
           m == Len(t)
<1>1. PICK g \in [0..n -> Seq(S)] : IsFlattening(g, s)
  BY FlatteningExists
<1>2. PICK h \in [0..m -> Seq(S)] : IsFlattening(h, t)
  BY FlatteningExists
<1>3. FlattenSeq(s) = g[n] /\ FlattenSeq(t) = h[m]
  BY <1>1, <1>2, FlattenIs
<1>4. c \in Seq(Seq(S)) /\ IsConcat(c, s, t)
  BY Concatenated
<1> DEFINE k == [i \in 0..(n + m) |-> IF i <= n THEN g[i] ELSE g[n] \o h[i - n]]
<1> HIDE DEF c
<1>5. /\ n \in Nat /\ m \in Nat /\ Len(c) = n + m
      /\ \A i \in 1..n : c[i] = s[i]
      /\ \A j \in 1..m : c[n + j] = t[j]
  BY <1>4 DEF IsConcat
<1>6. /\ g[0] = << >> /\ h[0] = << >>
      /\ \A i \in 1..n : g[i] = g[i - 1] \o s[i]
      /\ \A j \in 1..m : h[j] = h[j - 1] \o t[j]
  BY <1>1, <1>2 DEF IsFlattening
<1>7. g[n] \in Seq(S) /\ \A j \in 0..m : h[j] \in Seq(S)
  <2>1. n \in 0..n
    BY <1>5
  <2> QED
    BY <1>1, <1>2, <2>1
<1>8. \A j \in 1..m : t[j] \in Seq(S)
  BY LenProperties
<1> HIDE DEF n, m
<1>9. \A i \in 0..n : k[i] = g[i]
  BY <1>5
<1>10. \A j \in 0..m : k[n + j] = g[n] \o h[j]
  <2> SUFFICES ASSUME NEW j \in 0..m
               PROVE  k[n + j] = g[n] \o h[j]
    OBVIOUS
  <2>1. CASE j = 0
    <3>1. n + j = n /\ n \in 0..n
      BY <1>5, <2>1
    <3>2. k[n + j] = g[n]
      BY <1>9, <3>1
    <3> QED
      BY <1>6, <1>7, <2>1, <3>2, ConcatEmptySeq
  <2>2. CASE j # 0
    <3>1. n + j \in 0..(n + m) /\ ~(n + j <= n) /\ (n + j) - n = j
      BY <1>5, <2>2
    <3> QED
      BY <3>1
  <2> QED
    BY <2>1, <2>2
<1> HIDE DEF k
<1>11. ASSUME NEW i \in 1..(n + m)
       PROVE  k[i] = k[i - 1] \o c[i]
  <2>1. CASE i <= n
    <3>1. i \in 1..n /\ i \in 0..n /\ i - 1 \in 0..n
      BY <1>5, <2>1
    <3> QED
      BY <1>5, <1>6, <1>9, <3>1
  <2>2. CASE ~(i <= n)
    <3> DEFINE j == i - n
    <3>1. j \in 1..m /\ j \in 0..m /\ j - 1 \in 0..m /\ n + j = i /\ n + (j - 1) = i - 1
      BY <1>5, <2>2
    <3> HIDE DEF j
    <3>2. k[i] = g[n] \o h[j] /\ k[i - 1] = g[n] \o h[j - 1] /\ c[i] = t[j]
      BY <1>5, <1>10, <3>1
    <3>3. h[j] = h[j - 1] \o t[j]
      BY <1>6, <3>1
    <3>4. h[j - 1] \in Seq(S) /\ t[j] \in Seq(S)
      BY <1>7, <1>8, <3>1
    <3> DEFINE u == h[j - 1]
               v == t[j]
               w == g[n]
    <3>5. u \in Seq(S) /\ v \in Seq(S) /\ w \in Seq(S)
      BY <1>7, <3>4
    <3> HIDE DEF u, v, w
    <3>6. Associates(S, w, u, v)
      BY <3>5, Associate
    <3> QED
      BY <3>2, <3>3, <3>6 DEF u, v, w, Associates
  <2> QED
    BY <2>1, <2>2
<1>12. IsFlattening(k, c)
  <2>1. k[0] = << >>
    BY <1>5, <1>6, <1>9
  <2> QED
    BY <1>5, <1>11, <2>1 DEF IsFlattening
<1>13. FlattenSeq(c) = k[n + m]
  BY <1>4, <1>5, <1>12, FlattenIs
<1>14. k[n + m] = g[n] \o h[m]
  <2>1. m \in 0..m
    BY <1>5
  <2> QED
    BY <1>10, <2>1
<1> QED
  BY <1>3, <1>13, <1>14 DEF c, n, m

LEMMA FlattenOne ==
  ASSUME NEW S, NEW x \in Seq(S)
  PROVE  FlattenSeq(<<x>>) = x
<1> DEFINE g == [i \in 0..1 |-> IF i = 0 THEN << >> ELSE x]
           s == <<x>>
<1>1. s \in Seq(Seq(S)) /\ Len(s) = 1 /\ s[1] = x
  BY OneIs
<1> HIDE DEF s
<1>2. g[0] = << >> /\ g[1] = x
  OBVIOUS
<1>3. << >> \o x = x
  BY ConcatEmptySeq
<1> HIDE DEF g
<1>4. \A i \in 1..1 : i = 1 /\ i - 1 = 0
  OBVIOUS
<1>5. IsFlattening(g, s)
  BY <1>1, <1>2, <1>3, <1>4 DEF IsFlattening
<1>6. FlattenSeq(s) = g[1]
  BY <1>1, <1>5, FlattenIs
<1> QED
  BY <1>2, <1>6 DEF s

LEMMA FlattenNone == FlattenSeq(<< >>) = << >>
<1> DEFINE s == << >>
           S == {}
           g == [i \in 0..0 |-> << >>]
<1>1. s \in Seq(Seq(S)) /\ Len(s) = 0
  BY EmptySeq
<1>2. IsFlattening(g, s)
  BY <1>1 DEF IsFlattening
<1>3. FlattenSeq(s) = g[Len(s)]
  BY <1>1, <1>2, FlattenIs
<1> QED
  BY <1>1, <1>3

LEMMA FlattenSplit ==
  ASSUME NEW S, NEW s \in Seq(Seq(S)), NEW k \in 1..Len(s)
  PROVE  /\ FlattenSeq(SubSeq(s, 1, k - 1)) \in Seq(S)
         /\ FlattenSeq(SubSeq(s, k + 1, Len(s))) \in Seq(S)
         /\ s[k] \in Seq(S)
         /\ FlattenSeq(s) = FlattenSeq(SubSeq(s, 1, k - 1)) \o s[k]
                              \o FlattenSeq(SubSeq(s, k + 1, Len(s)))
<1> DEFINE u == SubSeq(s, 1, k - 1)
           v == <<s[k]>>
           w == SubSeq(s, k + 1, Len(s))
           l == u \o v
<1>1. u \in Seq(Seq(S)) /\ w \in Seq(Seq(S)) /\ s[k] \in Seq(S) /\ s = l \o w
  BY SplitAt
<1>2. v \in Seq(Seq(S)) /\ FlattenSeq(v) = s[k]
  BY <1>1, OneIs, FlattenOne
<1> HIDE DEF u, v, w
<1>3. l \in Seq(Seq(S)) /\ FlattenSeq(l) = FlattenSeq(u) \o FlattenSeq(v)
  BY <1>1, <1>2, FlattenConcat, Concatenated
<1> HIDE DEF l
<1>4. FlattenSeq(l \o w) = FlattenSeq(l) \o FlattenSeq(w)
  BY <1>1, <1>3, FlattenConcat
<1>5. FlattenSeq(u) \in Seq(S) /\ FlattenSeq(w) \in Seq(S)
  BY <1>1, FlattenType
<1> QED
  BY <1>1, <1>2, <1>3, <1>4, <1>5 DEF u, w

(* What is in one of the sequences is in what they make together.          *)
LEMMA FlattenHas ==
  ASSUME NEW S, NEW s \in Seq(Seq(S)), NEW k \in 1..Len(s), NEW j \in 1..Len(s[k])
  PROVE  \E i \in 1..Len(FlattenSeq(s)) : FlattenSeq(s)[i] = s[k][j]
<1> DEFINE f == FlattenSeq(s)
           u == FlattenSeq(SubSeq(s, 1, k - 1))
           v == s[k]
           w == FlattenSeq(SubSeq(s, k + 1, Len(s)))
           l == u \o v
<1>1. u \in Seq(S) /\ v \in Seq(S) /\ w \in Seq(S) /\ f = l \o w
  BY FlattenSplit
<1> HIDE DEF f, u, v, w
<1>2. l \in Seq(S) /\ IsConcat(l, u, v)
  BY <1>1, Concatenated
<1> HIDE DEF l
<1>3. IsConcat(f, l, w)
  BY <1>1, <1>2, Concatenated
<1>4. j \in 1..Len(v)
  BY DEF v
<1>5. /\ Len(u) \in Nat /\ Len(v) \in Nat /\ Len(w) \in Nat
      /\ Len(l) = Len(u) + Len(v) /\ Len(f) = Len(l) + Len(w)
      /\ \A i \in 1..Len(v) : l[Len(u) + i] = v[i]
      /\ \A i \in 1..Len(l) : f[i] = l[i]
  BY <1>2, <1>3 DEF IsConcat
<1>6. Len(u) + j \in 1..Len(l) /\ Len(u) + j \in 1..Len(f)
  BY <1>4, <1>5
<1>7. f[Len(u) + j] = v[j]
  BY <1>4, <1>5, <1>6
<1> QED
  BY <1>6, <1>7 DEF f, v

(* Encoding, atom by atom.                                                 *)
Escapes == {"quote", "newline"}

Encoded(t) == [i \in 1..Len(t) |-> R!Escape(t[i])]

LEMMA EncodeConcat ==
  ASSUME NEW A, Syntax \subseteq A, NEW s \in Seq(A), NEW t \in Seq(A)
  PROVE  R!Encode(s \o t) = R!Encode(s) \o R!Encode(t)
<1> DEFINE c == s \o t
           es == Encoded(s)
           et == Encoded(t)
           ec == Encoded(c)
           d == es \o et
<1>1. c \in Seq(A) /\ IsConcat(c, s, t)
  BY Concatenated
<1> HIDE DEF c
<1>2. /\ es \in Seq(Seq(A)) /\ R!Encode(s) = FlattenSeq(es)
      /\ et \in Seq(Seq(A)) /\ R!Encode(t) = FlattenSeq(et)
      /\ ec \in Seq(Seq(A)) /\ R!Encode(c) = FlattenSeq(ec)
  BY <1>1, EncodeType DEF Encoded
<1>3. /\ Len(s) \in Nat /\ Len(t) \in Nat /\ Len(c) = Len(s) + Len(t)
      /\ \A i \in 1..Len(s) : c[i] = s[i]
      /\ \A j \in 1..Len(t) : c[Len(s) + j] = t[j]
  BY <1>1 DEF IsConcat
<1>4. /\ Len(es) = Len(s) /\ Len(et) = Len(t) /\ Len(ec) = Len(c)
      /\ \A i \in 1..Len(s) : es[i] = R!Escape(s[i])
      /\ \A i \in 1..Len(t) : et[i] = R!Escape(t[i])
      /\ \A i \in 1..Len(c) : ec[i] = R!Escape(c[i])
  BY <1>3 DEF Encoded
<1> HIDE DEF es, et, ec
<1>5. d \in Seq(Seq(A)) /\ IsConcat(d, es, et)
  BY <1>2, Concatenated
<1> HIDE DEF d
<1>6. /\ Len(d) = Len(s) + Len(t)
      /\ \A i \in 1..Len(s) : d[i] = es[i]
      /\ \A j \in 1..Len(t) : d[Len(s) + j] = et[j]
  BY <1>4, <1>5 DEF IsConcat
<1>7. \A i \in 1..Len(c) : ec[i] = d[i]
  <2> SUFFICES ASSUME NEW i \in 1..Len(c)
               PROVE  ec[i] = d[i]
    OBVIOUS
  <2>1. CASE i <= Len(s)
    <3>1. i \in 1..Len(s)
      BY <1>3, <2>1
    <3> QED
      BY <1>3, <1>4, <1>6, <3>1
  <2>2. CASE ~(i <= Len(s))
    <3> DEFINE j == i - Len(s)
    <3>1. j \in 1..Len(t) /\ Len(s) + j = i
      BY <1>3, <2>2
    <3> HIDE DEF j
    <3>2. c[i] = t[j] /\ d[i] = et[j]
      BY <1>3, <1>6, <3>1
    <3> QED
      BY <1>4, <3>1, <3>2
  <2> QED
    BY <2>1, <2>2
<1>8. ec = d
  BY <1>2, <1>3, <1>4, <1>5, <1>6, <1>7, SeqEqual
<1>9. FlattenSeq(es \o et) = FlattenSeq(es) \o FlattenSeq(et)
  BY <1>2, FlattenConcat
<1> QED
  BY <1>2, <1>8, <1>9 DEF c, d

LEMMA EncodeOne ==
  ASSUME NEW A, Syntax \subseteq A, NEW x \in A
  PROVE  R!Encode(<<x>>) = R!Escape(x)
<1> DEFINE t == <<x>>
           e == Encoded(t)
           f == <<R!Escape(x)>>
<1>1. t \in Seq(A) /\ Len(t) = 1 /\ t[1] = x
  BY OneIs
<1> HIDE DEF t
<1>2. R!Encode(t) = FlattenSeq(e) /\ e \in Seq(Seq(A))
  BY <1>1, EncodeType DEF Encoded
<1>3. Len(e) = 1 /\ e[1] = R!Escape(x)
  BY <1>1 DEF Encoded
<1> HIDE DEF e
<1>4. R!Escape(x) \in Seq(A)
  BY <1>2, <1>3, ElementOfSeq
<1>5. f \in Seq(Seq(A)) /\ Len(f) = 1 /\ f[1] = R!Escape(x) /\ FlattenSeq(f) = R!Escape(x)
  BY <1>4, FlattenOne, OneIs
<1> HIDE DEF f
<1>6. \A i \in 1..1 : e[i] = f[i]
  BY <1>3, <1>5
<1>7. e = f
  BY <1>2, <1>3, <1>5, <1>6, SeqEqual
<1> QED
  BY <1>2, <1>5, <1>7 DEF t

LEMMA EncodePlain ==
  ASSUME NEW A, Syntax \subseteq A, NEW t \in Seq(A), \A i \in 1..Len(t) : t[i] \notin Escapes
  PROVE  R!Encode(t) = t
<1> DEFINE e == Encoded(t)
           g == [i \in 0..Len(t) |-> SubSeq(t, 1, i)]
<1>1. R!Encode(t) = FlattenSeq(e) /\ e \in Seq(Seq(A)) /\ Len(t) \in Nat
  BY EncodeType, LenProperties DEF Encoded
<1>2. Len(e) = Len(t) /\ \A i \in 1..Len(t) : e[i] = <<t[i]>>
  BY <1>1 DEF Encoded, Escapes, R!Escape
<1> HIDE DEF e
<1>3. \A i \in 0..Len(t) : g[i] = SubSeq(t, 1, i)
  OBVIOUS
<1> HIDE DEF g
<1>4. g[0] = << >>
  <2>1. SubSeq(t, 1, 0) = << >>
    BY SubSeqEmpty
  <2> QED
    BY <1>1, <1>3, <2>1
<1>5. ASSUME NEW i \in 1..Len(t)
      PROVE  g[i] = g[i - 1] \o e[i]
  <2>1. /\ i \in 0..Len(t) /\ i - 1 \in 0..Len(t)
        /\ 1 \in 1..Len(t) /\ i \in 1..Len(t)
    BY <1>1
  <2>2. SubSeq(t, 1, i) = SubSeq(t, 1, i - 1) \o <<t[i]>>
    BY <2>1, SubSeqRecursiveSecond
  <2> QED
    BY <1>2, <1>3, <2>1, <2>2
<1>6. FlattenSeq(e) = g[Len(t)]
  <2>1. IsFlattening(g, e)
    BY <1>2, <1>4, <1>5 DEF IsFlattening
  <2> QED
    BY <1>1, <1>2, <2>1, FlattenIs
<1>7. g[Len(t)] = t
  <2>1. SubSeq(t, 1, Len(t)) = t
    BY SubSeqFull
  <2> QED
    BY <1>1, <1>3, <2>1
<1> QED
  BY <1>1, <1>6, <1>7

Regroups(A, s, b, q, t) == (s \o (b \o q)) \o t = (s \o b) \o (q \o t)

LEMMA Regroup ==
  ASSUME NEW A, NEW s \in Seq(A), NEW b \in Seq(A), NEW q \in Seq(A), NEW t \in Seq(A)
  PROVE  Regroups(A, s, b, q, t)
<1>1. s \o b \in Seq(A)
  BY ConcatProperties
<1>2. Associates(A, s, b, q)
  BY Associate
<1> DEFINE l == s \o b
<1> HIDE DEF l
<1>3. l \in Seq(A)
  BY <1>1 DEF l
<1>4. Associates(A, l, q, t)
  BY <1>3, Associate
<1> QED
  BY <1>2, <1>4 DEF l, Regroups, Associates

(* The texts whose escaped atoms are in Q, and the patterns that take      *)
(* nothing of what JSON makes of those.                                    *)
TextsOver(A, Q) == Seq(A \ (Escapes \ Q))

Spares(p, Q) ==
  /\ ~p.looks
  /\ "{" \notin p.takes /\ "," \notin p.takes
  /\ \A x \in Q : /\ "\\" \notin p.takes /\ x \notin p.takes
                  /\ R!ReplaceAllString(<< >>, p) = << >>
  /\ "newline" \in Q => "n" \notin p.takes

LEMMA TextsOverIs ==
  ASSUME NEW A, NEW Q
  PROVE  /\ \A t \in TextsOver(A, Q) :
              t \in Seq(A) /\ \A i \in 1..Len(t) : t[i] \in Escapes => t[i] \in Q
         /\ \A t \in Seq(A) : (\A i \in 1..Len(t) : t[i] \in Escapes => t[i] \in Q)
                                => t \in TextsOver(A, Q)
<1> DEFINE B == A \ (Escapes \ Q)
<1>1. B \subseteq A /\ \A x \in B : x \in Escapes => x \in Q
  OBVIOUS
<1>2. \A x \in A : (x \in Escapes => x \in Q) => x \in B
  OBVIOUS
<1>3. TextsOver(A, Q) = Seq(B)
  BY DEF TextsOver
<1> HIDE DEF B
<1>4. ASSUME NEW t \in Seq(B)
      PROVE  t \in Seq(A) /\ \A i \in 1..Len(t) : t[i] \in Escapes => t[i] \in Q
  BY <1>1, MoreSequences, LenProperties
<1>5. ASSUME NEW t \in Seq(A), \A i \in 1..Len(t) : t[i] \in Escapes => t[i] \in Q
      PROVE  t \in Seq(B)
  <2>1. \A i \in 1..Len(t) : t[i] \in B
    BY <1>2, <1>5, LenProperties
  <2>2. t \in [1..Len(t) -> B] /\ Len(t) \in Nat
    BY <2>1, LenProperties
  <2> QED
    BY <2>2, FunctionIsSequence
<1> QED
  BY <1>3, <1>4, <1>5

LEMMA TextsOverReplaced ==
  ASSUME NEW A, Marks \subseteq A, NEW Q, NEW t \in TextsOver(A, Q), NEW p
  PROVE  R!ReplaceAllString(t, p) \in TextsOver(A, Q)
<1>1. Marks \subseteq A \ (Escapes \ Q)
  <2>1. \A x \in Marks : x \notin Escapes
    BY Zenon DEF Marks, Escapes
  <2> QED
    BY <2>1
<1> QED
  BY <1>1, ReplaceType DEF TextsOver

(* Replacing in an encoded text is encoding what was replaced in.          *)
LEMMA EncodeReplace ==
  ASSUME NEW A, Syntax \subseteq A, Marks \subseteq A, NEW Q \in SUBSET Escapes,
         NEW p, Spares(p, Q)
  PROVE  \A t \in TextsOver(A, Q) :
           R!ReplaceAllString(R!Encode(t), p) = R!Encode(R!ReplaceAllString(t, p))
<1> DEFINE Rep(s) == R!ReplaceAllString(s, p)
           Fails(t) == Rep(R!Encode(t)) # R!Encode(Rep(t))
           T == {n \in Nat : \E t \in TextsOver(A, Q) : Len(t) = n /\ Fails(t)}
<1>1. \A t \in TextsOver(A, Q) : t \in Seq(A) /\ Len(t) \in Nat
  BY TextsOverIs, LenProperties
<1>2. ~p.looks
  BY DEF Spares
<1>3. SUFFICES ASSUME NEW t0 \in TextsOver(A, Q), Fails(t0)
               PROVE  FALSE
  OBVIOUS
<1>4. \A s \in TextsOver(A, Q) : Rep(s) \in TextsOver(A, Q)
  BY TextsOverReplaced
<1>5. \A s \in Seq(A) : Rep(s) \in Seq(A)
  BY ReplaceType
<1> HIDE DEF Rep
<1>6. Len(t0) \in T
  BY <1>1, <1>3
<1>7. PICK n \in T : \A m \in T : n <= m
  BY <1>6, LeastNatural, Zenon
<1>8. PICK t \in TextsOver(A, Q) : Len(t) = n /\ Fails(t)
  BY <1>7
<1>9. \A s \in TextsOver(A, Q) : Len(s) < Len(t) => Rep(R!Encode(s)) = R!Encode(Rep(s))
  BY <1>1, <1>7, <1>8
<1> HIDE DEF T, Fails
<1>10. t \in Seq(A) /\ \A i \in 1..Len(t) : t[i] \in Escapes => t[i] \in Q
  BY TextsOverIs
<1>11. CASE \A i \in 1..Len(t) : t[i] \notin Escapes
  <2>1. t \in TextsOver(A, {})
    BY <1>10, <1>11, TextsOverIs
  <2>2. Rep(t) \in TextsOver(A, {})
    BY <2>1, TextsOverReplaced DEF Rep
  <2>3. Rep(t) \in Seq(A) /\ \A i \in 1..Len(Rep(t)) : Rep(t)[i] \notin Escapes
    BY <2>2, TextsOverIs
  <2>4. R!Encode(t) = t /\ R!Encode(Rep(t)) = Rep(t)
    BY <1>10, <1>11, <2>3, EncodePlain
  <2> QED
    BY <1>8, <2>4 DEF Fails
<1>12. CASE \E i \in 1..Len(t) : t[i] \in Escapes
  <2>1. PICK i \in 1..Len(t) : t[i] \in Escapes
    BY <1>12
  <2> DEFINE x == t[i]
             y == IF x = "quote" THEN "quote" ELSE "n"
             z == "\\"
             a == SubSeq(t, 1, i - 1)
             o == <<x>>
             q == <<y>>
             b == <<z>>
             c == SubSeq(t, i + 1, Len(t))
             ao == a \o o
             ea == R!Encode(a)
             ec == R!Encode(c)
  <2>2. x \in Q /\ x \in Escapes
    BY <1>10, <2>1
  <2>3. x \notin p.takes /\ y \notin p.takes /\ z \notin p.takes /\ Rep(<< >>) = << >>
    <3>1. x \notin p.takes /\ z \notin p.takes /\ Rep(<< >>) = << >>
      BY <2>2, Zenon DEF Spares, Rep
    <3>2. x = "newline" => "n" \notin p.takes
      BY <2>2, Zenon DEF Spares
    <3>3. x = "quote" \/ x = "newline"
      BY <2>2, Zenon DEF Escapes
    <3> QED
      BY <3>1, <3>2, <3>3, Zenon
  <2>4. R!Escape(x) = b \o q
    <3>1. <<"\\", "quote">> = <<"\\">> \o <<"quote">> /\ <<"\\", "n">> = <<"\\">> \o <<"n">>
      OBVIOUS
    <3>2. x = "quote" \/ x = "newline"
      BY <2>2, Zenon DEF Escapes
    <3> QED
      BY <3>1, <3>2 DEF R!Escape
  <2>5. x \in A /\ y \in A /\ z \in A
    <3>1. "quote" \in Syntax /\ "n" \in Syntax /\ "\\" \in Syntax
      BY Zenon DEF Syntax
    <3> QED
      BY <1>10, <2>1, <3>1, ElementOfSeq
  <2>6. /\ a \in TextsOver(A, Q) /\ Len(a) < Len(t)
        /\ c \in TextsOver(A, Q) /\ Len(c) < Len(t)
        /\ t = ao \o c
    <3>1. Len(t) \in Nat
      BY <1>1
    <3>2. /\ a \in Seq(A) /\ Len(a) = i - 1 /\ c \in Seq(A) /\ Len(c) = Len(t) - i
          /\ t = a \o <<t[i]>> \o c
      BY <1>10, SplitAt
    <3>3. a \in TextsOver(A, Q) /\ c \in TextsOver(A, Q)
      BY SplitAt DEF TextsOver
    <3> HIDE DEF a, c
    <3>4. Len(a) < Len(t) /\ Len(c) < Len(t)
      BY <3>1, <3>2
    <3> QED
      BY <3>2, <3>3, <3>4
  <2> HIDE DEF a, c, x, y, z
  <2>7. a \in Seq(A) /\ c \in Seq(A)
    BY <1>1, <2>6
  <2>8. o \in Seq(A) /\ q \in Seq(A) /\ b \in Seq(A)
    BY <2>5, OneIs
  <2>9. ao \in Seq(A) /\ R!Encode(o) = b \o q
    BY <2>4, <2>5, <2>7, EncodeOne, Around, Concatenated, <2>8
  <2>10. ea \in Seq(A) /\ ec \in Seq(A)
    BY <2>7, EncodeType
  <2>11. Rep(ea) = R!Encode(Rep(a)) /\ Rep(ec) = R!Encode(Rep(c))
    BY <1>9, <2>6
  <2>12. Rep(a) \in Seq(A) /\ Rep(c) \in Seq(A)
    BY <1>5, <2>7
  <2>13. R!Encode(t) = (ea \o b) \o (q \o ec)
    <3>1. R!Encode(ao) = ea \o R!Encode(o)
      <4> HIDE DEF o
      <4> QED
        BY <2>7, <2>8, EncodeConcat
    <3> HIDE DEF ao
    <3>2. R!Encode(ao \o c) = R!Encode(ao) \o ec
      BY <2>7, <2>9, EncodeConcat
    <3> HIDE DEF ea, b, q, ec
    <3>3. Regroups(A, ea, b, q, ec)
      BY <2>8, <2>10, Regroup
    <3> QED
      BY <2>6, <2>9, <3>1, <3>2, <3>3 DEF Regroups
  <2> DEFINE qec == q \o ec
  <2>14. Rep(R!Encode(t)) = Rep(ea) \o b \o Rep(qec)
    <3>1. qec \in Seq(A)
      BY <2>8, <2>10, Concatenated
    <3> HIDE DEF qec, ea
    <3>2. ReplacesAround(A, p, ea, z, qec)
      BY <1>2, <2>3, <2>5, <2>10, <3>1, ReplaceAround
    <3>3. Rep(ea \o b \o qec) = Rep(ea) \o b \o Rep(qec)
      BY <3>2, Zenon DEF Rep, ReplacesAround
    <3> QED
      BY <2>13, <3>3 DEF qec
  <2>15. Rep(qec) = q \o Rep(ec)
    <3> DEFINE none == << >>
    <3>1. none \in Seq(A) /\ Rep(none) = none /\ none \o q = q
      BY <2>3, <2>8, EmptySeq, ConcatEmptySeq
    <3> HIDE DEF ec, none
    <3>2. ReplacesAround(A, p, none, y, ec)
      BY <1>2, <2>3, <2>5, <2>10, <3>1, ReplaceAround
    <3>3. Rep(none \o q \o ec) = Rep(none) \o q \o Rep(ec)
      BY <3>2, Zenon DEF Rep, ReplacesAround
    <3> QED
      BY <3>1, <3>3
  <2>16. Rep(t) = Rep(a) \o o \o Rep(c)
    <3>1. ReplacesAround(A, p, a, x, c)
      BY <1>2, <2>3, <2>5, <2>7, ReplaceAround
    <3>2. Rep(a \o o \o c) = Rep(a) \o o \o Rep(c)
      BY <3>1, Zenon DEF Rep, ReplacesAround
    <3> QED
      BY <2>6, <3>2
  <2> DEFINE ra == Rep(a)
             rc == Rep(c)
             rao == ra \o o
             era == R!Encode(ra)
             erc == R!Encode(rc)
  <2>17. R!Encode(Rep(t)) = (era \o b) \o (q \o erc)
    <3>1. rao \in Seq(A)
      BY <2>8, <2>12, Concatenated
    <3>2. era \in Seq(A) /\ erc \in Seq(A)
      BY <2>12, EncodeType
    <3>3. R!Encode(rao) = era \o R!Encode(o)
      <4> HIDE DEF o
      <4> QED
        BY <2>8, <2>12, EncodeConcat
    <3> HIDE DEF rao
    <3>4. R!Encode(rao \o rc) = R!Encode(rao) \o erc
      BY <2>12, <3>1, EncodeConcat
    <3> HIDE DEF era, b, q, erc
    <3>5. Regroups(A, era, b, q, erc)
      BY <2>8, <3>2, Regroup
    <3> QED
      BY <2>9, <2>16, <3>3, <3>4, <3>5 DEF rao, Regroups
  <2>18. Rep(R!Encode(t)) = (era \o b) \o (q \o erc)
    <3> HIDE DEF b, q, ea, ec
    <3> QED
      BY <2>11, <2>14, <2>15
  <2> QED
    BY <1>8, <2>17, <2>18 DEF Fails
<1> QED
  BY <1>11, <1>12

(* raw has the encoded text s in it, after an atom of the JSON around it   *)
(* and before a comma.                                                     *)
Wraps == {"{", ","}

HeldBetween(raw, a, x, s, c) == raw = (a \o <<x>> \o R!Encode(s)) \o <<",">> \o c

HeldIn(A, s, raw) ==
  \E a \in Seq(A), c \in Seq(A), x \in Wraps : HeldBetween(raw, a, x, s, c)

LEMMA ReplaceHeld ==
  ASSUME NEW A, Syntax \subseteq A, Marks \subseteq A, NEW Q \in SUBSET Escapes,
         NEW p, Spares(p, Q), NEW s \in TextsOver(A, Q), NEW raw, HeldIn(A, s, raw)
  PROVE  HeldIn(A, R!ReplaceAllString(s, p), R!ReplaceAllString(raw, p))
<1> DEFINE Rep(t) == R!ReplaceAllString(t, p)
<1>1. PICK a \in Seq(A), c \in Seq(A), x \in Wraps : HeldBetween(raw, a, x, s, c)
  BY DEF HeldIn
<1> DEFINE e == R!Encode(s)
           l == a \o <<x>> \o e
           comma == ","
<1>2. ~p.looks /\ x \notin p.takes /\ comma \notin p.takes
  BY Zenon DEF Spares, Wraps
<1>3. x \in A /\ comma \in A
  BY DEF Syntax, Wraps
<1>4. e \in Seq(A)
  BY TextsOverIs, EncodeType
<1>5. l \in Seq(A)
  BY <1>3, <1>4, Around
<1>6. Rep(e) = R!Encode(Rep(s))
  BY EncodeReplace
<1>7. Rep(a) \in Seq(A) /\ Rep(c) \in Seq(A)
  BY ReplaceType
<1> HIDE DEF Rep, e
<1>8. Rep(l) = Rep(a) \o <<x>> \o Rep(e)
  <2>1. ReplacesAround(A, p, a, x, e)
    BY <1>2, <1>3, <1>4, ReplaceAround
  <2> QED
    BY <2>1 DEF ReplacesAround, Rep
<1> HIDE DEF l, comma
<1>9. Rep(l \o <<comma>> \o c) = Rep(l) \o <<comma>> \o Rep(c)
  <2>1. ReplacesAround(A, p, l, comma, c)
    BY <1>2, <1>3, <1>5, ReplaceAround
  <2> QED
    BY <2>1 DEF ReplacesAround, Rep
<1>10. HeldBetween(Rep(raw), Rep(a), x, Rep(s), Rep(c))
  BY <1>1, <1>6, <1>8, <1>9 DEF HeldBetween, e, l, comma
<1>11. HeldIn(A, Rep(s), Rep(raw))
  BY <1>7, <1>10 DEF HeldIn
<1> QED
  BY <1>11 DEF Rep

LEMMA ScrubbedHeld ==
  ASSUME NEW A, Syntax \subseteq A, Marks \subseteq A, NEW Q \in SUBSET Escapes,
         NEW ps, Len(ps) \in Nat, \A i \in 1..Len(ps) : Spares(ps[i], Q),
         NEW s \in TextsOver(A, Q), NEW raw, HeldIn(A, s, raw)
  PROVE  Scrubbed(s, ps) \in Seq(A) /\ HeldIn(A, Scrubbed(s, ps), Scrubbed(raw, ps))
<1> DEFINE n == Len(ps)
           f == Replacements(s, ps)
           g == Replacements(raw, ps)
           P(m) == f[m] \in TextsOver(A, Q) /\ HeldIn(A, f[m], g[m])
           T == {m \in Nat : m <= n => P(m)}
<1>1. /\ f[0] = s /\ \A m \in 1..n : f[m] = R!ReplaceAllString(f[m - 1], ps[m])
      /\ g[0] = raw /\ \A m \in 1..n : g[m] = R!ReplaceAllString(g[m - 1], ps[m])
  BY ReplacementSteps
<1>2. n \in Nat /\ \A i \in 1..n : Spares(ps[i], Q)
  OBVIOUS
<1> HIDE DEF f, g, n
<1>3. 0 \in T
  BY <1>1
<1>4. ASSUME NEW m \in Nat, m \in T
      PROVE  m + 1 \in T
  <2> SUFFICES ASSUME m + 1 <= n
               PROVE  P(m + 1)
    OBVIOUS
  <2>1. P(m) /\ m + 1 \in 1..n /\ (m + 1) - 1 = m
    BY <1>2, <1>4
  <2> DEFINE p == ps[m + 1]
  <2>2. Spares(p, Q)
    BY <1>2, <2>1
  <2>3. f[m + 1] = R!ReplaceAllString(f[m], p) /\ g[m + 1] = R!ReplaceAllString(g[m], p)
    BY <1>1, <2>1
  <2> HIDE DEF p
  <2>4. R!ReplaceAllString(f[m], p) \in TextsOver(A, Q)
    BY <2>1, TextsOverReplaced
  <2>5. HeldIn(A, R!ReplaceAllString(f[m], p), R!ReplaceAllString(g[m], p))
    BY <2>1, <2>2, ReplaceHeld
  <2> QED
    BY <2>3, <2>4, <2>5
<1> HIDE DEF T
<1>5. Nat \subseteq T
  BY <1>3, <1>4, InductionOnNat
<1>6. P(n)
  BY <1>2, <1>5 DEF T
<1>7. f[n] \in Seq(A)
  BY <1>6, TextsOverIs
<1> QED
  BY <1>6, <1>7 DEF Scrubbed, f, g, n

LEMMA HeldOccurs ==
  ASSUME NEW A, Syntax \subseteq A, NEW s \in Seq(A), NEW raw, HeldIn(A, s, raw)
  PROVE  R!Occurs(R!Encode(s), raw)
<1>1. PICK a \in Seq(A), c \in Seq(A), x \in Wraps : HeldBetween(raw, a, x, s, c)
  BY DEF HeldIn
<1> DEFINE e == R!Encode(s)
           l == a \o <<x>> \o e
           comma == ","
           k == Len(a) + 2
           z == k + Len(e) - 1
           u == SubSeq(raw, k, z)
<1>2. x \in A /\ comma \in A
  BY DEF Wraps, Syntax
<1>3. e \in Seq(A)
  BY EncodeType
<1> HIDE DEF e
<1>4. l \in Seq(A) /\ IsAround(l, a, x, e)
  BY <1>2, <1>3, Around
<1> HIDE DEF l, comma
<1>5. raw \in Seq(A) /\ IsAround(raw, l, comma, c)
  <2>1. raw = l \o <<comma>> \o c
    BY <1>1 DEF HeldBetween, l, e, comma
  <2>2. l \o <<comma>> \o c \in Seq(A) /\ IsAround(l \o <<comma>> \o c, l, comma, c)
    BY <1>2, <1>4, Around
  <2> QED
    BY <2>1, <2>2
<1>6. /\ Len(a) \in Nat /\ Len(e) \in Nat /\ Len(c) \in Nat
      /\ Len(l) = Len(a) + 1 + Len(e) /\ Len(raw) = Len(l) + 1 + Len(c)
      /\ \A j \in 1..Len(e) : l[Len(a) + 1 + j] = e[j]
      /\ \A i \in 1..Len(l) : raw[i] = l[i]
  BY <1>4, <1>5 DEF IsAround
<1>7. \A j \in 1..Len(e) : raw[k + j - 1] = e[j]
  <2>1. \A j \in 1..Len(e) : Len(a) + 1 + j \in 1..Len(l) /\ k + j - 1 = Len(a) + 1 + j
    BY <1>6
  <2> QED
    BY <1>6, <2>1
<1>8. DOMAIN raw = 1..Len(raw) /\ k \in 1..Len(raw) /\ z \in 1..Len(raw)
  BY <1>5, <1>6, LenProperties
<1>9. u \in Seq(A) /\ Len(u) = Len(e) /\ \A j \in 1..Len(e) : u[j] = raw[k + j - 1]
  <2>1. /\ \A j \in k..z : raw[j] \in A
        /\ k \in Int /\ z \in Int
    <3>1. \A j \in 1..Len(raw) : raw[j] \in A
      BY <1>5, LenProperties
    <3>2. \A j \in k..z : j \in 1..Len(raw)
      BY <1>6
    <3> QED
      BY <1>6, <3>1, <3>2
  <2>2. (IF k <= z THEN z - k + 1 ELSE 0) = Len(e) /\ z - k + 1 = Len(e)
    BY <1>6
  <2> HIDE DEF k, z
  <2>3. /\ SubSeq(raw, k, z) \in Seq(A)
        /\ Len(SubSeq(raw, k, z)) = IF k <= z THEN z - k + 1 ELSE 0
        /\ \A j \in 1..(z - k + 1) : SubSeq(raw, k, z)[j] = raw[k + j - 1]
    BY <2>1, SubSeqProperties
  <2> QED
    BY <2>2, <2>3
<1> HIDE DEF u, k
<1>10. u = e
  <2>1. \A j \in 1..Len(u) : u[j] = e[j]
    BY <1>7, <1>9
  <2> QED
    BY <1>3, <1>9, <2>1, SeqEqual
<1> QED
  BY <1>8, <1>10 DEF R!Occurs, u, e

(* Every text that is sent is in the raw body.                             *)
LEMMA SentHeld ==
  ASSUME NEW A, Syntax \subseteq A, NEW b, b.messages \in Seq(MessageOf(Seq(A))),
         NEW k \in 1..Len(SentTexts(b))
  PROVE  HeldIn(A, SentTexts(b)[k], R!Raw(b))
<1> DEFINE texts == SentTexts(b)
           w == Wrapped(texts)
           s == texts[k]
           e == R!Encode(s)
           open == <<"{">>
           close == <<"}">>
           comma == <<",">>
           all == FlattenSeq(w)
           u == FlattenSeq(SubSeq(w, 1, k - 1))
           v == FlattenSeq(SubSeq(w, k + 1, Len(w)))
<1>1. texts \in Seq(Seq(A)) /\ R!Raw(b) = (open \o all) \o close
  BY SentTextsType, RawType
<1>2. w \in Seq(Seq(A)) /\ Len(w) = Len(texts) /\ Len(texts) \in Nat
  BY <1>1, WrappedType, LenProperties
<1>3. k \in 1..Len(texts) /\ k \in 1..Len(w)
  BY <1>2
<1>4. s \in Seq(A)
  BY <1>1, <1>3, ElementOfSeq
<1>5. e \in Seq(A)
  BY <1>4, EncodeType
<1>6. open \in Seq(A) /\ close \in Seq(A) /\ comma \in Seq(A)
  <2>1. "{" \in Syntax /\ "}" \in Syntax /\ "," \in Syntax
    BY DEF Syntax
  <2> QED
    BY <2>1, SyntaxTexts, Zenon
<1>7. \A i \in 1..Len(texts) : w[i] = R!Encode(texts[i]) \o comma
  BY <1>1, LenProperties DEF Wrapped
<1>8. u \in Seq(A) /\ v \in Seq(A) /\ all = u \o (e \o comma) \o v
  <2>1. w[k] = e \o comma
    BY <1>3, <1>7
  <2> HIDE DEF w
  <2>2. /\ u \in Seq(A) /\ v \in Seq(A)
        /\ all = u \o w[k] \o v
    BY <1>2, <1>3, FlattenSplit
  <2> QED
    BY <2>1, <2>2
<1>9. \E a \in Seq(A), x \in Wraps : open \o u = a \o <<x>>
  <2>1. CASE k = 1
    <3>1. SubSeq(w, 1, k - 1) = << >>
      BY <2>1, SubSeqEmpty
    <3>2. u = << >>
      BY <3>1, FlattenNone
    <3>3. << >> \in Seq(A) /\ "{" \in Wraps
      BY EmptySeq DEF Wraps
    <3>4. open \o << >> = << >> \o open
      BY <1>6, ConcatEmptySeq
    <3> HIDE DEF u
    <3> QED
      BY <3>2, <3>3, <3>4
  <2>2. CASE k # 1
    <3> DEFINE y == SubSeq(w, 1, k - 1)
               j == k - 1
               e2 == R!Encode(texts[j])
               u2 == FlattenSeq(SubSeq(y, 1, j - 1))
    <3>1. y \in Seq(Seq(A)) /\ Len(y) = j
      BY <1>2, <1>3, SplitAt
    <3>2. j \in 1..Len(y) /\ j \in 1..Len(texts) /\ j \in 1..Len(w)
      BY <1>2, <1>3, <2>2, <3>1
    <3>3. y[j] = w[j]
      <4>1. \A i \in 1..(k - 1) : w[i] \in Seq(A)
        BY <1>2, <1>3, LenProperties
      <4>2. k - 1 \in Int /\ 1 \in Int /\ k - 1 - 1 + 1 = k - 1 /\ 1 + j - 1 = j
        BY <1>3
      <4>3. \A i \in 1..(k - 1 - 1 + 1) : SubSeq(w, 1, k - 1)[i] = w[1 + i - 1]
        BY <4>1, <4>2, SubSeqProperties
      <4>4. j \in 1..(k - 1 - 1 + 1)
        BY <3>1, <3>2
      <4> QED
        BY <4>2, <4>3, <4>4
    <3>4. w[j] = e2 \o comma
      BY <1>7, <3>2
    <3>5. texts[j] \in Seq(A)
      BY <1>1, <3>2, ElementOfSeq
    <3>6. e2 \in Seq(A)
      BY <3>5, EncodeType
    <3>7. u2 \in Seq(A) /\ u = u2 \o (e2 \o comma)
      <4>1. u = u2 \o y[j] \o FlattenSeq(SubSeq(y, j + 1, Len(y))) /\ u2 \in Seq(A) /\ y[j] \in Seq(A)
        <5> HIDE DEF y, j
        <5> QED
          BY <3>1, <3>2, FlattenSplit DEF y
      <4>2. SubSeq(y, j + 1, Len(y)) = << >>
        <5>1. Len(y) \in Int /\ j + 1 \in Int /\ Len(y) < j + 1
          BY <3>1, <3>2
        <5> QED
          BY <5>1, SubSeqEmpty
      <4>3. u2 \o y[j] \in Seq(A)
        BY <4>1, ConcatProperties
      <4>4. (u2 \o y[j]) \o << >> = u2 \o y[j]
        BY <4>3, ConcatEmptySeq
      <4>5. FlattenSeq(SubSeq(y, j + 1, Len(y))) = << >>
        BY <4>2, FlattenNone
      <4> HIDE DEF u, u2, y, j, w
      <4> QED
        BY <3>3, <3>4, <4>1, <4>4, <4>5
    <3> DEFINE a2 == open \o u2
               a == a2 \o e2
    <3> HIDE DEF open, u2, e2, comma, u
    <3>8. open \o (u2 \o (e2 \o comma)) = a2 \o (e2 \o comma)
      <4>1. e2 \o comma \in Seq(A)
        BY <1>6, <3>6, ConcatProperties
      <4> DEFINE ec == e2 \o comma
      <4> HIDE DEF ec
      <4>2. ec \in Seq(A)
        BY <4>1 DEF ec
      <4>3. Associates(A, open, u2, ec)
        BY <1>6, <3>7, <4>2, Associate
      <4> QED
        BY <4>3 DEF ec, a2, Associates
    <3>9. a2 \in Seq(A)
      BY <1>6, <3>7, ConcatProperties
    <3> HIDE DEF a2
    <3>10. a \in Seq(A) /\ Associates(A, a2, e2, comma)
      BY <1>6, <3>6, <3>9, Associate, ConcatProperties
    <3>11. "," \in Wraps
      BY DEF Wraps
    <3> QED
      BY <3>7, <3>8, <3>10, <3>11 DEF comma, a, Associates
  <2> QED
    BY <2>1, <2>2
<1>10. PICK a \in Seq(A), x \in Wraps : open \o u = a \o <<x>>
  BY <1>9
<1> DEFINE o == open \o u
           c == v \o close
           l == o \o e
<1> HIDE DEF all, u, v, e, open, close, w, texts, s
<1>11. o \in Seq(A) /\ c \in Seq(A)
  BY <1>6, <1>8, ConcatProperties
<1> HIDE DEF comma
<1>12. open \o (u \o (e \o comma) \o v) \o close = (o \o e) \o comma \o c
  <2> DEFINE ec == e \o comma
             ue == u \o ec
             oue == open \o ue
             le == l \o comma
  <2>1. ec \in Seq(A)
    BY <1>5, <1>6, ConcatProperties
  <2> HIDE DEF ec
  <2>2. ue \in Seq(A)
    BY <1>8, <2>1, ConcatProperties
  <2>3. Associates(A, open, u, ec)
    BY <1>6, <1>8, <2>1, Associate
  <2> HIDE DEF ue
  <2>4. oue \in Seq(A)
    BY <1>6, <2>2, ConcatProperties
  <2>5. Associates(A, open, ue, v)
    BY <1>6, <1>8, <2>2, Associate
  <2> HIDE DEF oue
  <2>6. Associates(A, oue, v, close)
    BY <1>6, <1>8, <2>4, Associate
  <2> HIDE DEF o, c
  <2>7. Associates(A, o, e, comma)
    BY <1>5, <1>6, <1>11, Associate
  <2>8. oue = o \o ec
    BY <2>3 DEF o, oue, ue, Associates
  <2>9. open \o (ue \o v) = oue \o v
    BY <2>5 DEF oue, Associates
  <2>10. open \o (u \o (e \o comma) \o v) = oue \o v
    BY <2>9 DEF ue, ec
  <2>11. (oue \o v) \o close = oue \o c
    BY <2>6 DEF c, Associates
  <2>12. (o \o e) \o comma = o \o ec
    BY <2>7 DEF ec, Associates
  <2> QED
    BY <2>8, <2>10, <2>11, <2>12
<1>13. HeldBetween(R!Raw(b), a, x, s, c)
  <2>1. R!Raw(b) = (o \o e) \o comma \o c
    <3> HIDE DEF o, c
    <3> QED
      BY <1>1, <1>8, <1>12
  <2>2. o = a \o <<x>>
    BY <1>10
  <2> HIDE DEF o, c
  <2> QED
    BY <2>1, <2>2 DEF HeldBetween, e, comma
<1> HIDE DEF c, o
<1>14. HeldIn(A, s, R!Raw(b))
  BY <1>11, <1>13 DEF HeldIn
<1> QED
  BY <1>14 DEF s, texts

(* Every text that is taken out of a body is one that was sent.            *)
LEMMA UserTextsSent ==
  ASSUME NEW A, NEW b, b.messages \in Seq(MessageOf(Seq(A))),
         NEW i \in 1..Len(R!UserTexts(b))
  PROVE  \E k \in 1..Len(SentTexts(b)) : SentTexts(b)[k] = R!UserTexts(b)[i]
<1> DEFINE ms == b.messages
           sent == SentTexts(b)
           X == {sent[k] : k \in 1..Len(sent)}
           c == [m \in DOMAIN ms |-> ms[m].content.texts]
<1>1. /\ Len(ms) \in Nat /\ DOMAIN ms = 1..Len(ms)
      /\ \A m \in 1..Len(ms) : ms[m] \in MessageOf(Seq(A))
  BY LenProperties
<1>2. c \in Seq(Seq(Seq(A))) /\ sent = FlattenSeq(c)
  BY SentTextsType, SameFlattening DEF SentTexts
<1>3. Len(c) = Len(ms) /\ \A m \in 1..Len(ms) : c[m] = ms[m].content.texts
  BY <1>1
<1> HIDE DEF c, sent
<1>4. ASSUME NEW m \in 1..Len(ms)
      PROVE  ms[m] \in MessageOf(X)
  <2> DEFINE texts == ms[m].content.texts
  <2>1. texts = c[m] /\ m \in 1..Len(c) /\ texts \in Seq(Seq(A))
    BY <1>1, <1>3 DEF MessageOf
  <2>2. \A j \in 1..Len(texts) : texts[j] \in X
    <3> SUFFICES ASSUME NEW j \in 1..Len(texts)
                 PROVE  texts[j] \in X
      OBVIOUS
    <3>1. j \in 1..Len(c[m])
      BY <2>1
    <3>2. \E k \in 1..Len(FlattenSeq(c)) : FlattenSeq(c)[k] = c[m][j]
      BY <1>2, <2>1, <3>1, FlattenHas
    <3> QED
      BY <1>2, <2>1, <3>2
  <2>3. texts \in Seq(X)
    <3>1. Len(texts) \in Nat /\ DOMAIN texts = 1..Len(texts)
      BY <2>1, LenProperties
    <3>2. texts = [j \in 1..Len(texts) |-> texts[j]]
      BY <2>1, LenProperties
    <3> HIDE DEF texts, X
    <3>3. texts \in [1..Len(texts) -> X]
      BY <2>2, <3>2
    <3> QED
      BY <3>1, <3>3
  <2>4. ms[m] \in MessageOf(Seq(A))
    BY <1>1
  <2> HIDE DEF X, ms
  <2> QED
    BY <2>3, <2>4 DEF MessageOf
<1> HIDE DEF X
<1>5. ms \in Seq(MessageOf(X))
  <2>1. ms \in [1..Len(ms) -> MessageOf(X)]
    <3>1. ms = [m \in 1..Len(ms) |-> ms[m]]
      BY <1>1, LenProperties
    <3> QED
      BY <1>4, <3>1
  <2> QED
    BY <1>1, <2>1
<1>6. R!UserTexts(b) \in Seq(X)
  BY <1>5, UserTextsType
<1>7. R!UserTexts(b)[i] \in X
  BY <1>6, ElementOfSeq
<1> QED
  BY <1>7 DEF X, sent

(* A pattern that has no empty match leaves an empty text alone.           *)
LEMMA ReplaceNone ==
  ASSUME NEW p, ~R!HasMatch(p, << >>)
  PROVE  R!ReplaceAllString(<< >>, p) = << >>
<1> DEFINE in == << >>
           f == Scan(in, p)
<1>1. in \in Seq({}) /\ Len(in) = 0
  BY EmptySeq
<1>2. ~R!HasMatch(p, in)
  OBVIOUS
<1> HIDE DEF in
<1>3. 1 \in 1..(Len(in) + 1) /\ 1 > Len(in)
  BY <1>1
<1>4. R!Found(p, in, 1) = {}
  BY <1>2, <1>3 DEF R!HasMatch
<1>5. f[<<1, TRUE>>] = Fill(in, p, f, 1, TRUE)
  BY <1>1, <1>3, ScanSteps
<1> HIDE DEF f
<1>6. ~(Size(in, p, 1) > 0)
  BY <1>4 DEF Size
<1>7. Kept(in, f, 1) = << >>
  BY <1>3, Zenon DEF Kept
<1>8. Fill(in, p, f, 1, TRUE) = << >>
  BY <1>4, <1>6, <1>7, Zenon DEF Fill
<1> QED
  BY <1>5, <1>8, ReplaceIsScan DEF f, in

(* The escaped atoms of a text.                                            *)
EscapedIn(t) == {x \in Escapes : \E i \in 1..Len(t) : t[i] = x}

LEMMA SeesSpares ==
  ASSUME NEW A, NEW t \in Seq(A), NEW p, R!SeesAlike(p, t)
  PROVE  Spares(p, EscapedIn(t))
<1>1. /\ ~p.looks
      /\ p.takes \cap ({"{", ",", "}"} \cup R!Escaped(t)) = {}
      /\ R!Escaped(t) # {} => ~R!HasMatch(p, << >>)
  BY DEF R!SeesAlike
<1>2. "{" \notin p.takes /\ "," \notin p.takes
  BY <1>1
<1>3. ASSUME NEW x \in EscapedIn(t)
      PROVE  {x} \cup R!Range(R!Escape(x)) \subseteq R!Escaped(t)
  <2>1. x \in R!Range(t)
    BY LenProperties DEF EscapedIn, R!Range
  <2>2. R!Escape(x) # <<x>>
    <3>1. Len(<<"\\", "quote">>) # Len(<<x>>) /\ Len(<<"\\", "n">>) # Len(<<x>>)
      OBVIOUS
    <3>2. x = "quote" \/ x = "newline"
      BY DEF EscapedIn, Escapes
    <3> QED
      BY <3>1, <3>2 DEF R!Escape
  <2> QED
    BY <2>1, <2>2 DEF R!Escaped
<1>4. ASSUME NEW x \in EscapedIn(t)
      PROVE  /\ "\\" \in R!Range(R!Escape(x))
             /\ x = "newline" => "n" \in R!Range(R!Escape(x))
  <2>1. x = "quote" \/ x = "newline"
    BY DEF EscapedIn, Escapes
  <2> DEFINE u == <<"\\", "quote">>
             v == <<"\\", "n">>
  <2>2. R!Escape("quote") = u /\ R!Escape("newline") = v
    BY DEF R!Escape
  <2>3. 1 \in DOMAIN u /\ 1 \in DOMAIN v /\ 2 \in DOMAIN v /\ u[1] = "\\" /\ v[1] = "\\" /\ v[2] = "n"
    OBVIOUS
  <2> HIDE DEF u, v
  <2>4. "\\" \in R!Range(u) /\ "\\" \in R!Range(v) /\ "n" \in R!Range(v)
    BY <2>3, Zenon DEF R!Range
  <2> QED
    BY <2>1, <2>2, <2>4, Zenon
<1>5. ASSUME NEW x \in EscapedIn(t)
      PROVE  /\ "\\" \notin p.takes /\ x \notin p.takes
             /\ R!ReplaceAllString(<< >>, p) = << >>
             /\ x = "newline" => "n" \notin p.takes
  <2>1. R!Escaped(t) # {}
    BY <1>3
  <2>2. R!ReplaceAllString(<< >>, p) = << >>
    BY <1>1, <2>1, ReplaceNone
  <2>3. \A z \in {x} \cup R!Range(R!Escape(x)) : z \notin p.takes
    BY <1>1, <1>3
  <2> QED
    BY <1>4, <2>2, <2>3
<1> QED
  BY <1>1, <1>2, <1>5, Zenon DEF Spares

LEMMA InvColumnsAgree == RequestInv => ColumnsAgree
<1> SUFFICES ASSUME RequestInv, NEW i \in DOMAIN result.user_messages,
                    \A j \in DOMAIN patterns : R!SeesAlike(patterns[j], R!UserTexts(body)[i])
             PROVE  R!Occurs(R!Encode(result.user_messages[i]), result.raw)
  BY Zenon DEF ColumnsAgree, R!ColumnsAgree
<1> DEFINE A == AnyAtom
           um == R!UserTexts(body)
<1>1. Syntax \subseteq A /\ Marks \subseteq A
  BY DEF AnyAtom
<1>2. result = ResultOf(capture, patterns, body) /\ capture
  <2>1. scrubberPc = "stored" => result = ResultOf(capture, patterns, body)
    BY SameResult DEF RequestInv
  <2>2. scrubberPc # "stored" => result.user_messages = << >>
    <3>1. R!NoResult.user_messages = << >>
      BY DEF R!NoResult
    <3> QED
      BY <3>1 DEF RequestInv
  <2>3. ~capture => ResultOf(capture, patterns, body).user_messages = << >>
    BY DEF ResultOf
  <2>4. result.user_messages # << >>
    <3> DEFINE none == << >>
    <3>1. none \in Seq({}) /\ Len(none) = 0
      BY EmptySeq
    <3> HIDE DEF none
    <3>2. DOMAIN none = {}
      BY <3>1, LenProperties
    <3>3. result.user_messages # none
      BY <3>2
    <3> QED
      BY <3>3 DEF none
  <2> QED
    BY <2>1, <2>2, <2>3, <2>4
<1>3. /\ result.user_messages = [j \in DOMAIN um |-> Scrubbed(um[j], patterns)]
      /\ result.raw = Scrubbed(R!Raw(body), patterns)
  BY <1>2 DEF ResultOf
<1>4. body.messages \in Seq(MessageOf(Seq(A)))
  BY BodyTexts
<1>5. um \in Seq(Seq(A))
  BY <1>4, UserTextsType
<1>6. i \in 1..Len(um) /\ um[i] \in Seq(A)
      /\ result.user_messages[i] = Scrubbed(um[i], patterns)
  <2>1. DOMAIN um = 1..Len(um)
    BY <1>5, LenProperties
  <2>2. i \in 1..Len(um)
    BY <1>3, <2>1
  <2> QED
    BY <1>3, <1>5, <2>1, <2>2, ElementOfSeq
<1> DEFINE t == um[i]
           Q == EscapedIn(t)
<1>7. Len(patterns) \in Nat /\ \A j \in 1..Len(patterns) : Spares(patterns[j], Q)
  <2>1. Len(patterns) \in Nat /\ DOMAIN patterns = 1..Len(patterns)
    BY LenProperties DEF RequestInv
  <2> QED
    BY <1>6, <2>1, SeesSpares
<1>8. Q \in SUBSET Escapes /\ t \in TextsOver(A, Q)
  <2>1. Q \in SUBSET Escapes /\ \A k \in 1..Len(t) : t[k] \in Escapes => t[k] \in Q
    BY DEF EscapedIn
  <2> HIDE DEF t, Q
  <2>2. t \in Seq(A)
    BY <1>6 DEF t
  <2> QED
    BY <2>1, <2>2, TextsOverIs
<1> HIDE DEF A, um, Q
<1>9. HeldIn(A, t, R!Raw(body))
  <2>1. PICK k \in 1..Len(SentTexts(body)) : SentTexts(body)[k] = t
    BY <1>4, <1>6, UserTextsSent DEF um
  <2>2. HeldIn(A, SentTexts(body)[k], R!Raw(body))
    BY <1>1, <1>4, SentHeld
  <2> QED
    BY <2>1, <2>2
<1> DEFINE s == Scrubbed(t, patterns)
           raw == Scrubbed(R!Raw(body), patterns)
<1>10. s \in Seq(A) /\ HeldIn(A, s, raw)
  BY <1>1, <1>7, <1>8, <1>9, ScrubbedHeld
<1> HIDE DEF s, raw
<1>11. R!Occurs(R!Encode(s), raw)
  BY <1>1, <1>10, HeldOccurs
<1> QED
  BY <1>3, <1>6, <1>11 DEF s, raw

(* Whatever the rules, the expressions and the bodies: a message is stored *)
(* alike in both columns if every pattern sees the same in both.           *)
THEOREM ColumnsAgreeHolds == AuditSpec => []ColumnsAgree
<1>1. AuditSpec => [](Inv /\ RequestInv)
  BY RequestHolds
<1>2. RequestInv => ColumnsAgree
  BY InvColumnsAgree
<1> QED
  BY <1>1, <1>2, PTL

===============================================================================
