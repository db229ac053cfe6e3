--------------------------- MODULE MigrationsProofs ---------------------------
(***************************************************************************)
(* The safety of Migrations for any number of runs, any number of deaths   *)
(* and every database name.                                                *)
(***************************************************************************)
EXTENDS Migrations, TLAPS

-------------------------------------------------------------------------------
(* The statements of the seven files, and what the proofs need to know of  *)
(* the files.                                                              *)

Altered == {"branch", "request_captured", "user_messages", "user", "team", "input_tokens",
            "output_tokens", "cache_read_tokens", "cache_write_tokens"}

Statements ==
  { Database("audit"), Create("audit", Events, {"base", "branch"}),
    Create("audit", Unprocessed, {"unprocessed"}), Alter("", "resource_group") }
  \cup {Alter("audit", column) : column \in Altered}

LEMMA VersionFacts == Len(File) = 7 /\ Version = 1..7
BY DEF File, Version

LEMMA InsertedColumns ==
  /\ Altered \cup {"base", "resource_group"} = Inserted[Events]
  /\ Inserted[Unprocessed] = {"unprocessed"}
BY DEF Inserted, Events, Unprocessed, Altered

LEMMA StatementsHave ==
  /\ Database("audit") \in Statements
  /\ Create("audit", Events, {"base", "branch"}) \in Statements
  /\ Create("audit", Unprocessed, {"unprocessed"}) \in Statements
  /\ Alter("", "resource_group") \in Statements
  /\ \A column \in Altered : Alter("audit", column) \in Statements
BY DEF Statements

(* Sequences of one, two and four statements.                              *)
LEMMA Sequences124 ==
  ASSUME NEW a \in Statements, NEW b \in Statements, NEW c \in Statements, NEW d \in Statements
  PROVE  \A t \in {<<a>>, <<a, b>>, <<a, b, c, d>>} :
           Len(t) \in 1..4 /\ DOMAIN t = 1..Len(t) /\ \A i \in DOMAIN t : t[i] \in Statements
OBVIOUS

LEMMA FileFacts ==
  ASSUME NEW v \in Version
  PROVE  /\ Len(File[v]) \in 1..4
         /\ DOMAIN File[v] = 1..Len(File[v])
         /\ \A i \in DOMAIN File[v] : File[v][i] \in Statements
<1> DEFINE A(column) == Alter("audit", column)
           Good(t) == Len(t) \in 1..4 /\ DOMAIN t = 1..Len(t)
                      /\ \A i \in DOMAIN t : t[i] \in Statements
<1>1. \A column \in Altered : A(column) \in Statements
  BY StatementsHave
<1>2. File[1] = <<Database("audit"), Create("audit", Events, {"base", "branch"})>>
  BY DEF File
<1>3. File[2] = <<A("branch")>>
  BY DEF File
<1>4. File[3] = <<A("request_captured"), A("user_messages")>>
  BY DEF File
<1>5. File[4] = <<Alter("", "resource_group")>>
  BY DEF File
<1>6. File[5] = <<A("user"), A("team")>>
  BY DEF File
<1>7. File[6] = <<Create("audit", Unprocessed, {"unprocessed"})>>
  BY DEF File
<1>8. File[7] = <<A("input_tokens"), A("output_tokens"), A("cache_read_tokens"),
                 A("cache_write_tokens")>>
  BY DEF File
<1> HIDE DEF A
<1>9. Good(File[1])
  <2>1. \A a, b \in Statements : Good(<<a, b>>)
    BY Sequences124
  <2> HIDE DEF Good
  <2> QED
    BY <1>2, <2>1, StatementsHave
<1>10. Good(File[2])
  BY <1>1, <1>3, Sequences124 DEF Altered
<1>11. Good(File[3])
  BY <1>1, <1>4, Sequences124 DEF Altered
<1>12. Good(File[4])
  BY <1>5, StatementsHave, Sequences124
<1>13. Good(File[5])
  BY <1>1, <1>6, Sequences124 DEF Altered
<1>14. Good(File[6])
  BY <1>7, StatementsHave, Sequences124
<1>15. Good(File[7])
  BY <1>1, <1>8, Sequences124 DEF Altered
<1> HIDE DEF Good
<1>16. \A w \in 1..7 : w \in {1, 2, 3, 4, 5, 6, 7}
  OBVIOUS
<1>17. Good(File[v])
  BY <1>9, <1>10, <1>11, <1>12, <1>13, <1>14, <1>15, <1>16, VersionFacts
<1> QED
  BY <1>17 DEF Good

(* The kinds of statement.                                                 *)
LEMMA StatementKinds ==
  ASSUME NEW s \in Statements
  PROVE  \/ s.op = "database" /\ s.db = "audit"
         \/ s.op = "create" /\ s.db = "audit" /\ s.table = Events /\ s.columns = {"base", "branch"}
         \/ s.op = "create" /\ s.db = "audit" /\ s.table = Unprocessed /\ s.columns = {"unprocessed"}
         \/ /\ s.op = "alter" /\ s.table = Events /\ s.db \in {"audit", ""}
            /\ s.columns \subseteq Inserted[Events]
<1>1. CASE s = Alter("", "resource_group")
  BY <1>1, InsertedColumns DEF Alter
<1>2. CASE \E column \in Altered : s = Alter("audit", column)
  BY <1>2, InsertedColumns DEF Alter
<1>3. CASE s \in {Database("audit"), Create("audit", Events, {"base", "branch"}),
                  Create("audit", Unprocessed, {"unprocessed"})}
  <2>1. CASE s = Database("audit")
    BY <2>1 DEF Database
  <2>2. CASE s = Create("audit", Events, {"base", "branch"})
    BY <2>2 DEF Create
  <2>3. CASE s = Create("audit", Unprocessed, {"unprocessed"})
    BY <2>3 DEF Create
  <2> QED
    BY <1>3, <2>1, <2>2, <2>3
<1> QED
  BY <1>1, <1>2, <1>3 DEF Statements

-------------------------------------------------------------------------------
(* ClickHouse: a table has the columns it was created with, and nothing is *)
(* taken away.                                                             *)

Catalog ==
  /\ databases \subseteq {"default", "audit", DB}
  /\ \A t \in DOMAIN schema :
       /\ t \in databases \X {Events, Unprocessed}
       /\ schema[t] \subseteq Inserted[t[2]]
       /\ t[2] = Events => "base" \in schema[t]
       /\ t[2] = Unprocessed => "unprocessed" \in schema[t]

Grows ==
  /\ databases \subseteq databases'
  /\ DOMAIN schema \subseteq DOMAIN schema'
  /\ \A t \in DOMAIN schema : schema[t] \subseteq schema'[t]

LEMMA ExecuteGrows ==
  ASSUME NEW s, NEW session, Execute(s, session), s \in Statements
  PROVE  Grows
<1> DEFINE t == Table(s, session)
<1>1. CASE s.op = "database"
  BY <1>1 DEF Execute, Grows
<1>2. CASE s.op = "create"
  BY <1>2 DEF Execute, Grows
<1>3. CASE s.op = "alter"
  BY <1>3 DEF Execute, Grows
<1> QED
  BY <1>1, <1>2, <1>3, StatementKinds

LEMMA ExecuteKeepsCatalog ==
  ASSUME Catalog, NEW s, NEW session, Execute(s, session), s \in Statements
  PROVE  Catalog'
<1>1. CASE s.op = "database"
  <2>1. s.db = "audit"
    BY <1>1, StatementKinds
  <2> QED
    BY <1>1, <2>1 DEF Execute, Catalog
<1>2. CASE s.op = "create"
  <2>1. /\ Table(s, session) = <<"audit", s.table>>
        /\ "audit" \in databases
        /\ databases' = databases
    BY <1>2, StatementKinds DEF Execute, Accepted, Table
  <2>2. \/ s.table = Events /\ s.columns = {"base", "branch"}
        \/ s.table = Unprocessed /\ s.columns = {"unprocessed"}
    BY <1>2, StatementKinds
  <2>3. /\ s.table \in {Events, Unprocessed}
        /\ s.columns \subseteq Inserted[s.table]
        /\ s.table = Events => "base" \in s.columns
        /\ s.table = Unprocessed => "unprocessed" \in s.columns
    BY <2>2, InsertedColumns DEF Events, Unprocessed, Altered
  <2>4. schema' = [u \in DOMAIN schema \cup {<<"audit", s.table>>} |->
                     IF u \in DOMAIN schema THEN schema[u] ELSE s.columns]
    BY <1>2, <2>1 DEF Execute
  <2> QED
    BY <2>1, <2>3, <2>4 DEF Catalog
<1>3. CASE s.op = "alter"
  <2> DEFINE t == Table(s, session)
  <2>1. /\ t \in DOMAIN schema /\ t[2] = Events
        /\ s.columns \subseteq Inserted[Events]
        /\ databases' = databases
        /\ schema' = [schema EXCEPT ![t] = @ \cup s.columns]
    BY <1>3, StatementKinds DEF Execute, Accepted, Table
  <2> HIDE DEF t
  <2> QED
    BY <2>1 DEF Catalog
<1> QED
  BY <1>1, <1>2, <1>3, StatementKinds

(* What was executed in the script's session has had its effect.           *)
LEMMA ExecuteEffective ==
  ASSUME Catalog, NEW s, Execute(s, DB), s \in Statements
  PROVE  Effective(s)'
<1>1. CASE s.op = "database"
  BY <1>1 DEF Execute, Effective
<1>2. CASE s.op = "create"
  <2>1. /\ Table(s, DB) = <<"audit", s.table>>
        /\ \/ s.table = Events /\ s.columns = {"base", "branch"}
           \/ s.table = Unprocessed /\ s.columns = {"unprocessed"}
    BY <1>2, StatementKinds DEF Table
  <2>2. schema' = [u \in DOMAIN schema \cup {<<"audit", s.table>>} |->
                     IF u \in DOMAIN schema THEN schema[u] ELSE s.columns]
    BY <1>2, <2>1 DEF Execute
  <2>3. <<"audit", s.table>>[2] = s.table
    OBVIOUS
  <2>4. s.columns \ {"branch"} \subseteq schema'[<<"audit", s.table>>]
    BY <2>1, <2>2, <2>3 DEF Catalog
  <2> QED
    BY <1>2, <2>1, <2>2, <2>4 DEF Effective
<1>3. CASE s.op = "alter"
  BY <1>3 DEF Execute, Accepted, Effective
<1> QED
  BY <1>1, <1>2, <1>3, StatementKinds

LEMMA EffectiveKept ==
  ASSUME NEW s, Effective(s), Grows, s \in Statements
  PROVE  Effective(s)'
BY StatementKinds DEF Effective, Grows

-------------------------------------------------------------------------------
(* The inductive invariant: what a run has behind it.  In the loop over    *)
(* /tmp the file's statements before the next have had their effect and    *)
(* the others are still in /tmp, unchanged.                                *)

RunInv(r) ==
  /\ \A i \in DOMAIN tmp[r] : tmp[r][i] \in Statements
  /\ pc[r] \in {"take", "record"} => version[r] \in Version
  /\ \A w \in 1..(version[r] - 1) : w \in applied
  /\ pc[r] = "take" =>
       \A i \in DOMAIN File[version[r]] :
         IF i < next[r] THEN Effective(File[version[r]][i])
         ELSE i \in DOMAIN tmp[r] /\ tmp[r][i] = File[version[r]][i]
  /\ pc[r] = "record" => \A i \in DOMAIN File[version[r]] : Effective(File[version[r]][i])
  /\ pc[r] = "done" => Version \subseteq applied

HandInv ==
  /\ hand = <<hand[1], hand[2]>>
  /\ hand[1] \in Version => hand[2] \in DOMAIN File[hand[1]]

(* The part of TypeOK that Catalog does not say.                           *)
RunsTyped ==
  /\ applied \subseteq Version
  /\ pc \in [Run -> {"idle", "prepare", "scan", "take", "record",
                     "done", "dead", "refused"}]
  /\ version \in [Run -> 1..8]
  /\ \A r \in Run : DOMAIN tmp[r] \subseteq 1..4
  /\ next \in [Run -> 1..5]
  /\ deaths \in 0..MaxDeaths
  /\ handRefused \in BOOLEAN
  /\ proxy \in BOOLEAN

Inv ==
  /\ RunsTyped
  /\ Catalog
  /\ RecordedIsApplied
  /\ DOMAIN tmp = Run
  /\ \A r \in Run : RunInv(r)
  /\ HandInv
  /\ proxy => Version \subseteq applied

LEMMA InvInit == Init => Inv
<1> SUFFICES ASSUME Init
             PROVE  Inv
  OBVIOUS
<1>1. Catalog
  <2>1. CASE schema = << >> /\ databases = {"default"}
    <3>1. DOMAIN schema = {}
      BY <2>1
    <3> QED
      BY <2>1, <3>1 DEF Catalog
  <2>2. CASE schema = FirstRelease /\ databases = {"default", "audit"}
    <3>1. Events # Unprocessed
      BY DEF Events, Unprocessed
    <3> QED
      BY <2>2, <3>1, InsertedColumns DEF Catalog, FirstRelease
  <2> QED
    BY <2>1, <2>2 DEF Init
<1>2. RunsTyped
  <2>1. /\ pc \in [Run -> {"idle", "prepare", "scan", "take", "record",
                            "done", "dead", "refused"}]
        /\ version \in [Run -> 1..8]
        /\ next \in [Run -> 1..5]
    BY DEF Init
  <2>2. \A r \in Run : DOMAIN tmp[r] = {}
    BY DEF Init
  <2>3. applied \subseteq Version /\ deaths \in 0..MaxDeaths
    BY MaxDeathsAssumption DEF Init
  <2>4. handRefused \in BOOLEAN /\ proxy \in BOOLEAN
    BY DEF Init
  <2> QED
    BY <2>1, <2>2, <2>3, <2>4 DEF RunsTyped
<1>3. RecordedIsApplied
  BY DEF Init, RecordedIsApplied
<1>4. ASSUME NEW r \in Run
      PROVE  RunInv(r)
  BY DEF Init, RunInv
<1>5. HandInv
  BY VersionFacts, FileFacts DEF Init, HandInv
<1> QED
  BY <1>1, <1>2, <1>3, <1>4, <1>5 DEF Init, Inv

(* What another's step leaves to a run.                                    *)
LEMMA OthersKept ==
  ASSUME NEW q \in Run, Inv, Grows, applied \subseteq applied',
         UNCHANGED <<pc[q], version[q], tmp[q], next[q]>>
  PROVE  RunInv(q)'
<1>1. RunInv(q)
  BY DEF Inv
<1>2. ASSUME pc[q] \in {"take", "record"}, NEW i \in DOMAIN File[version[q]],
             Effective(File[version[q]][i])
      PROVE  Effective(File[version[q]][i])'
  <2>1. File[version[q]][i] \in Statements
    BY <1>1, <1>2, FileFacts DEF RunInv
  <2>2. Effective(File[version[q]][i])
    BY <1>2
  <2>3. \A s \in Statements : Effective(s) => Effective(s)'
    BY EffectiveKept
  <2>4. version[q]' = version[q]
    OBVIOUS
  <2> QED
    BY <2>1, <2>2, <2>3, <2>4
<1> QED
  BY <1>1, <1>2 DEF RunInv

(* Versions that are recorded stay applied.                                *)
LEMMA RecordedKept ==
  ASSUME Inv, Grows, applied' = applied
  PROVE  RecordedIsApplied'
<1>1. ASSUME NEW v \in applied, NEW w \in 1..v
      PROVE  w \in applied /\ \A i \in DOMAIN File[w] : Effective(File[w][i])'
  <2>1. w \in applied /\ w \in Version /\ \A i \in DOMAIN File[w] : Effective(File[w][i])
    BY DEF Inv, RecordedIsApplied, RunsTyped
  <2> QED
    BY <2>1, FileFacts, EffectiveKept
<1> QED
  BY <1>1 DEF RecordedIsApplied

(* A step of run r keeps the invariant if it keeps what is said of r.      *)
LEMMA RunStep ==
  ASSUME NEW r \in Run, Inv, RunsTyped', Catalog', Grows, applied \subseteq applied',
         RecordedIsApplied', DOMAIN tmp' = Run, RunInv(r)', UNCHANGED operator,
         \A q \in Run \ {r} : UNCHANGED <<pc[q], version[q], tmp[q], next[q]>>
  PROVE  Inv'
<1>1. ASSUME NEW q \in Run
      PROVE  RunInv(q)'
  <2>1. CASE q = r
    BY <2>1
  <2>2. CASE q # r
    BY <2>2, OthersKept
  <2> QED
    BY <2>1, <2>2
<1>2. HandInv'
  BY DEF Inv, HandInv, operator
<1>3. proxy' => Version \subseteq applied'
  BY DEF Inv, operator
<1> QED
  BY <1>1, <1>2, <1>3 DEF Inv

(* A step that leaves the tables alone.                                    *)
LEMMA TablesKept ==
  ASSUME Inv, UNCHANGED <<databases, schema>>
  PROVE  Catalog' /\ Grows
BY DEF Inv, Catalog, Grows

LEMMA LaunchKeeps ==
  ASSUME NEW r \in Run, Inv, Launch(r)
  PROVE  Inv'
<1>1. /\ pc' = [pc EXCEPT ![r] = "prepare"]
      /\ tmp' = tmp \/ tmp' = [tmp EXCEPT ![r] = << >>]
      /\ UNCHANGED <<databases, schema, applied, version, next, deaths>>
      /\ UNCHANGED operator
  BY DEF Launch, Goto, tables
<1>2. DOMAIN tmp' = Run /\ \A q \in Run \ {r} : tmp'[q] = tmp[q]
  BY <1>1 DEF Inv
<1>3. DOMAIN tmp'[r] \subseteq DOMAIN tmp[r] /\ \A i \in DOMAIN tmp'[r] : tmp'[r][i] = tmp[r][i]
  BY <1>1 DEF Inv
<1>4. RunsTyped'
  BY <1>1, <1>2, <1>3 DEF Inv, RunsTyped, operator
<1>5. Catalog' /\ Grows /\ RecordedIsApplied'
  BY <1>1, TablesKept, RecordedKept
<1>6. RunInv(r)'
  BY <1>1, <1>3 DEF Inv, RunsTyped, RunInv
<1>7. \A q \in Run \ {r} : UNCHANGED <<pc[q], version[q], tmp[q], next[q]>>
  BY <1>1, <1>2 DEF Inv, RunsTyped
<1> QED
  BY <1>1, <1>2, <1>4, <1>5, <1>6, <1>7, RunStep

LEMMA PrepareKeeps ==
  ASSUME NEW r \in Run, Inv, Prepare(r)
  PROVE  Inv'
<1>1. /\ pc' = [pc EXCEPT ![r] = "scan"]
      /\ databases' = databases \cup {DB}
      /\ UNCHANGED <<schema, applied, version, tmp, next, deaths>>
      /\ UNCHANGED operator
  BY DEF Prepare, Goto
<1>2. RunsTyped'
  BY <1>1 DEF Inv, RunsTyped, operator
<1>3. Catalog' /\ Grows
  BY <1>1 DEF Inv, Catalog, Grows
<1>4. RecordedIsApplied'
  BY <1>1, <1>3, RecordedKept
<1>5. RunInv(r)'
  BY <1>1 DEF Inv, RunsTyped, RunInv
<1>6. \A q \in Run \ {r} : UNCHANGED <<pc[q], version[q], tmp[q], next[q]>>
  BY <1>1 DEF Inv, RunsTyped
<1> QED
  BY <1>1, <1>2, <1>3, <1>4, <1>5, <1>6, RunStep DEF Inv

LEMMA ScanKeeps ==
  ASSUME NEW r \in Run, Inv, Scan(r)
  PROVE  Inv'
<1>1. CASE version[r] > 7 /\ Finish(r)
  <2>1. /\ pc' = [pc EXCEPT ![r] = "done"]
        /\ version' = [version EXCEPT ![r] = 1]
        /\ next' = [next EXCEPT ![r] = 1]
        /\ UNCHANGED <<databases, schema, applied, tmp, deaths>>
        /\ UNCHANGED operator
    BY <1>1 DEF Finish, Goto, tables
  <2>2. RunsTyped'
    BY <2>1 DEF Inv, RunsTyped, operator
  <2>3. Catalog' /\ Grows /\ RecordedIsApplied'
    BY <2>1, TablesKept, RecordedKept
  <2>4. Version \subseteq applied
    <3>1. version[r] = 8
      BY <1>1 DEF Inv, RunsTyped
    <3> QED
      BY <3>1, VersionFacts DEF Inv, RunInv
  <2>5. RunInv(r)'
    BY <2>1, <2>4 DEF Inv, RunsTyped, RunInv
  <2>6. \A q \in Run \ {r} : UNCHANGED <<pc[q], version[q], tmp[q], next[q]>>
    BY <2>1 DEF Inv, RunsTyped
  <2> QED
    BY <2>1, <2>2, <2>3, <2>5, <2>6, RunStep DEF Inv
<1>2. CASE version[r] \in 1..7 /\ version[r] \in applied /\ pc[r] = "scan" /\ Skip(r)
  <2>1. /\ version' = [version EXCEPT ![r] = version[r] + 1]
        /\ UNCHANGED <<databases, schema, applied, pc, tmp, next, deaths>>
        /\ UNCHANGED operator
    BY <1>2 DEF Skip, tables
  <2>2. RunsTyped'
    BY <1>2, <2>1 DEF Inv, RunsTyped, operator
  <2>3. Catalog' /\ Grows /\ RecordedIsApplied'
    BY <2>1, TablesKept, RecordedKept
  <2>4. RunInv(r)'
    <3>1. version'[r] = version[r] + 1 /\ pc'[r] = "scan"
      BY <1>2, <2>1 DEF Inv, RunsTyped
    <3>2. \A w \in 1..version[r] : w \in applied
      BY <1>2 DEF Inv, RunsTyped, RunInv
    <3>3. \A w \in 1..(version'[r] - 1) : w \in applied'
      BY <1>2, <2>1, <3>1, <3>2
    <3> QED
      BY <2>1, <3>1, <3>3 DEF Inv, RunInv
  <2>5. \A q \in Run \ {r} : UNCHANGED <<pc[q], version[q], tmp[q], next[q]>>
    BY <2>1 DEF Inv, RunsTyped
  <2> QED
    BY <2>1, <2>2, <2>3, <2>4, <2>5, RunStep DEF Inv
<1>3. CASE version[r] \in 1..7 /\ pc[r] = "scan" /\ Split(r)
  <2> DEFINE v == version[r]
             old == tmp[r]
             new == [i \in DOMAIN File[v] \cup DOMAIN old |->
                       IF i \in DOMAIN File[v] THEN File[v][i] ELSE old[i]]
  <2>1. /\ tmp' = [tmp EXCEPT ![r] = new]
        /\ next' = [next EXCEPT ![r] = 1]
        /\ pc' = [pc EXCEPT ![r] = "take"]
        /\ UNCHANGED <<databases, schema, applied, version, deaths>>
        /\ UNCHANGED operator
    BY <1>3 DEF Split, Goto, tables
  <2>2. /\ DOMAIN File[v] \subseteq 1..4
        /\ \A i \in DOMAIN File[v] : i \in Nat /\ i >= 1 /\ File[v][i] \in Statements
    <3>1. v \in Version
      BY <1>3, VersionFacts
    <3>2. /\ Len(File[v]) \in 1..4
          /\ DOMAIN File[v] = 1..Len(File[v])
          /\ \A i \in DOMAIN File[v] : File[v][i] \in Statements
      BY <3>1, FileFacts
    <3>3. \A n \in 1..4 : 1..n \subseteq 1..4 /\ \A i \in 1..n : i \in Nat /\ i >= 1
      OBVIOUS
    <3> QED
      BY <3>2, <3>3
  <2>3. /\ DOMAIN new = DOMAIN File[v] \cup DOMAIN old
        /\ \A i \in DOMAIN File[v] : new[i] = File[v][i]
        /\ \A i \in DOMAIN old \ DOMAIN File[v] : new[i] = old[i]
    OBVIOUS
  <2> HIDE DEF new
  <2>4. /\ DOMAIN tmp' = Run /\ tmp'[r] = new
        /\ \A q \in Run \ {r} : tmp'[q] = tmp[q]
    BY <2>1 DEF Inv
  <2>5. DOMAIN new \subseteq 1..4
    BY <2>2, <2>3 DEF Inv, RunsTyped
  <2>6. \A q \in Run : DOMAIN tmp'[q] \subseteq 1..4
    BY <2>4, <2>5 DEF Inv, RunsTyped
  <2>7. RunsTyped'
    BY <2>1, <2>6 DEF Inv, RunsTyped, operator
  <2>8. Catalog' /\ Grows /\ RecordedIsApplied'
    BY <2>1, TablesKept, RecordedKept
  <2>9. RunInv(r)'
    <3>1. \A i \in DOMAIN new : new[i] \in Statements
      BY <2>2, <2>3 DEF Inv, RunInv
    <3>2. pc'[r] = "take" /\ next'[r] = 1 /\ version'[r] = v /\ v \in Version
      BY <1>3, <2>1, VersionFacts DEF Inv, RunsTyped
    <3>3. \A i \in DOMAIN File[v] : ~(i < 1) /\ i \in DOMAIN new /\ new[i] = File[v][i]
      BY <2>2, <2>3
    <3>4. \A w \in 1..(v - 1) : w \in applied
      BY DEF Inv, RunInv
    <3> QED
      BY <2>1, <2>4, <3>1, <3>2, <3>3, <3>4 DEF RunInv
  <2>10. \A q \in Run \ {r} : UNCHANGED <<pc[q], version[q], tmp[q], next[q]>>
    BY <2>1, <2>4 DEF Inv, RunsTyped
  <2> QED
    BY <2>1, <2>4, <2>7, <2>8, <2>9, <2>10, RunStep
<1> QED
  <2>1. version[r] \in 1..8
    BY DEF Inv, RunsTyped
  <2>2. version[r] > 7 \/ version[r] \in 1..7
    BY <2>1
  <2> QED
    BY <2>1, <2>2, <1>1, <1>2, <1>3, VersionFacts DEF Scan

(* A statement is executed or refused and its file removed.                *)
LEMMA RemoveFacts ==
  ASSUME NEW r \in Run, Inv, Remove(r)
  PROVE  /\ DOMAIN tmp' = Run
         /\ \A q \in Run \ {r} : tmp'[q] = tmp[q]
         /\ DOMAIN tmp'[r] = DOMAIN tmp[r] \ {next[r]}
         /\ \A i \in DOMAIN tmp'[r] : tmp'[r][i] = tmp[r][i]
         /\ \A q \in Run : DOMAIN tmp'[q] \subseteq 1..4
<1>1. /\ DOMAIN tmp' = Run
      /\ \A q \in Run \ {r} : tmp'[q] = tmp[q]
      /\ tmp'[r] = [i \in DOMAIN tmp[r] \ {next[r]} |-> tmp[r][i]]
  BY DEF Remove, Inv
<1> QED
  BY <1>1 DEF Inv, RunsTyped

LEMMA SucceedKeeps ==
  ASSUME NEW r \in Run, Inv, pc[r] = "take", next[r] \in DOMAIN tmp[r], Remove(r), Succeed(r)
  PROVE  Inv'
<1> DEFINE v == version[r]
           n == next[r]
           s == tmp[r][n]
<1>1. /\ pc[r] = "take"
      /\ n \in DOMAIN tmp[r]
      /\ Execute(s, DB)
      /\ Remove(r)
      /\ next' = [next EXCEPT ![r] = n + 1]
      /\ UNCHANGED <<applied, pc, version, deaths>>
      /\ UNCHANGED operator
  BY DEF Succeed
<1>2. s \in Statements
  BY <1>1 DEF Inv, RunInv
<1>3. Catalog' /\ Grows
  BY <1>1, <1>2, ExecuteKeepsCatalog, ExecuteGrows DEF Inv
<1>4. RecordedIsApplied'
  BY <1>1, <1>3, RecordedKept
<1>5. n \in 1..4
  BY <1>1 DEF Inv, RunsTyped
<1>6. RunsTyped'
  BY <1>1, <1>5, RemoveFacts DEF Inv, RunsTyped, operator
<1>7. RunInv(r)'
  <2>1. v \in Version
    BY <1>1 DEF Inv, RunInv
  <2>2. \A i \in DOMAIN File[v] : i \in Nat /\ File[v][i] \in Statements
    BY <2>1, FileFacts
  <2>3. /\ \A i \in DOMAIN tmp[r] : tmp[r][i] \in Statements
        /\ \A w \in 1..(v - 1) : w \in applied
        /\ \A i \in DOMAIN File[v] :
             IF i < n THEN Effective(File[v][i]) ELSE i \in DOMAIN tmp[r] /\ tmp[r][i] = File[v][i]
    BY <1>1 DEF Inv, RunInv
  <2>4. /\ pc'[r] = "take" /\ version'[r] = v /\ next'[r] = n + 1
        /\ applied' = applied
    BY <1>1 DEF Inv, RunsTyped
  <2>5. ASSUME NEW i \in DOMAIN File[v]
        PROVE  IF i < n + 1 THEN Effective(File[v][i])'
               ELSE i \in DOMAIN tmp'[r] /\ tmp'[r][i] = File[v][i]
    <3>1. i \in Nat /\ File[v][i] \in Statements
      BY <2>2
    <3>2. CASE i < n
      <4>1. i < n + 1
        BY <1>5, <3>1, <3>2
      <4>2. Effective(File[v][i])
        BY <2>3, <3>2
      <4>3. \A t \in Statements : Effective(t) => Effective(t)'
        BY <1>3, EffectiveKept
      <4> QED
        BY <1>1, <3>1, <4>1, <4>2, <4>3
    <3>3. CASE i = n
      <4>1. i < n + 1
        BY <1>5, <3>3
      <4>2. s = File[v][i]
        BY <1>5, <2>3, <3>3
      <4>3. PICK t \in Statements : t = s
        BY <1>2
      <4>4. Effective(t)'
        BY <1>1, <4>3, ExecuteEffective DEF Inv
      <4>5. t = File[v][i] /\ version'[r] = v
        BY <2>4, <4>2, <4>3
      <4> QED
        BY <4>1, <4>4, <4>5
    <3>4. CASE i > n
      <4>1. ~(i < n + 1) /\ ~(i < n) /\ i # n
        BY <1>5, <3>1, <3>4
      <4>2. i \in DOMAIN tmp[r] /\ tmp[r][i] = File[v][i]
        BY <2>3, <4>1
      <4> QED
        BY <1>1, <4>1, <4>2, RemoveFacts
    <3> QED
      BY <1>5, <3>1, <3>2, <3>3, <3>4
  <2>6. \A i \in DOMAIN tmp'[r] : tmp'[r][i] \in Statements
    BY <1>1, <2>3, RemoveFacts
  <2> QED
    BY <2>1, <2>3, <2>4, <2>5, <2>6 DEF RunInv
<1>8. \A q \in Run \ {r} : UNCHANGED <<pc[q], version[q], tmp[q], next[q]>>
  BY <1>1, RemoveFacts DEF Inv, RunsTyped
<1> QED
  BY <1>1, <1>3, <1>4, <1>6, <1>7, <1>8, RemoveFacts, RunStep

(* A run that leaves the loop over /tmp without a record: refused or dead. *)
LEMMA LeaveKeeps ==
  ASSUME NEW r \in Run, Inv, NEW place \in {"refused", "dead"},
         pc' = [pc EXCEPT ![r] = place],
         version' = [version EXCEPT ![r] = 1],
         next' = [next EXCEPT ![r] = 1],
         UNCHANGED tmp \/ Remove(r),
         deaths' \in 0..MaxDeaths,
         UNCHANGED tables, UNCHANGED operator
  PROVE  Inv'
<1>1. /\ DOMAIN tmp' = Run
      /\ \A q \in Run \ {r} : tmp'[q] = tmp[q]
      /\ \A i \in DOMAIN tmp'[r] : i \in DOMAIN tmp[r] /\ tmp'[r][i] = tmp[r][i]
      /\ \A q \in Run : DOMAIN tmp'[q] \subseteq 1..4
  <2>1. CASE UNCHANGED tmp
    BY <2>1 DEF Inv, RunsTyped
  <2>2. CASE Remove(r)
    BY <2>2, RemoveFacts
  <2> QED
    BY <2>1, <2>2
<1>2. RunsTyped'
  BY <1>1 DEF Inv, RunsTyped, operator, tables
<1>3. Catalog' /\ Grows /\ RecordedIsApplied'
  BY TablesKept, RecordedKept DEF tables
<1>4. RunInv(r)'
  BY <1>1 DEF Inv, RunsTyped, RunInv, tables
<1>5. \A q \in Run \ {r} : UNCHANGED <<pc[q], version[q], tmp[q], next[q]>>
  BY <1>1 DEF Inv, RunsTyped
<1> QED
  BY <1>1, <1>2, <1>3, <1>4, <1>5, RunStep DEF tables

LEMMA StatementKeeps ==
  ASSUME NEW r \in Run, Inv, Statement(r)
  PROVE  Inv'
<1>1. CASE Succeed(r)
  BY <1>1, SucceedKeeps DEF Statement
<1>2. CASE Refuse(r)
  <2>1. deaths' \in 0..MaxDeaths
    BY <1>2 DEF Refuse, Inv, RunsTyped
  <2> QED
    BY <1>2, <2>1, LeaveKeeps DEF Statement, Refuse, Goto
<1> QED
  BY <1>1, <1>2 DEF Statement

LEMMA DieKeeps ==
  ASSUME NEW r \in Run, Inv, Die(r)
  PROVE  Inv'
<1>1. deaths' \in 0..MaxDeaths
  BY MaxDeathsAssumption DEF Die, Inv, RunsTyped
<1> QED
  BY <1>1, LeaveKeeps DEF Die, Goto

LEMMA ExecutedKeeps ==
  ASSUME NEW r \in Run, Inv, Executed(r)
  PROVE  Inv'
<1> DEFINE v == version[r]
<1>1. /\ pc[r] = "take"
      /\ next[r] \notin DOMAIN tmp[r]
      /\ pc' = [pc EXCEPT ![r] = "record"]
      /\ UNCHANGED <<databases, schema, applied, version, tmp, next, deaths>>
      /\ UNCHANGED operator
  BY DEF Executed, Goto, tables
<1>2. RunsTyped'
  BY <1>1 DEF Inv, RunsTyped, operator
<1>3. Catalog' /\ Grows /\ RecordedIsApplied'
  BY <1>1, TablesKept, RecordedKept
<1>4. v \in Version
  BY <1>1 DEF Inv, RunInv
<1>5. \A i \in DOMAIN File[v] : Effective(File[v][i])
  <2>1. \A i \in DOMAIN File[v] :
          IF i < next[r] THEN Effective(File[v][i]) ELSE i \in DOMAIN tmp[r]
    BY <1>1 DEF Inv, RunInv
  <2>2. next[r] \notin DOMAIN File[v]
    BY <1>1, <2>1 DEF Inv, RunsTyped
  <2>3. \A i \in DOMAIN File[v] : i < next[r]
    <3>1. Len(File[v]) \in 1..4 /\ DOMAIN File[v] = 1..Len(File[v])
      BY <1>4, FileFacts
    <3>2. next[r] \in 1..5
      BY DEF Inv, RunsTyped
    <3> QED
      BY <2>2, <3>1, <3>2
  <2> QED
    BY <2>1, <2>3
<1>6. RunInv(r)'
  <2>1. pc'[r] = "record"
    BY <1>1 DEF Inv, RunsTyped
  <2>2. \A i \in DOMAIN File[v] : Effective(File[v][i])'
    BY <1>1, <1>5 DEF Effective
  <2> QED
    BY <1>1, <1>4, <2>1, <2>2 DEF Inv, RunInv
<1>7. \A q \in Run \ {r} : UNCHANGED <<pc[q], version[q], tmp[q], next[q]>>
  BY <1>1 DEF Inv, RunsTyped
<1> QED
  BY <1>1, <1>2, <1>3, <1>6, <1>7, RunStep DEF Inv

LEMMA RecordKeeps ==
  ASSUME NEW r \in Run, Inv, Record(r)
  PROVE  Inv'
<1> DEFINE v == version[r]
<1>1. /\ pc[r] = "record"
      /\ applied' = applied \cup {v}
      /\ version' = [version EXCEPT ![r] = v + 1]
      /\ pc' = [pc EXCEPT ![r] = "scan"]
      /\ UNCHANGED <<databases, schema, tmp, next, deaths>>
      /\ UNCHANGED operator
  BY DEF Record, Goto
<1>2. /\ v \in 1..7 /\ v \in Version
      /\ \A w \in 1..(v - 1) : w \in applied
      /\ \A i \in DOMAIN File[v] : Effective(File[v][i])
  BY <1>1, VersionFacts DEF Inv, RunInv
<1>3. RunsTyped'
  BY <1>1, <1>2 DEF Inv, RunsTyped, operator
<1>4. Catalog' /\ Grows
  BY <1>1, TablesKept
<1>5. RecordedIsApplied'
  <2>1. ASSUME NEW u \in applied', NEW w \in 1..u
        PROVE  w \in applied' /\ \A i \in DOMAIN File[w] : Effective(File[w][i])
    <3>1. CASE u \in applied
      BY <1>1, <3>1 DEF Inv, RecordedIsApplied
    <3>2. CASE u = v /\ w = v
      BY <1>1, <1>2, <3>2
    <3>3. CASE u = v /\ w # v
      <4>1. w \in 1..(v - 1)
        BY <1>2, <3>3
      <4>2. w \in applied /\ w \in 1..w
        BY <1>2, <4>1
      <4> QED
        BY <1>1, <4>2 DEF Inv, RecordedIsApplied
    <3> QED
      BY <1>1, <3>1, <3>2, <3>3
  <2>2. ASSUME NEW s
        PROVE  Effective(s)' <=> Effective(s)
    BY <1>1 DEF Effective
  <2> QED
    BY <2>1, <2>2 DEF RecordedIsApplied
<1>6. RunInv(r)'
  <2>1. pc'[r] = "scan" /\ version'[r] = v + 1
    BY <1>1 DEF Inv, RunsTyped
  <2>2. \A w \in 1..(version'[r] - 1) : w \in applied'
    BY <1>1, <1>2, <2>1
  <2> QED
    BY <1>1, <2>1, <2>2 DEF Inv, RunInv
<1>7. \A q \in Run \ {r} : UNCHANGED <<pc[q], version[q], tmp[q], next[q]>>
  BY <1>1 DEF Inv, RunsTyped
<1> QED
  BY <1>1, <1>3, <1>4, <1>5, <1>6, <1>7, RunStep DEF Inv

LEMMA HandKeeps ==
  ASSUME Inv, HandStatement
  PROVE  Inv'
<1> DEFINE f == hand[1]
           n == hand[2]
           s == File[f][n]
<1>1. /\ f \in Version /\ UNCHANGED <<applied, runs, proxy>>
      /\ \E session \in HandSessions :
           \/ /\ Execute(s, session) /\ UNCHANGED handRefused
              /\ \/ n = Len(File[f]) /\ hand' = <<f + 1, 1>>
                 \/ n # Len(File[f]) /\ hand' = <<f, n + 1>>
           \/ handRefused' = TRUE /\ UNCHANGED <<databases, schema, hand>>
  BY DEF HandStatement
<1>2. n \in DOMAIN File[f] /\ s \in Statements
  BY <1>1, FileFacts DEF Inv, HandInv
<1>3. Catalog' /\ Grows
  <2>1. CASE UNCHANGED <<databases, schema>>
    BY <2>1, TablesKept
  <2>2. ASSUME NEW session, Execute(s, session)
        PROVE  Catalog' /\ Grows
    BY <1>2, <2>2, ExecuteKeepsCatalog, ExecuteGrows DEF Inv
  <2> QED
    BY <1>1, <2>1, <2>2
<1>4. RecordedIsApplied'
  BY <1>1, <1>3, RecordedKept
<1>5. RunsTyped'
  <2>1. handRefused' \in BOOLEAN
    BY <1>1 DEF Inv, RunsTyped
  <2> QED
    BY <1>1, <2>1 DEF Inv, RunsTyped, runs
<1>6. \A q \in Run : RunInv(q)'
  BY <1>1, <1>3, OthersKept DEF runs
<1>7. HandInv'
  <2>1. CASE hand' = hand
    BY <2>1 DEF Inv, HandInv
  <2>2. CASE hand' = <<f + 1, 1>>
    <3>1. f + 1 \in Version => 1 \in DOMAIN File[f + 1]
      BY FileFacts
    <3> QED
      BY <2>2, <3>1 DEF HandInv
  <2>3. CASE n # Len(File[f]) /\ hand' = <<f, n + 1>>
    <3>1. n + 1 \in DOMAIN File[f]
      BY <1>1, <1>2, <2>3, FileFacts
    <3> QED
      BY <2>3, <3>1 DEF HandInv
  <2> QED
    BY <1>1, <2>1, <2>2, <2>3
<1> QED
  BY <1>1, <1>3, <1>4, <1>5, <1>6, <1>7 DEF Inv, runs

LEMMA StartKeeps ==
  ASSUME Inv, StartProxy
  PROVE  Inv'
<1>1. PICK r \in Run : pc[r] = "done"
  BY DEF StartProxy
<1>2. /\ proxy' = TRUE
      /\ UNCHANGED <<databases, schema, applied, pc, version, tmp, next, deaths, hand, handRefused>>
  BY DEF StartProxy, tables, runs
<1>3. RunsTyped'
  <2>1. proxy' \in BOOLEAN /\ handRefused' \in BOOLEAN
    BY <1>2 DEF Inv, RunsTyped
  <2> QED
    BY <1>2, <2>1 DEF Inv, RunsTyped
<1>4. Catalog' /\ Grows /\ RecordedIsApplied'
  BY <1>2, TablesKept, RecordedKept
<1>5. \A q \in Run : RunInv(q)'
  BY <1>2, <1>4, OthersKept
<1>6. HandInv'
  BY <1>2 DEF Inv, HandInv
<1>7. Version \subseteq applied'
  BY <1>1, <1>2 DEF Inv, RunInv
<1> QED
  BY <1>2, <1>3, <1>4, <1>5, <1>6, <1>7 DEF Inv

LEMMA InvStep == Inv /\ [Next]_vars => Inv'
<1> SUFFICES ASSUME Inv, [Next]_vars
             PROVE  Inv'
  OBVIOUS
<1>1. CASE UNCHANGED vars
  <2>1. UNCHANGED <<databases, schema, applied, pc, version, tmp, next, deaths, hand,
                    handRefused, proxy>>
    BY <1>1 DEF vars, tables, runs, operator
  <2>2. Catalog' /\ Grows /\ RecordedIsApplied'
    BY <2>1, TablesKept, RecordedKept
  <2>3. \A q \in Run : RunInv(q)'
    BY <2>1, <2>2, OthersKept
  <2>4. RunsTyped' /\ HandInv'
    BY <2>1 DEF Inv, RunsTyped, HandInv
  <2> QED
    BY <2>1, <2>2, <2>3, <2>4 DEF Inv
<1>2. ASSUME NEW r \in Run, Launch(r) \/ Script(r) \/ Die(r)
      PROVE  Inv'
  BY <1>2, LaunchKeeps, PrepareKeeps, ScanKeeps, StatementKeeps,
     ExecutedKeeps, RecordKeeps, DieKeeps DEF Script
<1> QED
  BY <1>1, <1>2, HandKeeps, StartKeeps DEF Next

-------------------------------------------------------------------------------
(* The theorems.                                                           *)

(* The types, with the columns each table can have.                        *)
THEOREM TypesKept == Spec => []TypeOK
<1>1. Inv => TypeOK
  BY VersionFacts DEF Inv, RunsTyped, Catalog, TypeOK
<1> QED
  BY <1>1, InvInit, InvStep, PTL DEF Spec

(* schema_migrations never claims a version whose statements, or those of  *)
(* a file before it, have not taken effect: for any number of runs of the  *)
(* script, deaths, and any database name.                                  *)
THEOREM OnlyAppliedRecorded == Spec => []RecordedIsApplied
<1>1. Inv => RecordedIsApplied
  BY DEF Inv
<1> QED
  BY <1>1, InvInit, InvStep, PTL DEF Spec

(* Each column has been added by one of the files: with every version      *)
(* applied, the tables of the database audit are complete.                 *)
LEMMA AppliedAll ==
  ASSUME Inv, Version \subseteq applied, NEW v \in Version, NEW i \in DOMAIN File[v]
  PROVE  Effective(File[v][i])
BY VersionFacts DEF Inv, RecordedIsApplied

LEMMA AlterEffective ==
  ASSUME NEW db \in {"", "audit"}, NEW column, DB = "audit", Effective(Alter(db, column))
  PROVE  <<"audit", Events>> \in DOMAIN schema /\ column \in schema[<<"audit", Events>>]
<1>1. /\ Alter(db, column).op = "alter" /\ Alter(db, column).columns = {column}
      /\ Table(Alter(db, column), DB) = <<"audit", Events>>
  BY DEF Alter, Table
<1> QED
  BY <1>1 DEF Effective

LEMMA CreateEffective ==
  ASSUME NEW table, NEW cols, Effective(Create("audit", table, cols))
  PROVE  <<"audit", table>> \in DOMAIN schema /\ cols \ {"branch"} \subseteq schema[<<"audit", table>>]
<1>1. /\ Create("audit", table, cols).op = "create" /\ Create("audit", table, cols).columns = cols
      /\ Table(Create("audit", table, cols), DB) = <<"audit", table>>
  BY DEF Create, Table
<1> QED
  BY <1>1 DEF Effective

(* With the default CLICKHOUSE_DB the proxy that compose starts finds      *)
(* every column of its INSERTs, whoever executed the files.                *)
THEOREM ProxyFindsColumns ==
  ASSUME DB = "audit"
  PROVE  Spec => []InsertsFit
<1>1. Inv => InsertsFit
  <2> SUFFICES ASSUME Inv, proxy
               PROVE  \A table \in {Events, Unprocessed} :
                        /\ <<DB, table>> \in DOMAIN schema
                        /\ Inserted[table] \subseteq schema[<<DB, table>>]
    BY DEF InsertsFit
  <2> DEFINE T == <<"audit", Events>>
             U == <<"audit", Unprocessed>>
  <2>1. \A v \in 1..7 : \A i \in DOMAIN File[v] : Effective(File[v][i])
    BY AppliedAll, VersionFacts DEF Inv
  <2>2. T \in DOMAIN schema /\ "base" \in schema[T]
    <3>1. 2 \in DOMAIN File[1] /\ File[1][2] = Create("audit", Events, {"base", "branch"})
      BY DEF File
    <3>2. Effective(Create("audit", Events, {"base", "branch"}))
      BY <2>1, <3>1
    <3> QED
      BY <3>2, CreateEffective
  <2>3. "branch" \in schema[T]
    <3>1. 1 \in DOMAIN File[2] /\ File[2][1] = Alter("audit", "branch")
      BY DEF File
    <3>2. Effective(Alter("audit", "branch"))
      BY <2>1, <3>1
    <3> QED
      BY <3>2, AlterEffective
  <2>4. "request_captured" \in schema[T] /\ "user_messages" \in schema[T]
    <3>1. /\ {1, 2} \subseteq DOMAIN File[3]
          /\ File[3][1] = Alter("audit", "request_captured")
          /\ File[3][2] = Alter("audit", "user_messages")
      BY DEF File
    <3>2. /\ Effective(Alter("audit", "request_captured"))
          /\ Effective(Alter("audit", "user_messages"))
      BY <2>1, <3>1
    <3> QED
      BY <3>2, AlterEffective
  <2>5. "resource_group" \in schema[T]
    <3>1. 1 \in DOMAIN File[4] /\ File[4][1] = Alter("", "resource_group")
      BY DEF File
    <3>2. 4 \in 1..7
      OBVIOUS
    <3>3. Effective(File[4][1])
      BY <2>1, <3>1, <3>2
    <3> QED
      BY <3>1, <3>3, AlterEffective
  <2>6. "user" \in schema[T] /\ "team" \in schema[T]
    <3>1. /\ {1, 2} \subseteq DOMAIN File[5]
          /\ File[5][1] = Alter("audit", "user")
          /\ File[5][2] = Alter("audit", "team")
      BY DEF File
    <3>2. /\ Effective(Alter("audit", "user"))
          /\ Effective(Alter("audit", "team"))
      BY <2>1, <3>1
    <3> QED
      BY <3>2, AlterEffective
  <2>7. U \in DOMAIN schema /\ "unprocessed" \in schema[U]
    <3>1. 1 \in DOMAIN File[6] /\ File[6][1] = Create("audit", Unprocessed, {"unprocessed"})
      BY DEF File
    <3>2. Effective(Create("audit", Unprocessed, {"unprocessed"}))
      BY <2>1, <3>1
    <3> QED
      BY <3>2, CreateEffective
  <2>8. /\ "input_tokens" \in schema[T] /\ "output_tokens" \in schema[T]
        /\ "cache_read_tokens" \in schema[T] /\ "cache_write_tokens" \in schema[T]
    <3>1. /\ {1, 2, 3, 4} \subseteq DOMAIN File[7]
          /\ File[7][1] = Alter("audit", "input_tokens")
          /\ File[7][2] = Alter("audit", "output_tokens")
          /\ File[7][3] = Alter("audit", "cache_read_tokens")
          /\ File[7][4] = Alter("audit", "cache_write_tokens")
      BY DEF File
    <3>2. /\ Effective(Alter("audit", "input_tokens"))
          /\ Effective(Alter("audit", "output_tokens"))
          /\ Effective(Alter("audit", "cache_read_tokens"))
          /\ Effective(Alter("audit", "cache_write_tokens"))
      BY <2>1, <3>1
    <3> QED
      BY <3>2, AlterEffective
  <2>9. Inserted[Events] \subseteq schema[T] /\ Inserted[Unprocessed] \subseteq schema[U]
    <3> HIDE DEF T, U
    <3> QED
      BY <2>2, <2>3, <2>4, <2>5, <2>6, <2>7, <2>8, InsertedColumns DEF Altered
  <2> QED
    BY <2>2, <2>7, <2>9
<1> QED
  BY <1>1, InvInit, InvStep, PTL DEF Spec

(* A run that is past Prepare has its database.                            *)
Ready == \A r \in Run : pc[r] \in {"scan", "take", "record"} => DB \in databases

LEMMA NothingRefused ==
  ASSUME DB = "audit", Inv, Ready, NEW r \in Run
  PROVE  pc[r] = "take" /\ next[r] \in DOMAIN tmp[r] => Accepted(tmp[r][next[r]], DB)
<1> SUFFICES ASSUME pc[r] = "take", next[r] \in DOMAIN tmp[r], ~Accepted(tmp[r][next[r]], DB)
             PROVE  FALSE
  OBVIOUS
<1> DEFINE v == version[r]
           n == next[r]
           s == tmp[r][n]
           T == <<"audit", Events>>
<1>1. pc[r] = "take" /\ n \in DOMAIN tmp[r] /\ ~Accepted(s, DB)
  OBVIOUS
<1>2. s \in Statements /\ v \in 1..7
  BY <1>1, VersionFacts DEF Inv, RunInv
<1>3. "audit" \in databases
  BY <1>1 DEF Ready
<1>4. s.op = "alter" /\ Table(s, DB) = T /\ T \notin DOMAIN schema
  BY <1>1, <1>2, <1>3, StatementKinds DEF Accepted, Table
<1>5. /\ DOMAIN File[1] = {1, 2} /\ File[1][1] = Database("audit")
      /\ File[1][2] = Create("audit", Events, {"base", "branch"})
  BY DEF File
<1>6. ~Effective(File[1][2])
  BY <1>4, <1>5, CreateEffective
<1>7. v = 1
  <2>1. ASSUME v > 1
        PROVE  1 \in applied
    BY <1>2, <2>1 DEF Inv, RunInv
  <2>2. 1 \in applied => \A i \in DOMAIN File[1] : Effective(File[1][i])
    <3>1. 1 \in 1..1
      OBVIOUS
    <3> QED
      BY <3>1 DEF Inv, RecordedIsApplied
  <2>3. ~(v > 1)
    BY <1>5, <1>6, <2>1, <2>2
  <2> QED
    BY <1>2, <2>3
<1>8. \A i \in DOMAIN File[1] :
        IF i < n THEN Effective(File[1][i]) ELSE i \in DOMAIN tmp[r] /\ tmp[r][i] = File[1][i]
  BY <1>1, <1>7 DEF Inv, RunInv
<1>9. n \in 1..4
  BY <1>1 DEF Inv, RunsTyped
<1>10. ~(2 < n) /\ n \in {1, 2}
  BY <1>5, <1>6, <1>8, <1>9
<1>11. s = File[1][n]
  BY <1>5, <1>8, <1>9, <1>10
<1>12. Database("audit").op = "database" /\ Create("audit", Events, {"base", "branch"}).op = "create"
  BY DEF Database, Create
<1>13. s = Database("audit") \/ s = Create("audit", Events, {"base", "branch"})
  BY <1>5, <1>10, <1>11
<1> QED
  BY <1>4, <1>12, <1>13

LEMMA ReadyStep == Inv /\ Ready /\ [Next]_vars => Ready'
<1> SUFFICES ASSUME Inv, Ready, [Next]_vars
             PROVE  Ready'
  OBVIOUS
<1>1. CASE UNCHANGED vars
  BY <1>1 DEF vars, tables, runs, Ready
<1>2. ASSUME NEW r \in Run, NEW place, pc' = [pc EXCEPT ![r] = place],
             databases \subseteq databases',
             place \in {"scan", "take", "record"} => DB \in databases'
      PROVE  Ready'
  BY <1>2 DEF Inv, RunsTyped, Ready
<1>3. ASSUME NEW r \in Run, Launch(r) \/ Die(r)
      PROVE  Ready'
  BY <1>2, <1>3 DEF Launch, Die, Goto, tables
<1>4. ASSUME NEW r \in Run, Prepare(r)
      PROVE  Ready'
  BY <1>2, <1>4 DEF Prepare, Goto
<1>5. ASSUME NEW r \in Run, Scan(r)
      PROVE  Ready'
  <2>1. DB \in databases
    BY <1>5 DEF Scan, Ready
  <2>2. CASE Finish(r)
    BY <1>2, <2>2 DEF Finish, Goto, tables
  <2>3. CASE Skip(r)
    BY <2>3 DEF Skip, tables, Ready
  <2>4. CASE Split(r)
    BY <1>2, <2>1, <2>4 DEF Split, Goto, tables
  <2> QED
    BY <1>5, <2>2, <2>3, <2>4 DEF Scan
<1>6. ASSUME NEW r \in Run, Executed(r) \/ Record(r)
      PROVE  Ready'
  <2>1. DB \in databases
    BY <1>6 DEF Executed, Record, Ready
  <2> QED
    BY <1>2, <1>6, <2>1 DEF Executed, Record, Goto, tables
<1>7. ASSUME NEW r \in Run, Statement(r)
      PROVE  Ready'
  <2>1. CASE Succeed(r)
    <3>1. databases \subseteq databases' /\ pc' = pc
      BY <2>1 DEF Succeed, Execute
    <3> QED
      BY <3>1 DEF Ready
  <2>2. CASE Refuse(r)
    BY <1>2, <2>2 DEF Refuse, Goto, tables
  <2> QED
    BY <1>7, <2>1, <2>2 DEF Statement
<1>8. CASE HandStatement
  <2>1. databases \subseteq databases' /\ pc' = pc
    BY <1>8 DEF HandStatement, Execute, runs
  <2> QED
    BY <2>1 DEF Ready
<1>9. CASE StartProxy
  BY <1>9 DEF StartProxy, tables, runs, Ready
<1> QED
  BY <1>1, <1>3, <1>4, <1>5, <1>6, <1>7, <1>8, <1>9 DEF Next, Script

LEMMA NeverRefusedStep ==
  ASSUME DB = "audit"
  PROVE  Inv /\ Ready /\ NeverRefused /\ [Next]_vars => NeverRefused'
<1> SUFFICES ASSUME Inv, Ready, NeverRefused, [Next]_vars
             PROVE  NeverRefused'
  OBVIOUS
<1>1. CASE UNCHANGED <<pc>>
  BY <1>1 DEF NeverRefused
<1>2. ASSUME NEW r \in Run, NEW place, pc' = [pc EXCEPT ![r] = place], place # "refused"
      PROVE  NeverRefused'
  BY <1>2 DEF Inv, RunsTyped, NeverRefused
<1>3. ASSUME NEW r \in Run, Launch(r) \/ Script(r) \/ Die(r)
      PROVE  NeverRefused'
  <2>1. CASE Launch(r)
    BY <1>2, <2>1 DEF Launch, Goto
  <2>2. CASE Die(r)
    BY <1>2, <2>2 DEF Die, Goto
  <2>3. CASE Prepare(r) \/ Executed(r) \/ Record(r)
    BY <1>2, <2>3 DEF Prepare, Executed, Record, Goto
  <2>4. CASE Statement(r)
    <3>1. Succeed(r)
      BY <2>4, NothingRefused DEF Statement
    <3> QED
      BY <1>1, <3>1 DEF Succeed
  <2>5. CASE Scan(r)
    <3>1. pc' = pc \/ \E place \in {"done", "take"} : pc' = [pc EXCEPT ![r] = place]
      BY <2>5 DEF Scan, Finish, Skip, Split, Goto
    <3> QED
      BY <1>1, <1>2, <3>1
  <2> QED
    BY <1>3, <2>1, <2>2, <2>3, <2>4, <2>5 DEF Script
<1> QED
  BY <1>1, <1>3 DEF Next, HandStatement, StartProxy, vars, runs

(* With the default CLICKHOUSE_DB no run of the script is ever refused a   *)
(* statement: for any number of runs side by side and any deaths.          *)
THEOREM NoStatementRefused ==
  ASSUME DB = "audit"
  PROVE  Spec => []NeverRefused
<1>1. Init => Ready /\ NeverRefused
  BY DEF Init, Ready, NeverRefused
<1> QED
  BY <1>1, InvInit, InvStep, ReadyStep, NeverRefusedStep, PTL DEF Spec
===============================================================================
