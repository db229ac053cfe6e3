------------------------------ MODULE Migrations ------------------------------
(***************************************************************************)
(* migrations/migrate.sh and the seven files it applies, with the columns  *)
(* that internal/audit/clickhouse.go inserts into.  Several runs of the    *)
(* script may be active at once and each may die at any point: killed, or  *)
(* ended by set -e when a query fails or its answer is lost.  A run that   *)
(* is launched again finds the files its container still has in /tmp.      *)
(*                                                                         *)
(* ClickHouse executes one query at a time.  A query that dies after it    *)
(* was executed is a death in the state after it.  The columns of the      *)
(* first version of audit_events are one name, "base"; those of            *)
(* unprocessed_events, which come together, are another.                   *)
(*                                                                         *)
(* An operator named for what is wrong with it (ScanStopsAtApplied) is a   *)
(* mutation of the definition it precedes; no specification uses it.       *)
(***************************************************************************)
EXTENDS Naturals, Sequences, FiniteSets

CONSTANTS
  Run,                  \* runs of migrate.sh
  DB,                   \* CLICKHOUSE_DB, of the script and of the proxy
  HandSessions,         \* databases of the operator's clickhouse-client sessions
  MaxDeaths             \* bound on the deaths of runs

ASSUME MaxDeathsAssumption == MaxDeaths \in Nat

Events      == "audit_events"
Unprocessed == "unprocessed_events"

Database(db)            == [op |-> "database", db |-> db, table |-> "", columns |-> {}]
Create(db, table, cols) == [op |-> "create", db |-> db, table |-> table, columns |-> cols]
Alter(db, column)       == [op |-> "alter", db |-> db, table |-> Events, columns |-> {column}]

(* The statements of each file.  004 names its table without a database.   *)
File == <<
  << Database("audit"), Create("audit", Events, {"base", "branch"}) >>,
  << Alter("audit", "branch") >>,
  << Alter("audit", "request_captured"), Alter("audit", "user_messages") >>,
  << Alter("", "resource_group") >>,
  << Alter("audit", "user"), Alter("audit", "team") >>,
  << Create("audit", Unprocessed, {"unprocessed"}) >>,
  << Alter("audit", "input_tokens"), Alter("audit", "output_tokens"),
     Alter("audit", "cache_read_tokens"), Alter("audit", "cache_write_tokens") >> >>

Version == DOMAIN File

(* The columns named by the INSERTs of WriteBatch and of                   *)
(* WriteUnprocessedBatch, both into tables of DB.                          *)
Inserted == [table \in {Events, Unprocessed} |->
  IF table = Events
    THEN {"base", "branch", "request_captured", "user_messages", "resource_group",
          "user", "team", "input_tokens", "output_tokens", "cache_read_tokens",
          "cache_write_tokens"}
    ELSE {"unprocessed"}]

VARIABLES
  databases,            \* the databases there are
  schema,               \* [<<database, table>> -> columns], for the tables there are
  applied,              \* versions in DB.schema_migrations
  pc,                   \* [Run -> place in the script]
  version,              \* [Run -> the file of the loop]
  tmp,                  \* [Run -> statements in its /tmp, by number]
  next,                 \* [Run -> number of the next statement, i]
  deaths,               \* deaths so far
  hand,                 \* <<file, statement>> the operator executes next
  handRefused,          \* clickhouse-client reported an error
  proxy                 \* the proxy was started by compose

tables == <<databases, schema, applied>>
runs == <<pc, version, tmp, next, deaths>>
operator == <<hand, handRefused, proxy>>
vars == <<tables, runs, operator>>

(* An installation whose 001 had no branch yet.                            *)
FirstRelease == [t \in {<<"audit", Events>>} |-> {"base"}]

Init ==
  /\ \/ databases = {"default"} /\ schema = << >>
     \/ databases = {"default", "audit"} /\ schema = FirstRelease
  /\ applied = {}
  /\ pc = [r \in Run |-> "idle"]
  /\ version = [r \in Run |-> 1]
  /\ tmp = [r \in Run |-> << >>]
  /\ next = [r \in Run |-> 1]
  /\ deaths = 0
  /\ hand = <<1, 1>> /\ handRefused = FALSE /\ proxy = FALSE

-------------------------------------------------------------------------------
(* ClickHouse.  A statement without a database means the session's.        *)

Table(s, session) == <<IF s.db = "" THEN session ELSE s.db, s.table>>

AcceptedOnlyIfNew(s, session) ==
  CASE s.op = "database" -> TRUE
    [] s.op = "create"   -> s.db \in databases
    [] s.op = "alter"    -> /\ Table(s, session) \in DOMAIN schema
                            /\ s.columns \cap schema[Table(s, session)] = {}

Accepted(s, session) ==
  CASE s.op = "database" -> TRUE
    [] s.op = "create"   -> s.db \in databases
    [] s.op = "alter"    -> Table(s, session) \in DOMAIN schema

(* IF NOT EXISTS everywhere: a table that exists keeps its columns.        *)
Execute(s, session) ==
  /\ Accepted(s, session)
  /\ databases' = IF s.op = "database" THEN databases \cup {s.db} ELSE databases
  /\ schema' =
       LET t == Table(s, session)
       IN  CASE s.op = "database" -> schema
             [] s.op = "create" ->
                  [u \in DOMAIN schema \cup {t} |->
                     IF u \in DOMAIN schema THEN schema[u] ELSE s.columns]
             [] s.op = "alter" -> [schema EXCEPT ![t] = @ \cup s.columns]

-------------------------------------------------------------------------------
(* A run of the script.                                                    *)

Goto(r, place) == pc' = [pc EXCEPT ![r] = place]

(* docker compose up: the old container with its /tmp, or a new one.       *)
Launch(r) ==
  /\ pc[r] \in {"idle", "dead", "done", "refused"}
  /\ Goto(r, "prepare")
  /\ tmp' \in {tmp, [tmp EXCEPT ![r] = << >>]}
  /\ UNCHANGED <<tables, version, next, deaths, operator>>

(* The waiting loop, CREATE DATABASE and CREATE TABLE schema_migrations.   *)
Prepare(r) ==
  /\ pc[r] = "prepare"
  /\ databases' = databases \cup {DB}
  /\ Goto(r, "scan")
  /\ UNCHANGED <<schema, applied, version, tmp, next, deaths, operator>>

Skip(r) ==
  /\ version' = [version EXCEPT ![r] = @ + 1]
  /\ UNCHANGED <<tables, pc, tmp, next, deaths, operator>>

Finish(r) ==
  /\ Goto(r, "done")
  /\ version' = [version EXCEPT ![r] = 1]
  /\ next' = [next EXCEPT ![r] = 1]
  /\ UNCHANGED <<tables, tmp, deaths, operator>>

(* awk writes the statements of the file over what /tmp has.               *)
Split(r) ==
  LET v == version[r]
      old == tmp[r]
  IN  /\ tmp' = [tmp EXCEPT ![r] =
           [i \in DOMAIN File[v] \cup DOMAIN old |->
              IF i \in DOMAIN File[v] THEN File[v][i] ELSE old[i]]]
      /\ next' = [next EXCEPT ![r] = 1]
      /\ Goto(r, "take")
      /\ UNCHANGED <<tables, version, deaths, operator>>

ScanStopsAtApplied(r) ==
  /\ pc[r] = "scan"
  /\ IF version[r] > Len(File) \/ version[r] \in applied THEN Finish(r) ELSE Split(r)

(* The loop over the files: SELECT count() for the version.                *)
Scan(r) ==
  /\ pc[r] = "scan"
  /\ IF version[r] > Len(File) THEN Finish(r)
     ELSE IF version[r] \in applied THEN Skip(r)
     ELSE Split(r)

Remove(r) == tmp' = [tmp EXCEPT ![r] = [i \in DOMAIN @ \ {next[r]} |-> @[i]]]

Succeed(r) ==
  /\ Execute(tmp[r][next[r]], DB)
  /\ next' = [next EXCEPT ![r] = @ + 1]
  /\ UNCHANGED <<applied, pc, version, deaths, operator>>

(* The answer is an error: exit 1.                                         *)
Refuse(r) ==
  /\ Goto(r, "refused")
  /\ version' = [version EXCEPT ![r] = 1]
  /\ next' = [next EXCEPT ![r] = 1]
  /\ UNCHANGED <<tables, deaths, operator>>

(* One turn of the loop over /tmp: the statement's file is read, removed   *)
(* and sent with DB as the session's database.                             *)
Statement(r) ==
  /\ pc[r] = "take"
  /\ next[r] \in DOMAIN tmp[r]
  /\ Remove(r)
  /\ IF Accepted(tmp[r][next[r]], DB) THEN Succeed(r) ELSE Refuse(r)

(* No further statement.                                                   *)
Executed(r) ==
  /\ pc[r] = "take"
  /\ next[r] \notin DOMAIN tmp[r]
  /\ Goto(r, "record")
  /\ UNCHANGED <<tables, version, tmp, next, deaths, operator>>

RecordBeforeExecution(r) ==
  /\ pc[r] \in {"record", "take"}
  /\ applied' = applied \cup {version[r]}
  /\ version' = [version EXCEPT ![r] = @ + 1]
  /\ Goto(r, "scan")
  /\ UNCHANGED <<databases, schema, tmp, next, deaths, operator>>

RecordLost(r) ==
  /\ pc[r] = "record"
  /\ version' = [version EXCEPT ![r] = @ + 1]
  /\ Goto(r, "scan")
  /\ UNCHANGED <<tables, tmp, next, deaths, operator>>

Record(r) ==
  /\ pc[r] = "record"
  /\ applied' = applied \cup {version[r]}
  /\ version' = [version EXCEPT ![r] = @ + 1]
  /\ Goto(r, "scan")
  /\ UNCHANGED <<databases, schema, tmp, next, deaths, operator>>

(* The process ends with its variables; its /tmp stays.  It may die with a *)
(* statement's file removed and the statement not sent.                    *)
Die(r) ==
  /\ pc[r] \notin {"idle", "dead", "done", "refused"}
  /\ deaths < MaxDeaths
  /\ deaths' = deaths + 1
  /\ Goto(r, "dead")
  /\ UNCHANGED tmp \/ (pc[r] = "take" /\ Remove(r))
  /\ version' = [version EXCEPT ![r] = 1]
  /\ next' = [next EXCEPT ![r] = 1]
  /\ UNCHANGED <<tables, operator>>

Script(r) ==
  Prepare(r) \/ Scan(r) \/ Statement(r) \/ Executed(r) \/ Record(r)

-------------------------------------------------------------------------------
(* The operator of README.md, and the start of the proxy.                  *)

(* clickhouse-client --multiquery < file, the files in order; the client   *)
(* stops at the first error.  Sessions differ for 004 alone, one statement.*)
HandStatement ==
  /\ ~handRefused /\ hand[1] \in Version
  /\ LET s == File[hand[1]][hand[2]]
         last == hand[2] = Len(File[hand[1]])
     IN  \E session \in HandSessions :
           IF Accepted(s, session)
             THEN /\ Execute(s, session)
                  /\ hand' = IF last THEN <<hand[1] + 1, 1>> ELSE <<hand[1], hand[2] + 1>>
                  /\ UNCHANGED handRefused
             ELSE /\ handRefused' = TRUE
                  /\ UNCHANGED <<databases, schema, hand>>
  /\ UNCHANGED <<applied, runs, proxy>>

(* depends_on: migrate: service_completed_successfully.                    *)
StartProxy ==
  /\ ~proxy
  /\ \E r \in Run : pc[r] = "done"
  /\ proxy' = TRUE
  /\ UNCHANGED <<tables, runs, hand, handRefused>>

Next ==
  \/ \E r \in Run : Launch(r) \/ Script(r) \/ Die(r)
  \/ HandStatement \/ StartProxy

Spec == Init /\ [][Next]_vars

(* A run goes on unless it dies, and one that died is launched again; a    *)
(* run that was never launched need not be.                                *)
Fairness ==
  \A r \in Run : WF_vars(Script(r)) /\ WF_vars(pc[r] = "dead" /\ Launch(r))

FairSpec == Spec /\ Fairness

-------------------------------------------------------------------------------
(* Properties.                                                             *)

TypeOK ==
  /\ databases \subseteq {"default", "audit", DB}
  /\ \A t \in DOMAIN schema :
       t \in databases \X {Events, Unprocessed} /\ schema[t] \subseteq Inserted[t[2]]
  /\ applied \subseteq Version
  /\ pc \in [Run -> {"idle", "prepare", "scan", "take", "record",
                     "done", "dead", "refused"}]
  /\ version \in [Run -> 1..(Len(File) + 1)]
  /\ \A r \in Run : DOMAIN tmp[r] \subseteq 1..4
  /\ next \in [Run -> 1..5]
  /\ deaths \in 0..MaxDeaths
  /\ {handRefused, proxy} \subseteq BOOLEAN

(* Statement s has had its effect: its table is there with its columns.    *)
(* "CREATE TABLE IF NOT EXISTS" of 001 leaves an old table without branch. *)
Effective(s) ==
  LET t == Table(s, DB)
  IN  CASE s.op = "database" -> s.db \in databases
        [] s.op = "create"   -> t \in DOMAIN schema /\ s.columns \ {"branch"} \subseteq schema[t]
        [] s.op = "alter"    -> t \in DOMAIN schema /\ s.columns \subseteq schema[t]

(* A version is recorded only after every statement of its file, and of    *)
(* the files before it, has taken effect, whoever executed it and whoever  *)
(* died on the way.                                                        *)
RecordedIsApplied ==
  \A v \in applied : \A w \in 1..v :
    w \in applied /\ \A i \in DOMAIN File[w] : Effective(File[w][i])

(* No statement is ever refused: from any earlier installation, after any  *)
(* death, and with two runs side by side, the files can be applied again.  *)
NeverRefused == \A r \in Run : pc[r] # "refused"

(* The proxy that compose starts finds every column it inserts, whatever   *)
(* other runs or the operator are doing.                                   *)
InsertsFit ==
  proxy => \A table \in {Events, Unprocessed} :
             /\ <<DB, table>> \in DOMAIN schema
             /\ Inserted[table] \subseteq schema[<<DB, table>>]

(* Launching again is always enough: a run that was launched ends with     *)
(* every version recorded.                                                 *)
Completes ==
  \A r \in Run : (pc[r] = "prepare") ~> (pc[r] = "done" /\ applied = Version)
===============================================================================
