------------------------------- MODULE TurnAudit -------------------------------
(***************************************************************************)
(* One turn with all that is stored of it: TurnRecord's rows, and what     *)
(* RequestAudit keeps of the request's body with the scrubber that main    *)
(* has built before it serves.                                             *)
(***************************************************************************)
EXTENDS TurnRecord

CONSTANTS
  Rules, Accepts(_, _), Prefers(_, _),  \* RequestAudit's
  Bodies(_, _)          \* bodies of a request in a configuration

ASSUME BodiesAssumption ==
  /\ Rules \subseteq Seq([matches : Seq(STRING),
                         pieces : Seq([valid : BOOLEAN, exp : STRING,
                                       takes : SUBSET STRING, looks : BOOLEAN])])
  /\ \A config \in Configs, req \in Requests :
       Bodies(config, req) \subseteq
         [shape : {"messages", "other"},
          messages : Seq([role : STRING,
                          content : [kind : STRING, texts : Seq(Seq(STRING))]])]

VARIABLES
  rules, capture,       \* RequestAudit's configuration,
  scrubberPc, patterns, \* its place and its scrubber,
  body, result          \* the request's body and what is stored of it

requestVars == <<rules, capture, scrubberPc, patterns, body, result>>
auditVars == <<vars, requestVars>>

R == INSTANCE RequestAudit WITH pc <- scrubberPc

AuditInit == Init /\ R!Init

(* main exits when there is no scrubber.                                   *)
BuildScrubber == R!BuildScrubber /\ UNCHANGED vars

ArriveServed == scrubberPc = "serving" /\ Arrive /\ UNCHANGED requestVars

Direct == director /\ UNCHANGED requestVars

(* RoundTrip gives the body to the upstream and a copy to ParseRequest.    *)
ForwardAudited == Forward /\ \E b \in Bodies(cfg, request) : R!ParseRequest(b)

RecordAnswer == Record /\ UNCHANGED requestVars

AuditNext == BuildScrubber \/ ArriveServed \/ Direct \/ ForwardAudited \/ RecordAnswer

AuditSpec == AuditInit /\ [][AuditNext]_auditVars

-------------------------------------------------------------------------------
(* Properties.  Those of TurnRecord are properties of AuditSpec as they    *)
(* are; those of RequestAudit, which says what they mean, are named here.  *)

AuditTypeOK == TypeOK /\ R!TypeOK /\ (pc # "idle" => scrubberPc \in {"serving", "stored"})

(* A pattern that markers cannot make match has no match in what is        *)
(* stored, and what no pattern takes is stored.                            *)
OnlyMatchesRedacted == R!OnlyMatchesRedacted

(* A message that the patterns see alike in both columns is stored alike.  *)
ColumnsAgree == R!ColumnsAgree

(* A malformed message costs its own texts only.                           *)
DamageIsLocal == R!DamageIsLocal

(* README.md: what a rule matches as it is written is not stored.          *)
RulesRedacted == R!RulesRedacted
===============================================================================
