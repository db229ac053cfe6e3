------------------------------ MODULE TurnRecord ------------------------------
(***************************************************************************)
(* What one turn becomes: the director, the part of RoundTrip that         *)
(* forwards the request, extractEvents and ParseSAPAICore of               *)
(* internal/proxy/handler.go and internal/parser/sapaicore.go, with Router *)
(* for the upstream.  The order of the goroutines that write the rows is   *)
(* AuditTransport's; here every turn is by itself.                         *)
(*                                                                         *)
(* A header is present or absent; its value, when present, is its name.    *)
(*                                                                         *)
(* An operator named for what is wrong with it is a mutation of the        *)
(* definition it precedes; no specification uses it.                       *)
(***************************************************************************)
EXTENDS Router

CONSTANTS
  Configs,              \* configurations: override, sap, sapAuthHost
  Requests,             \* requests: [host, path, headers]
  Answers               \* response bodies, as the vendor's parser sees them

ASSUME InputsAssumption ==
  /\ Requests \subseteq [host : STRING, path : Seq(STRING), headers : SUBSET STRING]
  /\ Answers \subseteq
       [parses : BOOLEAN, model : STRING, text : BOOLEAN, tools : Seq(STRING)]

VARIABLES
  cfg,                  \* the router's configuration
  pc,                   \* "idle", "arrived", "directed", "sent", "recorded"
  request,              \* [host, path, headers] as the agent sent it
  upstream,             \* name of the upstream
  meta,                 \* requestMeta
  forwarded,            \* [host, path, headers] as the upstream gets it
  answer,               \* the response's body
  events,               \* rows for audit_events
  unprocessed           \* rows for unprocessed_events

turn == <<request, upstream, meta, forwarded, answer, events, unprocessed>>
vars == <<cfg, pc, turn>>

Nothing == [host |-> "", path |-> << >>, headers |-> {}]
NoMeta  == [session |-> "", agent |-> "", project |-> "", branch |-> "",
            user |-> "", team |-> "", path |-> << >>, group |-> ""]

(* A body: does it parse, which model it names, whether it has text or     *)
(* thinking, and its tool calls.                                           *)
Answer(parses, model, text, tools) ==
  [parses |-> parses, model |-> model, text |-> text, tools |-> tools]
NoAnswer == Answer(FALSE, "", FALSE, << >>)

Init ==
  /\ cfg \in Configs /\ pc = "idle"
  /\ request = Nothing /\ upstream = "" /\ meta = NoMeta /\ forwarded = Nothing
  /\ answer = NoAnswer /\ events = << >> /\ unprocessed = << >>

-------------------------------------------------------------------------------
Arrive ==
  /\ pc = "idle"
  /\ request' \in Requests
  /\ pc' = "arrived"
  /\ UNCHANGED <<cfg, upstream, meta, forwarded, answer, events, unprocessed>>

(* Header.Get: "" for a header that is absent.                             *)
Get(headers, name) == IF name \in headers THEN name ELSE ""

(* The first value that is not "".                                         *)
FirstOf(headers, names, default) ==
  LET present == {i \in DOMAIN names : names[i] \in headers}
  IN  IF present = {} THEN default
      ELSE names[CHOOSE i \in present : \A j \in present : i <= j]

(* The agent named by X-Audit-Agent, else the one User-Agent shows.        *)
MetaOf(headers, path) ==
  [session |-> FirstOf(headers, <<"X-Audit-Session-ID", "X-Session-ID">>, "new uuid"),
   agent   |-> FirstOf(headers, <<"X-Audit-Agent", "User-Agent">>, "unknown"),
   project |-> FirstOf(headers, <<"X-Audit-Project">>, "AUDIT_PROJECT"),
   branch  |-> FirstOf(headers, <<"X-Audit-Branch">>, "AUDIT_BRANCH"),
   user    |-> Get(headers, "X-Audit-User"),
   team    |-> Get(headers, "X-Audit-Team"),
   path    |-> path,
   group   |-> Get(headers, "AI-Resource-Group")]

(* The path in meta is the one that was rewritten.                         *)
director ==
  /\ pc = "arrived"
  /\ LET up  == DetectUpstream(cfg, request.host, request.path)
         out == RewriteRequest(request.path, up)
     IN  /\ upstream' = up.name
         /\ forwarded' = [host |-> out.host, path |-> out.path, headers |-> request.headers]
         /\ meta' = MetaOf(request.headers, out.path)
  /\ pc' = "directed"
  /\ UNCHANGED <<cfg, request, answer, events, unprocessed>>

internalHeadersOfPlugin ==
  {"X-Audit-Agent", "X-Audit-User", "X-Audit-Project", "X-Audit-Branch",
   "X-Audit-Session-ID", "X-Audit-Team", "Accept-Encoding"}

internalHeaders ==
  {"X-Session-ID", "X-Audit-Agent", "X-Audit-User", "X-Audit-Project",
   "X-Audit-Branch", "X-Audit-Session-ID", "X-Audit-Team", "Accept-Encoding"}

Row(direction, model, tool, group) ==
  [direction |-> direction, session |-> meta.session, agent |-> meta.agent,
   project |-> meta.project, branch |-> meta.branch, user |-> meta.user,
   team |-> meta.team, model |-> model, tool |-> tool, group |-> group]

BareRow(direction) == Row(direction, "", "", "")

(* RoundTrip: internal headers go, the request's row is offered.           *)
Forward ==
  /\ pc = "directed"
  /\ forwarded' = [forwarded EXCEPT !.headers = @ \ internalHeaders]
  /\ events' = << BareRow("request") >>
  /\ answer' \in Answers
  /\ pc' = "sent"
  /\ UNCHANGED <<cfg, request, upstream, meta, unprocessed>>

-------------------------------------------------------------------------------
(* The response.                                                           *)

(* Where the path has /deployments/{id}/ with an id that is not empty.     *)
Deployments(path) ==
  {i \in 1..(Len(path) - 2) : path[i] = "deployments" /\ path[i + 1] # ""}

DeploymentIDLast(path) ==
  IF Deployments(path) = {} THEN ""
  ELSE path[1 + CHOOSE i \in Deployments(path) : \A j \in Deployments(path) : i >= j]

(* FindStringSubmatch: the leftmost.                                       *)
DeploymentID(path) ==
  IF Deployments(path) = {} THEN ""
  ELSE path[1 + CHOOSE i \in Deployments(path) : \A j \in Deployments(path) : i <= j]

(* The path ends in /invoke, slashes after it aside.                       *)
NativeMode(path) ==
  \E i \in DOMAIN path :
    path[i] = "invoke" /\ \A j \in (i + 1)..Len(path) : path[j] = ""

(* The deployment is the model; a native response is not looked at.        *)
ParseSAPAICore ==
  LET id == DeploymentID(meta.path)
  IN  IF NativeMode(meta.path) THEN Answer(TRUE, id, FALSE, << >>)
      ELSE IF id = "" THEN answer
      ELSE [answer EXCEPT !.model = id]

Parsed ==
  CASE upstream = "sap-ai-core"             -> ParseSAPAICore
    [] upstream \in {"anthropic", "openai"} -> answer
    [] OTHER                                -> NoAnswer

MeaningfulNeedingModel(a) == a.parses /\ a.model # ""

MeaningfulIfParsed(a) == a.parses

Meaningful(a) == a.parses /\ (a.model # "" \/ a.text \/ a.tools # << >>)

(* One row for each tool call, or one row.                                 *)
ResponseRows(a) ==
  LET row(tool) == Row("response", a.model, tool,
                       IF upstream = "sap-ai-core" THEN meta.group ELSE "")
  IN  IF a.tools = << >> THEN << row("") >>
      ELSE [i \in DOMAIN a.tools |-> row(a.tools[i])]

(* The tap's callback: extractEvents, and the table for its outcome.       *)
Record ==
  /\ pc = "sent"
  /\ IF Meaningful(Parsed)
       THEN events' = events \o ResponseRows(Parsed) /\ UNCHANGED unprocessed
       ELSE unprocessed' = << BareRow("response") >> /\ UNCHANGED events
  /\ pc' = "recorded"
  /\ UNCHANGED <<cfg, request, upstream, meta, forwarded, answer>>

Next == Arrive \/ director \/ Forward \/ Record

Spec == Init /\ [][Next]_vars

-------------------------------------------------------------------------------
(* Properties.                                                             *)

Rows == events \o unprocessed

(* The rows after the request's.                                           *)
Responses == Tail(events)

Recorded == pc = "recorded"

TypeOK ==
  /\ cfg \in Configs /\ request \in Requests \cup {Nothing}
  /\ pc \in {"idle", "arrived", "directed", "sent", "recorded"}
  /\ upstream \in Vendors \cup {"sap-ai-core", ""}
  /\ forwarded.headers \subseteq request.headers
  /\ DOMAIN meta = DOMAIN NoMeta
  /\ answer \in Answers \cup {NoAnswer}
  /\ \A row \in Range(Rows) : row.direction \in {"request", "response"}
  /\ Len(unprocessed) <= 1

(* The table "IDE plugin headers" of README.md.  Every row of the turn, in *)
(* both tables, has the identity that the headers give, although they are  *)
(* gone when it is written; and the upstream gets every header but these,  *)
(* the older X-Session-ID, and the encoding the proxy could not read.      *)
IdentityKept ==
  LET sent(name) == name \in request.headers
      private == {"X-Audit-User", "X-Audit-Team", "X-Audit-Project", "X-Audit-Branch",
                  "X-Audit-Session-ID", "X-Audit-Agent"}
  IN  /\ \A row \in Range(Rows) :
           /\ private \cap {row.user, row.team, row.project, row.branch,
                            row.session, row.agent} = private \cap request.headers
           /\ row.session = "X-Session-ID" <=>
                sent("X-Session-ID") /\ ~sent("X-Audit-Session-ID")
           /\ row.agent = "User-Agent" <=> sent("User-Agent") /\ ~sent("X-Audit-Agent")
      /\ Recorded =>
           request.headers \ forwarded.headers =
           request.headers \cap (private \cup {"X-Session-ID", "Accept-Encoding"})

(* A vendor's host, and for the proxy's own address a vendor's local       *)
(* prefix, decides the upstream, unless SAP AI Core is configured and the  *)
(* host is one of its hosts; the prefix does not get there.                *)
Addressed ==
  Recorded /\ ~(SAPEnabled(cfg) /\ ContainsAuthHost(cfg, request.host)) =>
    LET first == IF Len(request.path) > 1 THEN Head(request.path) ELSE ""
    IN  /\ request.host \in Vendors => upstream = request.host
        /\ request.host = "local" /\ first \in Vendors =>
             upstream = first /\ forwarded.path = Tail(request.path)

HasContent(a) == a.text \/ a.tools # << >>

(* What SAP AI Core answers in native mode is not looked at.               *)
Native == upstream = "sap-ai-core" /\ NativeMode(meta.path)

(* The body, or for SAP AI Core the path, names a model.                   *)
NamesModel ==
  answer.model # "" \/ (upstream = "sap-ai-core" /\ Deployments(meta.path) # {})

(* The request has one row, the first; the response has rows in one table  *)
(* and never in both, so that nothing is lost.  A response that parses,    *)
(* with content or a model, becomes one row for each tool call, in their   *)
(* order, or one row without any; every other response is one unprocessed  *)
(* row: one that does not parse, one of Gemini, and one that parses with   *)
(* neither content nor a model.  The exception is native mode, against the *)
(* README: whatever its body, it is one row without its tool calls when    *)
(* the path names a deployment, and unprocessed only when it does not.     *)
Accounted ==
  Recorded =>
    LET parsed == upstream # "gemini" /\ answer.parses
        tools  == [i \in DOMAIN Responses |-> Responses[i].tool]
    IN  /\ \A i \in DOMAIN events : events[i].direction = "request" <=> i = 1
        /\ Len(unprocessed) = IF Responses = << >> THEN 1 ELSE 0
        /\ ~Native /\ parsed /\ (HasContent(answer) \/ NamesModel) =>
             tools = (IF answer.tools = << >> THEN << "" >> ELSE answer.tools)
        /\ ~Native /\ ~(parsed /\ (HasContent(answer) \/ NamesModel)) =>
             Responses = << >>
        /\ Native =>
             tools = (IF Deployments(meta.path) = {} THEN << >> ELSE << "" >>)

(* Rows of SAP AI Core name the deployment that the request went to, the   *)
(* first one in the path as the upstream gets it.                          *)
Deployment ==
  Recorded /\ upstream = "sap-ai-core" =>
    \A row \in Range(Responses) :
      \A i \in Deployments(forwarded.path) :
        (\A j \in 1..(i - 1) : j \notin Deployments(forwarded.path))
        => row.model = forwarded.path[i + 1]
           /\ (row.group # "" <=> "AI-Resource-Group" \in forwarded.headers)
===============================================================================
