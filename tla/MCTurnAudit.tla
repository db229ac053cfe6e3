----------------------------- MODULE MCTurnAudit -----------------------------
(***************************************************************************)
(* Configurations, requests and answers for TurnAudit.                     *)
(***************************************************************************)
EXTENDS TurnAudit, RequestBody

(* The configurations and the requests.                                    *)

Config(anthropic, openai, sap, sapAuthHost) ==
  [override |-> [v \in Vendors |-> CASE v = "anthropic" -> anthropic
                                     [] v = "openai"    -> openai
                                     [] v = "gemini"    -> Unset],
   sap |-> sap, sapAuthHost |-> sapAuthHost]

SAP == URL("sap", << >>)

MCConfigs ==
  { Config(Unset, Unset, Unset, "sap"),
    Config(Unset, Unset, SAP, "sap"),
    Config(URL("gateway", << >>), Unparseable, SAP, "sap"),
    Config(Unset, Unset, SAP, ""),
    Config(Unset, Unset, Unparseable, "") }

MCPaths ==
  { << >>, <<"v1", "messages">>, <<"v1", "messages", "count_tokens">>,
    <<"v1", "chat", "completions">>, <<"v1", "models">>, <<"v1beta", "models">>,
    <<"anthropic", "v1", "messages">>, <<"openai", "v1", "chat", "completions">>,
    <<"gemini", "openai", "v1beta">>, <<"openai">>,
    <<"sap-aicore", "v2", "inference", "deployments", "d1", "chat">>,
    <<"v2", "deployments", "d1", "deployments", "d2", "chat">>,
    <<"v2", "deployments", "d1">>, <<"v2", "deployments", "d1", "invoke">>,
    <<"v2", "deployments", "", "deployments", "d2", "chat">>,
    <<"v2", "deployments", "d1", "invoke", "">> }

AllHeaders ==
  { "X-Audit-Session-ID", "X-Session-ID", "X-Audit-Agent", "User-Agent",
    "X-Audit-Project", "X-Audit-Branch", "X-Audit-User", "X-Audit-Team",
    "Accept-Encoding", "AI-Resource-Group" }

FewHeaders == { "AI-Resource-Group", "X-Session-ID" }

(* Every place a request can go to, and every set of headers.              *)
MCRequests ==
  [host : Vendors \cup {"sap", "local"}, path : MCPaths, headers : SUBSET FewHeaders]
    \cup [host : {"openai", "sap"}, path : { <<"openai", "v1">> }, headers : SUBSET AllHeaders]

MCAnswers ==
  { Answer(FALSE, "", FALSE, << >>), Answer(TRUE, "", FALSE, << >>),
    Answer(TRUE, "m", FALSE, << >>), Answer(TRUE, "", FALSE, <<"t1">>),
    Answer(TRUE, "m", TRUE, <<"t2", "t1">>), Answer(TRUE, "", TRUE, << >>) }

-------------------------------------------------------------------------------
(* The rules and the bodies.  "k" and "l" are the parts of secrets, "x" is *)
(* ordinary text, and "n" the letter in the escape of a newline.           *)

Lower   == {"k", "l", "n", "x"}
Letters == Lower \cup {"REDACTED"}
Dot     == Letters \cup {"[", "]", "{", ",", "}", "\\", "quote"}

Literal ==
  [k |-> <<"k">>, l |-> <<"l">>, x |-> <<"x">>, kl |-> <<"k", "l">>, lk |-> <<"l", "k">>,
   klk |-> <<"k", "l", "k">>] @@
  ("\\n" :> <<"newline">>) @@ ("kl{2" :> <<"k", "l", "{2">>) @@ ("}" :> <<"}">>) @@
  ("l{32" :> <<"l", "{32">>)

Lit(exp)      == Rule(Literal[exp], << Regexp(exp, Range(Literal[exp]), FALSE) >>)
Class(exp, A) == Rule(<<"k">>, << Regexp(exp, A, FALSE) >>)
Looks(exp, A) == Rule(<<"k">>, << Regexp(exp, A, TRUE) >>)

MCAccepts(exp, s) ==
  LET w == s.word
      n == Len(w)
  IN  CASE exp \in {"[kl]+", "[a-z]+", "[A-Z]+"} -> n > 0
        [] exp = "k*"                 -> TRUE
        [] exp \in {"k.*l", "k.*?l"}  -> n > 1 /\ w[1] = "k" /\ w[n] = "l"
        [] exp = "k\\S+"              -> n > 1 /\ w[1] = "k"
        [] exp = "^k"                 -> w = <<"k">> /\ s.before = R!Edge
        [] exp = "\\bl"               -> w = <<"l">> /\ s.before \notin Letters
        [] OTHER                      -> w = Literal[exp]

(* The longest, unless ? asks for the shortest.                            *)
MCPrefers(exp, found) ==
  CHOOSE s \in found : \A t \in found :
    IF exp = "k.*?l" THEN Len(s.word) <= Len(t.word) ELSE Len(s.word) >= Len(t.word)

(* The two rules of README.md: the commas inside {2,} and {32,} leave      *)
(* regular expressions that match a literal "{2" or "{32", and a "}".      *)
Email == Rule(<<"k", "l">>, Lit("kl{2").pieces \o Lit("}").pieces)
Key   == Rule(<<"l">>, Lit("l{32").pieces \o Lit("}").pieces)

BlankRule == Rule(<< >>, << Blank >>)
Broken    == Rule(<<"(">>, << Invalid >>)

MCRules ==
  { << >>,
    << Lit("k") >>,
    << Lit("klk"), BlankRule >>,
    << Lit("kl"), Lit("lk") >>,
    << Lit("lk"), Lit("k"), Lit("x") >>,
    << Lit("k"), Broken >>,
    << BlankRule, Broken >>,
    << Email >>,
    << Class("k.*l", Dot), Lit("\\n") >>,
    << Class("[kl]+", {"k", "l"}), Class("[A-Z]+", {"REDACTED"}) >>,
    << Class("k*", {"k"}), Lit("l") >>,
    << Class("[a-z]+", Lower) >>,
    << Class("k.*?l", Dot), Class("k\\S+", Dot) >>,
    << Looks("\\bl", {"l"}), Looks("^k", {"k"}) >> }

ReadmeRules == { << Email, Key >> }

Texts ==
  { << >>, <<"x">>, <<"k", "l">>, <<"x", "k", "l", "k", "l", "k">>,
    <<"k", "k", "l", "x">>, <<"k", "quote", "l">>, <<"k", "newline", "l">> }

Contents ==
  {Text(t) : t \in Texts} \cup {Malformed(<<t>>) : t \in {<<"x">>, <<"k", "l">>}}
    \cup {Blocks(<<t, u>>) : t, u \in {<< >>, <<"x">>, <<"l", "k", "l">>}}

Messages == {Message(role, c) : role \in {"user", "other"}, c \in Contents}

Neighbours ==
  { Message("user", Text(<<"k", "newline", "l">>)), Message("user", Malformed(<< <<"k", "l">> >>)),
    Message("other", Text(<<"k", "l">>)), Message("user", Blocks(<< << >>, <<"l", "k", "l">> >>)) }

AllBodies ==
  {OtherBody, Body(<< >>)} \cup {Body(<<msg>>) : msg \in Messages}
    \cup {Body(<<msg, next>>) : msg \in Messages, next \in Neighbours}
    \cup {Body(<<next, msg>>) : msg \in Messages, next \in Neighbours}

-------------------------------------------------------------------------------
(* What becomes of a body does not depend on where the request goes or on  *)
(* the answer: every request and answer with one body, and every body with *)
(* one request.                                                            *)

PlainConfig  == Config(Unset, Unset, Unset, "sap")
PlainRules   == << Lit("kl"), Lit("lk") >>
PlainRequest == [host |-> "anthropic", path |-> <<"v1", "messages">>, headers |-> {}]
PlainBody    == Body(<< Message("user", Text(<<"x", "k", "l">>)) >>)

PlainConfigs  == {PlainConfig}
PlainRequests == {PlainRequest}

MCInit ==
  /\ AuditInit
  /\ cfg = PlainConfig \/ (rules = PlainRules /\ capture)

MCSpec == MCInit /\ [][AuditNext]_auditVars

PlainSteps ==
  /\ request' \in {Nothing, PlainRequest} \/ (rules = PlainRules /\ capture)
  /\ pc' = "recorded" => body \in {OtherBody, PlainBody}

MCBodies(config, req) ==
  IF config = PlainConfig /\ req = PlainRequest THEN AllBodies ELSE {OtherBody, PlainBody}
===============================================================================
