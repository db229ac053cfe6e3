-------------------------------- MODULE Router --------------------------------
(***************************************************************************)
(* internal/proxy/router.go: which upstream a request goes to, and what    *)
(* the request's URL becomes.                                              *)
(*                                                                         *)
(* A path is the sequence of its segments, from <<"v1", "messages">>.  A   *)
(* host is the vendor it belongs to: "anthropic", "openai", "gemini",      *)
(* "sap" for a host that contains "ml.hana.ondemand.com", "local" for the  *)
(* address of the proxy.  A configured URL is Unset, Unparseable, or a     *)
(* host with a base path.                                                  *)
(*                                                                         *)
(* An operator named for what is wrong with it is a mutation of the        *)
(* definition it precedes; no specification uses it.                       *)
(***************************************************************************)
EXTENDS Naturals, SequencesExt

URL(host, path) == [kind |-> "url", host |-> host, path |-> path]
Unset           == [kind |-> "unset", host |-> "", path |-> << >>]
Unparseable     == [kind |-> "unparseable", host |-> "", path |-> << >>]

Vendors == {"anthropic", "openai", "gemini"}

-------------------------------------------------------------------------------
(* NewRouterWithConfig.  cfg has an override for each vendor, the base URL *)
(* of SAP AI Core and the fragment that its hosts contain.                 *)

(* An override that does not parse is passed over in silence.              *)
parseUpstreamOrDefault(override, vendor) ==
  IF override.kind = "url" THEN override ELSE URL(vendor, << >>)

UpstreamNamedByHost(cfg, name) ==
  LET url == IF name = "sap-ai-core" THEN cfg.sap
             ELSE parseUpstreamOrDefault(cfg.override[name], name)
  IN  [name |-> url.host, URL |-> url]

Upstream(cfg, name) ==
  [name |-> name,
   URL  |-> IF name = "sap-ai-core" THEN cfg.sap
            ELSE parseUpstreamOrDefault(cfg.override[name], name)]

SAPEnabled(cfg) == cfg.sap.kind = "url"

-------------------------------------------------------------------------------
(* DetectUpstream.                                                         *)

(* strings.HasPrefix(path, "/a/b/"): something follows, if only a slash.   *)
Under(path, prefix) == IsStrictPrefix(prefix, path)

(* strings.Contains(host, sapAuthHost), and every host contains "".        *)
ContainsAuthHost(cfg, host) == cfg.sapAuthHost = "" \/ host = cfg.sapAuthHost

PathVendor(path) ==
  CASE IsPrefix(<<"v1", "messages">>, path) \/ Under(path, <<"anthropic">>) -> "anthropic"
    [] Under(path, <<"v1", "chat">>) \/ Under(path, <<"openai">>)           -> "openai"
    [] Under(path, <<"v1beta">>) \/ Under(path, <<"gemini">>)               -> "gemini"
    [] OTHER                                                                -> "anthropic"

DetectUpstreamByPathFirst(cfg, host, path) ==
  IF SAPEnabled(cfg) /\ ContainsAuthHost(cfg, host) THEN Upstream(cfg, "sap-ai-core")
  ELSE Upstream(cfg, PathVendor(path))

(* The header anthropic-version changes nothing: its vendor is also the    *)
(* default.                                                                *)
DetectUpstream(cfg, host, path) ==
  IF SAPEnabled(cfg) /\ ContainsAuthHost(cfg, host) THEN Upstream(cfg, "sap-ai-core")
  ELSE IF host \in Vendors THEN Upstream(cfg, host)
  ELSE Upstream(cfg, PathVendor(path))

-------------------------------------------------------------------------------
(* RewriteRequest: scheme and host of the upstream's URL, not its path;    *)
(* and one of the local prefixes is cut, once.                             *)

LocalPrefixes == {"anthropic", "openai", "gemini", "sap-aicore"}

RewriteRequest(path, upstream) ==
  [host |-> upstream.URL.host,
   path |-> IF path # << >> /\ Head(path) \in LocalPrefixes /\ Len(path) > 1
              THEN Tail(path) ELSE path]
===============================================================================
