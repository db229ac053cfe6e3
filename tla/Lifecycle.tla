------------------------------ MODULE Lifecycle ------------------------------
(***************************************************************************)
(* The process from the first line of main in cmd/proxy/main.go to its     *)
(* last: config.Load, telemetry.Setup, NewWriter, the ping, buildScrubber  *)
(* and the batchers, serving, and the shutdown within one 30 s context     *)
(* with the flush of the telemetry.  The audit rows are ProxyService's;    *)
(* here requests are counted, their spans until they are exported, and     *)
(* whether token counts wait for their export.                             *)
(*                                                                         *)
(* An operator named for what is wrong with it is a mutation of the        *)
(* definition it precedes; no specification uses it.                       *)
(***************************************************************************)
EXTENDS Naturals

CONSTANTS
  Budget,               \* of shutdownCtx, in ticks of the clock
  MaxRequests           \* bound on the requests

ASSUME BudgetAssumption == Budget \in Nat \ {0}
ASSUME MaxRequestsAssumption == MaxRequests \in Nat

(* The environment variables that can stop the process.  A BATCH_SIZE of   *)
(* class "negative" is one whose ten-fold no channel can have.             *)
Env == [capture  : {"unset", "valid", "invalid"},
        size     : {"unset", "valid", "invalid", "negative"},
        interval : {"unset", "valid", "invalid", "not positive"},
        dsn      : {"unset", "valid", "invalid"},
        patterns : {"unset", "valid", "invalid"},
        endpoint : {"unset", "valid", "invalid"}]

VARIABLES
  env,                  \* the environment
  pc,                   \* where main is, or how the process ended
  runners,              \* the runners of the batchers were started
  tracer, meter,        \* the providers: "off", "on", "shut"
  clock,                \* time since shutdownCtx was made
  requests,             \* requests so far
  handling,             \* requests whose handler runs
  open,                 \* spans that have not ended
  pending,              \* ended spans not yet given to the exporter
  measured              \* token counts were recorded since the last export of metrics

setup == <<env, runners>>
serving == <<requests, handling, open>>
vars == <<pc, setup, tracer, meter, clock, serving, pending, measured>>

Ended == {"returned", "exit 1", "panic"}

Init ==
  /\ env \in Env
  /\ pc = "load" /\ runners = FALSE
  /\ tracer = "off" /\ meter = "off" /\ clock = 0
  /\ requests = 0 /\ handling = 0 /\ open = 0 /\ pending = 0 /\ measured = FALSE

-------------------------------------------------------------------------------
(* Start-up.  A step goes to the next place, or main exits.                *)

Step(from, ok, to) == pc = from /\ pc' = IF ok THEN to ELSE "exit 1"

(* An unset DSN is an error, and so is one set to "".                      *)
Load ==
  /\ Step("load",
          /\ "invalid" \notin {env.capture, env.size, env.interval}
          /\ env.dsn # "unset",
          "setup")
  /\ UNCHANGED <<setup, tracer, meter, clock, serving, pending, measured>>

(* No endpoint, no telemetry.  No trace exporter is fatal, no metric       *)
(* exporter is not; nothing is dialled yet.                                *)
Setup ==
  /\ Step("setup", env.endpoint # "invalid", "writer")
  /\ IF env.endpoint = "valid"
       THEN tracer' = "on" /\ meter' \in {"off", "on"}
       ELSE UNCHANGED <<tracer, meter>>
  /\ UNCHANGED <<setup, clock, serving, pending, measured>>

NewWriter ==
  /\ Step("writer", env.dsn = "valid", "ping")
  /\ UNCHANGED <<setup, tracer, meter, clock, serving, pending, measured>>

PingFatal ==
  /\ \E up \in BOOLEAN : Step("ping", up, "scrubber")
  /\ UNCHANGED <<setup, tracer, meter, clock, serving, pending, measured>>

(* Whether ClickHouse answers is logged.                                   *)
Ping ==
  /\ Step("ping", TRUE, "scrubber")
  /\ UNCHANGED <<setup, tracer, meter, clock, serving, pending, measured>>

BuildScrubberSkippingInvalid ==
  /\ Step("scrubber", TRUE, "batchers")
  /\ UNCHANGED <<setup, tracer, meter, clock, serving, pending, measured>>

BuildScrubber ==
  /\ Step("scrubber", env.patterns # "invalid", "batchers")
  /\ UNCHANGED <<setup, tracer, meter, clock, serving, pending, measured>>

(* make(chan, size*10) panics, or both runners start.                      *)
NewBatchers ==
  /\ pc = "batchers"
  /\ IF env.size = "negative"
       THEN pc' = "panic" /\ UNCHANGED runners
       ELSE pc' = "serving" /\ runners' = TRUE
  /\ UNCHANGED <<env, tracer, meter, clock, serving, pending, measured>>

(* NewTicker panics in the runner's goroutine, whatever main is doing.     *)
RunnerPanics ==
  /\ runners /\ pc \notin Ended
  /\ env.interval = "not positive"
  /\ pc' = "panic"
  /\ UNCHANGED <<setup, tracer, meter, clock, serving, pending, measured>>

-------------------------------------------------------------------------------
(* Serving.                                                                *)

Request ==
  /\ pc = "serving" /\ requests < MaxRequests
  /\ requests' = requests + 1
  /\ handling' = handling + 1 /\ open' = open + 1
  /\ UNCHANGED <<pc, setup, tracer, meter, clock, pending, measured>>

Alive == pc \notin Ended

HandlerReturns ==
  /\ Alive /\ handling > 0
  /\ handling' = handling - 1
  /\ UNCHANGED <<pc, setup, tracer, meter, clock, requests, open, pending, measured>>

(* In the tap's goroutine, before or after the handler returns: the tokens *)
(* of an answer that has any are counted, and then the span ends.  A       *)
(* provider that was shut down takes neither.                              *)
RecordTokens ==
  /\ Alive /\ open > 0 /\ meter = "on"
  /\ measured' = TRUE
  /\ UNCHANGED <<pc, setup, tracer, meter, clock, serving, pending>>

SpanEnds ==
  /\ Alive /\ open > 0
  /\ open' = open - 1
  /\ pending' = IF tracer = "on" THEN pending + 1 ELSE pending
  /\ UNCHANGED <<pc, setup, tracer, meter, clock, requests, handling, measured>>

(* The batch span processor.                                               *)
Export ==
  /\ Alive /\ tracer = "on" /\ pending > 0
  /\ pending' = 0
  /\ UNCHANGED <<pc, setup, tracer, meter, clock, serving, measured>>

(* The periodic reader.                                                    *)
ExportMetrics ==
  /\ Alive /\ meter = "on"
  /\ measured' = FALSE
  /\ UNCHANGED <<pc, setup, tracer, meter, clock, serving, pending>>

(* ListenAndServe returns an error: os.Exit(1) in its goroutine.           *)
ListenFails ==
  /\ pc = "serving"
  /\ pc' = "exit 1"
  /\ UNCHANGED <<setup, tracer, meter, clock, serving, pending, measured>>

-------------------------------------------------------------------------------
(* Shutdown.                                                               *)

Signal ==
  /\ pc = "serving"
  /\ pc' = "shutdown"
  /\ UNCHANGED <<setup, tracer, meter, clock, serving, pending, measured>>

Expired == clock = Budget

(* Time passes while main waits for handlers or for the exporters.         *)
Tick ==
  /\ pc \in {"shutdown", "flush", "flush metrics"}
  /\ ~Expired
  /\ clock' = clock + 1
  /\ UNCHANGED <<pc, setup, tracer, meter, serving, pending, measured>>

ShutdownWithoutDeadline ==
  /\ pc = "shutdown"
  /\ handling = 0
  /\ pc' = "flush"
  /\ UNCHANGED <<setup, tracer, meter, clock, serving, pending, measured>>

(* srv.Shutdown returns; both Stops close a channel.                       *)
Shutdown ==
  /\ pc = "shutdown"
  /\ handling = 0 \/ Expired
  /\ pc' = "flush"
  /\ UNCHANGED <<setup, tracer, meter, clock, serving, pending, measured>>

FlushTracesOrReturn ==
  /\ pc = "flush"
  /\ tracer' = IF tracer = "on" THEN "shut" ELSE tracer
  /\ \/ pending' = 0 /\ pc' = "flush metrics"
     \/ tracer = "on" /\ Expired /\ UNCHANGED pending /\ pc' = "returned"
  /\ UNCHANGED <<setup, meter, clock, serving, measured>>

(* tp.Shutdown: the rest is exported, or the context is over first.        *)
FlushTraces ==
  /\ pc = "flush"
  /\ tracer' = IF tracer = "on" THEN "shut" ELSE tracer
  /\ pending' = 0 \/ (tracer = "on" /\ Expired /\ UNCHANGED pending)
  /\ pc' = "flush metrics"
  /\ UNCHANGED <<setup, meter, clock, serving, measured>>

(* mp.Shutdown, also after an error of tp.Shutdown and with what that left *)
(* of the same context; then main returns.                                 *)
FlushMetrics ==
  /\ pc = "flush metrics"
  /\ meter' = IF meter = "on" THEN "shut" ELSE meter
  /\ measured' = FALSE \/ (meter = "on" /\ Expired /\ UNCHANGED measured)
  /\ pc' = "returned"
  /\ UNCHANGED <<setup, tracer, clock, serving, pending>>

Start == Load \/ Setup \/ NewWriter \/ Ping \/ BuildScrubber \/ NewBatchers

Stop == Shutdown \/ FlushTraces \/ FlushMetrics

Next ==
  \/ Start \/ RunnerPanics
  \/ Request \/ HandlerReturns \/ RecordTokens \/ SpanEnds
  \/ Export \/ ExportMetrics \/ ListenFails
  \/ Signal \/ Tick \/ Stop

Spec == Init /\ [][Next]_vars

(* main goes on, and time passes; no handler need ever return.             *)
Fairness == WF_vars(Start) /\ WF_vars(Stop) /\ WF_vars(Tick)

FairSpec == Spec /\ Fairness

-------------------------------------------------------------------------------
(* Properties.                                                             *)

TypeOK ==
  /\ env \in Env
  /\ pc \in {"load", "setup", "writer", "ping", "scrubber", "batchers", "serving",
             "shutdown", "flush", "flush metrics"} \cup Ended
  /\ runners \in BOOLEAN /\ measured \in BOOLEAN
  /\ {tracer, meter} \subseteq {"off", "on", "shut"}
  /\ clock \in 0..Budget
  /\ requests \in 0..MaxRequests
  /\ handling \in 0..requests /\ open \in 0..requests /\ pending \in 0..(requests - open)

(* An environment that the process can serve with.                         *)
Fit == env.dsn = "valid" /\ \A name \in DOMAIN env : env[name] \in {"unset", "valid"}

(* A variable that cannot be used ends the process before it serves any    *)
(* request; only a BATCH_INTERVAL that is not positive is found out later, *)
(* in a goroutine.                                                         *)
ServedFit ==
  requests > 0 =>
    /\ env.dsn = "valid"
    /\ \A name \in DOMAIN env :
         env[name] \in {"unset", "valid"} \/ (name = "interval" /\ env[name] = "not positive")

(* main never returns with a provider still at work, whatever failed on    *)
(* the way.  And what a shutdown loses, it loses because the 30 s, which   *)
(* the handlers, the traces and the metrics share, were over: within them  *)
(* no handler was cut off, every span that had ended when the tracer was   *)
(* shut down was exported, and so was every token count that had been      *)
(* recorded when the meter was.                                            *)
FlushedInTime ==
  pc = "returned" =>
    /\ tracer # "on" /\ meter # "on"
    /\ Expired \/ (handling = 0 /\ pending = 0 /\ ~measured)

(* "[...] the proxy never goes down because of a broken backend": with a   *)
(* fit environment main gets to serve, whether ClickHouse answers or not,  *)
(* with a metric exporter or without.                                      *)
Serves == (pc = "load" /\ Fit) ~> (pc = "serving")

(* A signal is always enough: main returns, though handlers hang and the   *)
(* exporter is slow.                                                       *)
Returns == (pc = "shutdown") ~> (pc \in Ended)
===============================================================================
