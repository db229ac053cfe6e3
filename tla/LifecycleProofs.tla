---------------------------- MODULE LifecycleProofs ----------------------------
(***************************************************************************)
(* The safety of Lifecycle for every shutdown budget and any number of     *)
(* requests.                                                               *)
(***************************************************************************)
EXTENDS Lifecycle, TLAPS

(* The variables that ServedFit asks for.                                  *)
Usable ==
  /\ env.dsn = "valid"
  /\ \A name \in DOMAIN env :
       env[name] \in {"unset", "valid"} \/ (name = "interval" /\ env[name] = "not positive")

(* The start-up is a sequence of checks: each place has those before it    *)
(* behind it, and the runners have them all.                               *)
Served == {"serving", "shutdown", "flush", "flush metrics", "returned"}

Checked ==
  /\ pc \in {"setup", "writer", "ping", "scrubber", "batchers"} =>
       "invalid" \notin {env.capture, env.size, env.interval}
  /\ pc \in {"writer", "ping", "scrubber", "batchers"} => env.endpoint # "invalid"
  /\ pc \in {"ping", "scrubber", "batchers"} => env.dsn = "valid"
  /\ pc = "batchers" => env.patterns # "invalid"
  /\ pc \in Served => runners
  /\ runners => Usable
  /\ requests > 0 => runners

(* Each place behind srv.Shutdown keeps what its predecessors achieved, or *)
(* the clock has run out, which stays so.  A span that ends behind the     *)
(* flush of the traces is not added.                                       *)
Flushed ==
  /\ pc \in {"flush", "flush metrics", "returned"} => Expired \/ handling = 0
  /\ pc \in {"flush metrics", "returned"} => tracer # "on" /\ (Expired \/ pending = 0)
  /\ pc = "returned" => meter # "on" /\ (Expired \/ ~measured)

Inv == TypeOK /\ Checked /\ Flushed

LEMMA InvInit == Init => Inv
<1> SUFFICES ASSUME Init
             PROVE  Inv
  OBVIOUS
<1>1. TypeOK
  <2>1. /\ env \in Env /\ pc = "load"
        /\ runners \in BOOLEAN /\ measured \in BOOLEAN
        /\ tracer = "off" /\ meter = "off"
    BY DEF Init
  <2>2. clock = 0 /\ requests = 0 /\ handling = 0 /\ open = 0 /\ pending = 0
    BY DEF Init
  <2> QED
    BY <2>1, <2>2, BudgetAssumption, MaxRequestsAssumption DEF TypeOK
<1>2. Checked
  BY DEF Init, Checked, Served
<1>3. Flushed
  BY DEF Init, Flushed
<1> QED
  BY <1>1, <1>2, <1>3 DEF Inv

(* The runners are started only where every variable has been checked.     *)
LEMMA AllChecked ==
  ASSUME Inv, pc = "batchers", env.size # "negative"
  PROVE  Usable
<1>1. DOMAIN env = {"capture", "size", "interval", "dsn", "patterns", "endpoint"}
  BY DEF Inv, TypeOK, Env
<1>2. /\ env.capture \in {"unset", "valid"} /\ env.size \in {"unset", "valid"}
      /\ env.interval \in {"unset", "valid", "not positive"}
      /\ env.dsn = "valid" /\ env.patterns \in {"unset", "valid"}
      /\ env.endpoint \in {"unset", "valid"}
  BY DEF Inv, TypeOK, Checked, Env
<1> QED
  BY <1>1, <1>2 DEF Usable

(* The counters, as arithmetic needs them.                                 *)
Counters ==
  /\ clock \in Nat /\ clock <= Budget
  /\ requests \in Nat /\ requests <= MaxRequests
  /\ handling \in Nat /\ handling <= requests
  /\ open \in Nat /\ open <= requests
  /\ pending \in Nat /\ pending <= requests - open

Places ==
  /\ env \in Env
  /\ pc \in {"load", "setup", "writer", "ping", "scrubber", "batchers", "serving",
             "shutdown", "flush", "flush metrics"} \cup Ended
  /\ runners \in BOOLEAN /\ measured \in BOOLEAN
  /\ {tracer, meter} \subseteq {"off", "on", "shut"}

LEMMA TypeOKParts == TypeOK <=> Places /\ Counters
BY BudgetAssumption, MaxRequestsAssumption DEF TypeOK, Places, Counters

LEMMA CountersKept == Inv /\ [Next]_vars => Counters'
<1> SUFFICES ASSUME Inv, [Next]_vars
             PROVE  Counters'
  OBVIOUS
<1>1. Counters
  BY TypeOKParts DEF Inv
<1> USE BudgetAssumption, MaxRequestsAssumption
<1>2. CASE Start \/ RunnerPanics \/ ListenFails \/ Signal \/ Shutdown \/ FlushMetrics
            \/ UNCHANGED vars
  <2>1. UNCHANGED <<clock, serving, pending>>
    BY <1>2 DEF Start, Load, Setup, NewWriter, Ping, BuildScrubber, NewBatchers,
                RunnerPanics, ListenFails, Signal, Shutdown, FlushMetrics, vars
  <2> QED
    BY <1>1, <2>1 DEF Counters, serving
<1>3. CASE Request \/ HandlerReturns \/ RecordTokens \/ SpanEnds \/ Export \/ ExportMetrics
  <2>1. CASE Request
    BY <1>1, <2>1 DEF Counters, Request
  <2>2. CASE HandlerReturns
    BY <1>1, <2>2 DEF Counters, HandlerReturns
  <2>3. CASE SpanEnds
    BY <1>1, <2>3 DEF Counters, SpanEnds
  <2>4. CASE Export
    BY <1>1, <2>4 DEF Counters, Export, serving
  <2>5. CASE RecordTokens \/ ExportMetrics
    BY <1>1, <2>5 DEF Counters, RecordTokens, ExportMetrics, serving
  <2> QED
    BY <1>3, <2>1, <2>2, <2>3, <2>4, <2>5
<1>4. CASE Tick
  <2>1. clock # Budget /\ clock' = clock + 1 /\ UNCHANGED <<serving, pending>>
    BY <1>4 DEF Tick, Expired
  <2> QED
    BY <1>1, <2>1 DEF Counters, serving
<1>5. CASE FlushTraces
  <2>1. /\ UNCHANGED <<clock, serving>>
        /\ pending' = 0 \/ pending' = pending
    BY <1>5 DEF FlushTraces
  <2> QED
    BY <1>1, <2>1 DEF Counters, serving
<1> QED
  BY <1>2, <1>3, <1>4, <1>5 DEF Next, Stop

LEMMA PlacesKept == Inv /\ [Next]_vars => Places'
<1> SUFFICES ASSUME Inv, [Next]_vars
             PROVE  Places'
  OBVIOUS
<1>1. Places
  BY TypeOKParts DEF Inv
<1>2. CASE Start
  BY <1>1, <1>2 DEF Start, Load, Setup, NewWriter, Ping, BuildScrubber, NewBatchers, Step,
                    setup, Places, Ended
<1>3. CASE RunnerPanics \/ Request \/ HandlerReturns \/ RecordTokens \/ SpanEnds \/ Export
            \/ ExportMetrics \/ ListenFails \/ Signal \/ Tick \/ UNCHANGED vars
  BY <1>1, <1>3 DEF RunnerPanics, Request, HandlerReturns, RecordTokens, SpanEnds, Export,
                    ExportMetrics, ListenFails,
                    Signal, Tick, vars, setup, Places, Ended
<1>4. CASE Shutdown \/ FlushMetrics
  BY <1>1, <1>4 DEF Shutdown, FlushMetrics, setup, Places, Ended
<1>5. CASE FlushTraces
  BY <1>1, <1>5 DEF FlushTraces, setup, Places
<1> QED
  BY <1>2, <1>3, <1>4, <1>5 DEF Next, Stop

LEMMA CheckedKept == Inv /\ [Next]_vars => Checked'
<1> SUFFICES ASSUME Inv, [Next]_vars
             PROVE  Checked'
  OBVIOUS
<1>1. Checked
  BY DEF Inv
<1>2. env' = env
  BY DEF Next, Start, Load, Setup, NewWriter, Ping, BuildScrubber, NewBatchers, RunnerPanics,
         Request, HandlerReturns, RecordTokens, SpanEnds, Export, ExportMetrics, ListenFails, Signal,
         Tick, Stop, Shutdown,
         FlushTraces, FlushMetrics, vars, setup
<1>3. Usable' <=> Usable
  BY <1>2 DEF Usable
<1>4. CASE NewBatchers
  BY <1>1, <1>2, <1>3, <1>4, AllChecked DEF NewBatchers, serving, Checked, Served
<1>5. CASE Load \/ Setup
  <2>1. UNCHANGED <<runners, requests>>
    BY <1>5 DEF Load, Setup, setup, serving
  <2>2. \/ pc' = "exit 1"
        \/ pc' = "setup" /\ "invalid" \notin {env.capture, env.size, env.interval}
        \/ pc = "setup" /\ pc' = "writer" /\ env.endpoint # "invalid"
    BY <1>5 DEF Load, Setup, Step
  <2> QED
    BY <1>1, <1>2, <1>3, <2>1, <2>2 DEF Checked, Served
<1>6. CASE NewWriter \/ Ping \/ BuildScrubber
  <2>1. UNCHANGED <<runners, requests>>
    BY <1>6 DEF NewWriter, Ping, BuildScrubber, setup, serving
  <2>2. \/ pc' = "exit 1"
        \/ pc = "writer" /\ pc' = "ping" /\ env.dsn = "valid"
        \/ pc = "ping" /\ pc' = "scrubber"
        \/ pc = "scrubber" /\ pc' = "batchers" /\ env.patterns # "invalid"
    BY <1>6 DEF NewWriter, Ping, BuildScrubber, Step
  <2> QED
    BY <1>1, <1>2, <1>3, <2>1, <2>2 DEF Checked, Served
<1>7. CASE Request
  BY <1>1, <1>3, <1>7 DEF Request, setup, Checked, Served
<1>8. CASE RunnerPanics \/ HandlerReturns \/ RecordTokens \/ SpanEnds \/ Export
            \/ ExportMetrics \/ ListenFails \/ Signal \/ Tick \/ UNCHANGED vars
  <2>1. UNCHANGED <<runners, requests>>
    BY <1>8 DEF RunnerPanics, HandlerReturns, RecordTokens, SpanEnds, Export, ExportMetrics,
                ListenFails, Signal, Tick,
                vars, setup, serving
  <2>2. \/ pc' \in {"panic", "exit 1"}
        \/ pc' = pc
        \/ pc = "serving" /\ pc' = "shutdown"
    BY <1>8 DEF RunnerPanics, HandlerReturns, RecordTokens, SpanEnds, Export, ExportMetrics,
                ListenFails, Signal, Tick, vars
  <2> QED
    BY <1>1, <1>2, <1>3, <2>1, <2>2 DEF Checked, Served
<1>9. CASE Stop
  BY <1>1, <1>3, <1>9 DEF Stop, Shutdown, FlushTraces, FlushMetrics, setup, serving,
                          Checked, Served
<1> QED
  BY <1>4, <1>5, <1>6, <1>7, <1>8, <1>9 DEF Next, Start

LEMMA FlushedKept == Inv /\ [Next]_vars => Flushed'
<1> SUFFICES ASSUME Inv, [Next]_vars
             PROVE  Flushed'
  OBVIOUS
<1>1. Flushed /\ Places /\ Counters
  BY TypeOKParts DEF Inv
<1>2. CASE Start
  BY <1>2 DEF Start, Load, Setup, NewWriter, Ping, BuildScrubber, NewBatchers, Step, Flushed
<1>3. CASE RunnerPanics \/ Request \/ ListenFails \/ Signal
  BY <1>3 DEF RunnerPanics, Request, ListenFails, Signal, Ended, Flushed
<1>4. CASE HandlerReturns
  <2>1. handling # 0 /\ UNCHANGED <<pc, tracer, meter, clock, pending, measured>>
    BY <1>4 DEF HandlerReturns
  <2>2. pc # "returned"
    BY <1>4 DEF HandlerReturns, Alive, Ended
  <2> QED
    BY <1>1, <2>1, <2>2 DEF Flushed, Expired
<1>5. CASE RecordTokens \/ ExportMetrics
  <2>1. UNCHANGED <<pc, tracer, meter, clock, handling, pending>>
    BY <1>5 DEF RecordTokens, ExportMetrics, serving
  <2>2. pc # "returned"
    BY <1>5 DEF RecordTokens, ExportMetrics, Alive, Ended
  <2> QED
    BY <1>1, <2>1, <2>2 DEF Flushed, Expired
<1>6. CASE SpanEnds \/ Export
  <2>1. /\ UNCHANGED <<pc, tracer, meter, clock, handling, measured>>
        /\ tracer = "on" \/ UNCHANGED pending
    BY <1>6 DEF SpanEnds, Export, serving
  <2> QED
    BY <1>1, <2>1 DEF Flushed, Expired
<1>7. CASE Tick
  <2>1. ~Expired /\ UNCHANGED <<pc, tracer, meter, handling, pending, measured>>
    BY <1>7 DEF Tick, serving
  <2>2. pc # "returned"
    BY <1>7 DEF Tick
  <2> QED
    BY <1>1, <2>1, <2>2 DEF Flushed
<1>8. CASE Shutdown
  <2>1. pc' = "flush" /\ UNCHANGED <<clock, handling>> /\ (handling = 0 \/ Expired)
    BY <1>8 DEF Shutdown, serving
  <2> QED
    BY <2>1 DEF Flushed, Expired
<1>9. CASE FlushTraces
  <2>1. /\ pc = "flush" /\ pc' = "flush metrics" /\ tracer' # "on"
        /\ UNCHANGED <<clock, handling>>
        /\ pending' = 0 \/ Expired
    BY <1>9 DEF FlushTraces, serving
  <2> QED
    BY <1>1, <2>1 DEF Flushed, Expired
<1>10. CASE FlushMetrics
  <2>1. /\ pc = "flush metrics" /\ pc' = "returned" /\ meter' # "on"
        /\ UNCHANGED <<tracer, clock, handling, pending>>
        /\ measured' = FALSE \/ Expired
    BY <1>10 DEF FlushMetrics, serving
  <2> QED
    BY <1>1, <2>1 DEF Flushed, Expired
<1>11. CASE UNCHANGED vars
  BY <1>1, <1>11 DEF vars, serving, Flushed, Expired
<1> QED
  BY <1>2, <1>3, <1>4, <1>5, <1>6, <1>7, <1>8, <1>9, <1>10, <1>11 DEF Next, Stop

LEMMA InvNext == Inv /\ [Next]_vars => Inv'
<1>1. TypeOK' <=> Places' /\ Counters'
  BY TypeOKParts, PTL
<1> QED
  BY <1>1, CountersKept, PlacesKept, CheckedKept, FlushedKept DEF Inv

LEMMA InvAlways == Spec => []Inv
BY InvInit, InvNext, PTL DEF Spec

-------------------------------------------------------------------------------
(* Every variable keeps its type; in particular no span is counted twice:  *)
(* those that are open and those that wait are no more than the requests.  *)
THEOREM TypesKept == Spec => []TypeOK
<1>1. Inv => TypeOK
  BY DEF Inv
<1> QED
  BY InvAlways, <1>1, PTL

(* No request is served with a variable that cannot be used.               *)
THEOREM OnlyServedFit == Spec => []ServedFit
<1>1. Inv => ServedFit
  BY DEF Inv, Checked, Usable, ServedFit
<1> QED
  BY InvAlways, <1>1, PTL

(* When main returns both providers were shut down, and a handler, a span  *)
(* or a token count was given up only if the shared budget was used up.    *)
THEOREM AllFlushedInTime == Spec => []FlushedInTime
<1>1. Inv => FlushedInTime
  BY DEF Inv, Flushed, FlushedInTime
<1> QED
  BY InvAlways, <1>1, PTL
===============================================================================
