# Verification of codesteward-audit-proxy

TLA+ specifications of the audit proxy, model-checked with TLC, and proofs checked with
TLAPS: about its batchers, stream tap and transport, the process that composes them, its life
cycle, the turn and its rows, the stream parsers and the migrations. Line references are to the
source.

## The system

The proxy stands between coding agents and LLM APIs. It forwards each request and
response unchanged and, beside that path, turns every turn (one request with its
response) into rows of two ClickHouse tables. The audit path must never delay or
break the forwarding path, and within that limit should record every turn once.

| Component | State | Operations | Interacts with |
|---|---|---|---|
| Batcher, UnprocessedBatcher (`internal/audit/batcher.go`) | channel `ch`, `done`, ticker, the runner's slice | `Add`, `Stop`, the cases of `run`, `flush` | callers through `ch`; the writer by calls |
| Writer (`internal/audit/clickhouse.go`) | the prepared insert | `WriteBatch`, `WriteUnprocessedBatch` | ClickHouse |
| Stream tap (`internal/proxy/stream.go`) | a pipe, the copy | the tee, `Close`, `io.ReadAll`, `onComplete` | `ReverseProxy`'s copy loop, the callback |
| Handler, audit transport (`internal/proxy/handler.go`) | metadata and span of each turn | director, `RoundTrip`, two audit goroutines per turn, `extractEvents` | router, tap, parsers, both batchers |
| Process (`cmd/proxy/main.go`) | server, signal channel | serve, `Shutdown`, `Stop` twice, exit | everything, by ending it |
| Parsers (`internal/parser`) | buffers during one parse | streamed and whole forms of OpenAI and Anthropic; SAP AI Core delegates; Gemini is a stub; requests | `extractEvents` |
| Request parser and scrubber (`internal/parser/request.go`, `internal/audit/scrubber.go`) | the compiled patterns | `buildScrubber`, `Scrub`, `ParseRequest` | the request's audit goroutine |
| Router (`internal/proxy/router.go`) | the upstreams' URLs | `DetectUpstream`, `RewriteRequest` | director |
| Configuration, telemetry | set once at start; both providers until their shutdown | `Load`, `Setup`, its shutdown function | `main` |
| Upstream transport (`internal/proxy/transport.go`) | none | wiring of `http.Transport` | `RoundTrip` |
| Migrations (`migrations/migrate.sh` and seven files) | `schema_migrations`, statements in `/tmp` | split a file, send its statements, record it | ClickHouse, before the proxy runs |

What is hard in it, and what must hold:

* **Batcher.** `Add` from any goroutine races a `select` over events, ticks and
  `done`; the slice is reused after each flush; an insert may fail at any row, or
  time out and still commit; `Add` after `Stop` is legal. An accepted event must be in
  exactly one place, become a row at most once, and reach a flush unless the process
  ends; the oldest leave first; drops happen only when the channel is full.
* **Stream tap.** Each chunk waits, through an unbuffered pipe, for the audit
  goroutine. The copy must be exact, complete at `onComplete`, and never hold the
  client back for ever, whoever goes away first.
* **Audit transport.** Three goroutines per turn outlive one another in any order,
  and `RoundTrip` has an error path that skips the tap. A span ends once; a turn is
  recorded, in one table, once.
* **Process.** `Shutdown` waits for handlers but not for audit goroutines, `Stop`
  does not wait for the runner, and the return of `main` ends all of them.
  Before that a bad environment must stop it, and a broken backend must not. Traces, then
  metrics, are flushed within what `Shutdown` leaves of 30 s.
* **Parsers.** A stream may interleave calls, be cut, hold malformed events or a line the
  scanner cannot take; its rows must be those of the same answer sent whole, or an error.
* **Requests.** Regular expressions act on what earlier ones left, markers included, and on two
  encodings of one text with different surroundings.
* **Router and director.** What the rewrite cuts decides the route; what the stripping
  deletes is needed by goroutines that run later.
* **Migrations.** Runs die between any two queries, leave statements in `/tmp`, and meet other
  runs and an operator. A recorded version must have taken effect, every file must be
  applicable again, and the proxy must find the columns it inserts.

## Modules

| Module | Models | Correspondence |
|---|---|---|
| `AuditQueue` | what callers of a batcher may rely on | abstract: a queue from whose front blocks leave, handed to ClickHouse or lost, never retried |
| `Batcher` | `batcher.go`, `clickhouse.go` | `pc` is the place in `run` (`select`, one of three flushes, `drain`, `exited`); `stage` and `rows` the place in `WriteBatch`; `wire` holds blocks that were sent and whose commit is undecided |
| `StreamTap` | `stream.go` with `ReverseProxy`'s copy loop | `copier` is the loop's place for one chunk: read, tee, write; `auditor` the goroutine's |
| `AuditTrail` | what the transport promises of the rows of each turn | abstract: a response's rows come after its close, without gaps or as one unprocessed row, and end |
| `AuditTransport` | `handler.go`, a set of turns | `handler`, `requestAudit`, `responseAudit` are the places of a turn's three goroutines; `todo` the rest of the callback's loop of Adds |
| `ProxyService` | `main.go` composing one `AuditTransport` and two `Batcher` instances | each `Add` step of a turn is joined with the batcher's `Add`; `main` is the place in `main()` |
| `Lifecycle` | `main.go` from its first line to its last, `config.Load`, `telemetry.Setup`, `NewWriter`, `Ping` | `pc` is the place in `main()` or the way the process ended; the environment is a class of value for each variable; spans are counted until they are exported, and token counts wait or do not |
| `RequestBody` | the patterns and bodies of requests | a text is a sequence of atoms; a pattern is an expression with the atoms its matches can be made of and whether it looks around (`^`, `$`, `\b`) |
| `RequestAudit` | `request.go`, `scrubber.go`, `buildScrubber` | `patterns` is the scrubber, `result` is `RequestResult`; Go's regexp is the constants `Accepts` and `Prefers` |
| `Router` | `router.go` | operators over a configuration, a host and a path of segments |
| `TurnRecord` | director, header stripping, `extractEvents`, `sapaicore.go` | one turn, step by step, from its headers to its rows; extends `Router` |
| `Migrations` | `migrate.sh`, the seven files, the start order of `docker-compose.yml` | `pc`, `version`, `next`, `tmp` are each run's place, loop variables and `/tmp`; `schema` has the columns of each table |
| `BodyCopy` | what `TapBody` promises | abstract: record, then deliver, close once, hand over the final record |
| `OpenAIStream` | `openai.go` | the completion is chosen first, then streamed chunk by chunk into the parser's buffers |
| `AnthropicStream` | `anthropic.go` | the same for messages and content blocks |
| `TurnAudit` | a turn with what is stored of its body | composes `TurnRecord` with an instance of `RequestAudit`: `RoundTrip` gives the same body to the upstream and to `ParseRequest` |
| `BatcherProofs`, `StreamTapProofs`, `AuditTransportProofs`, `ProxyServiceProofs`, `LifecycleProofs`, `TurnAuditProofs`, `ParsersProofs`, `MigrationsProofs` | theorems about the modules they name; `TurnAuditProofs` also about `TurnRecord`, `ParsersProofs` about both parsers | |
| `MCBatcher` | `Batcher` with numbered calls | `CallsInOrder`: the n-th call of a behaviour is n |
| `MCParsers` | both stream parsers | `upstream` chooses the parser, as in `extractEvents` |
| `MCTurnAudit` | configurations, requests, answers, patterns and bodies | |

Definitions that resemble an action and are named for a mistake
(`ReceiveDoneNoDrain`) are mutations. Each property has one under which TLC finds it
violated, which shows that the property depends on what the code does there.

Modelling decisions worth knowing:

* *Add* is atomic, as a `select` with a default is. With `size = 0` the channel
  is unbuffered and an event passes only into the hands of a parked runner.
* The runner's `select` takes any ready case. A size flush resets the ticker, which
  since Go 1.23 also discards a tick that has fired.
* `WriteErr` may follow any point of a write, including `Send`: that is the 10 s
  deadline, after which the block may commit or not. `WriteOk` needs the commit.
* The pipe write and the read that takes it are one step: neither completes alone.
* `AuditTransport` abstracts a body to what `extractEvents` makes of it: one row
  per tool call, a single row, or an unprocessed row.
* In `StreamTap` the audit goroutine has no say in what upstream sends, and upstream
  errors, cuts and cancelled contexts are one outcome of a read.
* In the parsers a line over the scanner's 64 KB ends the scan, and so does every line after
  it; the end of the body is then an error.
* `TurnRecord` gives a header its own name as value: what the rows must say is whose value they
  hold.
* What a regular expression matches at a place is a constant: `Accepts` says of a stretch of the text, with
  its neighbours if the expression looks around, whether it is a match, and `Prefers` which match
  is taken. `ReplaceAllString` is what Go does with them: leftmost, not overlapping, from left to
  right, an empty match too but not where a match has just ended. The proofs hold for all `Accepts` and
  `Prefers`; `MCTurnAudit` defines those of the runs' expressions. The marker is three atoms, so that an expression can
  match inside it.
* In `RequestBody` the atoms `"quote"` and `"newline"` stand for the characters that JSON writes as more than
  one; the escape of a newline brings in a letter.
* `Migrations` treats one query as atomic and a query whose answer is lost as a death after
  it, and the writing of a file's statements to `/tmp` (`awk`) as one step: a death in it leaves none or
  all of them. The columns of the first release are one name.
* In `Lifecycle` a `BATCH_SIZE` whose ten-fold no channel can have is class "negative"; both panic
  in the same `make`.
* A 101 response ends as `refused`: `ReverseProxy` cannot hijack the tapped body,
  answers 502 and closes nothing. `SpanEnds` states this exception.

## Runs

| Run | Configuration | Question and result |
|---|---|---|
| `batcher` | `MCBatcher.cfg` | 4 calls against batches and a channel of 2, and against `BATCH_SIZE=0`, which the configuration accepts and which makes `Add` a hand-off: the safety properties, the refinement of `AuditQueue`, `Flushed` (accepted before `Stop` leads to flushed) and `Stops` (the runner ends). 57 000 states. |
| `stream_tap` | `MCStreamTap.cfg` | 8 chunks, every cut and every disconnect: exact copy, whole unless aborted, no stall; the refinement of `BodyCopy`. |
| `audit_transport` | `MCAuditTransport.cfg` | 2 turns, 2 tool calls: spans end, once; the refinement of `AuditTrail`; everything recorded. |
| `proxy_service` | `MCProxyService.cfg` | 1 turn, both batchers, `main`: what the two tables hold of a turn is its audit trail, order of a turn's rows, and what a stop leaves of a turn once both runners have ended. 1.1 M states. |
| `proxy_serving` | `MCProxyServiceLive.cfg` | the proxy that is not told to stop finishes the trail of each turn. |
| `proxy_exit` | `MCProxyServiceExit.cfg` | **violated**: finding 1. |
| `parsers` | `MCParsers.cfg` | one choice of 3 calls, or 3 blocks, of up to 2 pieces: streamed equals whole, usage included, up to a cut; what a skipped chunk costs (in a stream of Anthropic its own block, in one of OpenAI also the row of a later call for each gap in the indices); a line too long gives an error. 9.3 M states. |
| `openai_choices` | `MCOpenAIStreamChoices.cfg` | **violated**: finding 2. |
| `lifecycle` | `MCLifecycle.cfg` | every environment, 3 requests, a budget of 3 ticks: what serves is fit, a fit environment serves whatever ClickHouse does, a signal ends the process although handlers hang, no provider is left at work, and spans and token counts are lost only when the shared 30 s were over. 71 000 states. |
| `turn_audit` | `MCTurnAudit.cfg` | 5 configurations, 5 hosts, 16 paths, all 1024 sets of headers, 6 answers, 14 values of `AUDIT_SCRUB_PATTERNS` (overlapping, blank, invalid, split at a comma, classes, `.` and lazy `.*?`, `\S`, empty matches, `^` and `\b`, a pattern that matches in the marker), bodies of up to 2 messages: addressed right, in one table, a row per call (in native mode one row), the right deployment, identity in every row and none upstream; nothing that a pattern matches without the help of markers is stored, nothing else is taken, both columns agree where the patterns see the same in both. 353 000 states. |
| `request_readme` | `MCTurnAuditReadme.cfg` | **violated**: finding 3. |
| `migrations` | `MCMigrations.cfg` | 2 runs at once, 1 death, an operator at work: recorded is applied, nothing is refused, the proxy's inserts fit, launching again completes. 475 000 states. |

Bounds. In the batcher four calls fill a batch and the channel or overflow it, leave a
second batch for a tick or the drain, and can come after `Stop`; a final flush larger than a
batch needs no more. The calls are interchangeable, so `CallsInOrder` makes them in order.
Capacity 10 x size is replaced by 1 x size (`BufferFactor`): what matters is that the channel is
full or not, and the proofs hold for every factor and any number of calls. Two turns suffice in
`AuditTransport`, for turns share nothing but `emitted`. `ProxyService` has one turn: turns meet
only in the batchers' channels, and `batcher` already offers events in every interleaving. With
`Sizes = {2}` its two batchers tick, fill and drain. Three parallel tool calls are the least for which
a gap between two others is possible; three blocks the least with a neighbour on both sides. In
`RequestAudit` two messages are the least of which one can be malformed and the other hurt, and
texts of six atoms hold overlapping and adjacent matches. In `TurnAudit` what becomes of a body
does not depend on where the request goes, so `MCTurnAudit` gives every request one or two bodies
and every body one request (`MCInit`, `PlainSteps`, `MCBodies`); every set of headers goes with two
hosts, and all other requests have four sets. In `Migrations` two runs
suffice for a check and a record with another run's steps between them; every file has fewer than
five statements, so leftovers of any file can meet any other; the proofs hold for any number of runs
and deaths. A clock of three ticks leaves time before, between and after the two flushes, or none.
Deadlock checking is off because every one of these systems may end.

### Fairness

* The runner, the audit goroutines and the copy loop are scheduled: weak fairness.
  A flush returns because of its 10 s context; the ticker fires while the
  runner lives.
* A `select` with several ready cases chooses uniformly at random, so a case that is
  ready at infinitely many evaluations is taken: strong fairness of `ReceiveEvent`,
  `ReceiveTick` and `ReceiveDone`. Weak fairness would not do, as events can be ready
  at each evaluation.
* The server's `ReadTimeout` ends the reading of a request body and the transport's
  `ResponseHeaderTimeout` an upstream call. A response body that stays open and silent is
  ended by nothing in the proxy (`WriteTimeout` fails writes, not reads), so no fairness
  is assumed of it, and `NeverStalls`, `SpanEnds` and `TurnRecorded` promise nothing for it.
* `main` goes on and the clock of its 30 s context runs (`Lifecycle`); nothing is assumed of
  handlers, which may hang, nor of the exporter.
* A run of `migrate.sh` goes on unless it dies and, once dead, is launched again, as "re-running
  is always safe" presupposes. Deaths are bounded (`MaxDeaths`): a script that always dies never completes.
* Nothing is assumed of clients (no fairness of `Add`, `Arrive`), of the signal, of
  ClickHouse (`Commit`) or of `onComplete`.

### Findings

1. **A clean shutdown loses accepted events** (`cmd/proxy/main.go:133`). `Stop` closes a
   channel and `main` goes on to return. Unless the telemetry exporter takes long
   enough, the drain and the final flush die with the process. The comment on `Stop`
   (`batcher.go:78`) and the test's comment (`batcher_test.go:170`) say otherwise; the test
   passes because it sleeps. `proxy_exit` has the trace.
2. **Tool calls of different choices are merged** (`internal/parser/openai.go:147`). With
   `n > 1` streamed fragments are keyed by index alone and indices restart in each choice;
   the whole-JSON parser gives one row for each call, as `README.md:337` says.
3. **Patterns with a comma fall apart** (`cmd/proxy/main.go:150`): the two patterns of
   `README.md:210` become four that match nothing they were written for. `request_readme` stores
   a message with the text a rule was written for.

### Other disagreements

Met while modelling; the models do what the code does, and no run is spent on them.

* The listener's failure ends the process by `os.Exit` in another goroutine (`cmd/proxy/main.go:119`), so
  the telemetry's shutdown, which "must be called on process exit" (`otel.go:34`), is not.
* Some patterns redact one column and not the other (`internal/parser/request.go:47`), though `README.md:213` and
  `:467` promise both: those that look around (`^secret`, `\bkey`), those that take the JSON after a text
  (`key=\S+`, which in `raw` goes on into the next message), and those that match in an escape or across
  an escaped character. `SeesAlike` says which agree, and `ColumnsAgree` that they do.
* A stored text can hold a match of a pattern (`internal/audit/scrubber.go:48`): after `a.*b` and then `\n`, a newline
  between a and b is `a[REDACTED]b`. `OnlyMatchesRedacted` excludes what no marker can have made match
  (`IgnoresMarkers`).
* The path of an upstream override is dropped (`internal/proxy/router.go:144`), though the test at
  `router_test.go:173` keeps one and `README.md:181` names gateways that need it.
* OpenAI-format requests go to OpenAI (`router.go:124`), not to Anthropic as `README.md:162` says.
* `/sap-aicore/` is stripped but does not route (`router.go:150`).
* Native SAP AI Core responses count as structured (`internal/parser/sapaicore.go:34`): the
  deployment is taken for a model, so they never reach `unprocessed_events` (`README.md:29`), and their
  tool calls get no rows (`README.md:337`).
* A streamed OpenAI call of which every chunk was skipped costs a later call its row
  (`internal/parser/openai.go:166`): the loop ends at the number of calls and not at the highest index. `LossIsLocal`
  states it.
* A migration can run twice (`migrate.sh:112`), which `migrate.sh:4` excludes. `NeverRefused` and
  `RecordedIsApplied` show that it does no harm.
* `CLICKHOUSE_DB` other than `audit` ends the migrations (`004_sapaicore.sql:2`): six files name
  `audit`, one depends on the session. The theorems about the schema assume `audit`.
* The quick start's schema, 001 alone, lacks inserted columns (`README.md:80`, `:441`; `clickhouse.go:46`).
* 004 cannot be applied from a client session in the default database, as `README.md:400` has it
  (`004_sapaicore.sql:2`); `HandStatement` is refused there.

## Proofs

### Batcher

`BatcherProofs` proves, for every set of calls, every batch size (0 included) and every
capacity factor, the type invariant, every safety invariant of `batcher`, `Drained`, and that
`Batcher` implements `AuditQueue`. The only assumption is `SizeAssumption`: sizes and factor are
naturals. `batcher` gives the same statements for the sizes 0 and 2.

The invariants are not inductive alone. The argument has four layers:

1. `Typed` is `TypeOK` with `Shape`: the channel's bound, and what `pc` says of
   `stage` and `rows` (a write exists only during a flush, a sent block has every row).
2. `Ledger` is inductive relative to `Typed`. `Backlog` (slice and channel) is free of
   repetitions; receiving moves its middle point (`ReceiveStep`), `Add` appends to
   it (`AcceptStep`), a flush that returns cuts off its front (`FlushStep`).
3. `InsertedOnce` needs `Ledger` and that everything in `wire` or `table` was accepted:
   a block can then be sent only once, because the slice it is made of is disjoint from all
   that was sent. `AckedStored`, `StopDrains` and `NoEarlyDrop` follow with lemmas of
   their own; the last counts the channel as an injection into the accepted events. `Drained`
   joins two of them: once the runner has ended, every event accepted before `Stop` was handed
   to ClickHouse or lost with a flush (`Handed`), whatever the schedule of the ticks.
4. `Bounded` adds to `BatchBound` what the drain needs: channel and slice together are
   bounded by batch, capacity and late events, as each event received moves one place. It
   also gives non-empty flushes, which the refinement needs: `Send` is `HandOver`, a failure
   before `Send` is `Lose`, everything else is `Accept`, `Commit` or a stutter.

### Stream tap

`StreamTapProofs` proves, for bodies of any length, the type invariant, `CopyFaithful`,
`CompleteBody`, `WholeUnlessAborted`, and that `StreamTap` implements `BodyCopy`. None of them is
inductive: nothing in `CopyFaithful` says how far the client's copy is behind when the loop is about to tee.
The strengthening `Places` gives both copies exactly at each place of the loop (`body` and
`client` are the first `read` chunks, less one where the tee or the write is still to come), says
that a loop which ended without an error had all of an ended body, and that the auditor left its
read only after `Close`. `Arrive` and `EndOfBody` leave it; each other step moves one place. For the refinement
`PipeWrite` is `Record`, `ClientWrite` is `Deliver`, `Close` is `CloseBody`, `ReadAllReturns` is
`HandOver`, and everything else stutters.

### Audit transport

`AuditTransportProofs` proves, for any set of turns and any bound on tool calls, the type
invariant, `SpanEndsOnce`, `OneRecord`, `OfferedOnce`, and that `AuditTransport` implements `AuditTrail`. The
invariant has two parts for each turn: `Stages`, which ties the places of its three goroutines to each other
and to the span (a callback runs only after `Close`, a span is ended by one of two exclusive paths), and
`Offers`, which says which rows `todo` still holds (the last of 1..n, or the unprocessed row) and that what is
out is exactly the rest (`First`). Rows name their turn, so a step of one turn leaves the others' parts alone
(`OtherTurns`). For the refinement `CloseBody` is `CloseBody`, `AuditRequest` is `RecordRequest`,
`AuditResponse` is `RecordCall` or `RecordUnprocessed` according to the row at the head of `todo`
(`LoopStep`), and everything else stutters. `OneRecord` and `OfferedOnce` are invariants that
`AuditTrail` leaves implicit; they are proved and not given to a run.

### Proxy service

`ProxyServiceProofs` proves, for any set of turns, any bound on tool calls and any batch size, that every
behaviour of the service is one of the transport and of each of its two batchers (`ComponentsImplemented`,
step by step), the type invariant, `StoppedTrail`, `TurnFifo` and `StoredTrail`. The proof modules of
the transport and the batcher are instantiated beside the components, so their invariants (`Components`) are not
proved again, and what they promise holds of the composition: `BatchersSafe`, each batcher's safety
properties on its own rows, and `DrainedIfRun`, each batcher's `Drained` where the process lives long enough for its
runner to end. `TwoQueuesHold` is the refinement: seen from the callers the service has two
`AuditQueue`s; what the turns offer to these keeps `AuditTrail` (`TurnTrailsHold`).

* `StoppedTrail` joins both sides. A row that its turn emitted was given to the batcher of its kind
  (`Emitted`), and by that batcher's `Drained` a runner that has ended has flushed it unless it came after the
  Stop or the channel was full (`OfferedSettled`). A turn whose goroutines are done has emitted its request's
  row and, by the transport's `Offers`, a response's first row or its unprocessed row
  (`TrailOffered`); if none of its rows was late, both are settled (`RunnersSettle`).
* `TurnFifo` needs one more invariant, `Ordered`: the batchers were offered what the turns emitted, and in
  slice and channel a turn's rows stand in the order of its calls. `TurnFifo` alone speaks of rows that were
  handed over and says nothing of those on their way. That a row before a flushed one was offered at all is
  the transport's `NoGaps`; so it was accepted, and then flushed earlier, or dropped.

`StoredTrail` needs both components: what is in a table was accepted by its batcher and emitted
by its turn (`StoredOffered`), and of what is emitted the transport knows that it is in one record (`OneRecord`)
and comes after the end of the response (`EmittedStored`). So nobody who reads the two tables finds a
response in both, a row in the wrong one, or a row of a response that is still being copied, at
whatever point the process died. `Whole` joins `Components` with
what the batchers' own theorems need beyond it.

### Turn record and turn audit

`TurnAuditProofs` proves, for any configurations, requests and answers, `Addressed`, `Accounted`, `Deployment`
and `IdentityKept` of `TurnRecord`; that `TurnAudit` implements `TurnRecord`, so that they hold with the
request's parser beside them; and the type invariant, `DamageIsLocal`, `OnlyMatchesRedacted` and
`ColumnsAgree` of `TurnAudit`. The assumptions (`InputsAssumption`, `BodiesAssumption`) are types of the
inputs. The properties speak of the last step of a turn, whose effect depends on all before it. So `Inv`
says what each place has already determined from configuration, request and answer: where the rewritten
request goes (`Routed`) and what the rows are (`Written`). `RequestInv` says the same of the body: what is
stored is `Result` of it. The deployment's name and the texts of messages are computed along sequences; the
inductions are over sets of naturals (`InductionOnNat`), with a `FlattenSeq` taken as the end of a chain
(`IsFlattening`) that grows by one element at a time.

`Accounted` follows the response through `Parsed` and `Meaningful`: with content or a model its calls, without
either the unprocessed row, and for native mode one row without calls, or the unprocessed row if the path names no
deployment.

The scrubber's two properties hold for all `Accepts` and `Prefers`: of an expression the proofs know only which atoms
its matches can be made of and whether it looks around. Both rest on an induction along the scan of
`ReplaceAllString` (`Scan`, `ScanSteps`, `ScanInduction`): its result is built from the end of the text, at each
place by an atom that is kept or by a marker.

* `OnlyMatchesRedactedHolds`. A text is `Free` of a pattern when no part of it is a match. After its own
  replacement a text is free of a pattern that `IgnoresMarkers`: such a pattern takes no bracket, so a match would
  lie within a marker, where it has none (`FreeMark`), or between two markers, in kept atoms
  at whose first the scan would have found it (`FreeKept`, `ReplaceFree`). The later patterns keep that: what they
  put in are markers, and what is between these is part of the text before them. `ScrubbedFree` chains
  this over the patterns. An atom that no pattern takes is passed by every scan, so its number stays
  (`ReplaceCounts`). `IgnoresMarkers` is needed: `a.*b` followed by `\n` leaves a match of the first.
* `ColumnsAgreeHolds`. An atom that a pattern cannot take divides a text in two that are scanned
  independently, if the pattern does not look around (`FoundAround`, `ReplaceAround`). By induction on the length,
  split at an escaped atom, replacing therefore commutes with `Encode` (`EncodeReplace`), provided nothing of an escape
  is taken and no empty match falls into it (`Spares`, which `SeesAlike` gives: `SeesSpares`). Every text
  that is taken out of a body was sent (`UserTextsSent`), so it is in the raw body between an atom that JSON
  adds and a comma (`HeldIn`, `SentHeld`), and every replacement leaves it there (`ReplaceHeld`,
  `ScrubbedHeld`).

### Parsers

`ParsersProofs` proves for both stream parsers, any number of calls, blocks and pieces, the type invariant,
`SameAsFull` and `DamageIsLocal`. Both are proved under the hypothesis `NumChoices = 1`, the number clients
ask for unless they set `n`, which only the OpenAI format has; with more they are false, which is finding 2.
The inductive invariant `Buffers` relates the parser's buffers to what has been *sent* so far. Whatever was
lost, an OpenAI buffer has pieces of its own call only, in order (`OwnPieces`), and an open Anthropic block
likewise (`OwnBlock`). The rows are those of an initial segment of the indices that have a buffer, as many
as there are: which calls a gap costs their row is a matter of counting these (`NthSmallest`,
`InitialSegment`, `EmittedReached`, `ReachedEmitted`), and is what `LossIsLocal` says. A block none of whose
events was skipped has in its buffer all that came, and once stopped its row in the result (`Intact`).
Without any loss every buffer is complete (`Undamaged`) and the result is that of the whole form applied to
the blocks stopped so far (`WholeSoFar`). The whole form of Anthropic is a recursive function; `FullExists`
and `FullSteps` show, through least elements of sets of naturals, that it is what its equations say.

### Life cycle

`LifecycleProofs` proves, for every budget and any number of requests, the type invariant, `ServedFit`
and `FlushedInTime`. `ServedFit` speaks of `requests` only, so the invariant says what each place of `main`
has already checked of the environment (`Checked`): a step past a check keeps it, and the
environment never changes. `FlushedInTime` needs of both providers that they are
shut down where `main` is past their flush, that from there nothing is added to spans or token counts, and
that what is left then was given up when the clock had run out, which stays so (`Flushed`).

### Migrations

`MigrationsProofs` proves, for any set of runs, any number of deaths and any sessions of the operator, the type
invariant and `RecordedIsApplied`; and with `DB = "audit"`, the shipped configuration, `InsertsFit` and
`NeverRefused`. The assumption is a hypothesis of those two theorems: they are false without it. The
invariant says of each run (`RunInv`) that the versions before the one it is at are
recorded, and that in the loop over `/tmp` every statement of its file has taken effect or is still in
`/tmp`, unchanged, at its number or after: leftovers of another file can only follow. A statement that has
taken effect stays so, because the schema only grows (`EffectiveKept`, `Grows`): this is what makes a
run's knowledge survive the others' steps (`OthersKept`). `NeverRefused` adds that a run past `Prepare` has
its database (`Ready`); only an `ALTER` could then be refused, and its table is there, for it is
created by the second statement of the first file, which has taken effect once a run is past it.

### What is checked by TLC only

The inductive invariants of the parsers and of the turn (`Typed`, `Buffers`, `Inv`, `RequestInv`) were
checked by TLC as invariants of the runs `parsers` and `turn_audit` before they were proved, and `Drained`,
`DrainedIfRun`, `BatchersSafe`, `TwoQueues` and `TurnTrails`, which no configuration lists, with the constants of
`batcher` and `proxy_service`. What no theorem states:

* Liveness (`Flushed`, `Stops`, `NeverStalls`, `Returns`, `SpanEnds`, `TurnRecorded`, `TrailFinished`, `Serves`,
  `Completes`): temporal reasoning under fairness needs `ENABLED`, which is outside the prover's reach.

## Not modelled

* The upstream transport: values of a library's fields. `/healthz`, the logger, OpenTelemetry's resources and
  propagators: no effect on what is recorded.
* In the parsers the model's name; in the router ports, the case of hosts, the query string and the
  hint `anthropic-version`, whose vendor is also the default.
* The syntax of Go's regular expressions: what they match is a constant, which the runs give for the 14 values above.
  Texts that JSON may write in several ways have one encoding.
* The values of the inserts' columns; their names are checked against the schema.
* `NewChannelBatcher` and `flushFn`, used by tests only, and `RoundTrip`'s branches for missing metadata and a
  missing unprocessed batcher, which `main` and the director always give. `Writer.Close`, deferred
  in `main`, runs when nothing uses the writer any more or the process is ending.

## Plan

Done: every component with a state or a decision of its own has a module, the batcher, the tap and the
transport have an abstract specification, and eight modules of proofs cover every safety property of the passing runs. What would
come next:

1. `ProxyService` with two turns on `AuditQueue` in the place of `Batcher`, justified by
   `ImplementsQueueHolds`; `AuditTransport`'s `CloseBody` and `Extract` refined by `StreamTap`.
2. The model's name in the parsers; a death of `migrate.sh` in the middle of `awk`'s writes.
