------------------------------- MODULE Batcher -------------------------------
(***************************************************************************)
(* internal/audit/batcher.go: the bounded channel, the runner goroutine,   *)
(* its ticker, the flush through Writer.WriteBatch, and Stop.  Batcher and *)
(* UnprocessedBatcher are the same code over two event types; this module  *)
(* is both.                                                                *)
(*                                                                         *)
(* An operator that precedes the action it resembles, named for what is    *)
(* wrong with it (ReceiveDoneNoDrain, WriteErrRetry), is a mutation of     *)
(* that action; no specification uses it.                                  *)
(*                                                                         *)
(* ClickHouse is outside the program: a block that was sent commits at any *)
(* later time, also after the writer has returned an error to the runner   *)
(* (a deadline that passes while the server works), or never.              *)
(***************************************************************************)
EXTENDS Naturals, Sequences, FiniteSets, Functions

CONSTANTS
  Event,                \* the Add calls, one element for each
  Sizes,                \* values of BATCH_SIZE
  BufferFactor          \* channel capacity in batches: 10 in NewBatcher

ASSUME SizeAssumption == Sizes \subseteq Nat /\ BufferFactor \in Nat

VARIABLES
  size,                 \* b.size, which NewBatcher sets
  ch,                   \* b.ch
  done,                 \* b.done is closed
  ticker,               \* a tick waits in ticker.C
  pc,                   \* where the runner is
  batch,                \* the runner's slice
  stage,                \* how far WriteBatch got: "idle", "append", "sent"
  rows,                 \* rows appended to the prepared insert
  wire, table,          \* ClickHouse: blocks in doubt, rows stored
  offered, dropped,     \* Add calls made, and those that found ch full
  late,                 \* events accepted after Stop
  acked, discarded      \* events whose flush returned nil / an error

runner == <<pc, batch, stage, rows>>
server == <<wire, table>>
calls  == <<offered, dropped, late>>
fates  == <<acked, discarded>>
vars   == <<size, ch, done, ticker, runner, server, calls, fates>>

Capacity == BufferFactor * size

(* The length at which run() flushes: len(batch) >= size after an append.  *)
Full == IF size = 0 THEN 1 ELSE size

FlushPCs == {"sizeFlush", "tickFlush", "finalFlush"}
PCs == {"select", "drain", "exited"} \cup FlushPCs

Accepted == offered \ dropped
Handed   == acked \cup discarded
Backlog  == batch \o ch                 \* accepted, flush not over, by age

Init ==
  /\ size \in Sizes
  /\ ch = <<>>
  /\ done = FALSE
  /\ ticker = FALSE
  /\ pc = "select" /\ batch = <<>> /\ stage = "idle" /\ rows = 0
  /\ wire = {} /\ table = {}
  /\ offered = {} /\ dropped = {} /\ late = {}
  /\ acked = {} /\ discarded = {}

-------------------------------------------------------------------------------
(* Add: a select with a default, so it takes exactly one of three ways.    *)

Offer(e) ==
  /\ e \notin offered
  /\ offered' = offered \cup {e}
  /\ UNCHANGED <<size, done, ticker, stage, rows, server, fates>>

Lateness(e) == late' = IF done THEN late \cup {e} ELSE late

Enqueue(e) ==
  /\ Offer(e)
  /\ Len(ch) < Capacity
  /\ ch' = Append(ch, e)
  /\ Lateness(e)
  /\ UNCHANGED <<pc, batch, dropped>>

TakeBeyondSize(e) ==
  /\ batch' = Append(batch, e)
  /\ pc' = IF Len(batch) + 1 > size THEN "sizeFlush" ELSE "select"

TakeExactSize(e) ==
  /\ batch' = Append(batch, e)
  /\ pc' = IF Len(batch) + 1 = size THEN "sizeFlush" ELSE "select"

(* run, first case: append, and flush when the batch is full.              *)
Take(e) ==
  /\ batch' = Append(batch, e)
  /\ pc' = IF Len(batch) + 1 >= size THEN "sizeFlush" ELSE "select"

(* size = 0 makes the channel unbuffered: a send succeeds only into the    *)
(* hands of a runner parked in select, with neither a tick nor done ready. *)
Handoff(e) ==
  /\ Offer(e)
  /\ Capacity = 0
  /\ pc = "select" /\ ~ticker /\ ~done
  /\ Take(e)
  /\ UNCHANGED <<ch, dropped, late>>

DropWhileFlushing(e) ==
  /\ Offer(e)
  /\ pc \in FlushPCs
  /\ dropped' = dropped \cup {e}
  /\ UNCHANGED <<ch, pc, batch, late>>

Drop(e) ==
  /\ Offer(e)
  /\ Len(ch) = Capacity
  /\ dropped' = dropped \cup {e}
  /\ UNCHANGED <<ch, pc, batch, late>>

Add(e) == Enqueue(e) \/ Handoff(e) \/ Drop(e)

Stop ==
  /\ ~done
  /\ done' = TRUE
  /\ UNCHANGED <<size, ch, ticker, runner, server, calls, fates>>

-------------------------------------------------------------------------------
(* run: select chooses at random among its ready cases.                    *)

Tick ==
  /\ pc # "exited"
  /\ ~ticker
  /\ ticker' = TRUE
  /\ UNCHANGED <<size, ch, done, runner, server, calls, fates>>

ReceiveNewest ==
  /\ pc = "select"
  /\ ch # <<>>
  /\ ch' = SubSeq(ch, 1, Len(ch) - 1)
  /\ Take(ch[Len(ch)])
  /\ UNCHANGED <<size, done, ticker, stage, rows, server, calls, fates>>

ReceiveEvent ==
  /\ pc = "select"
  /\ ch # <<>>
  /\ ch' = Tail(ch)
  /\ Take(Head(ch))
  /\ UNCHANGED <<size, done, ticker, stage, rows, server, calls, fates>>

ReceiveTickNoFlush ==
  /\ pc = "select"
  /\ ticker
  /\ ticker' = FALSE
  /\ UNCHANGED <<size, ch, done, pc, batch, stage, rows, server, calls, fates>>

ReceiveTick ==
  /\ pc = "select"
  /\ ticker
  /\ ticker' = FALSE
  /\ pc' = IF batch # <<>> THEN "tickFlush" ELSE "select"
  /\ UNCHANGED <<size, ch, done, batch, stage, rows, server, calls, fates>>

ReceiveDoneNoDrain ==
  /\ pc = "select"
  /\ done
  /\ pc' = IF batch # <<>> THEN "finalFlush" ELSE "exited"
  /\ UNCHANGED <<size, ch, done, ticker, batch, stage, rows, server, calls, fates>>

ReceiveDone ==
  /\ pc = "select"
  /\ done
  /\ pc' = "drain"
  /\ UNCHANGED <<size, ch, done, ticker, batch, stage, rows, server, calls, fates>>

DrainEventToFront ==
  /\ pc = "drain"
  /\ ch # <<>>
  /\ ch' = Tail(ch)
  /\ batch' = <<Head(ch)>> \o batch
  /\ UNCHANGED <<size, done, ticker, pc, stage, rows, server, calls, fates>>

DrainEvent ==
  /\ pc = "drain"
  /\ ch # <<>>
  /\ ch' = Tail(ch)
  /\ batch' = Append(batch, Head(ch))
  /\ UNCHANGED <<size, done, ticker, pc, stage, rows, server, calls, fates>>

DrainEmptyBreak ==
  /\ pc = "drain"
  /\ ch = <<>>
  /\ pc' = IF batch # <<>> THEN "finalFlush" ELSE "select"
  /\ UNCHANGED <<size, ch, done, ticker, batch, stage, rows, server, calls, fates>>

DrainEmpty ==
  /\ pc = "drain"
  /\ ch = <<>>
  /\ pc' = IF batch # <<>> THEN "finalFlush" ELSE "exited"
  /\ UNCHANGED <<size, ch, done, ticker, batch, stage, rows, server, calls, fates>>

-------------------------------------------------------------------------------
(* flush, with the Writer's PrepareBatch, Append per row and Send.         *)

PrepareBatch ==
  /\ pc \in FlushPCs
  /\ stage = "idle"
  /\ stage' = "append"
  /\ UNCHANGED <<size, ch, done, ticker, pc, batch, rows, server, calls, fates>>

AppendRow ==
  /\ stage = "append"
  /\ rows < Len(batch)
  /\ rows' = rows + 1
  /\ UNCHANGED <<size, ch, done, ticker, pc, batch, stage, server, calls, fates>>

Block == {batch[i] : i \in 1..rows}

SendAfterRowError ==
  /\ stage = "append"
  /\ stage' = "sent"
  /\ wire' = wire \cup {Block}
  /\ UNCHANGED <<size, ch, done, ticker, pc, batch, rows, table, calls, fates>>

Send ==
  /\ stage = "append"
  /\ rows = Len(batch)
  /\ stage' = "sent"
  /\ wire' = wire \cup {Block}
  /\ UNCHANGED <<size, ch, done, ticker, pc, batch, rows, table, calls, fates>>

FlushReturnsKeepingBatch ==
  /\ stage' = "idle"
  /\ rows' = 0
  /\ pc' = IF pc = "finalFlush" THEN "exited" ELSE "select"
  /\ ticker' = IF pc = "sizeFlush" THEN FALSE ELSE ticker
  /\ UNCHANGED batch

(* flush returns to run: the slice is emptied, and a size flush resets the *)
(* ticker, which also discards a tick that fired meanwhile (Go >= 1.23).   *)
FlushReturns ==
  /\ batch' = <<>>
  /\ stage' = "idle"
  /\ rows' = 0
  /\ pc' = IF pc = "finalFlush" THEN "exited" ELSE "select"
  /\ ticker' = IF pc = "sizeFlush" THEN FALSE ELSE ticker

(* Send returned nil: the server has acknowledged the block.               *)
WriteOk ==
  /\ stage = "sent"
  /\ Block \subseteq table
  /\ acked' = acked \cup Range(batch)
  /\ FlushReturns
  /\ UNCHANGED <<size, ch, done, server, calls, discarded>>

WriteErrRetry ==
  /\ pc \in FlushPCs
  /\ stage' = "idle"
  /\ rows' = 0
  /\ UNCHANGED <<size, ch, done, ticker, pc, batch, server, calls, fates>>

(* PrepareBatch, an Append or Send failed, or the 10 s deadline passed at  *)
(* any of them: the error is logged, the batch discarded, nothing retried. *)
WriteErr ==
  /\ pc \in FlushPCs
  /\ discarded' = discarded \cup Range(batch)
  /\ FlushReturns
  /\ UNCHANGED <<size, ch, done, server, calls, acked>>

Commit(block) ==
  /\ wire' = wire \ {block}
  /\ table' = table \cup block
  /\ UNCHANGED <<size, ch, done, ticker, runner, calls, fates>>

-------------------------------------------------------------------------------

Write == PrepareBatch \/ AppendRow \/ Send \/ WriteOk \/ WriteErr
Drain == DrainEvent \/ DrainEmpty

Run == ReceiveEvent \/ ReceiveTick \/ ReceiveDone \/ Drain \/ Write

Next ==
  \/ \E e \in Event : Add(e)
  \/ Stop
  \/ Tick
  \/ Run
  \/ \E block \in wire : Commit(block)

Spec == Init /\ [][Next]_vars

(* The runtime schedules the runner, the ticker fires while it runs, and   *)
(* flush returns within its deadline.  A select that is evaluated again    *)
(* and again with a case ready takes that case in the end, for the choice  *)
(* is uniform: strong fairness.  Add, Stop and ClickHouse owe nothing.     *)
Fairness ==
  /\ WF_vars(Tick)
  /\ WF_vars(Drain \/ Write)
  /\ SF_vars(ReceiveEvent)
  /\ SF_vars(ReceiveTick)
  /\ SF_vars(ReceiveDone)

FairSpec == Spec /\ Fairness

-------------------------------------------------------------------------------
(* Properties.                                                             *)

TypeOK ==
  /\ size \in Sizes
  /\ ch \in Seq(Event)
  /\ done \in BOOLEAN
  /\ ticker \in BOOLEAN
  /\ pc \in PCs
  /\ batch \in Seq(Event)
  /\ stage \in {"idle", "append", "sent"}
  /\ rows \in 0..Len(batch)
  /\ wire \subseteq SUBSET Event
  /\ table \subseteq Event
  /\ offered \subseteq Event
  /\ dropped \subseteq offered
  /\ late \subseteq Accepted
  /\ acked \subseteq Event
  /\ discarded \subseteq Event

(* Every accepted event is in exactly one place: the runner's slice, the   *)
(* channel, or the outcome of the one flush that carried it.  Nothing that *)
(* Add took is forgotten between the goroutines, and nothing is flushed    *)
(* twice, however Add, the select and a failing write interleave.          *)
Ledger ==
  /\ IsInjective(Backlog)
  /\ Accepted = Range(Backlog) \cup Handed
  /\ Range(Backlog) \cap Handed = {}
  /\ acked \cap discarded = {}

(* No event can become two rows: an insert in doubt after a failed flush   *)
(* shares no event with another insert, with the table, or with what is    *)
(* still to be inserted.  This is why flush may not retry.                 *)
InsertedOnce ==
  /\ \A b \in wire : b \cap table = {}
  /\ \A b, c \in wire : b # c => b \cap c = {}
  /\ \A b \in wire \cup {table} :
       b \cap (Range(ch) \cup (IF stage = "sent" THEN {} ELSE Range(batch))) = {}

(* A flush that returned nil stored all of its rows, although rows are     *)
(* appended one at a time and any of them can fail: no partial insert is   *)
(* ever reported as a success.                                             *)
AckedStored == acked \subseteq table

(* The sizes the runner works with.  Outside the drain the slice never     *)
(* outgrows the batch size and no flush is empty; the final flush may      *)
(* exceed it by the whole channel, and by every event that was accepted    *)
(* after Stop while the drain was running.                                 *)
BatchBound ==
  /\ Len(ch) <= Capacity
  /\ pc = "select" => Len(batch) < Full
  /\ pc = "sizeFlush" => Len(batch) = Full
  /\ pc = "tickFlush" => Len(batch) \in 1..(Full - 1)
  /\ pc = "finalFlush" => batch # <<>>
  /\ pc \in {"drain", "finalFlush"} =>
       Len(batch) <= (Full - 1) + Capacity + Cardinality(late)

(* "Stop drains any remaining events": once the runner has left its loop,  *)
(* only events accepted after Stop can be in the channel; every other one  *)
(* is in the final flush or has been through a flush.                      *)
StopDrains == pc \in {"finalFlush", "exited"} => Range(ch) \subseteq late

(* And once run() has returned, they all have: the drain, the final flush  *)
(* and the flushes before it left no event behind that was accepted before *)
(* Stop.                                                                   *)
Drained == pc = "exited" => Accepted \ late \subseteq Handed

(* Add drops nothing before the channel's capacity in events was accepted: *)
(* a burst that fits the buffer is never lost, however slow the writer is. *)
NoEarlyDrop == dropped # {} => Cardinality(Accepted) >= Capacity

(* An event accepted before Stop reaches the end of a flush, through       *)
(* ticks, size flushes, failing writes and the drain.                      *)
Flushed == \A e \in Event : (e \in Accepted \ late) ~> (e \in Handed)

(* After Stop the runner ends.                                             *)
Stops == done ~> (pc = "exited")

(* The batcher implements the queue its callers rely on.                   *)
Queue == INSTANCE AuditQueue WITH
  accepted <- Accepted,
  pending  <- (IF stage = "sent" THEN <<>> ELSE batch) \o ch

ImplementsQueue == Queue!Spec
===============================================================================
