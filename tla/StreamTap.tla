------------------------------ MODULE StreamTap ------------------------------
(***************************************************************************)
(* internal/proxy/stream.go: TapBody on one response.  The copy loop of    *)
(* httputil.ReverseProxy reads the body through a TeeReader, which writes  *)
(* what it read to an io.Pipe before returning it; the pipe has no buffer, *)
(* so that write waits for the audit goroutine, which reads the pipe to    *)
(* its end and hands the whole copy to onComplete.                         *)
(*                                                                         *)
(* A chunk is what one Read of the upstream body returns; chunks are       *)
(* numbered as upstream sends them.  Upstream, its connection and the      *)
(* client belong to the environment.                                       *)
(*                                                                         *)
(* An operator named for what is wrong with it (ReadChunkNoTee) is a       *)
(* mutation of the action it precedes; no specification uses it.           *)
(***************************************************************************)
EXTENDS Naturals, Sequences

CONSTANT MaxChunks      \* bound on the chunks of the body

ASSUME MaxChunksAssumption == MaxChunks \in Nat

VARIABLES
  arrived,              \* chunks upstream has sent
  source,               \* "open", "eof", or "error": cut off or cancelled
  read,                 \* chunks the copy loop has read
  copier,               \* "read", "tee", "write", "close", "closed"
  aborted,              \* the copy loop ended with an error
  client,               \* chunks written to the client, in order
  auditor,              \* "reading", "completing", "done"
  body                  \* what io.ReadAll has collected

vars == <<arrived, source, read, copier, aborted, client, auditor, body>>

Init ==
  /\ arrived = 0 /\ source = "open"
  /\ read = 0 /\ copier = "read" /\ aborted = FALSE
  /\ client = <<>>
  /\ auditor = "reading" /\ body = <<>>

-------------------------------------------------------------------------------
(* Upstream.                                                               *)

Arrive ==
  /\ source = "open"
  /\ arrived < MaxChunks
  /\ arrived' = arrived + 1
  /\ UNCHANGED <<source, read, copier, aborted, client, auditor, body>>

EndOfBody ==
  /\ source = "open"
  /\ source' \in {"eof", "error"}
  /\ UNCHANGED <<arrived, read, copier, aborted, client, auditor, body>>

-------------------------------------------------------------------------------
(* The copy loop, in the handler's goroutine.                              *)

ReadChunkNoTee ==
  /\ copier = "read"
  /\ read < arrived
  /\ read' = read + 1
  /\ copier' = "write"
  /\ UNCHANGED <<arrived, source, aborted, client, auditor, body>>

ReadChunk ==
  /\ copier = "read"
  /\ read < arrived
  /\ read' = read + 1
  /\ copier' = "tee"
  /\ UNCHANGED <<arrived, source, aborted, client, auditor, body>>

ReadEndHidingError ==
  /\ copier = "read"
  /\ source = "error" \/ (source = "eof" /\ read = arrived)
  /\ copier' = "close"
  /\ UNCHANGED <<arrived, source, read, aborted, client, auditor, body>>

(* At the end of the body; after an error chunks in transit may be lost.   *)
ReadEnd ==
  /\ copier = "read"
  /\ source = "error" \/ (source = "eof" /\ read = arrived)
  /\ copier' = "close"
  /\ aborted' = (source = "error")
  /\ UNCHANGED <<arrived, source, read, client, auditor, body>>

PipeWriteWithoutReader ==
  /\ copier = "tee"
  /\ body' \in {body, Append(body, read)}
  /\ copier' = "write"
  /\ UNCHANGED <<arrived, source, read, aborted, client, auditor>>

(* The pipe write and the read of io.ReadAll that takes it, together.      *)
PipeWrite ==
  /\ copier = "tee"
  /\ auditor = "reading"
  /\ body' = Append(body, read)
  /\ copier' = "write"
  /\ UNCHANGED <<arrived, source, read, aborted, client, auditor>>

ClientWrite ==
  /\ copier = "write"
  /\ client' = Append(client, read)
  /\ copier' = "read"
  /\ UNCHANGED <<arrived, source, read, aborted, auditor, body>>

ClientGone ==
  /\ copier = "write"
  /\ aborted' = TRUE
  /\ copier' = "close"
  /\ UNCHANGED <<arrived, source, read, client, auditor, body>>

CloseUnlessAborted ==
  /\ copier = "close"
  /\ ~aborted
  /\ copier' = "closed"
  /\ UNCHANGED <<arrived, source, read, aborted, client, auditor, body>>

(* closeFunc: the writing half of the pipe, then the upstream body.        *)
Close ==
  /\ copier = "close"
  /\ copier' = "closed"
  /\ UNCHANGED <<arrived, source, read, aborted, client, auditor, body>>

-------------------------------------------------------------------------------
(* The audit goroutine.                                                    *)

ReadAllReturns ==
  /\ auditor = "reading"
  /\ copier = "closed"
  /\ auditor' = "completing"
  /\ UNCHANGED <<arrived, source, read, copier, aborted, client, body>>

OnComplete ==
  /\ auditor = "completing"
  /\ auditor' = "done"
  /\ UNCHANGED <<arrived, source, read, copier, aborted, client, body>>

-------------------------------------------------------------------------------

Copy  == ReadChunk \/ ReadEnd \/ ClientWrite \/ ClientGone \/ Close
Audit == PipeWrite \/ ReadAllReturns \/ OnComplete

Next == Arrive \/ EndOfBody \/ Copy \/ Audit

Spec == Init /\ [][Next]_vars

(* The runtime schedules both goroutines, up to the end of io.ReadAll:     *)
(* onComplete owes the client nothing, and has no fairness of its own.     *)
(* Upstream may stay silent for ever: no timeout of the proxy covers a     *)
(* body that is open.                                                      *)
Fairness == WF_vars(Copy) /\ WF_vars(PipeWrite \/ ReadAllReturns)

FairSpec == Spec /\ Fairness

-------------------------------------------------------------------------------
(* Properties.                                                             *)

FirstChunks(n) == [i \in 1..n |-> i]

TypeOK ==
  /\ arrived \in 0..MaxChunks
  /\ source \in {"open", "eof", "error"}
  /\ read \in 0..arrived
  /\ copier \in {"read", "tee", "write", "close", "closed"}
  /\ aborted \in BOOLEAN
  /\ client \in Seq(1..MaxChunks)
  /\ auditor \in {"reading", "completing", "done"}
  /\ body \in Seq(1..MaxChunks)

(* The audit copy is the upstream's bytes in order, never behind what the  *)
(* client has and at most one chunk ahead of it: nothing reaches the       *)
(* client unrecorded, whoever of the two goroutines runs first.            *)
CopyFaithful ==
  /\ body = FirstChunks(IF copier = "tee" THEN read - 1 ELSE read)
  /\ client = FirstChunks(Len(client))
  /\ Len(body) - Len(client) \in {0, 1}

(* onComplete sees the body only when it can no longer grow: after Close,  *)
(* with every chunk that was read.                                         *)
CompleteBody ==
  auditor # "reading" => copier = "closed" /\ body = FirstChunks(read)

(* A response whose copy did not fail reached the client and the auditor   *)
(* whole.                                                                  *)
WholeUnlessAborted ==
  copier = "closed" /\ ~aborted =>
    client = FirstChunks(arrived) /\ source = "eof"

(* The tap never holds a response back, although every chunk waits for the *)
(* auditor: a chunk that arrived reaches the client while the response is  *)
(* open, and once upstream ended or the client is gone, the body is closed *)
(* and its copy goes to onComplete.                                        *)
NeverStalls ==
  /\ \A n \in 1..MaxChunks : (arrived >= n) ~> (Len(client) >= n \/ copier = "closed")
  /\ (source # "open" \/ aborted) ~> (copier = "closed" /\ auditor # "reading")

(* Whatever happens to upstream and client, TapBody keeps what BodyCopy    *)
(* promises: recorded before delivered, handed over closed and final.      *)
Promise == INSTANCE BodyCopy WITH
  Chunk <- 1..MaxChunks, recorded <- body, delivered <- client,
  phase <- IF auditor # "reading" THEN "handed"
           ELSE IF copier = "closed" THEN "closed" ELSE "open"

ImplementsBodyCopy == Promise!Spec
===============================================================================
