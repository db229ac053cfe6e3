--------------------------- MODULE AnthropicStream ---------------------------
(***************************************************************************)
(* internal/parser/anthropic.go: one message, streamed as SSE events and   *)
(* replayed by parseAnthropicStream, against what parseAnthropicFull makes *)
(* of the same message sent as one JSON object.                            *)
(*                                                                         *)
(* A message is a sequence of content blocks; its text, thinking or tool   *)
(* input comes in pieces, <<i, k>> being the k-th piece of block i.  The   *)
(* model and the input tokens come with message_start, before the blocks,  *)
(* the output tokens with message_delta, after them.  "other" stands for   *)
(* the block types the parser ignores.  An event may be longer than the    *)
(* 64 KB that a line of the scanner can have.                              *)
(*                                                                         *)
(* An operator named for what is wrong with it (BlockDeltaOverwriting) is  *)
(* a mutation of the action it precedes; no specification uses it.         *)
(***************************************************************************)
EXTENDS Naturals, Sequences, FiniteSets

CONSTANTS
  MaxBlocks,            \* bound on the content blocks
  MaxPieces             \* bound on the pieces of a block

BlockTypes == {"thinking", "text", "tool_use", "other"}
Block == [type : BlockTypes, pieces : 0..MaxPieces]

VARIABLES
  content,              \* the message: Seq(Block)
  current,              \* the block upstream is sending, counted from 1; 0 is
                        \* message_start, Len(content) + 1 message_delta
  step,                 \* its events sent: start, a delta per piece, stop
  damaged,              \* blocks with an event that was skipped
  tooLong,              \* a line was too long: the scanner stopped there
  phase,                \* "streaming", "parsed", "failed" (an error is returned)
  blocks,               \* the parser's open blocks, by index
  usage,                \* the parts of Usage that were set
  result                \* the parser's lists, by kind

stream == <<content, current, step, damaged, tooLong>>
parser == <<blocks, usage, result>>
vars == <<stream, phase, parser>>

ToolCall(i, input) == [name |-> i, input |-> input]

(* The text "{}" of a tool call without input.                             *)
Braces == << <<0, 0>> >>

NoEntries == [thinking |-> <<>>, text |-> <<>>, tool_use |-> <<>>]

Init ==
  /\ content \in UNION {[1..n -> Block] : n \in 0..MaxBlocks}
  /\ current = 0 /\ step = 0
  /\ damaged = {} /\ tooLong = FALSE
  /\ phase = "streaming"
  /\ blocks = << >> /\ usage = {}
  /\ result = NoEntries

-------------------------------------------------------------------------------
(* The events: the blocks one after the other.                             *)

InBlock == current \in DOMAIN content
LastStep == IF InBlock THEN content[current].pieces + 1 ELSE 0

Advance ==
  /\ phase = "streaming"
  /\ current <= Len(content) + 1
  /\ IF step = LastStep THEN current' = current + 1 /\ step' = 0
                        ELSE current' = current /\ step' = step + 1
  /\ UNCHANGED <<content, phase>>

(* The parser reads the event.                                             *)
Read == Advance /\ ~tooLong /\ UNCHANGED <<damaged, tooLong>>

MessageStart ==
  /\ Read
  /\ current = 0
  /\ usage' = usage \cup {"input"}
  /\ UNCHANGED <<blocks, result>>

MessageDelta ==
  /\ Read
  /\ current = Len(content) + 1
  /\ usage' = usage \cup {"output"}
  /\ UNCHANGED <<blocks, result>>

(* What a finished block adds to the lists of the result: nothing if it is *)
(* empty, except that a tool call always counts.                           *)
Report(lists, i, type, value) ==
  CASE type \in {"thinking", "text"} /\ value # <<>> ->
         [lists EXCEPT ![type] = Append(@, value)]
    [] type = "tool_use" ->
         [lists EXCEPT ![type] =
            Append(@, ToolCall(i, IF value = <<>> THEN Braces ELSE value))]
    [] OTHER -> lists

BlockStartReusingBuffer ==
  /\ Read
  /\ InBlock /\ step = 0
  /\ \E buf \in IF blocks = << >> THEN {<<>>} ELSE {blocks[x].buf : x \in DOMAIN blocks} :
       blocks' = [x \in DOMAIN blocks \cup {current} |->
         IF x = current THEN [type |-> content[x].type, buf |-> buf] ELSE blocks[x]]
  /\ UNCHANGED <<usage, result>>

BlockStart ==
  /\ Read
  /\ InBlock /\ step = 0
  /\ blocks' = [x \in DOMAIN blocks \cup {current} |->
       IF x = current THEN [type |-> content[x].type, buf |-> <<>>] ELSE blocks[x]]
  /\ UNCHANGED <<usage, result>>

BlockDeltaOverwriting ==
  /\ Read
  /\ InBlock /\ step \in 1..content[current].pieces
  /\ blocks' = IF current \in DOMAIN blocks
                 THEN [blocks EXCEPT ![current].buf = << <<current, step>> >>]
                 ELSE blocks
  /\ UNCHANGED <<usage, result>>

BlockDelta ==
  /\ Read
  /\ InBlock /\ step \in 1..content[current].pieces
  /\ blocks' = IF current \in DOMAIN blocks
                 THEN [blocks EXCEPT ![current].buf = Append(@, <<current, step>>)]
                 ELSE blocks
  /\ UNCHANGED <<usage, result>>

BlockStop ==
  /\ Read
  /\ InBlock /\ step = LastStep
  /\ IF current \in DOMAIN blocks
       THEN /\ result' = Report(result, current, blocks[current].type, blocks[current].buf)
            /\ blocks' = [x \in DOMAIN blocks \ {current} |-> blocks[x]]
       ELSE UNCHANGED <<result, blocks>>
  /\ UNCHANGED usage

(* json.Unmarshal fails on the event: it is skipped.                       *)
SkippedEvent ==
  /\ Advance
  /\ ~tooLong
  /\ damaged' = damaged \cup {current}
  /\ UNCHANGED <<tooLong, parser>>

(* A line that is too long, and every one after it: none is scanned.       *)
UnscannedEvent ==
  /\ Advance
  /\ tooLong' = TRUE
  /\ UNCHANGED <<damaged, parser>>

EndOfBodyIgnoringError ==
  /\ phase = "streaming"
  /\ phase' = "parsed"
  /\ UNCHANGED <<stream, parser>>

(* The end of the captured body, wherever the stream was cut.  The caller  *)
(* drops the result when there is an error, scanner.Err.                   *)
EndOfBody ==
  /\ phase = "streaming"
  /\ phase' = IF tooLong THEN "failed" ELSE "parsed"
  /\ UNCHANGED <<stream, parser>>

Next ==
  \/ MessageStart \/ MessageDelta
  \/ BlockStart \/ BlockDelta \/ BlockStop
  \/ SkippedEvent \/ UnscannedEvent
  \/ EndOfBody

Spec == Init /\ [][Next]_vars

-------------------------------------------------------------------------------
(* parseAnthropicFull on the first n blocks.                               *)

Value(i) == [k \in 1..content[i].pieces |-> <<i, k>>]

Full[n \in 0..Len(content)] ==
  IF n = 0 THEN NoEntries ELSE Report(Full[n - 1], n, content[n].type, Value(n))

-------------------------------------------------------------------------------
(* Properties.                                                             *)

TypeOK ==
  /\ content \in Seq(Block)
  /\ current \in 0..(Len(content) + 2)
  /\ step \in 0..(MaxPieces + 1)
  /\ damaged \subseteq 0..(Len(content) + 1)
  /\ tooLong \in BOOLEAN /\ usage \subseteq {"input", "output"}
  /\ phase \in {"streaming", "parsed", "failed"}
  /\ DOMAIN blocks \subseteq 1..Len(content)
  /\ DOMAIN result = {"thinking", "text", "tool_use"}

(* The blocks that were stopped.                                           *)
Stopped == {i \in DOMAIN content : i < current}

(* A cut stream gives the rows of the blocks that were stopped, whole and  *)
(* in order, as if they had been the message, and nothing of the block     *)
(* that was cut; a complete stream gives the rows and the usage of the     *)
(* full parser; and a line that is too long gives an error, not a part.    *)
SameAsFull ==
  phase = "parsed" /\ damaged = {} =>
    /\ result = Full[Cardinality(Stopped)]
    /\ current > Len(content) + 1 => usage = {"input", "output"}

Entries == {result.thinking[k] : k \in DOMAIN result.thinking} \cup
           {result.text[k] : k \in DOMAIN result.text} \cup
           {result.tool_use[k].input : k \in DOMAIN result.tool_use}

(* A skipped event hurts its own block only: every other block that was    *)
(* stopped where the scanner still read is reported whole, and no entry    *)
(* mixes the pieces of two blocks or changes their order.                  *)
DamageIsLocal ==
  /\ ~tooLong => \A i \in Stopped :
       /\ i \notin damaged /\ content[i].type \in {"thinking", "text"}
          /\ content[i].pieces > 0 => Value(i) \in Entries
       /\ i \notin damaged /\ content[i].type = "tool_use" =>
            \E k \in DOMAIN result.tool_use :
              result.tool_use[k] =
                ToolCall(i, IF content[i].pieces = 0 THEN Braces ELSE Value(i))
  /\ \A entry \in Entries \ {Braces} :
       \A k, l \in DOMAIN entry :
         entry[k][1] = entry[l][1] /\ (k < l => entry[k][2] < entry[l][2])
===============================================================================
