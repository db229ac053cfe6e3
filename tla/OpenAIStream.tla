---------------------------- MODULE OpenAIStream ----------------------------
(***************************************************************************)
(* internal/parser/openai.go: one chat completion, streamed as SSE chunks  *)
(* and replayed by parseOpenAIStream, against what parseOpenAIFull makes   *)
(* of the same completion sent as one JSON object.                         *)
(*                                                                         *)
(* A completion has choices; a choice has text and tool calls.  Strings    *)
(* are sequences of the pieces they are streamed in: <<c, k>> is the k-th  *)
(* piece of the text of choice c, <<c, i, k>> the k-th piece of the        *)
(* arguments of its i-th tool call, whose name comes whole with its first  *)
(* fragment and is <<c, i>>.  A last chunk without choices may carry the   *)
(* token usage.  A chunk may be longer than the 64 KB that a line of the   *)
(* scanner can have.  The model's name is left out.                        *)
(*                                                                         *)
(* An operator named for what is wrong with it (WriteOverwriting) is a     *)
(* mutation of the definition it precedes; no specification uses it.       *)
(***************************************************************************)
EXTENDS Naturals, Sequences, FiniteSets, SequencesExt

CONSTANTS
  NumChoices,           \* choices of the completion (the request's n), at least 1
  MaxCalls,             \* bound on the tool calls of a choice
  MaxPieces             \* bound on the pieces of a string

Choice == 1..NumChoices

VARIABLES
  texts,                \* [Choice -> pieces of the text]
  calls,                \* [Choice -> Seq of the pieces of each call's arguments]
  sentText,             \* [Choice -> pieces of the text streamed]
  sentCalls,            \* [Choice -> Seq of fragments streamed, 0 before the name]
  usageSent,            \* the chunk with the usage was streamed
  lost,                 \* what a skipped chunk was of: <<c, 0>> the text of choice c,
                        \* <<c, i>> its i-th call, <<0, 0>> the usage
  tooLong,              \* a line was too long: the scanner stopped there
  phase,                \* "streaming", "parsed", "failed" (an error is returned)
  usage,                \* the parser's result.Usage was set
  textBuf,              \* the parser's text buffer
  fragments             \* the parser's tool call fragments, by index

completion == <<texts, calls>>
stream == <<sentText, sentCalls, usageSent, lost, tooLong>>
parser == <<usage, textBuf, fragments>>
vars == <<completion, stream, phase, parser>>

ToolCall(name, args) == [name |-> name, args |-> args]

(* The text "{}" that stands for missing arguments.                        *)
Braces == << <<0, 0, 0>> >>
OrBraces(args) == IF args = <<>> THEN Braces ELSE args

Name(c, i) == << <<c, i>> >>
Pieces(c, i, n) == [k \in 1..n |-> <<c, i, k>>]

Init ==
  /\ texts \in [Choice -> 0..MaxPieces]
  /\ calls \in [Choice -> UNION {[1..n -> 0..MaxPieces] : n \in 0..MaxCalls}]
  /\ sentText = [c \in Choice |-> 0]
  /\ sentCalls = [c \in Choice |-> [i \in DOMAIN calls[c] |-> 0]]
  /\ usageSent = FALSE /\ lost = {} /\ tooLong = FALSE
  /\ phase = "streaming"
  /\ usage = FALSE
  /\ textBuf = <<>>
  /\ fragments = << >>

-------------------------------------------------------------------------------
(* The chunks.  Calls start in the order of their indices, which count     *)
(* from 0 in each choice; fragments of different calls may alternate.      *)

NextText(c) ==
  /\ phase = "streaming"
  /\ sentText[c] < texts[c]
  /\ sentText' = [sentText EXCEPT ![c] = @ + 1]
  /\ UNCHANGED <<completion, sentCalls, usageSent, phase>>

NextFragment(c, i) ==
  /\ phase = "streaming"
  /\ sentCalls[c][i] <= calls[c][i]
  /\ \A j \in 1..(i - 1) : sentCalls[c][j] > 0
  /\ sentCalls' = [sentCalls EXCEPT ![c][i] = @ + 1]
  /\ UNCHANGED <<completion, sentText, usageSent, phase>>

AllSent ==
  /\ sentText = texts
  /\ \A c \in Choice : \A i \in DOMAIN calls[c] : sentCalls[c][i] = calls[c][i] + 1

NextUsage ==
  /\ phase = "streaming"
  /\ AllSent /\ ~usageSent
  /\ usageSent' = TRUE
  /\ UNCHANGED <<completion, sentText, sentCalls, phase>>

NextChunk ==
  \/ \E c \in Choice : NextText(c)
  \/ \E c \in Choice : \E i \in DOMAIN calls[c] : NextFragment(c, i)
  \/ NextUsage

(* The parser reads the chunk.                                             *)
Read == ~tooLong /\ UNCHANGED <<lost, tooLong>>

(* A tool call's buffers, found or created under its index alone.          *)
Fragment(index) ==
  IF index \in DOMAIN fragments THEN fragments[index] ELSE ToolCall(<<>>, <<>>)

WriteOverwriting(index, name, args) ==
  LET frag == Fragment(index)
  IN  fragments' = [x \in DOMAIN fragments \cup {index} |->
        IF x = index THEN ToolCall(frag.name \o name, args) ELSE fragments[x]]

Write(index, name, args) ==
  LET frag == Fragment(index)
  IN  fragments' = [x \in DOMAIN fragments \cup {index} |->
        IF x = index THEN ToolCall(frag.name \o name, frag.args \o args)
                     ELSE fragments[x]]

TextChunk(c) ==
  /\ NextText(c) /\ Read
  /\ textBuf' = Append(textBuf, <<c, sentText'[c]>>)
  /\ UNCHANGED <<usage, fragments>>

CallChunkFromOne(c, i) ==
  /\ NextFragment(c, i) /\ Read
  /\ LET k == sentCalls[c][i]
     IN  Write(i, IF k = 0 THEN Name(c, i) ELSE <<>>,
                  IF k = 0 THEN <<>> ELSE << <<c, i, k>> >>)
  /\ UNCHANGED <<usage, textBuf>>

CallChunkIgnoringIndex(c, i) ==
  /\ NextFragment(c, i) /\ Read
  /\ LET k == sentCalls[c][i]
     IN  Write(0, IF k = 0 THEN Name(c, i) ELSE <<>>,
                  IF k = 0 THEN <<>> ELSE << <<c, i, k>> >>)
  /\ UNCHANGED <<usage, textBuf>>

CallChunk(c, i) ==
  /\ NextFragment(c, i) /\ Read
  /\ LET k == sentCalls[c][i]
     IN  Write(i - 1, IF k = 0 THEN Name(c, i) ELSE <<>>,
                      IF k = 0 THEN <<>> ELSE << <<c, i, k>> >>)
  /\ UNCHANGED <<usage, textBuf>>

(* The last chunk has no choices.                                          *)
UsageChunk ==
  /\ NextUsage /\ Read
  /\ usage' = TRUE
  /\ UNCHANGED <<textBuf, fragments>>

(* json.Unmarshal fails on the chunk: it is skipped without a trace.       *)
SkippedChunk ==
  /\ ~tooLong
  /\ \/ \E c \in Choice : NextText(c) /\ lost' = lost \cup {<<c, 0>>}
     \/ \E c \in Choice : \E i \in DOMAIN calls[c] :
          NextFragment(c, i) /\ lost' = lost \cup {<<c, i>>}
     \/ NextUsage /\ lost' = lost \cup {<<0, 0>>}
  /\ UNCHANGED <<tooLong, parser>>

(* A line that is too long, and every one after it: none is scanned.       *)
UnscannedChunk ==
  /\ NextChunk
  /\ tooLong' = TRUE
  /\ UNCHANGED <<lost, parser>>

EndOfBodyIgnoringError ==
  /\ phase = "streaming"
  /\ phase' = "parsed"
  /\ UNCHANGED <<completion, stream, parser>>

(* The end of the captured body, wherever the stream was cut: a result, or *)
(* scanner.Err and no result.                                              *)
EndOfBody ==
  /\ phase = "streaming"
  /\ phase' = IF tooLong THEN "failed" ELSE "parsed"
  /\ UNCHANGED <<completion, stream, parser>>

Next ==
  \/ \E c \in Choice : TextChunk(c)
  \/ \E c \in Choice : \E i \in DOMAIN calls[c] : CallChunk(c, i)
  \/ UsageChunk
  \/ SkippedChunk
  \/ UnscannedChunk
  \/ EndOfBody

Spec == Init /\ [][Next]_vars

-------------------------------------------------------------------------------
(* What the two parsers return.                                            *)

(* for i := 0; i < len(fragments); i++, skipping the indices that are not  *)
(* there.                                                                  *)
ReachedUntilGap == {x \in DOMAIN fragments : 0..x \subseteq DOMAIN fragments}

Reached == {x \in DOMAIN fragments : x < Cardinality(DOMAIN fragments)}

Nth(S, n) == CHOOSE x \in S : Cardinality({y \in S : y < x}) = n - 1

EmittedIndices == [n \in 1..Cardinality(Reached) |-> Nth(Reached, n)]

StreamTools ==
  [n \in DOMAIN EmittedIndices |->
     LET frag == fragments[EmittedIndices[n]]
     IN  ToolCall(frag.name, OrBraces(frag.args))]

StreamTexts == IF textBuf = <<>> THEN <<>> ELSE <<textBuf>>

FullTools ==
  FlattenSeq([c \in Choice |->
    [i \in DOMAIN calls[c] |->
       ToolCall(Name(c, i), OrBraces(Pieces(c, i, calls[c][i])))]])

FullTexts ==
  FlattenSeq([c \in Choice |->
    IF texts[c] = 0 THEN <<>> ELSE << [k \in 1..texts[c] |-> <<c, k>>] >>])

-------------------------------------------------------------------------------
(* Properties.                                                             *)

TypeOK ==
  /\ sentText \in [Choice -> 0..MaxPieces]
  /\ \A c \in Choice : sentCalls[c] \in [DOMAIN calls[c] -> 0..(MaxPieces + 1)]
  /\ {usageSent, tooLong, usage} \subseteq BOOLEAN
  /\ lost \subseteq (0..NumChoices) \X (0..MaxCalls)
  /\ phase \in {"streaming", "parsed", "failed"}
  /\ DOMAIN fragments \subseteq 0..(MaxCalls - 1)
  /\ \A x \in DOMAIN fragments : DOMAIN fragments[x] = {"name", "args"}

Complete == AllSent /\ lost = {}

(* A completion gives the same audit rows streamed or not, however the     *)
(* fragments of its text and of its calls alternate, and the same usage if *)
(* upstream sent it; or, with a line that is too long, an error.           *)
SameAsFull ==
  phase = "parsed" /\ Complete =>
    /\ StreamTools = FullTools /\ StreamTexts = FullTexts
    /\ usage = usageSent

(* A stream that is cut yields one row for each call that had started, in  *)
(* order, with the arguments that came.                                    *)
CutStream ==
  phase = "parsed" /\ lost = {} =>
    \A c \in Choice :
      LET started == {i \in DOMAIN calls[c] : sentCalls[c][i] > 0}
      IN  StreamTools = [i \in 1..Cardinality(started) |->
            ToolCall(Name(c, i), OrBraces(Pieces(c, i, sentCalls[c][i] - 1)))]

(* Whatever chunks are skipped, a row never mixes two calls, and keeps the *)
(* order of the pieces it has.                                             *)
RowsUnmixed ==
  \A n \in DOMAIN StreamTools :
    LET row == StreamTools[n]
    IN  \/ row.args = Braces
        \/ \E c \in Choice : \E i \in DOMAIN calls[c] :
             /\ row.name \in {<<>>, Name(c, i)}
             /\ \A k \in DOMAIN row.args : row.args[k] \in {<<c, i, p>> : p \in 1..MaxPieces}
             /\ \A k, l \in DOMAIN row.args : k < l => row.args[k][3] < row.args[l][3]

(* The row of a call for what was streamed of it.                          *)
RowSoFar(c, i) == ToolCall(Name(c, i), OrBraces(Pieces(c, i, sentCalls[c][i] - 1)))

(* What a skipped chunk costs beyond the text, the call or the usage it    *)
(* belongs to: the last calls lose their rows, at most one for each call   *)
(* before them of which no chunk was read, because the loop ends at the    *)
(* number of fragments and not at their highest index.  The text, the      *)
(* usage and every other call keep all that was streamed of them.          *)
LossIsLocal ==
  ~tooLong => \A c \in Choice :
    /\ \A i \in DOMAIN calls[c] :
         sentCalls[c][i] > 0 /\ <<c, i>> \notin lost =>
           ((\E n \in DOMAIN StreamTools : StreamTools[n] = RowSoFar(c, i))
              <=> i <= Cardinality(DOMAIN fragments))
    /\ <<c, 0>> \notin lost => textBuf = [k \in 1..sentText[c] |-> <<c, k>>]
    /\ <<0, 0>> \notin lost => usage = usageSent

(* "One row per tool call", of every choice.                               *)
OneRowPerCall ==
  phase = "parsed" /\ Complete => Len(StreamTools) = Len(FullTools)
===============================================================================
