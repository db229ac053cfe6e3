------------------------------ MODULE MCParsers ------------------------------
(***************************************************************************)
(* The two stream parsers behind extractEvents' switch over the upstream:  *)
(* every OpenAI completion, and every Anthropic message, of a small size.  *)
(***************************************************************************)
EXTENDS Naturals

CONSTANTS NumChoices, MaxCalls, MaxBlocks, MaxPieces

ASSUME BoundsAssumption ==
  NumChoices \in Nat \ {0} /\ MaxCalls \in Nat /\ MaxBlocks \in Nat /\ MaxPieces \in Nat

VARIABLES
  upstream,             \* "openai", "anthropic"
  texts, calls, sentText, sentCalls, usageSent, lost,
  textBuf, fragments,   \* OpenAIStream's alone
  content, current, step, damaged,
  blocks, result,       \* AnthropicStream's alone
  tooLong, phase, usage \* of the parser that is at work

openaiVars == <<texts, calls, sentText, sentCalls, usageSent, lost, textBuf, fragments>>
anthropicVars == <<content, current, step, damaged, blocks, result>>
vars == <<upstream, openaiVars, anthropicVars, tooLong, phase, usage>>

O == INSTANCE OpenAIStream
A == INSTANCE AnthropicStream

NoCompletion ==
  /\ texts = [c \in O!Choice |-> 0] /\ calls = [c \in O!Choice |-> << >>]
  /\ sentText = texts /\ sentCalls = calls
  /\ usageSent = FALSE /\ lost = {}
  /\ textBuf = << >> /\ fragments = << >>

NoMessage ==
  /\ content = << >> /\ current = 0 /\ step = 0 /\ damaged = {}
  /\ blocks = << >> /\ result = A!NoEntries

Init ==
  \/ upstream = "openai" /\ O!Init /\ NoMessage
  \/ upstream = "anthropic" /\ A!Init /\ NoCompletion

Next ==
  \/ upstream = "openai" /\ O!Next /\ UNCHANGED <<upstream, anthropicVars>>
  \/ upstream = "anthropic" /\ A!Next /\ UNCHANGED <<upstream, openaiVars>>

Spec == Init /\ [][Next]_vars

-------------------------------------------------------------------------------
(* Properties, of the parser at work; OpenAIStream and AnthropicStream     *)
(* say what they mean.                                                     *)

Of(openai, anthropic) == IF upstream = "openai" THEN openai ELSE anthropic

TypeOK ==
  /\ upstream \in {"openai", "anthropic"}
  /\ Of(O!TypeOK, A!TypeOK)

(* A response that was streamed whole gives the same rows and usage as the *)
(* same response in one JSON object; one that was cut gives a row for each *)
(* call it started, or the entries of the blocks it finished.              *)
SameAsFull == Of(O!SameAsFull /\ O!CutStream, A!SameAsFull)

(* No row and no entry mixes two calls or two blocks, whatever chunks or   *)
(* events are skipped.  A skipped event of Anthropic's costs its own block *)
(* only; a skipped chunk of OpenAI's costs its own text, call or usage,    *)
(* and, if nothing of its call was read, the row of a later call as well.  *)
DamageIsLocal == Of(O!RowsUnmixed /\ O!LossIsLocal, A!DamageIsLocal)
===============================================================================
