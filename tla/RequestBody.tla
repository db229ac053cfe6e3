------------------------------ MODULE RequestBody ------------------------------
(***************************************************************************)
(* The data of RequestAudit: AUDIT_SCRUB_PATTERNS and request bodies.      *)
(*                                                                         *)
(* A text is a sequence of atoms, each a character or a run of characters. *)
(* "quote" and "newline" are characters that JSON escapes; "{", "," and    *)
(* "}" stand for the JSON before, between and after the texts, of which a  *)
(* quotation mark is what is next to a text.                               *)
(***************************************************************************)

(* A regular expression: what its matches can be made of, and whether it   *)
(* looks at what is around them (^, $, \b).  A blank one has no exp.       *)
Regexp(exp, takes, looks) == [valid |-> TRUE, exp |-> exp, takes |-> takes, looks |-> looks]
Blank                     == Regexp("", {}, FALSE)
Invalid                   == [Regexp("(", {}, FALSE) EXCEPT !.valid = FALSE]

(* A rule as the operator means it: a text it matches, and the regular     *)
(* expressions that the commas in it leave.                                *)
Rule(matches, pieces) == [matches |-> matches, pieces |-> pieces]

(* A body: the JSON it is, if it is JSON of the expected shape, with its   *)
(* messages; content is a string, blocks, or neither.                      *)
Body(messages)         == [shape |-> "messages", messages |-> messages]
OtherBody              == [shape |-> "other", messages |-> << >>]
Message(role, content) == [role |-> role, content |-> content]
Text(text)             == [kind |-> "string", texts |-> <<text>>]
Blocks(texts)          == [kind |-> "blocks", texts |-> texts]
Malformed(texts)       == [kind |-> "malformed", texts |-> texts]
===============================================================================
