----------------------------- MODULE RequestAudit -----------------------------
(***************************************************************************)
(* What is stored of a request: buildScrubber in cmd/proxy/main.go,        *)
(* internal/audit/scrubber.go and internal/parser/request.go.  TurnAudit   *)
(* puts the two actions where main and RoundTrip have them.  RequestBody   *)
(* says what texts, patterns and bodies are.                               *)
(*                                                                         *)
(* An operator named for what is wrong with it (ReplaceFirstOnly) is a     *)
(* mutation of the definition it precedes; no specification uses it.       *)
(***************************************************************************)
EXTENDS Naturals, SequencesExt, RequestBody

CONSTANTS
  Rules,                \* values of AUDIT_SCRUB_PATTERNS: sequences of rules
  Accepts(_, _),        \* Go's regexp: whether an expression matches what is sighted
  Prefers(_, _)         \* at one place, and which of those it takes

(* The marker, of three atoms: a pattern can match inside it.              *)
Redacted == <<"[", "REDACTED", "]">>

VARIABLES
  rules,                \* the configured rules
  capture,              \* AUDIT_CAPTURE_REQUESTS
  pc,                   \* "start", "refused", "serving", "stored"
  patterns,             \* PatternScrubber.patterns
  body,                 \* the request's body
  result                \* RequestResult

vars == <<rules, capture, pc, patterns, body, result>>

NoResult == [user_messages |-> << >>, raw |-> << >>, captured |-> FALSE]

Init ==
  /\ rules \in Rules /\ capture \in BOOLEAN
  /\ pc = "start" /\ patterns = << >>
  /\ body = OtherBody /\ result = NoResult

-------------------------------------------------------------------------------
(* SelectSeq, in a form that proofs can unfold.                            *)
Where(seq, Keep(_)) ==
  FlattenSeq([i \in DOMAIN seq |-> IF Keep(seq[i]) THEN << seq[i] >> ELSE << >>])

(* The scrubber.                                                           *)

Occurs(text, in) ==
  \E i \in DOMAIN in : i + Len(text) - 1 \in DOMAIN in
                       /\ SubSeq(in, i, i + Len(text) - 1) = text

(* What an expression can see at a place of a text: the next n atoms and,  *)
(* if it looks, what is around them.                                       *)
Edge == "edge"

Beside(pattern, in, i) == IF pattern.looks /\ i \in DOMAIN in THEN in[i] ELSE Edge

Sighting(pattern, in, i, n) ==
  [word |-> SubSeq(in, i, i + n - 1),
   before |-> Beside(pattern, in, i - 1), after |-> Beside(pattern, in, i + n)]

Found(pattern, in, i) ==
  {s \in {Sighting(pattern, in, i, n) : n \in 0..(Len(in) + 1 - i)} :
     Range(s.word) \subseteq pattern.takes /\ Accepts(pattern.exp, s)}

(* The length of the match that the engine takes.                          *)
Taken(pattern, found) ==
  LET best == Prefers(pattern.exp, found)
  IN  Len((IF best \in found THEN best ELSE CHOOSE s \in found : TRUE).word)

ReplaceFirstOnly(in, pattern) ==
  LET at == {i \in DOMAIN in : Found(pattern, in, i) # {}}
      i == CHOOSE i \in at : \A j \in at : i <= j
  IN  IF at = {} THEN in
      ELSE SubSeq(in, 1, i - 1) \o Redacted
             \o SubSeq(in, i + Taken(pattern, Found(pattern, in, i)), Len(in))

ReplaceOneTooMany(in, pattern) ==
  LET from[i \in 1..(Len(in) + 2)] ==
        IF i > Len(in) THEN << >>
        ELSE IF Found(pattern, in, i) # {}
          THEN Redacted \o from[i + Taken(pattern, Found(pattern, in, i)) + 1]
          ELSE <<in[i]>> \o from[i + 1]
  IN  from[1]

(* Leftmost matches that do not overlap, from each position, and fresh     *)
(* where no match has just ended: an empty one there is replaced too.      *)
ReplaceAllString(in, pattern) ==
  LET from[at \in (1..(Len(in) + 1)) \X BOOLEAN] ==
        LET i == at[1]
            fresh == at[2]
            found == Found(pattern, in, i)
            n == IF found = {} THEN 0 ELSE Taken(pattern, found)
            keep == IF i > Len(in) THEN << >> ELSE <<in[i]>> \o from[<<i + 1, TRUE>>]
        IN  IF n > 0 THEN Redacted \o from[<<i + n, FALSE>>]
            ELSE IF fresh /\ found # {} THEN Redacted \o keep
            ELSE keep
  IN  from[<<1, TRUE>>]

(* Every pattern in order, each on what the ones before it left.           *)
Scrub(text) ==
  LET after[n \in 0..Len(patterns)] ==
        IF n = 0 THEN text ELSE ReplaceAllString(after[n - 1], patterns[n])
  IN  after[Len(patterns)]

(* strings.Split at every comma.                                           *)
Pieces == FlattenSeq([i \in DOMAIN rules |-> rules[i].pieces])

NonBlank == Where(Pieces, LAMBDA p : p.exp # "")

(* buildScrubber; main exits when it returns an error.                     *)
BuildScrubber ==
  /\ pc = "start"
  /\ IF \A i \in DOMAIN NonBlank : NonBlank[i].valid
       THEN /\ pc' = "serving"
            /\ patterns' = NonBlank
       ELSE /\ pc' = "refused"
            /\ UNCHANGED patterns
  /\ UNCHANGED <<rules, capture, body, result>>

-------------------------------------------------------------------------------
(* The request parser.                                                     *)

(* Encoding a text in JSON, where an escape may bring in a letter, and the *)
(* body that holds the texts of b.                                         *)
Escape(atom) ==
  CASE atom = "quote"   -> <<"\\", "quote">>
    [] atom = "newline" -> <<"\\", "n">>
    [] OTHER            -> <<atom>>

Encode(text) == FlattenSeq([i \in DOMAIN text |-> Escape(text[i])])

Raw(b) ==
  LET texts == FlattenSeq([i \in DOMAIN b.messages |-> b.messages[i].content.texts])
  IN  <<"{">> \o FlattenSeq([i \in DOMAIN texts |-> Encode(texts[i]) \o <<",">>]) \o <<"}">>

TextsOfContent(c) ==
  IF c.kind = "malformed" THEN << >> ELSE Where(c.texts, LAMBDA t : t # << >>)

UserTextsUntilMalformed(b) ==
  LET ok == Where(b.messages, LAMBDA msg : msg.role = "user")
      bad == {i \in DOMAIN ok : ok[i].content.kind = "malformed"}
  IN  IF bad # {} THEN << >>
      ELSE FlattenSeq([i \in DOMAIN ok |-> TextsOfContent(ok[i].content)])

TextsOfMessage(msg) == IF msg.role = "user" THEN TextsOfContent(msg.content) ELSE << >>

UserTexts(b) == FlattenSeq([i \in DOMAIN b.messages |-> TextsOfMessage(b.messages[i])])

ResultRawAsSent(b) ==
  IF ~capture
    THEN [user_messages |-> << >>, raw |-> <<"[request capture disabled]">>, captured |-> FALSE]
    ELSE [user_messages |-> [i \in DOMAIN UserTexts(b) |-> Scrub(UserTexts(b)[i])],
          raw |-> Raw(b), captured |-> TRUE]

Result(b) ==
  IF ~capture
    THEN [user_messages |-> << >>, raw |-> <<"[request capture disabled]">>, captured |-> FALSE]
    ELSE [user_messages |-> [i \in DOMAIN UserTexts(b) |-> Scrub(UserTexts(b)[i])],
          raw |-> Scrub(Raw(b)), captured |-> TRUE]

(* ParseRequest on body b, in the request's audit goroutine.  Requests     *)
(* share nothing but the patterns, so that one is enough.                  *)
ParseRequest(b) ==
  /\ pc = "serving"
  /\ body' = b /\ result' = Result(b)
  /\ pc' = "stored"
  /\ UNCHANGED <<rules, capture, patterns>>

-------------------------------------------------------------------------------
(* Properties.                                                             *)

stored == result.user_messages \o <<result.raw>>

TypeOK ==
  /\ rules \in Rules /\ capture \in BOOLEAN
  /\ pc \in {"start", "refused", "serving", "stored"}
  /\ \A i \in DOMAIN patterns : patterns[i].valid /\ patterns[i].exp # ""
  /\ body.shape \in {"messages", "other"}
  /\ result.captured => pc = "stored" /\ capture

Count(atom, in) == Cardinality({i \in DOMAIN in : in[i] = atom})

HasMatch(pattern, in) == \E i \in 1..(Len(in) + 1) : Found(pattern, in, i) # {}

(* No match can be in the marker, overlap it, or depend on one nearby.     *)
IgnoresMarkers(pattern) ==
  ~pattern.looks /\ pattern.takes \cap {"[", "]"} = {} /\ ~HasMatch(pattern, Redacted)

(* What is stored is what was sent less the matches.  A pattern that the   *)
(* marker cannot make match has no match in anything that is stored,       *)
(* whatever the patterns after it replace; others can, as a.*b does when a *)
(* later \n has put a marker between a and b.  And an atom that no pattern *)
(* takes is stored in raw as often as it was sent.                         *)
OnlyMatchesRedacted ==
  pc = "stored" /\ capture =>
    /\ \A i \in DOMAIN patterns, j \in DOMAIN stored :
         IgnoresMarkers(patterns[i]) => ~HasMatch(patterns[i], stored[j])
    /\ \A atom \in Range(Raw(body)) \ Range(Redacted) :
         (\A i \in DOMAIN patterns : atom \notin patterns[i].takes) =>
           Count(atom, result.raw) = Count(atom, Raw(body))

(* The atoms of a text that JSON escapes, and what they become.            *)
Escaped(text) ==
  UNION {{atom} \cup Range(Escape(atom)) : atom \in {a \in Range(text) : Escape(a) # <<a>>}}

(* Whether a pattern sees the same in a message and in the body around it: *)
(* none of its matches leaves the message, or gets into an escape.         *)
SeesAlike(pattern, text) ==
  /\ ~pattern.looks
  /\ pattern.takes \cap ({"{", ",", "}"} \cup Escaped(text)) = {}
  /\ Escaped(text) # {} => ~HasMatch(pattern, << >>)

(* The two columns agree on a message if every pattern sees the same in    *)
(* both.  One that looks around (^secret, \bkey), that takes the quotation *)
(* mark after the text (key=\S+), or that matches in an escape, may redact *)
(* one column and not the other.                                           *)
ColumnsAgree ==
  \A i \in DOMAIN result.user_messages :
    (\A j \in DOMAIN patterns : SeesAlike(patterns[j], UserTexts(body)[i])) =>
      Occurs(Encode(result.user_messages[i]), result.raw)

WellFormed(messages) == Where(messages, LAMBDA msg : msg.content.kind # "malformed")

(* A message whose content has an unexpected shape costs its own texts and *)
(* no other message's.                                                     *)
DamageIsLocal ==
  pc = "stored" =>
    result.user_messages = Result(Body(WellFormed(body.messages))).user_messages

(* "Each is a standard Go regexp; any match in user message content [...]  *)
(* is replaced": what a rule matches as it is written is not stored.       *)
RulesRedacted ==
  \A i \in DOMAIN rules, j \in DOMAIN result.user_messages :
    ~Occurs(rules[i].matches, result.user_messages[j])
===============================================================================
