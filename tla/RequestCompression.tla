--------------------------- MODULE RequestCompression ---------------------------
(***************************************************************************)
(* compress_request (src/compression/engine.rs:593-676), the last stage of *)
(* run_pipeline: which rules each part of each message goes through.  The  *)
(* pipeline hands over what the stages of MessageHistory have left of the  *)
(* conversation.  At level 0 no rule runs; that is not an action here.     *)
(*                                                                         *)
(* A part is the text of a message, its tool calls or its tool results; it *)
(* is "kept" byte for byte, or goes through the rules for a "request" or   *)
(* the lighter ones for an old "response".                                 *)
(***************************************************************************)
EXTENDS MessageHistory, FiniteSets

CONSTANTS
  Width,     \* the width of usize in bits
  Ages       \* the values of x-nyquest-response-age and of the config in use

ASSUME AgesAssumption == Width \in Nat /\ Ages \subseteq 0..2 ^ Width - 1

VARIABLES
  sent,      \* the messages of the last request, as they came to the engine
  treated,   \* treated[i]: the rules each part of message i went through
  age,       \* response_age of that request
  whole      \* no stage had cut that request

allVars == <<api, history, turns, stage, working, cuts, sent, treated, age, whole>>
engineVars == <<sent, treated, age, whole>>

Rules == {"kept", "request", "response"}

COMPRESSIBLE_ROLES == {"user", "system", "tool"}

\* compress_message: tool_use blocks are never touched; a tool_result has its
\* content compressed.  Any other role is left alone.
compress_message(m) ==
  LET rules == IF m.role \in COMPRESSIBLE_ROLES THEN "request" ELSE "kept"
  IN  [text |-> rules, uses |-> "kept", results |-> rules]

\* compress_response_message
compress_response_message(m) ==
  [text |-> "response", uses |-> "kept", results |-> "kept"]

Wrap(n) == n % 2 ^ Width
saturating_sub(m, n) == IF n > m THEN 0 ELSE m - n

\* total.saturating_sub(response_age * 2), in the wrapping arithmetic of a
\* release build.  With compress_responses off the cutoff is 0, as for an age
\* beyond any length.
CutoffInTurns(total, a) == saturating_sub(total, a)
response_cutoff(total, a) == saturating_sub(total, Wrap(a * 2))

treatmentOfNewest(messages, i, a) ==
  IF messages[i].role = "assistant" /\ i > response_cutoff(Len(messages), a)
  THEN compress_response_message(messages[i])
  ELSE compress_message(messages[i])
treatment(messages, i, a) ==
  IF messages[i].role = "assistant" /\ i <= response_cutoff(Len(messages), a)
  THEN compress_response_message(messages[i])
  ELSE compress_message(messages[i])

Treated(messages, a) == [i \in 1..Len(messages) |-> treatment(messages, i, a)]

CompressRequest ==
  /\ Engine
  /\ \E a \in Ages :
       /\ age' = a
       /\ treated' = Treated(working, a)
  /\ sent' = working /\ whole' = (cuts = {})

RInit == Init /\ sent = <<>> /\ treated = <<>> /\ age = 0 /\ whole = TRUE

RNext ==
  \/ CompressRequest
  \/ (Pipeline \/ Client) /\ UNCHANGED engineVars

RSpec == RInit /\ [][RNext]_allVars
-------------------------------------------------------------------------------
Fits(a) == a * 2 < 2 ^ Width

\* The answers among sent[i], sent[i + 1], ...
TurnsFrom(i) == {j \in i..Len(sent) : sent[j].role = "assistant"}

Alternating(messages) ==
  \A i \in 1..Len(messages) :
    messages[i].role = IF (Len(messages) - i) % 2 = 0 THEN "user" ELSE "assistant"

\* "Only compress assistant turns older than 4 from the end" (README.md:225):
\* where questions and answers alternate, the newest `age` answers are intact
\* and every older one is compressed, whatever was summarised before them.
NewestTurnsIntactIfAlternating ==
  Alternating(sent) /\ Fits(age) =>
    \A i \in 1..Len(sent) :
      sent[i].role = "assistant" =>
        (treated[i].text = "kept" <=> Cardinality(TurnsFrom(i)) <= age)

\* What one request sends as a compressed answer, the later ones do too, as
\* long as the conversation grows, nothing is cut and the age is left alone:
\* the start of the prompt stays what the provider has cached.
PrefixStaysCached ==
  [][whole /\ whole' /\ age' = age /\ Len(sent') >= Len(sent) =>
       \A i \in 1..Len(sent) : \A j \in 1..Len(sent') :
         sent'[j] = sent[i] /\ treated[i].text = "response"
           => treated'[j].text = "response"]_allVars
===============================================================================
