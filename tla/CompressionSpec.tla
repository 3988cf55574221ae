---------------------------- MODULE CompressionSpec ----------------------------
(***************************************************************************)
(* What the compression engine promises to the handler of a request: the   *)
(* pieces of text of the request come back in order, each one replaced by  *)
(* a value that is a function of the text, the mode and the setting alone, *)
(* and never by something longer than the text.  No cache is visible.      *)
(* CompressionCache is shown to implement this specification.              *)
(***************************************************************************)
EXTENDS Naturals, Sequences

CONSTANTS
  Requests,   \* the handlers that compress a request
  Texts,      \* the texts found in message contents
  Settings,   \* the (profile, level) pairs a request is compressed under
  WorkLists,  \* the sequences of pieces a request may hand to the engine
  Growing     \* the calls on which the rule pipeline returns a longer text

VARIABLES
  work,       \* work[r]: the pieces of request r, in order
  setting,    \* setting[r]: the profile and level of request r
  output      \* output[r]: the texts given back so far

vars == <<work, setting, output>>

\* "Fail-closed: never return a longer string than the input" (engine.rs:329).
Compress(text, mode, s) ==
  IF <<text, mode, s>> \in Growing THEN <<"original", text>>
                                   ELSE <<"compressed", <<text, mode, s>>>>

Init ==
  /\ work \in [Requests -> WorkLists]
  /\ setting \in [Requests -> Settings]
  /\ output = [r \in Requests |-> <<>>]

Reply(r) ==
  /\ Len(output[r]) < Len(work[r])
  /\ LET piece == work[r][Len(output[r]) + 1] IN
       output' = [output EXCEPT ![r] =
                    Append(@, Compress(piece.text, piece.mode, setting[r]))]
  /\ UNCHANGED <<work, setting>>

Next == \E r \in Requests : Reply(r)

Spec == Init /\ [][Next]_vars
================================================================================
