---------------------------- MODULE MCSemanticStage ----------------------------
(***************************************************************************)
(* Three handlers, a cache of two condensations, two scopes.  "ask" and    *)
(* "ASK" are one prompt in two spellings; the long history is the short    *)
(* one a turn later, with a tool call whose content is an array of blocks. *)
(***************************************************************************)
EXTENDS SemanticStage, TLC

CONSTANTS ask, ASK, tool, u1, u2, r1, r2, r3

String(w) == [kind |-> "string", words |-> w]
Blocks(w) == [kind |-> "blocks", words |-> w]
short == <<String(ask)>>
long == <<String(ask), Blocks(tool)>>

MCSystems == {ask, ASK}
MCHistories == {short, long}
MCNorm == (ask :> "ask") @@ (ASK :> "ask") @@ (tool :> "tool")
Job(s, sys, h) == [scope |-> s, system |-> sys, history |-> h]
MCJobs == {Job(u1, ask, short), Job(u1, ASK, None), Job(u2, ask, None), Job(u1, None, long)}
================================================================================
