-------------------------- MODULE MCCompressionCache --------------------------
(***************************************************************************)
(* Two handlers over a cache of two entries.  Text "a" is found as a user  *)
(* message and as an old assistant message, "b" is plain prose, "grow" is  *)
(* lengthened by the pipeline and "huge" is above the cacheable size.      *)
(***************************************************************************)
EXTENDS CompressionCache, TLC

CONSTANTS a, b, grow, huge, r1, r2, s1, s2

Ask(t) == [text |-> t, mode |-> "request"]
Answer(t) == [text |-> t, mode |-> "response"]

MCTexts == {a, b, grow, huge}
MCPieces == {Ask(a), Answer(a), Ask(b), Ask(grow)}
MCWorkLists == [1..2 -> MCPieces] \cup {<<p, q, p>> : p \in {Ask(a), Answer(a)}, q \in MCPieces}
               \cup {<<Ask(huge), Ask(a)>>, <<Ask(b), Ask(huge)>>}
\* Settings and handlers are interchangeable: nothing below tells them apart.
MCRuleHits ==
  [c \in Call |-> IF c[1] = b THEN 2 ELSE IF c[2] = "response" THEN 0 ELSE 1]
Symmetry == Permutations({r1, r2}) \cup Permutations({s1, s2})
MCGrowing == {c \in Call : c[1] = grow}
================================================================================
