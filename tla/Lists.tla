------------------------------- MODULE Lists -------------------------------
(***************************************************************************)
(* The filter of the program's lists, by a set rather than by a test, as a *)
(* recursive function: what it returns can be proved about.                *)
(***************************************************************************)
EXTENDS Naturals, Sequences

\* The members of a list that are in a set, in their order.
Only(list, set) ==
  LET kept[i \in 0..Len(list)] ==
        IF i = 0 THEN <<>>
        ELSE IF list[i] \in set THEN Append(kept[i - 1], list[i])
        ELSE kept[i - 1]
  IN  kept[Len(list)]
============================================================================
