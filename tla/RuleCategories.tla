----------------------------- MODULE RuleCategories -----------------------------
(***************************************************************************)
(* RuleCategory and apply_category_counted (src/compression/rules.rs): an  *)
(* ordered list of rewriting rules applied to a text, with a set of        *)
(* regular expressions that tells beforehand which rules need not be       *)
(* tried.  A rule with lookaround is not in that set, and may give up on   *)
(* a text that takes it too many steps.                                    *)
(***************************************************************************)
EXTENDS Naturals, SequencesExt

CONSTANTS
  Texts,       \* the texts rules rewrite into each other
  MaxRules,    \* bound on the rules of a category
  NoMatch      \* what a rule that does not match makes of a text

VARIABLES
  rules,       \* the category
  original,    \* the text it is applied to
  current,     \* the text so far
  index,       \* the rule to be tried next
  mutated,     \* some rule has matched
  hits,        \* how many have
  gaveUp       \* those that gave up

categoryVars == <<rules, original, current, index, mutated, hits, gaveUp>>

Rule == [fancy : BOOLEAN, out : [Texts -> Texts \cup {NoMatch}]]
Matches(rule, text) == rule.out[text] # NoMatch

\* RuleCategory::new: the rules with a standard pattern, and where each of them
\* stands in the list of all.
set_to_rule == SelectSeq([i \in DOMAIN rules |-> i], LAMBDA i : ~rules[i].fancy)

\* category.set.matches: places in the set, not in the list.
matched == {k \in DOMAIN set_to_rule : Matches(rules[set_to_rule[k]], original)}
RuleAtItself(k) == k
RuleAt(k) == set_to_rule[k]
should_run(i) == \A k \in DOMAIN set_to_rule : RuleAt(k) = i => k \in matched

CategoryInit ==
  /\ rules \in UNION {[1..n -> Rule] : n \in 0..MaxRules}
  /\ original \in Texts /\ current = original
  /\ index = 1 /\ mutated = FALSE /\ hits = 0 /\ gaveUp = {}

\* replace_all_counted, and what the loop makes of it.  A text that is replaced
\* by itself has matched.
Replace(rule) ==
  IF Matches(rule, current)
  THEN current' = rule.out[current] /\ hits' = hits + 1 /\ mutated' = TRUE
  ELSE UNCHANGED <<current, hits, mutated>>

Advance == index <= Len(rules) /\ index' = index + 1
Skip ==
  /\ Advance /\ ~mutated /\ ~should_run(index)
  /\ UNCHANGED <<rules, original, current, mutated, hits, gaveUp>>
Try ==
  /\ Advance /\ (mutated \/ should_run(index))
  /\ Replace(rules[index])
  /\ UNCHANGED <<rules, original, gaveUp>>
GiveUp ==
  /\ Advance /\ (mutated \/ should_run(index)) /\ rules[index].fancy
  /\ gaveUp' = gaveUp \cup {index}
  /\ UNCHANGED <<rules, original, current, mutated, hits>>

CategoryNext == Skip \/ Try \/ GiveUp
CategorySpec == CategoryInit /\ [][CategoryNext]_categoryVars
-------------------------------------------------------------------------------
\* apply_rules_counted: every rule is tried.
Unfiltered ==
  FoldLeft(LAMBDA acc, i :
             IF i \in gaveUp \/ ~Matches(rules[i], acc.text) THEN acc
             ELSE [text |-> rules[i].out[acc.text], hits |-> acc.hits + 1],
           [text |-> original, hits |-> 0], [i \in 1..index - 1 |-> i])

\* "The RegexSet decides which std-regex rules can possibly match ... the rest
\* are skipped": the filter never changes the text or the count, although it
\* looked at the text before any rule had rewritten it.
PrefilterIsExact == [text |-> current, hits |-> hits] = Unfiltered
================================================================================
