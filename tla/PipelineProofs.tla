----------------------------- MODULE PipelineProofs -----------------------------
(***************************************************************************)
(* Proofs about the stages of the request pipeline that AgentMode, Levels  *)
(* and RuleCategories model.                                               *)
(*                                                                         *)
(* A category of rewriting rules, applied with its prefilter.  The         *)
(* prefilter looked at the text before any rule had rewritten it.  It is   *)
(* exact because the filter is only believed while the text is still the   *)
(* one it looked at: that is CategoryInv.  The result of trying every rule *)
(* is a fold of the community modules over as many rules as there are;     *)
(* UnfilteredIsFold gives it a last step.                                  *)
(*                                                                         *)
(* The level a request is compressed at is a step function of the tokens   *)
(* with a ramp in it, so that LevelGrows compares every pair of its pieces.*)
(*                                                                         *)
(* What agent mode does to a conversation.  TalkType says what the agent   *)
(* and its provider have said, which Lists' lemmas carry through the       *)
(* strategies, each of them a map or a filter of the messages.             *)
(*   PrefixHolds: the tools leave sorted, so that the prefix depends only  *)
(*     on whether a tool has been called; and that is known for good from  *)
(*     the request that follows the first call (PrefixInv).                *)
(*   PlaceholdersHold: before repeated tracebacks are replaced, each       *)
(*     message is Calm - it has at most one traceback and no placeholder,  *)
(*     whatever the window, the purge and the pruning took out - so that a *)
(*     placeholder stands where an earlier message has the traceback; and  *)
(*     condensing the file views after it takes no traceback out of one.   *)
(*   CutHolds: every message of a request reflects one of the conversation *)
(*     (Reflects): of each of its parts it has all or, if a strategy has   *)
(*     cut the part, nothing that counts (Left).  What is cut is           *)
(*     determined by how far from the end the turn was (Lost), and a       *)
(*     conversation only gets longer (LostLonger).  RequestInv remembers   *)
(*     how long the conversation was that the last request was made of.    *)
(***************************************************************************)
EXTENDS RuleCategories, Levels, AgentMode, FoldFacts

\* What has been made of a text.
Result == [text : Texts, hits : Nat]
Started(t) == [text |-> t, hits |-> 0]

\* What rule i of the category r makes of a result, if it is not in g.
Applied(r, g, acc, i) ==
  IF i \in g \/ ~Matches(r[i], acc.text) THEN acc
  ELSE [text |-> r[i].out[acc.text], hits |-> acc.hits + 1]
Application(r, g, n) == [p \in (1..n) \X Result |-> Applied(r, g, p[2], p[1])]

\* A rule makes a result of a result.
LEMMA AppliedTyped ==
  ASSUME NEW n \in Nat, NEW r \in [1..n -> Rule], NEW g, NEW acc \in Result, NEW i \in 1..n
  PROVE  Applied(r, g, acc, i) \in Result
BY DEF Applied, Result, Rule, Matches

\* What the first n rules make of t when those in g give up.
FoldFrom(r, g, t, n) == FoldUpTo(Application(r, g, Len(r)), Started(t), n)

\* The first n rules, by the last of them.
LEMMA FoldFromFacts ==
  ASSUME NEW r \in Seq(Rule), NEW g, NEW t \in Texts
  PROVE  /\ FoldFrom(r, g, t, 0) = Started(t)
         /\ \A n \in 0..Len(r) : FoldFrom(r, g, t, n) \in Result
         /\ \A n \in 1..Len(r) :
              FoldFrom(r, g, t, n) = Applied(r, g, FoldFrom(r, g, t, n - 1), n)
<1>0. Len(r) \in Nat /\ r \in [1..Len(r) -> Rule] /\ Started(t) \in Result
  BY DEF Started, Result
<1> DEFINE m == Len(r)
           h == Application(r, g, m)
           start == Started(t)
<1>1. \A i \in 1..m, acc \in Result :
         h[<<i, acc>>] = Applied(r, g, acc, i) /\ Applied(r, g, acc, i) \in Result
  BY <1>0, AppliedTyped DEF Application
<1>2. m \in Nat /\ start \in Result
  BY <1>0
<1> HIDE DEF h, m, start
<1>3. \A n \in 0..m : FoldUpTo(h, start, n) \in Result
  BY <1>1, <1>2, FoldTyped
<1>4. /\ FoldUpTo(h, start, 0) = start
      /\ \A n \in 1..m : FoldUpTo(h, start, n) = h[<<n, FoldUpTo(h, start, n - 1)>>]
  <2>1. FoldsStepwise(h, start, m)
    BY <1>2, FoldUpToFacts
  <2>2. QED
    BY <2>1 DEF FoldsStepwise
<1>5. \A n \in 1..m : n - 1 \in 0..m
  BY <1>2
<1>6. \A n \in 1..m : FoldUpTo(h, start, n) = Applied(r, g, FoldUpTo(h, start, n - 1), n)
  BY <1>1, <1>3, <1>4, <1>5
<1>7. QED
  BY <1>3, <1>4, <1>6 DEF h, m, start, FoldFrom

\* The reference of PrefilterIsExact has tried the rules before index.
LEMMA UnfilteredIsFold ==
  ASSUME rules \in Seq(Rule), original \in Texts, index \in 1..(Len(rules) + 1)
  PROVE  Unfiltered = FoldFrom(rules, gaveUp, original, index - 1)
<1> DEFINE n == index - 1
           q == [i \in 1..index - 1 |-> i]
           start == Started(original)
           h == Application(rules, gaveUp, Len(rules))
           Rec(f) == f = [s \in SUBSET DOMAIN q |->
                            IF s = {} THEN start
                            ELSE Applied(rules, gaveUp, f[s \ {Largest(s)}], q[Largest(s)])]
<1>1. Unfiltered = (CHOOSE f : Rec(f))[DOMAIN q]
  BY DEF Unfiltered, FoldLeft, MapThenFoldSet, Max, Largest, Started, Applied
<1>2. /\ n \in Nat /\ n <= Len(rules) /\ Len(rules) \in Nat /\ DOMAIN q = 1..n
      /\ rules \in [1..Len(rules) -> Rule] /\ start \in Result
  BY DEF Started, Result
<1>3. \A s \in SUBSET (1..n) : s # {} => Largest(s) \in 1..Len(rules) /\ q[Largest(s)] = Largest(s)
  <2> TAKE s \in SUBSET (1..n)
  <2> HAVE s # {}
  <2>1. Largest(s) \in 1..n
    <3> HIDE DEF n
    <3> QED BY <1>2, LargestFacts
  <2>2. QED
    BY <1>2, <2>1
<1>4. \A i \in 1..Len(rules), acc \in Result :
         /\ Applied(rules, gaveUp, acc, i) \in Result
         /\ h[<<i, acc>>] = Applied(rules, gaveUp, acc, i)
  BY <1>2, AppliedTyped DEF Application
<1> HIDE DEF n, q, start, h
<1>5. ASSUME NEW f, Rec(f)
      PROVE  IsFold(f, h, start, n)
  <2>1. \A s \in SUBSET (1..n) : f[s] \in Result
    <3>1. f[{}] \in Result
      BY <1>2, <1>5
    <3>2. \A s \in SUBSET (1..n) :
            s # {} /\ f[s \ {Largest(s)}] \in Result => f[s] \in Result
      <4> TAKE s \in SUBSET (1..n)
      <4> HAVE s # {} /\ f[s \ {Largest(s)}] \in Result
      <4>1. f[s] = Applied(rules, gaveUp, f[s \ {Largest(s)}], q[Largest(s)])
        BY <1>2, <1>5
      <4>2. Largest(s) \in 1..Len(rules) /\ q[Largest(s)] = Largest(s)
        BY <1>3
      <4>3. QED
        BY <1>4, <4>1, <4>2
    <3>3. QED
      BY <1>2, <3>1, <3>2, FoldValuesTyped
  <2>2. \A s \in SUBSET (1..n) :
          s # {} => Applied(rules, gaveUp, f[s \ {Largest(s)}], q[Largest(s)])
                      = h[<<Largest(s), f[s \ {Largest(s)}]>>]
    BY <1>3, <1>4, <2>1
  <2>3. [s \in SUBSET (1..n) |->
           IF s = {} THEN start
           ELSE Applied(rules, gaveUp, f[s \ {Largest(s)}], q[Largest(s)])]
        = [s \in SUBSET (1..n) |->
             IF s = {} THEN start ELSE h[<<Largest(s), f[s \ {Largest(s)}]>>]]
    BY <2>2
  <2>4. QED
    BY <1>2, <1>5, <2>3 DEF IsFold
<1>6. ASSUME NEW f, IsFold(f, h, start, n)
      PROVE  Rec(f)
  <2>1. \A s \in SUBSET (1..n) : f[s] \in Result
    <3>1. f[{}] \in Result
      BY <1>2, <1>6 DEF IsFold
    <3>2. \A s \in SUBSET (1..n) :
            s # {} /\ f[s \ {Largest(s)}] \in Result => f[s] \in Result
      <4>1. \A s \in SUBSET (1..n) :
              s # {} => f[s] = h[<<Largest(s), f[s \ {Largest(s)}]>>]
        BY <1>6 DEF IsFold
      <4>2. \A i \in 1..Len(rules), acc \in Result : h[<<i, acc>>] \in Result
        BY <1>4
      <4>3. \A s \in SUBSET (1..n) : s # {} => Largest(s) \in 1..Len(rules)
        BY <1>3
      <4>4. QED
        BY <4>1, <4>2, <4>3
    <3>3. QED
      BY <1>2, <3>1, <3>2, FoldValuesTyped
  <2>2. \A s \in SUBSET (1..n) :
          s # {} => Applied(rules, gaveUp, f[s \ {Largest(s)}], q[Largest(s)])
                      = h[<<Largest(s), f[s \ {Largest(s)}]>>]
    BY <1>3, <1>4, <2>1
  <2>3. [s \in SUBSET (1..n) |->
           IF s = {} THEN start
           ELSE Applied(rules, gaveUp, f[s \ {Largest(s)}], q[Largest(s)])]
        = [s \in SUBSET (1..n) |->
             IF s = {} THEN start ELSE h[<<Largest(s), f[s \ {Largest(s)}]>>]]
    BY <2>2
  <2>4. QED
    BY <1>2, <1>6, <2>3 DEF IsFold
<1>7. \E f : Rec(f)
  <2> HIDE DEF Rec
  <2>1. PICK f : IsFold(f, h, start, n)
    BY <1>2, FoldExists
  <2>2. QED
    BY <1>6, <2>1
<1>8. IsFold(CHOOSE f : Rec(f), h, start, n)
  <2> HIDE DEF Rec
  <2>1. Rec(CHOOSE f : Rec(f))
    BY <1>7
  <2>2. QED
    BY <1>5, <2>1
<1>9. FoldUpTo(h, start, n) = (CHOOSE f : Rec(f))[1..n]
  <2> HIDE DEF Rec
  <2>1. n \in 0..n
    BY <1>2
  <2>2. QED
    BY <1>2, <1>8, <2>1, FoldIsRecursive
<1>10. Unfiltered = FoldUpTo(h, start, n)
  <2> HIDE DEF Rec
  <2> QED BY <1>1, <1>2, <1>9
<1>11. QED
  BY <1>10 DEF FoldFrom, n, h, start

\* Giving up on a later rule does not change what the earlier ones made.
LEMMA FoldFromAgrees ==
  ASSUME NEW r \in Seq(Rule), NEW t \in Texts, NEW g, NEW k, NEW n \in 0..Len(r),
         \A i \in 1..n : i \in g <=> i \in k
  PROVE  FoldFrom(r, k, t, n) = FoldFrom(r, g, t, n)
<1>0. Len(r) \in Nat /\ r \in [1..Len(r) -> Rule] /\ Started(t) \in Result /\ n \in Nat
  BY DEF Started, Result
<1> DEFINE a == Application(r, g, Len(r))
           b == Application(r, k, Len(r))
           start == Started(t)
<1>1. \A i \in 1..Len(r), acc \in Result :
         /\ a[<<i, acc>>] = Applied(r, g, acc, i)
         /\ b[<<i, acc>>] = Applied(r, k, acc, i)
         /\ Applied(r, g, acc, i) \in Result
  BY <1>0, AppliedTyped DEF Application
<1>2. \A i \in 1..n, acc \in Result : Applied(r, k, acc, i) = Applied(r, g, acc, i)
  BY DEF Applied
<1>3. \A i \in 1..n : i \in 1..Len(r)
  BY <1>0
<1> HIDE DEF a, b
<1>4. \A i \in 1..n, acc \in Result :
         a[<<i, acc>>] \in Result /\ b[<<i, acc>>] = a[<<i, acc>>]
  <2> TAKE i \in 1..n, acc \in Result
  <2>1. i \in 1..Len(r)
    BY <1>3
  <2>2. Applied(r, k, acc, i) = Applied(r, g, acc, i)
    BY <1>2
  <2>3. QED
    BY <1>1, <2>1, <2>2
<1>5. start \in Result
  BY <1>0
<1> HIDE DEF start
<1>6. FoldUpTo(b, start, n) = FoldUpTo(a, start, n)
  <2> DEFINE R == Result
  <2>1. n \in Nat /\ start \in R /\ AgreeOn(a, b, n, R)
    BY <1>0, <1>4, <1>5 DEF AgreeOn
  <2> HIDE DEF R
  <2>2. QED
    BY <2>1, FoldAgree
<1>7. QED
  BY <1>6 DEF FoldFrom, a, b, start
-------------------------------------------------------------------------------
\* Rules have given up only where they were tried.
CategoryType ==
  /\ rules \in Seq(Rule)
  /\ original \in Texts /\ current \in Texts
  /\ index \in 1..(Len(rules) + 1)
  /\ mutated \in BOOLEAN /\ hits \in Nat
  /\ gaveUp \subseteq 1..(index - 1)
\* The filter is believed on the text it looked at, and the loop is where trying
\* every rule would be.
CategoryInv ==
  /\ CategoryType
  /\ ~mutated => current = original
  /\ [text |-> current, hits |-> hits] = FoldFrom(rules, gaveUp, original, index - 1)

\* Before the first rule nothing has been made of the text.
LEMMA CategoryStarts == CategoryInit => CategoryInv
<1> SUFFICES ASSUME CategoryInit PROVE CategoryInv
  OBVIOUS
<1>1. rules \in Seq(Rule)
  BY DEF CategoryInit
<1>a. original \in Texts /\ current = original /\ mutated = FALSE /\ index = 1 /\ hits = 0
      /\ gaveUp = {}
  BY DEF CategoryInit
<1>b. Len(rules) \in Nat
  BY <1>1
<1>c. 1 \in 1..(Len(rules) + 1)
  BY <1>b
<1>2. CategoryType
  BY <1>1, <1>a, <1>c DEF CategoryType
<1>3. index - 1 = 0 /\ hits = 0 /\ current = original
  BY DEF CategoryInit
<1>4. FoldFrom(rules, gaveUp, original, 0) = Started(original)
  BY <1>2, FoldFromFacts DEF CategoryType
<1>5. QED
  BY <1>2, <1>3, <1>4 DEF CategoryInv, Started

\* A rule the filter skips would not have matched.
LEMMA SkippedDoesNotMatch ==
  ASSUME ~mutated => current = original, Skip
  PROVE  ~Matches(rules[index], current)
BY DEF Skip, should_run, matched, RuleAt

\* One rule is skipped, tried or gives up.
LEMMA CategorySteps == CategoryInv /\ [CategoryNext]_categoryVars => CategoryInv'
<1> SUFFICES ASSUME CategoryInv, [CategoryNext]_categoryVars
             PROVE  CategoryInv'
  OBVIOUS
<1> DEFINE acc == [text |-> current, hits |-> hits]
           fold == FoldFrom(rules, gaveUp, original, index - 1)
<1>0. CategoryType /\ (~mutated => current = original) /\ acc = fold /\ acc \in Result
  BY DEF CategoryInv, CategoryType, Result
<1>1. ASSUME CategoryNext
      PROVE  /\ index \in 1..Len(rules) /\ index' = index + 1 /\ index' - 1 = index
             /\ rules' = rules /\ original' = original
             /\ index' \in 1..(Len(rules) + 1)
             /\ rules[index] \in Rule
  <2>1. rules' = rules /\ original' = original /\ index <= Len(rules) /\ index' = index + 1
    BY <1>1 DEF CategoryNext, Skip, Try, GiveUp, Advance
  <2>2. QED
    BY <1>0, <2>1 DEF CategoryType
<1>2. ASSUME CategoryNext
      PROVE  FoldFrom(rules, gaveUp, original, index) = Applied(rules, gaveUp, acc, index)
  <2>1. rules \in Seq(Rule) /\ original \in Texts /\ index \in 1..Len(rules)
    BY <1>0, <1>1, <1>2 DEF CategoryType
  <2>2. \A n \in 1..Len(rules) :
          FoldFrom(rules, gaveUp, original, n)
            = Applied(rules, gaveUp, FoldFrom(rules, gaveUp, original, n - 1), n)
    BY <2>1, FoldFromFacts
  <2>3. QED
    BY <1>0, <2>1, <2>2
<1>3. CASE Skip
  <2>1. ~Matches(rules[index], current)
    BY <1>0, <1>3, SkippedDoesNotMatch
  <2>2. Applied(rules, gaveUp, acc, index) = acc
    BY <2>1 DEF Applied
  <2>3. UNCHANGED <<rules, original, current, mutated, hits, gaveUp>>
    BY <1>3 DEF Skip
  <2>4. CategoryNext
    BY <1>3 DEF CategoryNext
  <2>5. QED
    BY <1>0, <1>1, <1>2, <2>2, <2>3, <2>4 DEF CategoryInv, CategoryType
<1>4. CASE Try
  <2>1. CategoryNext
    BY <1>4 DEF CategoryNext
  <2>2. gaveUp' = gaveUp
    BY <1>4 DEF Try
  <2>3. Replace(rules[index])
    BY <1>4 DEF Try
  <2>4. index \notin gaveUp
    BY <1>0, <1>1, <2>1 DEF CategoryType
  <2>5. index' = index + 1 /\ gaveUp' \subseteq 1..(index' - 1)
    BY <1>0, <1>1, <2>1, <2>2 DEF CategoryType
  <2>6. CASE Matches(rules[index], current)
    <3>1. current' = rules[index].out[current] /\ hits' = hits + 1 /\ mutated' = TRUE
      BY <2>3, <2>6 DEF Replace
    <3>2. Applied(rules, gaveUp, acc, index) = [text |-> current', hits |-> hits']
      BY <2>4, <2>6, <3>1 DEF Applied
    <3>3. current' \in Texts /\ hits' \in Nat
      BY <1>0, <1>1, <2>1, <2>6, <3>1 DEF CategoryType, Rule, Matches
    <3>4. CategoryType'
      BY <1>0, <1>1, <2>1, <2>5, <3>1, <3>3 DEF CategoryType
    <3>5. QED
      BY <1>1, <1>2, <2>1, <2>2, <3>1, <3>2, <3>4 DEF CategoryInv
  <2>7. CASE ~Matches(rules[index], current)
    <3>1. UNCHANGED <<current, hits, mutated>>
      BY <2>3, <2>7 DEF Replace
    <3>2. Applied(rules, gaveUp, acc, index) = acc
      BY <2>7 DEF Applied
    <3>3. CategoryType'
      BY <1>0, <1>1, <2>1, <2>5, <3>1 DEF CategoryType
    <3>4. QED
      BY <1>0, <1>1, <1>2, <2>1, <2>2, <3>1, <3>2, <3>3 DEF CategoryInv
  <2>8. QED
    BY <2>6, <2>7
<1>5. CASE GiveUp
  <2>1. CategoryNext
    BY <1>5 DEF CategoryNext
  <2>2. /\ UNCHANGED <<current, mutated, hits>>
        /\ gaveUp' = gaveUp \cup {index}
    BY <1>5 DEF GiveUp
  <2>3. FoldFrom(rules, gaveUp', original, index - 1) = FoldFrom(rules, gaveUp, original, index - 1)
    <3>1. index - 1 \in 0..Len(rules) /\ \A i \in 1..(index - 1) : i \in gaveUp <=> i \in gaveUp'
      BY <1>1, <2>1, <2>2
    <3>2. QED
      BY <1>0, <3>1, FoldFromAgrees DEF CategoryType
  <2>4. FoldFrom(rules, gaveUp', original, index)
          = Applied(rules, gaveUp', FoldFrom(rules, gaveUp', original, index - 1), index)
    <3>1. rules \in Seq(Rule) /\ original \in Texts /\ index \in 1..Len(rules)
      BY <1>0, <1>1, <2>1 DEF CategoryType
    <3>2. \A n \in 1..Len(rules) :
            FoldFrom(rules, gaveUp', original, n)
              = Applied(rules, gaveUp', FoldFrom(rules, gaveUp', original, n - 1), n)
      BY <3>1, FoldFromFacts
    <3>3. QED
      BY <3>1, <3>2
  <2>5. Applied(rules, gaveUp', acc, index) = acc
    BY <2>2 DEF Applied
  <2>6. QED
    BY <1>0, <1>1, <2>1, <2>2, <2>3, <2>4, <2>5 DEF CategoryInv, CategoryType
<1>6. CASE UNCHANGED categoryVars
  BY <1>6 DEF categoryVars, CategoryInv, CategoryType
<1>7. QED
  BY <1>3, <1>4, <1>5, <1>6 DEF CategoryNext

\* The filter never changes the text or the count: what has been made of the
\* text is what trying every rule would have made of it.
THEOREM PrefilterAlwaysExact == CategorySpec => []PrefilterIsExact
<1>1. CategoryInv => PrefilterIsExact
  BY UnfilteredIsFold DEF CategoryInv, CategoryType, PrefilterIsExact
<1>2. QED
  BY <1>1, CategoryStarts, CategorySteps, PTL DEF CategorySpec
-------------------------------------------------------------------------------
\* The base levels from which the scaled level never falls.
UsualBases == 236..900

\* The sizes of context there are.
Contexts == {200000, 131072, 1000000, 128000}

\* Products with a natural number keep the order.
LEMMA TimesMonotone ==
  ASSUME NEW a \in Nat, NEW x \in Int, NEW y \in Int, x <= y
  PROVE  a * x \in Int /\ a * x <= a * y
OBVIOUS

\* Quotients by a positive number keep the order.
LEMMA QuotientMonotone ==
  ASSUME NEW x \in Int, NEW y \in Int, NEW d \in Nat \ {0}, x <= y
  PROVE  x \div d \in Int /\ x \div d <= y \div d
OBVIOUS

\* The end of the ramp is met exactly.
LEMMA QuotientOfMultiple ==
  ASSUME NEW a \in Int, NEW d \in Nat \ {0}
  PROVE  (a * d) \div d = a
OBVIOUS

\* Every model has one of these contexts.
LEMMA ContextTyped ==
  ASSUME NEW f
  PROVE  max_context(f) \in Contexts
BY DEF max_context, Contexts

\* auto_scale_level before it is clamped, its cases in an order.
Scaled(b, n, c) ==
  IF Above(n, 80, c) THEN 1000
  ELSE IF Above(n, 50, c) THEN ramp(b, n, c)
  ELSE IF n < 100 THEN Larger(b \div 2, 200)
  ELSE IF n < 200 THEN (85 * b) \div 100
  ELSE b

\* Where n and m are on the ramp, n before m, it rises from b over n to m and to 900.
Rises(b, n, m, c) ==
  Above(n, 50, c) /\ n <= m /\ ~Above(m, 80, c) =>
    /\ ramp(b, n, c) \in Int /\ ramp(b, m, c) \in Int
    /\ b <= ramp(b, n, c) /\ ramp(b, n, c) <= ramp(b, m, c) /\ ramp(b, m, c) <= 900

\* The ramp rises from the base to 900.
LEMMA RampFacts ==
  ASSUME NEW c \in Contexts, NEW b \in UsualBases, NEW n \in Nat, NEW m \in Nat
  PROVE  Rises(b, n, m, c)
<1> SUFFICES ASSUME Above(n, 50, c), n <= m, ~Above(m, 80, c)
             PROVE  /\ ramp(b, n, c) \in Int /\ ramp(b, m, c) \in Int
                    /\ b <= ramp(b, n, c) /\ ramp(b, n, c) <= ramp(b, m, c)
                    /\ ramp(b, m, c) <= 900
  BY DEF Rises
<1> DEFINE a == 900 - b
           d == 3 * c
           x == 10 * n - 5 * c
           y == 10 * m - 5 * c
<1>1. /\ a \in Nat /\ d \in Nat \ {0} /\ x \in Int /\ y \in Int
      /\ 0 <= x /\ x <= y /\ y <= d /\ b \in Int /\ a = 900 - b
  BY DEF Contexts, Above, UsualBases
<1>2. ramp(b, n, c) = b + (a * x) \div d /\ ramp(b, m, c) = b + (a * y) \div d
  BY DEF ramp
<1> HIDE DEF a, d, x, y
<1>3. /\ a * x \in Int /\ a * y \in Int /\ a * d \in Int /\ a * 0 = 0
      /\ a * 0 <= a * x /\ a * x <= a * y /\ a * y <= a * d
  BY <1>1, TimesMonotone
<1>4. (a * d) \div d = a /\ 0 \div d = 0
  BY <1>1, QuotientOfMultiple
<1> DEFINE ax == a * x
           ay == a * y
           ad == a * d
<1>a. ax \in Int /\ ay \in Int /\ ad \in Int /\ 0 <= ax /\ ax <= ay /\ ay <= ad /\ ad \div d = a
  BY <1>1, <1>3, <1>4
<1> HIDE DEF ax, ay, ad
<1>b. 0 \div d <= ax \div d /\ ax \div d <= ay \div d /\ ay \div d <= ad \div d
      /\ ax \div d \in Int /\ ay \div d \in Int
  BY <1>1, <1>a, QuotientMonotone
<1>5. /\ (a * x) \div d \in Int /\ (a * y) \div d \in Int
      /\ 0 <= (a * x) \div d /\ (a * x) \div d <= (a * y) \div d /\ (a * y) \div d <= a
  BY <1>4, <1>a, <1>b DEF ax, ay
<1>6. QED
  BY <1>1, <1>2, <1>5

\* For a base between 236 and 900 the cases of the code are those of Scaled.
LEMMA ScaledIs ==
  ASSUME NEW f, NEW b \in UsualBases, NEW n \in Nat
  PROVE  auto_scale_level(b, n, f) = clamp(Scaled(b, n, max_context(f)))
<1>1. PICK c \in Contexts : c = max_context(f)
  BY ContextTyped
<1>2. b # 0 /\ b \in Int /\ 236 <= b /\ b <= 900
  BY DEF UsualBases
<1>3. Above(n, 80, c) => Above(n, 50, c)
  BY DEF Above, Contexts
<1>4. n < 100 \/ n < 200 => ~Above(n, 50, c)
  BY DEF Above, Contexts
<1>5. auto_scale_level(b, n, f)
        = clamp(CASE Above(n, 80, c) -> Larger(1000, b)
                  [] Above(n, 50, c) /\ ~Above(n, 80, c) -> ramp(b, n, c)
                  [] n < 100 -> Larger(b \div 2, 200)
                  [] n >= 100 /\ n < 200 -> (85 * b) \div 100
                  [] OTHER -> b)
  BY <1>1, <1>2 DEF auto_scale_level
<1>6. Larger(1000, b) = 1000
  BY <1>2 DEF Larger
<1>7. (CASE Above(n, 80, c) -> Larger(1000, b)
         [] Above(n, 50, c) /\ ~Above(n, 80, c) -> ramp(b, n, c)
         [] n < 100 -> Larger(b \div 2, 200)
         [] n >= 100 /\ n < 200 -> (85 * b) \div 100
         [] OTHER -> b) = Scaled(b, n, c)
  <2>0. n >= 100 <=> ~(n < 100)
    OBVIOUS
  <2>1. CASE Above(n, 80, c)
    BY <1>3, <1>4, <1>6, <2>0, <2>1 DEF Scaled
  <2>2. CASE Above(n, 50, c) /\ ~Above(n, 80, c)
    BY <1>4, <2>0, <2>2 DEF Scaled
  <2>3. CASE n < 100
    BY <1>3, <1>4, <2>0, <2>3 DEF Scaled
  <2>4. CASE n >= 100 /\ n < 200
    BY <1>3, <1>4, <2>0, <2>4 DEF Scaled
  <2>5. CASE ~Above(n, 50, c) /\ n >= 100 /\ ~(n < 200)
    BY <1>3, <2>0, <2>5 DEF Scaled
  <2>6. QED
    BY <1>3, <2>0, <2>1, <2>2, <2>3, <2>4, <2>5
<1>8. QED
  BY <1>1, <1>5, <1>7

\* More tokens, no lower a level: each piece against each later piece.
Grows(f, b, n, m) ==
  n <= m => /\ auto_scale_level(b, n, f) \in Nat /\ auto_scale_level(b, m, f) \in Nat
            /\ auto_scale_level(b, n, f) <= auto_scale_level(b, m, f)

\* It does for every model.
LEMMA LevelGrows ==
  ASSUME NEW f, NEW b \in UsualBases, NEW n \in Nat, NEW m \in Nat
  PROVE  Grows(f, b, n, m)
<1> SUFFICES ASSUME n <= m
             PROVE  /\ auto_scale_level(b, n, f) \in Nat /\ auto_scale_level(b, m, f) \in Nat
                    /\ auto_scale_level(b, n, f) <= auto_scale_level(b, m, f)
  BY DEF Grows
<1>1. PICK c \in Contexts : c = max_context(f)
  BY ContextTyped
<1> DEFINE half == Larger(b \div 2, 200)
           most == (85 * b) \div 100
<1>2. half \in Int /\ most \in Int /\ 200 <= half /\ half <= most /\ most <= b
      /\ b \in Int /\ b <= 900
  BY DEF Larger, UsualBases
<1>3. /\ Above(n, 80, c) => Above(n, 50, c) /\ Above(m, 80, c)
      /\ Above(m, 80, c) => Above(m, 50, c)
      /\ Above(n, 50, c) => Above(m, 50, c)
  BY DEF Above, Contexts
<1>4. \A k \in Nat : Above(k, 50, c) /\ ~Above(k, 80, c) =>
         ramp(b, k, c) \in Int /\ b <= ramp(b, k, c) /\ ramp(b, k, c) <= 900
  <2> TAKE k \in Nat
  <2>1. Rises(b, k, k, c)
    BY RampFacts
  <2>2. QED
    BY <2>1 DEF Rises
<1>5. Above(n, 50, c) /\ ~Above(m, 80, c) => ramp(b, n, c) <= ramp(b, m, c)
  <2>1. Rises(b, n, m, c)
    BY RampFacts
  <2>2. QED
    BY <2>1 DEF Rises
<1> HIDE DEF half, most
<1>6. /\ Scaled(b, n, c) \in Int /\ Scaled(b, m, c) \in Int
      /\ 0 <= Scaled(b, n, c) /\ Scaled(b, n, c) <= Scaled(b, m, c) /\ Scaled(b, m, c) <= 1000
  <2>1. CASE Above(n, 80, c)
    BY <1>3, <2>1 DEF Scaled
  <2>2. CASE Above(n, 50, c) /\ ~Above(n, 80, c)
    <3>1. /\ Scaled(b, n, c) = ramp(b, n, c)
          /\ ramp(b, n, c) \in Int /\ b <= ramp(b, n, c) /\ ramp(b, n, c) <= 900
      BY <1>4, <2>2 DEF Scaled
    <3>2. CASE Above(m, 80, c)
      BY <1>2, <3>1, <3>2 DEF Scaled
    <3>3. CASE ~Above(m, 80, c)
      <4>1. Scaled(b, m, c) = ramp(b, m, c) /\ ramp(b, m, c) \in Int /\ ramp(b, m, c) <= 900
        BY <1>3, <1>4, <2>2, <3>3 DEF Scaled
      <4>2. QED
        BY <1>2, <1>5, <2>2, <3>1, <3>3, <4>1
    <3>4. QED
      BY <3>2, <3>3
  <2>3. CASE ~Above(n, 50, c)
    <3>1. Scaled(b, n, c) = IF n < 100 THEN half ELSE IF n < 200 THEN most ELSE b
      BY <1>3, <2>3 DEF Scaled, half, most
    <3>2. CASE Above(m, 50, c)
      BY <1>2, <1>4, <3>1, <3>2 DEF Scaled
    <3>3. CASE ~Above(m, 50, c)
      <4>1. Scaled(b, m, c) = IF m < 100 THEN half ELSE IF m < 200 THEN most ELSE b
        BY <1>3, <3>3 DEF Scaled, half, most
      <4>2. QED
        BY <1>2, <3>1, <4>1
    <3>4. QED
      BY <3>2, <3>3
  <2>4. QED
    BY <2>1, <2>2, <2>3
<1>7. /\ auto_scale_level(b, n, f) = clamp(Scaled(b, n, c))
      /\ auto_scale_level(b, m, f) = clamp(Scaled(b, m, c))
  BY <1>1, ScaledIs
<1>8. QED
  BY <1>6, <1>7 DEF clamp, Larger, Smaller

\* The level is that of the tokens and the base of the last request.
LevelInv ==
  /\ base \in Int /\ tokens \in Nat
  /\ level = auto_scale_level(base, tokens, family)

\* A conversation that grows while its base level stays is compressed at the
\* same level or a higher one (auto_scale_level, src/server.rs).
THEOREM ConversationsNeverGetLighter == LevelSpec => LevelNeverFalls
<1>1. LevelInit => LevelInv
  BY DEF LevelInit, LevelInv, auto_scale_level
<1>2. LevelInv /\ [LevelNext]_levelVars => LevelInv'
  <2>1. ASSUME LevelInv, LevelNext PROVE LevelInv'
    <3>1. PICK configured \in BaseLevels, allowed \in BOOLEAN, n \in Sizes :
            \E header \in BaseLevels \cup {Absent, Unreadable} :
              n >= tokens /\ RequestAt(configured, allowed, header, n)
      BY <2>1 DEF LevelNext
    <3>2. PICK header \in BaseLevels \cup {Absent, Unreadable} :
            n >= tokens /\ RequestAt(configured, allowed, header, n)
      BY <3>1
    <3>3. /\ base' = effective_level(configured, allowed, header)
          /\ tokens' = n /\ level' = auto_scale_level(base', n, family) /\ family' = family
      BY <3>2 DEF RequestAt
    <3>4. effective_level(configured, allowed, header) \in Int
      BY LevelsAssumption DEF effective_level, clamp, Larger, Smaller
    <3>5. n \in Nat
      BY LevelsAssumption
    <3>6. QED
      BY <3>3, <3>4, <3>5 DEF LevelInv
  <2>2. ASSUME LevelInv, UNCHANGED levelVars PROVE LevelInv'
    BY <2>2 DEF LevelInv, levelVars
  <2>3. QED
    BY <2>1, <2>2
<1>3. LevelInv /\ LevelInv' /\ [LevelNext]_levelVars
        => [base' = base /\ base \in 236..900 => level' >= level]_levelVars
  <2>1. ASSUME LevelInv, LevelInv', LevelNext, base' = base, base \in 236..900
        PROVE  level' >= level
    <3>1. tokens' >= tokens /\ family' = family
      BY <2>1 DEF LevelNext, RequestAt
    <3>2. tokens \in Nat /\ tokens' \in Nat /\ tokens <= tokens'
      BY <2>1, <3>1 DEF LevelInv
    <3>3. /\ auto_scale_level(base, tokens, family) \in Nat
          /\ auto_scale_level(base, tokens', family) \in Nat
          /\ auto_scale_level(base, tokens, family)
               <= auto_scale_level(base, tokens', family)
      <4>1. base \in UsualBases
        BY <2>1 DEF UsualBases
      <4>2. Grows(family, base, tokens, tokens')
        BY <3>2, <4>1, LevelGrows
      <4>3. QED
        BY <3>2, <4>2 DEF Grows
    <3>4. /\ level = auto_scale_level(base, tokens, family)
          /\ level' = auto_scale_level(base, tokens, family)'
      BY <2>1 DEF LevelInv
    <3>5. auto_scale_level(base, tokens, family)' = auto_scale_level(base, tokens', family)
      BY <2>1, <3>1
    <3>6. QED
      BY <3>3, <3>4, <3>5
  <2>2. QED
    BY <2>1
<1>4. QED
  BY <1>1, <1>2, <1>3, PTL DEF LevelSpec, LevelNeverFalls

-------------------------------------------------------------------------------
\* The two tools, in the order of their names.
Named(full) == <<[name |-> 1, full |-> full], [name |-> 2, full |-> full]>>

LEMMA TwoOf ==
  ASSUME NEW a, NEW b
  PROVE  [n \in 1..2 |-> IF n = 1 THEN a ELSE b] = <<a, b>>
OBVIOUS

\* In whatever order the agent names its tools, they are sorted into one.
LEMMA ToolsSorted ==
  ASSUME NEW ts \in Orders, NEW seen \in BOOLEAN, NEW blocks, format = "anthropic"
  PROVE  reorder_for_cache(minimize_schemas(ts, seen), blocks).tools = Named(~seen)
<1> DEFINE s == minimize_schemas(ts, seen)
           before(i) == {j \in DOMAIN s : \/ s[j].name < s[i].name
                                          \/ s[j].name = s[i].name /\ j < i}
           at(n) == CHOOSE i \in DOMAIN s : Cardinality(before(i)) = n - 1
           r == reorder_for_cache(s, blocks).tools
<1>1. r = [n \in DOMAIN s |-> s[at(n)]]
  BY DEF reorder_for_cache, SortedBy, nested
<1>2. /\ DOMAIN s = 1..2 /\ 1..2 = {1, 2}
      /\ \A i \in 1..2 : s[i] = [name |-> ts[i], full |-> ~seen]
      /\ ts = <<1, 2>> \/ ts = <<2, 1>>
  <2>1. ts = <<1, 2>> \/ ts = <<2, 1>>
    BY DEF Orders
  <2>2. DOMAIN ts = 1..2
    BY <2>1
  <2>3. 1..2 = {1, 2}
    OBVIOUS
  <2>4. QED
    BY <2>1, <2>2, <2>3 DEF minimize_schemas, nested
<1> HIDE DEF s, r
<1>3. Cardinality({}) = 0 /\ Cardinality({1}) = 1 /\ Cardinality({2}) = 1
  BY FS_EmptySet, FS_Singleton
<1>4. ASSUME ts = <<1, 2>>  PROVE r = Named(~seen)
  <2>1. s[1].name = 1 /\ s[2].name = 2
    BY <1>2, <1>4
  <2>2. before(1) = {} /\ before(2) = {1}
    BY <1>2, <2>1
  <2>3. Cardinality(before(1)) = 0 /\ Cardinality(before(2)) = 1
    BY <1>3, <2>2
  <2> HIDE DEF before
  <2>4. at(1) = 1 /\ at(2) = 2
    BY <1>2, <2>3
  <2> HIDE DEF at
  <2>5. r = [n \in 1..2 |-> IF n = 1 THEN s[1] ELSE s[2]]
    BY <1>1, <1>2, <2>4
  <2>6. s[1] = [name |-> 1, full |-> ~seen] /\ s[2] = [name |-> 2, full |-> ~seen]
    BY <1>2, <1>4
  <2>7. QED
    BY <2>5, <2>6, TwoOf DEF Named
<1>5. ASSUME ts = <<2, 1>>  PROVE r = Named(~seen)
  <2>1. s[1].name = 2 /\ s[2].name = 1
    BY <1>2, <1>5
  <2>2. before(1) = {2} /\ before(2) = {}
    BY <1>2, <2>1
  <2>3. Cardinality(before(1)) = 1 /\ Cardinality(before(2)) = 0
    BY <1>3, <2>2
  <2> HIDE DEF before
  <2>4. at(1) = 2 /\ at(2) = 1
    BY <1>2, <2>3
  <2> HIDE DEF at
  <2>5. r = [n \in 1..2 |-> IF n = 1 THEN s[2] ELSE s[1]]
    BY <1>1, <1>2, <2>4
  <2>6. s[2] = [name |-> 1, full |-> ~seen] /\ s[1] = [name |-> 2, full |-> ~seen]
    BY <1>2, <1>5
  <2>7. QED
    BY <2>5, <2>6, TwoOf DEF Named
<1>6. QED
  BY <1>2, <1>4, <1>5 DEF s, r

-------------------------------------------------------------------------------
(* What the agent says, and what is kept of the prefix. *)

Segment == [is : {"note", "long", "short", "waste", "cut"}, trace : {None}]
             \cup [is : {"trace", "same"}, trace : Tracebacks]
PartTyped == [type : {"text", "tool_use", "tool_result"}, size : Nat, array : BOOLEAN,
              texts : Seq(Seq(Segment))]
MessageTyped == [role : {"user", "assistant", "tool"}, content : {"string", "blocks"},
                 parts : Seq(PartTyped), turn : Nat]

\* No segment of the part is one of these.
Lacks(p, kinds) ==
  \A k \in DOMAIN p.texts : \A l \in DOMAIN p.texts[k] : p.texts[k][l].is \notin kinds

\* What every part of what is said is like.  Only the assistant thinks, and it
\* says nothing else but notes.
SaidPart(m, p) ==
  /\ m.content = "string" => p.type = "text"
  /\ p.type # "tool_use" => p.texts # <<>>
  /\ p.type = "text" => Len(p.texts) = 1
  /\ Lacks(p, {"same", "cut"})
  /\ m.role = "assistant" =>
       /\ p.type # "tool_result" /\ Lacks(p, {"trace"})
       /\ p.type = "tool_use" => p.texts = <<>>
       /\ m.content = "string" => ~Lacks(p, {"long", "short"})
  /\ m.role # "assistant" => Lacks(p, {"long", "short"})
SaidMessage == {m \in MessageTyped : \A j \in DOMAIN m.parts : SaidPart(m, m.parts[j])}

LEMMA SegmentsTyped ==
  /\ Note \in Segment
  /\ \A is \in {"note", "long", "short", "waste", "cut"} : Plainly(is) \in Segment
  /\ \A t \in Tracebacks : Trace(t) \in Segment /\ Same(t) \in Segment
  /\ Traces \subseteq Tracebacks
BY DEF Segment, Note, Plainly, Trace, Same, Tracebacks

LEMMA ShortTexts ==
  ASSUME NEW s \in Segment, NEW u \in Segment
  PROVE  /\ <<s>> \in Seq(Segment) /\ <<s, u>> \in Seq(Segment)
         /\ DOMAIN <<s>> = {1} /\ DOMAIN <<s, u>> = {1, 2}
<1>1. DOMAIN <<s>> = 1..1 /\ DOMAIN <<s, u>> = 1..2
  OBVIOUS
<1>2. 1..1 = {1} /\ 1..2 = {1, 2}
  OBVIOUS
<1>3. <<s>> \in Seq(Segment) /\ <<s, u>> \in Seq(Segment)
  OBVIOUS
<1>4. QED
  BY <1>1, <1>2, <1>3

\* Whatever the parts of a message are, it is typed when they are.
LEMMA OnePart ==
  ASSUME NEW role \in {"user", "assistant", "tool"}, NEW content \in {"string", "blocks"},
         NEW p \in PartTyped
  PROVE  MessageOf(role, content, <<p>>) \in MessageTyped
BY DEF MessageOf, MessageTyped
LEMMA TwoParts ==
  ASSUME NEW role \in {"user", "assistant", "tool"}, NEW content \in {"string", "blocks"},
         NEW p \in PartTyped, NEW q \in PartTyped
  PROVE  MessageOf(role, content, <<p, q>>) \in MessageTyped
BY DEF MessageOf, MessageTyped

LEMMA PartIsTyped ==
  ASSUME NEW type \in {"text", "tool_use", "tool_result"}, NEW size \in Nat,
         NEW texts \in Seq(Seq(Segment))
  PROVE  Part(type, size, texts) \in PartTyped
BY DEF Part, PartTyped

\* What the user and the tools say: notes, waste and tracebacks.
Asked == {t \in Seq(Segment) : \A l \in DOMAIN t : t[l].is \in {"note", "waste", "trace"}}
LEMMA AskedTexts ==
  /\ <<Note>> \in Asked
  /\ Outputs \subseteq Asked /\ Errors \subseteq Asked
<1>1. <<Note>> \in Asked
  BY SegmentsTyped, ShortTexts DEF Asked, Note, Plainly
<1>2. \A t, u \in Traces : <<Trace(t)>> \in Asked /\ <<Trace(t), Trace(u)>> \in Asked
  <2> TAKE t, u \in Traces
  <2>1. Trace(t) \in Segment /\ Trace(u) \in Segment /\ Trace(t).is = "trace" /\ Trace(u).is = "trace"
    BY SegmentsTyped DEF Trace
  <2> HIDE DEF Trace
  <2>2. QED
    BY <2>1, ShortTexts DEF Asked
<1>3. Errors \subseteq Asked
  <2> SUFFICES ASSUME NEW e \in Errors PROVE e \in Asked
    OBVIOUS
  <2>1. (\E t \in Traces : e = <<Trace(t)>>) \/ (\E t, u \in Traces : e = <<Trace(t), Trace(u)>>)
    BY DEF Errors
  <2>2. QED
    BY <1>2, <2>1
<1>4. <<Note, Plainly("waste")>> \in Asked
  <2>1. Plainly("waste") \in Segment /\ Note \in Segment
    BY SegmentsTyped
  <2>2. Plainly("waste").is = "waste" /\ Note.is = "note"
    BY DEF Plainly, Note
  <2> HIDE DEF Plainly, Note
  <2>3. QED
    BY <2>1, <2>2, ShortTexts DEF Asked
<1>5. QED
  BY <1>1, <1>3, <1>4 DEF Outputs

LEMMA AskedPart ==
  ASSUME NEW type \in {"text", "tool_result"}, NEW size \in Nat, NEW array \in BOOLEAN, NEW texts \in Seq(Asked),
         NEW m, m.role # "assistant", m.content = "string" => type = "text",
         texts # <<>>, type = "text" => Len(texts) = 1
  PROVE  /\ [Part(type, size, texts) EXCEPT !.array = array] \in PartTyped
         /\ SaidPart(m, [Part(type, size, texts) EXCEPT !.array = array])
<1> DEFINE p == [Part(type, size, texts) EXCEPT !.array = array]
<1>1. p = [type |-> type, size |-> size, array |-> array, texts |-> texts]
  BY DEF Part
<1>2. texts \in Seq(Seq(Segment)) 
  <2>1. Asked \subseteq Seq(Segment)
    BY DEF Asked
  <2>2. QED
    BY <2>1
<1>3. p \in PartTyped
  BY <1>1, <1>2 DEF PartTyped
<1>4. \A k \in DOMAIN texts : texts[k] \in Asked
  OBVIOUS
<1>5. \A k \in DOMAIN texts : \A l \in DOMAIN texts[k] : texts[k][l].is \in {"note", "waste", "trace"}
  BY <1>4 DEF Asked
<1>6. p.texts = texts /\ p.type = type
  BY <1>1
<1> HIDE DEF p
<1>7. Lacks(p, {"same", "cut"}) /\ Lacks(p, {"long", "short"})
  BY <1>5, <1>6 DEF Lacks
<1>8. SaidPart(m, p)
  BY <1>6, <1>7 DEF SaidPart
<1>9. QED
  BY <1>3, <1>8 DEF p

LEMMA PlainPart ==
  ASSUME NEW type \in {"text", "tool_result"}, NEW size \in Nat, NEW texts \in Seq(Asked),
         NEW m, m.role # "assistant", m.content = "string" => type = "text",
         texts # <<>>, type = "text" => Len(texts) = 1
  PROVE  Part(type, size, texts) \in PartTyped /\ SaidPart(m, Part(type, size, texts))
<1> SUFFICES ASSUME NEW array \in BOOLEAN, array = FALSE
             PROVE  Part(type, size, texts) \in PartTyped /\ SaidPart(m, Part(type, size, texts))
  OBVIOUS
<1> DEFINE p == [Part(type, size, texts) EXCEPT !.array = array]
<1>1. p = [type |-> type, size |-> size, array |-> array, texts |-> texts]
  BY DEF Part
<1>2. Part(type, size, texts) = [type |-> type, size |-> size, array |-> array, texts |-> texts]
  BY DEF Part
<1>3. p \in PartTyped /\ SaidPart(m, p)
  BY AskedPart
<1> HIDE DEF p
<1>4. QED
  BY <1>1, <1>2, <1>3

LEMMA OneSaid ==
  ASSUME NEW role \in {"user", "assistant", "tool"}, NEW content \in {"string", "blocks"},
         NEW p \in PartTyped, SaidPart(MessageOf(role, content, <<p>>), p)
  PROVE  MessageOf(role, content, <<p>>) \in SaidMessage
<1>1. MessageOf(role, content, <<p>>).parts = <<p>>
  BY DEF MessageOf
<1>2. \A j \in DOMAIN <<p>> : <<p>>[j] = p
  OBVIOUS
<1>3. QED
  BY <1>1, <1>2, OnePart DEF SaidMessage
LEMMA TwoSaid ==
  ASSUME NEW role \in {"user", "assistant", "tool"}, NEW content \in {"string", "blocks"},
         NEW p \in PartTyped, NEW q \in PartTyped,
         SaidPart(MessageOf(role, content, <<p, q>>), p),
         SaidPart(MessageOf(role, content, <<p, q>>), q)
  PROVE  MessageOf(role, content, <<p, q>>) \in SaidMessage
<1>1. MessageOf(role, content, <<p, q>>).parts = <<p, q>>
  BY DEF MessageOf
<1>2. \A j \in DOMAIN <<p, q>> : <<p, q>>[j] = p \/ <<p, q>>[j] = q
  OBVIOUS
<1>3. QED
  BY <1>1, <1>2, TwoParts DEF SaidMessage

LEMMA QuestionsSaid == Questions \subseteq SaidMessage
<1>1. \A text \in Asked : /\ <<text>> \in Seq(Asked) /\ <<text>> # <<>> /\ Len(<<text>>) = 1
                          /\ <<text, <<Note>>>> \in Seq(Asked) /\ <<text, <<Note>>>> # <<>>
  BY AskedTexts
<1>2. \A text \in Asked : Said(text) \in SaidMessage
  <2> TAKE text \in Asked
  <2> DEFINE m == Said(text)
  <2>1. m = MessageOf("user", "string", <<Part("text", 1, <<text>>)>>)
    BY DEF Said
  <2>2. m.role = "user"
    BY <2>1 DEF MessageOf
  <2>3. Part("text", 1, <<text>>) \in PartTyped /\ SaidPart(m, Part("text", 1, <<text>>))
    <3> HIDE DEF m
    <3> QED BY <1>1, <2>2, PlainPart
  <2>4. QED
    BY <2>1, <2>3, OneSaid
<1>3. \A size \in Nat, text \in Asked : ToolSays(size, <<text>>) \in SaidMessage
  <2> TAKE size \in Nat, text \in Asked
  <2> DEFINE m == ToolSays(size, <<text>>)
  <2>1. m = MessageOf("tool", "string", <<Part("text", size, <<text>>)>>)
    BY DEF ToolSays
  <2>2. m.role = "tool"
    BY <2>1 DEF MessageOf
  <2>3. Part("text", size, <<text>>) \in PartTyped /\ SaidPart(m, Part("text", size, <<text>>))
    <3> HIDE DEF m
    <3> QED BY <1>1, <2>2, PlainPart
  <2>4. QED
    BY <2>1, <2>3, OneSaid
<1>4. \A size \in Nat, texts \in Seq(Asked) : texts # <<>> => Results(size, texts) \in SaidMessage
  <2> SUFFICES ASSUME NEW size \in Nat, NEW texts \in Seq(Asked), texts # <<>>
               PROVE  Results(size, texts) \in SaidMessage
    OBVIOUS
  <2> DEFINE m == Results(size, texts)
             p == [Part("tool_result", size, texts) EXCEPT !.array = Len(texts) > 1]
             q == Part("text", 1, <<<<Note>>>>)
  <2>1. m = MessageOf("user", "blocks", <<p, q>>)
    BY DEF Results
  <2>2. m.role = "user" /\ m.content = "blocks" /\ "blocks" # "string"
    BY <2>1 DEF MessageOf
  <2>3. (Len(texts) > 1) \in BOOLEAN
    OBVIOUS
  <2>4. p \in PartTyped /\ SaidPart(m, p)
    <3> HIDE DEF m
    <3> QED BY <2>2, <2>3, AskedPart
  <2>5. q \in PartTyped /\ SaidPart(m, q)
    <3>1. <<<<Note>>>> \in Seq(Asked) /\ <<<<Note>>>> # <<>> /\ Len(<<<<Note>>>>) = 1
      BY <1>1, AskedTexts
    <3> HIDE DEF m
    <3>2. QED BY <2>2, <3>1, PlainPart
  <2> HIDE DEF p, q
  <2>6. QED
    BY <2>1, <2>4, <2>5, TwoSaid
<1>5. ResultSizes \subseteq Nat /\ 2 \in Nat
  BY AgentAssumption
<1>6. \A text \in {<<Note>>} \cup Errors : text \in Asked
  BY AskedTexts
<1>7. \A text \in Outputs : text \in Asked
  BY AskedTexts
<1>8. \A size \in ResultSizes, text \in Outputs :
         ToolSays(size, <<text>>) \in SaidMessage /\ Results(size, <<text>>) \in SaidMessage
  BY <1>1, <1>3, <1>4, <1>5, <1>7
<1>9. \A text \in Outputs : Results(2, <<text, <<Note>>>>) \in SaidMessage
  BY <1>1, <1>4, <1>7
<1>10. SUFFICES ASSUME NEW q \in Questions
                PROVE  q \in SaidMessage
  OBVIOUS
<1>11. \/ \E text \in {<<Note>>} \cup Errors : q = Said(text)
       \/ \E size \in ResultSizes : \E text \in Outputs : q = ToolSays(size, <<text>>)
       \/ \E size \in ResultSizes : \E text \in Outputs : q = Results(size, <<text>>)
       \/ \E text \in Outputs : q = Results(2, <<text, <<Note>>>>)
  <2>1. CASE ~CallIsOpen
    BY <1>10, <2>1 DEF Questions
  <2>2. CASE CallIsOpen /\ format = "openai"
    BY <1>10, <2>2 DEF Questions
  <2>3. CASE CallIsOpen /\ format # "openai"
    BY <1>10, <2>3 DEF Questions
  <2>4. QED
    BY <2>1, <2>2, <2>3
<1>12. QED
  BY <1>2, <1>6, <1>8, <1>9, <1>11

LEMMA AnswersSaid == Answers \subseteq SaidMessage
<1>1. \A thought \in {"long", "short"} : Thinks(thought) \in SaidMessage
  <2> TAKE thought \in {"long", "short"}
  <2> DEFINE text == <<Plainly(thought), Note>>
             m == Thinks(thought)
             p == Part("text", 1, <<text>>)
  <2>1. m = MessageOf("assistant", "string", <<p>>) /\ m.role = "assistant" /\ m.content = "string"
    BY DEF Thinks, MessageOf
  <2>2. text \in Seq(Segment) /\ DOMAIN text = {1, 2}
    BY SegmentsTyped, ShortTexts
  <2>3. text[1].is = thought /\ text[2].is = "note"
    BY DEF Plainly, Note
  <2> HIDE DEF text, m
  <2>4. <<text>> \in Seq(Seq(Segment)) /\ DOMAIN <<text>> = 1..1 /\ <<text>>[1] = text /\ Len(<<text>>) = 1
    BY <2>2
  <2>5. p \in PartTyped
    BY <2>4, PartIsTyped
  <2>6. p.texts = <<text>> /\ p.type = "text"
    BY DEF Part
  <2> HIDE DEF p
  <2>7. 1..1 = {1}
    OBVIOUS
  <2>8. /\ Lacks(p, {"same", "cut"}) /\ Lacks(p, {"trace"})
        /\ ~Lacks(p, {"long", "short"})
    BY <2>2, <2>3, <2>4, <2>6, <2>7 DEF Lacks
  <2>9. SaidPart(m, p)
    BY <2>1, <2>4, <2>6, <2>8 DEF SaidPart
  <2>10. QED
    BY <2>1, <2>5, <2>9, OneSaid DEF m
<1>2. Calls \in SaidMessage
  <2> DEFINE text == <<Plainly("long")>>
             p == Part("text", 1, <<text>>)
             q == Part("tool_use", 0, <<>>)
             m == MessageOf("assistant", "blocks", <<p, q>>)
             s == MessageOf("assistant", "string", <<p>>)
  <2>1. /\ m.role = "assistant" /\ m.content = "blocks"
        /\ s.role = "assistant" /\ s.content = "string" /\ Calls \in {s, m}
    BY DEF Calls, MessageOf
  <2>2. text \in Seq(Segment) /\ DOMAIN text = {1}
    BY SegmentsTyped, ShortTexts
  <2>3. text[1].is = "long"
    BY DEF Plainly
  <2> HIDE DEF text, m, s
  <2>4. <<text>> \in Seq(Seq(Segment)) /\ DOMAIN <<text>> = 1..1 /\ <<text>>[1] = text /\ Len(<<text>>) = 1
    BY <2>2
  <2>5. p \in PartTyped
    BY <2>4, PartIsTyped
  <2>6. p.texts = <<text>> /\ p.type = "text"
    BY DEF Part
  <2>7. q \in PartTyped
    <3>1. <<>> \in Seq(Seq(Segment)) /\ 0 \in Nat
      OBVIOUS
    <3>2. QED
      BY <3>1, PartIsTyped
  <2>8. q.texts = <<>> /\ q.type = "tool_use"
    BY DEF Part
  <2> HIDE DEF p, q
  <2>9. 1..1 = {1} /\ DOMAIN <<>> = {}
    OBVIOUS
  <2>10. Lacks(p, {"same", "cut"}) /\ Lacks(p, {"trace"}) /\ ~Lacks(p, {"long", "short"})
    BY <2>2, <2>3, <2>4, <2>6, <2>9 DEF Lacks
  <2>11. Lacks(q, {"same", "cut"}) /\ Lacks(q, {"trace"})
    BY <2>8, <2>9 DEF Lacks
  <2>12. SaidPart(m, p) /\ SaidPart(s, p)
    BY <2>1, <2>4, <2>6, <2>10 DEF SaidPart
  <2>13. SaidPart(m, q)
    BY <2>1, <2>8, <2>11 DEF SaidPart
  <2>14. m \in SaidMessage
    BY <2>5, <2>7, <2>12, <2>13, TwoSaid DEF m
  <2>15. s \in SaidMessage
    BY <2>5, <2>12, OneSaid DEF s
  <2>16. QED
    BY <2>1, <2>14, <2>15
<1>3. QED
  BY <1>1, <1>2 DEF Answers

\* A message that brings a tool's results comes behind the one that called it.
CallParts == <<Part("text", 1, <<<<Plainly("long")>>>>), Part("tool_use", 0, <<>>)>>
Answered(tk) == \A t \in DOMAIN tk : Answering(tk[t]) => t > 1 /\ tk[t - 1].parts = CallParts

LEMMA QuestionsAnswer ==
  ASSUME NEW q \in Questions, Answering(q)
  PROVE  talk # <<>> /\ talk[Len(talk)].parts = CallParts
<1>1. q.content = "blocks"
  BY DEF Answering
<1>2. \A size, text : Said(text).content = "string" /\ ToolSays(size, text).content = "string"
  BY DEF Said, ToolSays, MessageOf
<1>3. CallIsOpen /\ format # "openai"
  <2>1. CASE ~CallIsOpen
    <3>1. \E text : q = Said(text)
      BY <2>1 DEF Questions
    <3>2. QED
      BY <1>1, <1>2, <3>1
  <2>2. CASE CallIsOpen /\ format = "openai"
    <3>1. \E size \in ResultSizes, text \in Outputs : q = ToolSays(size, <<text>>)
      BY <2>2 DEF Questions
    <3>2. QED
      BY <1>1, <1>2, <3>1
  <2>3. QED
    BY <2>1, <2>2
<1>4. Calls.parts = CallParts
  BY <1>3 DEF Calls, CallParts, MessageOf
<1>5. QED
  BY <1>3, <1>4 DEF CallIsOpen

LEMMA AnswersAnswerNothing ==
  ASSUME NEW q \in Answers
  PROVE  ~Answering(q)
<1>1. \A thought : Thinks(thought).content = "string"
  BY DEF Thinks, MessageOf
<1>2. CASE q.content = "string"
  BY <1>2 DEF Answering
<1>3. CASE q = Calls /\ format # "openai"
  <2>1. q.parts = CallParts
    BY <1>3 DEF Calls, CallParts, MessageOf
  <2>2. \A j \in DOMAIN CallParts : CallParts[j].type \in {"text", "tool_use"}
    BY DEF CallParts, Part
  <2>3. QED
    BY <2>1, <2>2 DEF Answering, Range
<1>4. format = "openai" => Calls.content = "string"
  BY DEF Calls, MessageOf
<1>5. QED
  BY <1>1, <1>2, <1>3, <1>4 DEF Answers

\* The conversation is what has been said, in turns.
TalkType ==
  /\ talk \in Seq(SaidMessage) /\ tools \in Orders
  /\ \A t \in DOMAIN talk : talk[t].turn = t
  /\ Answered(talk)

LEMMA TurnedSaid ==
  ASSUME NEW m \in SaidMessage, NEW t \in Nat
  PROVE  /\ [m EXCEPT !.turn = t] \in SaidMessage
         /\ [m EXCEPT !.turn = t].turn = t
<1> DEFINE x == [m EXCEPT !.turn = t]
<1>1. x \in MessageTyped /\ x.turn = t
  BY DEF SaidMessage, MessageTyped
<1>2. x.parts = m.parts /\ x.role = m.role /\ x.content = m.content
  BY DEF SaidMessage, MessageTyped
<1>3. \A j \in DOMAIN m.parts : SaidPart(m, m.parts[j])
  BY DEF SaidMessage
<1> HIDE DEF x
<1>4. \A j \in DOMAIN x.parts : SaidPart(x, x.parts[j])
  BY <1>2, <1>3 DEF SaidPart
<1>5. x \in SaidMessage
  BY <1>1, <1>4 DEF SaidMessage
<1>6. QED
  BY <1>1, <1>5 DEF x

\* What a message adds to the conversation.
LEMMA SpeakFacts ==
  ASSUME TalkType, NEW m \in SaidMessage, Speak(m)
  PROVE  /\ talk' \in Seq(SaidMessage) /\ Len(talk') = Len(talk) + 1
         /\ \A t \in 1..Len(talk) : talk'[t] = talk[t]
         /\ \A t \in DOMAIN talk' : talk'[t].turn = t
         /\ talk'[Len(talk) + 1] = [m EXCEPT !.turn = Len(talk) + 1]
<1> DEFINE x == [m EXCEPT !.turn = Len(talk) + 1]
<1>1. x \in SaidMessage /\ x.turn = Len(talk) + 1
  <2>1. Len(talk) + 1 \in Nat
    BY DEF TalkType
  <2>2. QED
    BY <2>1, TurnedSaid
<1>2. talk' = Append(talk, x)
  BY DEF Speak
<1> HIDE DEF x
<1>3. /\ talk' \in Seq(SaidMessage) /\ Len(talk') = Len(talk) + 1
      /\ \A t \in 1..Len(talk) : talk'[t] = talk[t]
      /\ talk'[Len(talk) + 1] = x
  BY <1>1, <1>2, AppendProperties DEF TalkType
<1>4. /\ DOMAIN talk = 1..Len(talk) /\ Len(talk) \in Nat
      /\ DOMAIN talk' = 1..(Len(talk) + 1)
  BY <1>3 DEF TalkType
<1>5. \A t \in 1..(Len(talk) + 1) : t \in 1..Len(talk) \/ t = Len(talk) + 1
  BY <1>4
<1>6. QED
  BY <1>1, <1>3, <1>4, <1>5 DEF TalkType, x

LEMMA SpeakAnswers ==
  ASSUME TalkType, NEW m \in SaidMessage, Speak(m), tools' \in Orders,
         Answering(m) => talk # <<>> /\ talk[Len(talk)].parts = CallParts
  PROVE  TalkType'
<1> DEFINE n == Len(talk)
           x == [m EXCEPT !.turn = n + 1]
<1>1. /\ talk' \in Seq(SaidMessage) /\ Len(talk') = n + 1
      /\ \A t \in 1..n : talk'[t] = talk[t]
      /\ \A t \in DOMAIN talk' : talk'[t].turn = t
      /\ talk'[n + 1] = x
  BY SpeakFacts
<1>2. /\ n \in Nat /\ DOMAIN talk = 1..n /\ DOMAIN talk' = 1..(n + 1) /\ (talk # <<>> => n > 0)
      /\ Answered(talk)
  BY <1>1 DEF TalkType
<1>3. Answering(x) <=> Answering(m)
  BY DEF Answering, SaidMessage, MessageTyped
<1> HIDE DEF n, x
<1>4. ASSUME NEW t \in 1..(n + 1), Answering(talk'[t])
      PROVE  t > 1 /\ talk'[t - 1].parts = CallParts
  <2>1. CASE t = n + 1
    <3>1. n > 0 /\ talk[n].parts = CallParts
      BY <1>1, <1>2, <1>3, <1>4, <2>1 DEF n
    <3>2. t - 1 = n /\ n \in 1..n /\ t > 1
      BY <1>2, <2>1, <3>1
    <3>3. QED
      BY <1>1, <3>1, <3>2
  <2>2. CASE t # n + 1
    <3>1. t \in 1..n
      BY <1>2, <2>2
    <3>2. t > 1 /\ talk[t - 1].parts = CallParts
      BY <1>1, <1>2, <1>4, <3>1 DEF Answered
    <3>3. t - 1 \in 1..n
      BY <1>2, <3>1, <3>2
    <3>4. QED
      BY <1>1, <3>2, <3>3
  <2>3. QED
    BY <2>1, <2>2
<1>5. Answered(talk')
  BY <1>2, <1>4 DEF Answered
<1>6. QED
  BY <1>1, <1>5 DEF TalkType

LEMMA TalkStep ==
  ASSUME TalkType, [AgentNext]_agentVars
  PROVE  TalkType'
<1>1. CASE Ask
  <2>1. PICK m \in Questions : Speak(m)
    BY <1>1 DEF Ask
  <2>2. tools' \in Orders
    BY <1>1 DEF Ask
  <2>3. QED
    BY <2>1, <2>2, QuestionsSaid, QuestionsAnswer, SpeakAnswers
<1>2. CASE Reply
  <2>1. PICK m \in Answers : Speak(m)
    BY <1>2 DEF Reply
  <2>2. tools' \in Orders
    BY <1>2 DEF Reply, TalkType
  <2>3. QED
    BY <2>1, <2>2, AnswersSaid, AnswersAnswerNothing, SpeakAnswers
<1>3. CASE Optimize
  BY <1>3 DEF Optimize, TalkType
<1>4. CASE UNCHANGED agentVars
  BY <1>4 DEF agentVars, TalkType
<1>5. QED
  BY <1>1, <1>2, <1>3, <1>4 DEF AgentNext

LEMMA TalkInit == AgentInit => TalkType
BY DEF AgentInit, TalkType, Answered

\* The prefix of a request where tools have names: the same but for the schemas.
OrderedBlocks(blocks) == SortedBy(inject_cache_headers(blocks), LAMBDA b : 1000 - block_stability_score(b))
PrefixOf(full) == [tools |-> Named(full), system |-> OrderedBlocks(system)]
\* Where the schemas are minimized a call is in the conversation, or it has been
\* cut, and so has every later one.
Before == schema_seen(talk) \/ IsCut
PrefixInv ==
  format = "anthropic" /\ Len(request.messages) > 1 =>
    Len(talk) > 1 /\ \E seen \in BOOLEAN : (seen => Before) /\ request.prefix = PrefixOf(~seen)

LEMMA PrefixParts ==
  ASSUME NEW ts \in Orders, NEW seen \in BOOLEAN, format = "anthropic"
  PROVE  reorder_for_cache(minimize_schemas(ts, seen), inject_cache_headers(system)) = PrefixOf(~seen)
<1> DEFINE blocks == inject_cache_headers(system)
           r == reorder_for_cache(minimize_schemas(ts, seen), blocks)
<1>1. r.tools = Named(~seen)
  BY ToolsSorted
<1>2. r = [tools |-> r.tools, system |-> r.system] /\ r.system = OrderedBlocks(system)
  BY DEF reorder_for_cache, OrderedBlocks
<1> HIDE DEF r
<1>3. QED
  BY <1>1, <1>2 DEF PrefixOf, r

LEMMA PrefixNames ==
  ASSUME NEW full \in BOOLEAN
  PROVE  Names(PrefixOf(full)) = <<1, 2>> /\ AllFull(PrefixOf(full), full)
<1>1. /\ DOMAIN Named(full) = 1..2 /\ 1..2 = {1, 2}
      /\ Named(full)[1].full = full /\ Named(full)[2].full = full
      /\ Named(full)[1].name = 1 /\ Named(full)[2].name = 2
  BY DEF Named
<1>2. PrefixOf(full).tools = Named(full)
  BY DEF PrefixOf
<1>3. AllFull(PrefixOf(full), full)
  BY <1>1, <1>2 DEF AllFull, Range
<1>4. Names(PrefixOf(full)) = [n \in 1..2 |-> IF n = 1 THEN 1 ELSE 2]
  BY <1>1, <1>2 DEF Names
<1>5. QED
  BY <1>3, <1>4, TwoOf

\* Once the call of a tool has been seen it stays seen, and a conversation that
\* is cut stays one.
LEMMA BeforeStays ==
  ASSUME TalkType, contextAt \in Nat, NEW m \in SaidMessage, Speak(m), contextAt' = contextAt, Before
  PROVE  Before'
<1>1. \A t \in DOMAIN talk : t \in DOMAIN talk' /\ talk'[t] = talk[t]
  <2>1. /\ talk' \in Seq(SaidMessage) /\ Len(talk') = Len(talk) + 1 /\ talk \in Seq(SaidMessage)
        /\ \A t \in 1..Len(talk) : talk'[t] = talk[t]
    BY SpeakFacts DEF TalkType
  <2>2. QED
    BY <2>1
<1>2. Range(talk) \subseteq Range(talk')
  BY <1>1 DEF Range
<1>3. schema_seen(talk) => schema_seen(talk')
  BY <1>2 DEF schema_seen
<1>4. IsCut => IsCut'
  <2>1. Len(talk') = Len(talk) + 1
    BY SpeakFacts
  <2>2. Len(talk) \in Nat
    BY DEF TalkType
  <2>3. QED
    BY <2>1, <2>2 DEF IsCut
<1>5. QED
  BY <1>3, <1>4 DEF Before

LEMMA PrefixSpeak ==
  ASSUME TalkType, contextAt \in Nat, PrefixInv, NEW m \in SaidMessage, Speak(m),
         UNCHANGED <<format, system, contextAt, request>>
  PROVE  PrefixInv'
<1>1. Len(talk) > 1 => Len(talk') > 1
  <2>1. Len(talk') = Len(talk) + 1
    BY SpeakFacts
  <2>2. Len(talk) \in Nat
    BY DEF TalkType
  <2>3. QED
    BY <2>1, <2>2
<1>2. Before => Before'
  BY BeforeStays
<1>3. \A seen : PrefixOf(~seen)' = PrefixOf(~seen)
  BY DEF PrefixOf
<1> HIDE DEF Before, PrefixOf
<1>4. QED
  BY <1>1, <1>2, <1>3 DEF PrefixInv

\* What the context optimizer leaves of the conversation, and if a call is in it.
Sent(told, quoted) == IF IsCut THEN context_optimize(talk, told, quoted) ELSE talk
LEMMA PrefixOptimize ==
  ASSUME TalkType, Optimize
  PROVE  /\ Len(request'.messages) > 1 => Len(talk) > 1
         /\ format = "anthropic" /\ Len(talk) > 1 =>
              \E seen \in BOOLEAN : /\ request'.prefix = PrefixOf(~seen)
                                    /\ ~IsCut => seen = schema_seen(talk)
         /\ UNCHANGED <<format, talk, system, contextAt>>
<1>1. PICK told, quoted : request' = optimize(told, quoted)
  BY DEF Optimize
<1>2. UNCHANGED <<format, talk, system, contextAt>> /\ Len(talk) \in Nat /\ tools \in Orders
  BY DEF Optimize, TalkType
<1>3. CASE Len(talk) < 2
  <2>1. request'.messages = talk
    BY <1>1, <1>3 DEF optimize
  <2>2. QED
    BY <1>2, <1>3, <2>1
<1>4. CASE ~(Len(talk) < 2)
  <2> DEFINE seen == schema_seen(Sent(told, quoted))
  <2>1. request'.prefix = reorder_for_cache(minimize_schemas(tools, seen), inject_cache_headers(system))
    BY <1>1, <1>4 DEF optimize, Sent
  <2>2. seen \in BOOLEAN /\ (~IsCut => seen = schema_seen(talk))
    BY DEF schema_seen, Sent
  <2> HIDE DEF seen
  <2>3. format = "anthropic" => request'.prefix = PrefixOf(~seen)
    BY <1>2, <2>1, <2>2, PrefixParts
  <2> HIDE DEF PrefixOf
  <2>4. QED
    BY <1>2, <1>4, <2>2, <2>3
<1>5. QED
  BY <1>3, <1>4

ContextType == contextAt \in Nat
LEMMA ContextStep ==
  ASSUME ContextType, [AgentNext]_agentVars
  PROVE  ContextType'
BY DEF ContextType, AgentNext, Ask, Reply, Optimize, agentVars

LEMMA PrefixStep ==
  ASSUME TalkType, ContextType, PrefixInv, [AgentNext]_agentVars
  PROVE  PrefixInv'
<1>1. CASE Ask
  BY <1>1, QuestionsSaid, PrefixSpeak DEF Ask, ContextType
<1>2. CASE Reply
  BY <1>2, AnswersSaid, PrefixSpeak DEF Reply, ContextType
<1>3. CASE Optimize
  <2>1. /\ Len(request'.messages) > 1 => Len(talk) > 1
        /\ format = "anthropic" /\ Len(talk) > 1 =>
             \E seen \in BOOLEAN : /\ request'.prefix = PrefixOf(~seen)
                                   /\ ~IsCut => seen = schema_seen(talk)
        /\ UNCHANGED <<format, talk, system, contextAt>>
    BY <1>3, PrefixOptimize
  <2>2. Before' = Before /\ \A seen : PrefixOf(~seen)' = PrefixOf(~seen)
    BY <2>1 DEF Before, IsCut, PrefixOf
  <2>3. \A seen \in BOOLEAN : (~IsCut => seen = schema_seen(talk)) => (seen => Before)
    BY DEF Before
  <2> HIDE DEF PrefixOf, Before
  <2>4. QED
    BY <2>1, <2>2, <2>3 DEF PrefixInv
<1>4. CASE UNCHANGED agentVars
  <2>1. Before' = Before /\ \A seen : PrefixOf(~seen)' = PrefixOf(~seen)
    BY <1>4 DEF agentVars, Before, IsCut, PrefixOf
  <2> HIDE DEF PrefixOf, Before
  <2>2. QED
    BY <1>4, <2>1 DEF agentVars, PrefixInv
<1>5. QED
  BY <1>1, <1>2, <1>3, <1>4 DEF AgentNext

LEMMA PrefixInit == AgentInit => PrefixInv /\ ContextType
<1>1. AgentInit => request.messages = <<>>
  BY DEF AgentInit
<1>2. AgentInit => ContextType
  BY AgentAssumption DEF AgentInit, ContextType
<1>3. QED
  BY <1>1, <1>2 DEF PrefixInv

PrefixMoves ==
  format = "anthropic" /\ Len(request.messages) > 1 =>
    /\ request'.prefix.system = request.prefix.system
    /\ Names(request'.prefix) = Names(request.prefix)
    /\ \/ request'.prefix = request.prefix
       \/ AllFull(request.prefix, TRUE) /\ AllFull(request'.prefix, FALSE)
       \/ IsCut

LEMMA PrefixMove ==
  ASSUME TalkType, PrefixInv, [AgentNext]_agentVars
  PROVE  PrefixMoves
<1> SUFFICES ASSUME format = "anthropic", Len(request.messages) > 1
             PROVE  PrefixMoves
  BY DEF PrefixMoves
<1>1. CASE ~Optimize
  <2>1. request' = request
    BY <1>1 DEF AgentNext, Ask, Reply, agentVars
  <2>2. QED
    BY <2>1 DEF PrefixMoves, Names
<1>2. CASE Optimize
  <2>1. PICK seen \in BOOLEAN : (seen => Before) /\ request.prefix = PrefixOf(~seen)
    BY DEF PrefixInv
  <2>2. PICK now \in BOOLEAN : request'.prefix = PrefixOf(~now) /\ (~IsCut => now = schema_seen(talk))
    BY <1>2, PrefixOptimize DEF PrefixInv
  <2>3. request'.prefix.system = request.prefix.system
    BY <2>1, <2>2 DEF PrefixOf
  <2> HIDE DEF PrefixOf
  <2>4. Names(request.prefix) = <<1, 2>> /\ AllFull(request.prefix, ~seen)
    BY <2>1, PrefixNames
  <2>5. Names(request'.prefix) = <<1, 2>> /\ AllFull(request'.prefix, ~now)
    BY <2>2, PrefixNames
  <2>6. IsCut \/ now = seen \/ (~seen /\ now)
    BY <2>1, <2>2 DEF Before
  <2>7. now = seen => request'.prefix = request.prefix
    BY <2>1, <2>2
  <2>8. ~seen /\ now => AllFull(request.prefix, TRUE) /\ AllFull(request'.prefix, FALSE)
    <3> SUFFICES ASSUME ~seen, now
                 PROVE  AllFull(request.prefix, TRUE) /\ AllFull(request'.prefix, FALSE)
      OBVIOUS
    <3>1. (~seen) = TRUE /\ (~now) = FALSE
      OBVIOUS
    <3>2. QED
      BY <2>4, <2>5, <3>1
  <2>9. QED
    BY <2>3, <2>4, <2>5, <2>6, <2>7, <2>8 DEF PrefixMoves
<1>3. QED
  BY <1>1, <1>2

\* The prefix that reorder_for_cache (src/cache_reorder.rs) makes of system
\* prompt and tools, where these have a name (in Anthropic's format), changes in
\* one way: optimize (src/openclaw.rs) stops sending whole schemas, once a call
\* has been seen.  Only the context optimizer, when it takes the calls out, can
\* make it go back and forth; the order never changes.
THEOREM PrefixHolds == AgentSpec => PrefixStays
<1>1. AgentInit => TalkType /\ ContextType /\ PrefixInv
  BY TalkInit, PrefixInit
<1>2. TalkType /\ ContextType /\ PrefixInv /\ [AgentNext]_agentVars => (TalkType /\ ContextType /\ PrefixInv)'
  BY TalkStep, ContextStep, PrefixStep
<1>3. TalkType /\ PrefixInv /\ [AgentNext]_agentVars => [PrefixMoves]_agentVars
  BY PrefixMove
<1>4. QED
  BY <1>1, <1>2, <1>3, PTL DEF AgentSpec, PrefixStays, PrefixMoves

-------------------------------------------------------------------------------
(* What each strategy makes of one message. *)

\* A message with other parts.
With(m, parts) == [m EXCEPT !.parts = parts]
\* A tool result of more than a size, and what it becomes.
Sized(m, p, size) == IF IsResult(m, p) /\ p.size > size THEN Part(p.type, 0, Pruned) ELSE p
Purge(m, p) == IF IsResult(m, p) THEN Part(p.type, 0, Pruned) ELSE p
\* A text without its thoughts.
Emptied(p) == [p EXCEPT !.texts = <<Unthought(p.texts[1], <<>>)>>]
Marked(p) == [p EXCEPT !.texts[1] = Unthought(p.texts[1], <<Plainly("cut")>>)]
Thinned(p) == IF p.type = "text" /\ Shrinks(p.texts[1]) THEN Marked(p) ELSE p
Deduped(p, n) == IF p.type = "text" THEN [p EXCEPT !.texts[1] = Replaced(p.texts[1], n)] ELSE p

LEMMA PurgedAt ==
  ASSUME NEW ms, NEW i \in DOMAIN ms
  PROVE  LET m == ms[i]
             old == With(m, [j \in DOMAIN m.parts |-> Purge(m, m.parts[j])])
             r == IF i \in Older(ms, WindowToolTurns) THEN old ELSE m
         IN  Purged(ms)[i] = IF i \in Older(ms, WindowThoughtTurns) /\ m.role = "assistant" /\ m.content = "string"
                             THEN With(r, [j \in DOMAIN r.parts |-> Emptied(r.parts[j])])
                             ELSE r
BY DEF Purged, PartsOf, With, Purge, Emptied

LEMMA PrunedAt ==
  ASSUME NEW ms, NEW i \in DOMAIN ms
  PROVE  LET m == ms[i]
             size == size_threshold(i \in Older(ms, ToolTurns))
         IN  prune_tool_results(ms)[i] = With(m, [j \in DOMAIN m.parts |-> Sized(m, m.parts[j], size)])
BY DEF prune_tool_results, PartsOf, With, Sized

LEMMA ThinnedAt ==
  ASSUME NEW ms, NEW i \in DOMAIN ms
  PROVE  LET m == ms[i] IN
         prune_thought_blocks(ms)[i] =
           IF i \in Older(ms, ThoughtTurns) /\ m.role = "assistant"
           THEN With(m, [j \in DOMAIN m.parts |-> Thinned(m.parts[j])]) ELSE m
BY DEF prune_thought_blocks, PartsOf, With, Thinned, Marked

LEMMA DedupedAt ==
  ASSUME NEW ms, NEW i \in DOMAIN ms
  PROVE  LET m == ms[i]
             n == Repeats(m, Seen(ms, i))
         IN  dedup_errors(ms)[i] = With(m, [j \in DOMAIN m.parts |-> Deduped(m.parts[j], n)])
BY DEF dedup_errors, PartsOf, With, Deduped

LEMMA CondensedAt ==
  ASSUME NEW ms, NEW i \in DOMAIN ms
  PROVE  LET m == ms[i] IN
         condense_file_views(ms)[i] =
           IF m.content = "blocks" THEN With(m, [j \in DOMAIN m.parts |-> condensed(m.parts[j])]) ELSE m
BY DEF condense_file_views, PartsOf, With

\* What the strategies rely on in a part: of all that SaidPart says, what
\* none of them takes away.
PartOk(m, p) ==
  /\ p \in PartTyped
  /\ p.type = "text" => Len(p.texts) = 1
  /\ p.type = "tool_result" => p.texts # <<>>
  /\ m.content = "string" => p.type = "text"
  /\ m.role = "assistant" => p.type # "tool_result" /\ Lacks(p, {"trace"})
SoundMessage == {m \in MessageTyped : \A j \in DOMAIN m.parts : PartOk(m, m.parts[j])}

LEMMA SaidIsSound == SaidMessage \subseteq SoundMessage
<1> SUFFICES ASSUME NEW m \in SaidMessage PROVE m \in SoundMessage
  OBVIOUS
<1>1. m \in MessageTyped /\ \A j \in DOMAIN m.parts : SaidPart(m, m.parts[j])
  BY DEF SaidMessage
<1>2. \A j \in DOMAIN m.parts : m.parts[j] \in PartTyped
  BY <1>1 DEF MessageTyped
<1>3. \A j \in DOMAIN m.parts : PartOk(m, m.parts[j])
  BY <1>1, <1>2 DEF PartOk, SaidPart
<1>4. QED
  BY <1>1, <1>3 DEF SoundMessage

LEMMA WithSound ==
  ASSUME NEW m \in SoundMessage, NEW parts, DOMAIN parts = DOMAIN m.parts,
         parts = [j \in DOMAIN parts |-> parts[j]],
         \A j \in DOMAIN m.parts : PartOk(m, parts[j])
  PROVE  /\ With(m, parts) \in SoundMessage
         /\ With(m, parts).parts = parts /\ With(m, parts).turn = m.turn
         /\ With(m, parts).role = m.role /\ With(m, parts).content = m.content
<1> DEFINE x == With(m, parts)
<1>1. m \in MessageTyped
  BY DEF SoundMessage
<1>2. parts \in Seq(PartTyped)
  <2>1. PICK n \in Nat : DOMAIN m.parts = 1..n
    BY <1>1 DEF MessageTyped
  <2>2. \A j \in 1..n : parts[j] \in PartTyped
    BY <2>1 DEF PartOk
  <2>3. QED
    BY <2>1, <2>2
<1>3. x.parts = parts /\ x.turn = m.turn /\ x.role = m.role /\ x.content = m.content /\ x \in MessageTyped
  BY <1>1, <1>2 DEF With, MessageTyped
<1> HIDE DEF x
<1>4. \A j \in DOMAIN x.parts : PartOk(x, x.parts[j])
  BY <1>3 DEF PartOk
<1>5. x \in SoundMessage
  BY <1>3, <1>4 DEF SoundMessage
<1>6. QED
  BY <1>3, <1>5 DEF x

\* The placeholder of a result.
LEMMA PrunedFacts ==
  ASSUME NEW type \in {"text", "tool_use", "tool_result"}
  PROVE  LET p == Part(type, 0, Pruned) IN
         /\ p \in PartTyped /\ p.type = type /\ p.size = 0 /\ p.texts = Pruned
         /\ Pruned # <<>> /\ Len(Pruned) = 1
         /\ Lacks(p, {"trace"}) /\ Lacks(p, {"same"}) /\ Lacks(p, {"long", "short"})
<1> DEFINE cut == Plainly("cut")
           p == Part(type, 0, Pruned)
<1>1. cut \in Segment /\ cut.is = "cut"
  BY SegmentsTyped DEF Plainly
<1>2. Pruned = <<<<cut>>>>
  BY DEF Pruned
<1> HIDE DEF cut
<1>3. Pruned \in Seq(Seq(Segment)) /\ Pruned # <<>> /\ Len(Pruned) = 1
  BY <1>1, <1>2
<1>4. p \in PartTyped
  <2>1. 0 \in Nat
    OBVIOUS
  <2>2. QED
    BY <1>3, <2>1, PartIsTyped
<1>5. p.type = type /\ p.size = 0 /\ p.texts = Pruned
  BY DEF Part
<1> HIDE DEF p
<1>6. \A k \in DOMAIN Pruned : \A l \in DOMAIN Pruned[k] : Pruned[k][l] = cut
  BY <1>2
<1>7. Lacks(p, {"trace"}) /\ Lacks(p, {"same"}) /\ Lacks(p, {"long", "short"})
  BY <1>1, <1>5, <1>6 DEF Lacks
<1>8. QED
  BY <1>3, <1>4, <1>5, <1>7 DEF p

\* A part that is cut, where it is a result.
LEMMA CutOk ==
  ASSUME NEW m, NEW p, PartOk(m, p), IsResult(m, p)
  PROVE  PartOk(m, Part(p.type, 0, Pruned))
<1>1. p.type \in {"text", "tool_use", "tool_result"}
  BY DEF PartOk, PartTyped
<1> DEFINE q == Part(p.type, 0, Pruned)
<1>2. q \in PartTyped /\ q.type = p.type /\ q.texts = Pruned /\ Pruned # <<>> /\ Len(Pruned) = 1
      /\ Lacks(q, {"trace"})
  BY <1>1, PrunedFacts
<1> HIDE DEF q
<1>3. PartOk(m, q)
  BY <1>2 DEF PartOk, IsResult
<1>4. QED
  BY <1>3 DEF q

LEMMA UnthoughtFacts ==
  ASSUME NEW text \in Seq(Segment), NEW mark \in Seq(Segment)
  PROVE  /\ Unthought(text, mark) \in Seq(Segment)
         /\ \A s \in Range(Unthought(text, mark)) :
              (s \in Range(text) /\ s.is \notin {"long", "short"}) \/ s \in Range(mark)
<1> DEFINE list == [k \in DOMAIN text |->
                      IF text[k].is \in {"long", "short"} THEN mark ELSE <<text[k]>>]
<1>1. \A k \in DOMAIN text : list[k] \in Seq(Segment)
  <2> TAKE k \in DOMAIN text
  <2>1. <<text[k]>> \in Seq(Segment)
    OBVIOUS
  <2>2. QED
    BY <2>1
<1>2. list \in Seq(Seq(Segment)) /\ DOMAIN list = DOMAIN text
  <2>1. DOMAIN text = 1..Len(text) /\ Len(text) \in Nat
    OBVIOUS
  <2>2. QED
    BY <1>1, <2>1
<1>3. Unthought(text, mark) = FlattenSeq(list)
  BY DEF Unthought
<1>4. \A k \in DOMAIN text : \A s \in Range(list[k]) :
         (s \in Range(text) /\ s.is \notin {"long", "short"}) \/ s \in Range(mark)
  BY DEF Range
<1> HIDE DEF list
<1>5. FlattenSeq(list) \in Seq(Segment)
      /\ Range(FlattenSeq(list)) = UNION {Range(list[k]) : k \in DOMAIN list}
  BY <1>2, FlattenMembers
<1>6. QED
  BY <1>2, <1>3, <1>4, <1>5

\* A text without its thoughts, whatever is put in their place.
LEMMA WithoutThoughts ==
  ASSUME NEW m, NEW p, PartOk(m, p), m.role = "assistant", p.type = "text",
         NEW mark \in {<<>>, <<Plainly("cut")>>}, NEW q,
         q = [p EXCEPT !.texts = <<Unthought(p.texts[1], mark)>>]
  PROVE  /\ PartOk(m, q) /\ q.type = p.type /\ q.size = p.size /\ Len(q.texts) = 1
         /\ Lacks(q, {"long", "short"}) /\ Lacks(q, {"trace"})
         /\ Lacks(p, {"same"}) => Lacks(q, {"same"})
<1> DEFINE text == p.texts[1]
           u == Unthought(text, mark)
<1>1. p \in PartTyped /\ Len(p.texts) = 1 /\ Lacks(p, {"trace"})
  BY DEF PartOk
<1>2. p.texts \in Seq(Seq(Segment))
  BY <1>1 DEF PartTyped
<1>3. text \in Seq(Segment) /\ 1 \in DOMAIN p.texts
  BY <1>1, <1>2
<1>4. mark \in Seq(Segment) /\ \A s \in Range(mark) : s.is = "cut"
  <2>1. <<Plainly("cut")>> \in Seq(Segment)
    BY SegmentsTyped, ShortTexts
  <2>2. \A s \in Range(<<Plainly("cut")>>) : s.is = "cut"
    BY DEF Range, Plainly
  <2>3. <<>> \in Seq(Segment) /\ Range(<<>>) = {}
    BY DEF Range
  <2>4. QED
    BY <2>1, <2>2, <2>3
<1> HIDE DEF text
<1>5. /\ u \in Seq(Segment)
      /\ \A s \in Range(u) : (s \in Range(text) /\ s.is \notin {"long", "short"}) \/ s \in Range(mark)
  BY <1>3, <1>4, UnthoughtFacts
<1> HIDE DEF u
<1>6. q = [p EXCEPT !.texts = <<u>>]
  BY DEF u, text
<1>7. <<u>> \in Seq(Seq(Segment)) /\ DOMAIN <<u>> = {1} /\ <<u>>[1] = u /\ Len(<<u>>) = 1
  <2>1. DOMAIN <<u>> = 1..1 /\ 1..1 = {1}
    OBVIOUS
  <2>2. QED
    BY <1>5, <2>1
<1>8. q \in PartTyped /\ q.texts = <<u>> /\ q.type = p.type /\ q.size = p.size
  BY <1>1, <1>6, <1>7 DEF PartTyped
<1>9. \A s \in Range(text) : \E k \in DOMAIN p.texts : \E l \in DOMAIN p.texts[k] : p.texts[k][l] = s
  BY <1>3 DEF Range, text
<1>10. \A l \in DOMAIN u : u[l] \in Range(u)
  BY DEF Range
<1>11. \A l \in DOMAIN q.texts[1] : q.texts[1][l].is \notin {"long", "short", "trace"}
  <2> TAKE l \in DOMAIN q.texts[1]
  <2>1. u[l] \in Range(u) /\ q.texts[1][l] = u[l]
    BY <1>7, <1>8, <1>10
  <2>2. CASE u[l] \in Range(mark)
    BY <1>4, <2>1, <2>2
  <2>3. CASE u[l] \in Range(text) /\ u[l].is \notin {"long", "short"}
    BY <1>1, <1>9, <2>1, <2>3 DEF Lacks
  <2>4. QED
    BY <1>5, <2>1, <2>2, <2>3
<1>12. Lacks(p, {"same"}) => \A l \in DOMAIN q.texts[1] : q.texts[1][l].is # "same"
  <2> SUFFICES ASSUME Lacks(p, {"same"}), NEW l \in DOMAIN q.texts[1]
               PROVE  q.texts[1][l].is # "same"
    OBVIOUS
  <2>1. u[l] \in Range(u) /\ q.texts[1][l] = u[l]
    BY <1>7, <1>8, <1>10
  <2>2. CASE u[l] \in Range(mark)
    BY <1>4, <2>1, <2>2
  <2>3. CASE u[l] \in Range(text)
    BY <1>9, <2>1, <2>3 DEF Lacks
  <2>4. QED
    BY <1>5, <2>1, <2>2, <2>3
<1>13. Lacks(q, {"long", "short"}) /\ Lacks(q, {"trace"})
  BY <1>7, <1>8, <1>11 DEF Lacks
<1>14. Lacks(p, {"same"}) => Lacks(q, {"same"})
  BY <1>7, <1>8, <1>12 DEF Lacks
<1>15. PartOk(m, q)
  BY <1>7, <1>8, <1>13 DEF PartOk
<1>16. QED
  BY <1>7, <1>8, <1>13, <1>14, <1>15

LEMMA EmptiedFacts ==
  ASSUME NEW m, NEW p, PartOk(m, p), m.role = "assistant", m.content = "string"
  PROVE  LET q == Emptied(p) IN
         /\ PartOk(m, q) /\ q.type = p.type /\ q.size = p.size /\ Len(q.texts) = 1
         /\ Lacks(q, {"long", "short"}) /\ Lacks(q, {"trace"})
         /\ Lacks(p, {"same"}) => Lacks(q, {"same"})
<1> DEFINE q == Emptied(p)
           mark == <<>>
<1>1. q = [p EXCEPT !.texts = <<Unthought(p.texts[1], mark)>>]
  BY DEF Emptied
<1>2. p.type = "text"
  BY DEF PartOk
<1>3. mark \in {<<>>, <<Plainly("cut")>>}
  OBVIOUS
<1> HIDE DEF q, mark
<1>4. /\ PartOk(m, q) /\ q.type = p.type /\ q.size = p.size /\ Len(q.texts) = 1
      /\ Lacks(q, {"long", "short"}) /\ Lacks(q, {"trace"})
      /\ Lacks(p, {"same"}) => Lacks(q, {"same"})
  BY <1>1, <1>2, <1>3, WithoutThoughts
<1>5. QED
  BY <1>4 DEF q

LEMMA MarkedFacts ==
  ASSUME NEW m, NEW p, PartOk(m, p), m.role = "assistant", p.type = "text"
  PROVE  LET q == Marked(p) IN
         /\ PartOk(m, q) /\ q.type = p.type /\ q.size = p.size /\ Len(q.texts) = 1
         /\ Lacks(q, {"long", "short"}) /\ Lacks(q, {"trace"})
         /\ Lacks(p, {"same"}) => Lacks(q, {"same"})
<1> DEFINE q == Marked(p)
           mark == <<Plainly("cut")>>
           u == Unthought(p.texts[1], mark)
<1>1. q = [p EXCEPT !.texts = [p.texts EXCEPT ![1] = u]]
  BY DEF Marked
<1>2. [p.texts EXCEPT ![1] = u] = <<u>>
  <2>1. p.texts \in Seq(Seq(Segment)) /\ Len(p.texts) = 1
    BY DEF PartOk, PartTyped
  <2> HIDE DEF u
  <2>2. QED
    BY <2>1
<1>3. mark \in {<<>>, <<Plainly("cut")>>}
  OBVIOUS
<1>4. q = [p EXCEPT !.texts = <<Unthought(p.texts[1], mark)>>]
  BY <1>1, <1>2
<1> HIDE DEF q, mark
<1>5. /\ PartOk(m, q) /\ q.type = p.type /\ q.size = p.size /\ Len(q.texts) = 1
      /\ Lacks(q, {"long", "short"}) /\ Lacks(q, {"trace"})
      /\ Lacks(p, {"same"}) => Lacks(q, {"same"})
  BY <1>3, <1>4, WithoutThoughts
<1>6. QED
  BY <1>5 DEF q

\* A segment that dedup_errors has looked at, with so many repeats in its message.
Deduplicated(u, s, n) == u = s \/ (n >= 1 /\ s.is = "trace" /\ u = Same(s.trace))

LEMMA ReplacedFacts ==
  ASSUME NEW text \in Seq(Segment), NEW n \in Int
  PROVE  /\ Replaced(text, n) \in Seq(Segment)
         /\ DOMAIN Replaced(text, n) = DOMAIN text
         /\ \A k \in DOMAIN text : Deduplicated(Replaced(text, n)[k], text[k], n)
<1> DEFINE u == Replaced(text, n)
           upto(k) == {l \in 1..k : text[l].is = "trace"}
<1>1. u = [k \in DOMAIN text |->
             IF text[k].is = "trace" /\ Cardinality(upto(k)) <= n THEN Same(text[k].trace) ELSE text[k]]
  BY DEF Replaced
<1>2. \A k \in DOMAIN text : text[k].is = "trace" => Cardinality(upto(k)) \in Nat \ {0}
  <2> SUFFICES ASSUME NEW k \in DOMAIN text, text[k].is = "trace"
               PROVE  Cardinality(upto(k)) \in Nat \ {0}
    OBVIOUS
  <2>1. k \in Nat \ {0} /\ k \in 1..k
    OBVIOUS
  <2>2. IsFiniteSet(1..k) /\ upto(k) \subseteq 1..k
    BY <2>1, FS_Interval
  <2>3. IsFiniteSet(upto(k)) /\ upto(k) # {}
    BY <2>1, <2>2, FS_Subset
  <2> HIDE DEF upto
  <2>4. QED
    BY <2>3, FS_EmptySet, FS_CardinalityType
<1> HIDE DEF u, upto
<1>3. \A k \in DOMAIN text : Deduplicated(u[k], text[k], n)
  <2> TAKE k \in DOMAIN text
  <2>1. u[k] = IF text[k].is = "trace" /\ Cardinality(upto(k)) <= n THEN Same(text[k].trace) ELSE text[k]
    BY <1>1
  <2>2. CASE text[k].is = "trace" /\ Cardinality(upto(k)) <= n
    <3>1. n >= 1
      <4>1. Cardinality(upto(k)) \in Nat \ {0}
        BY <1>2, <2>2
      <4>2. QED
        BY <2>2, <4>1
    <3>2. QED
      BY <2>1, <2>2, <3>1 DEF Deduplicated
  <2>3. CASE ~(text[k].is = "trace" /\ Cardinality(upto(k)) <= n)
    BY <2>1, <2>3 DEF Deduplicated
  <2>4. QED
    BY <2>2, <2>3
<1>4. \A k \in DOMAIN text : u[k] \in Segment
  <2> TAKE k \in DOMAIN text
  <2>1. text[k] \in Segment
    OBVIOUS
  <2>2. text[k].is = "trace" => Same(text[k].trace) \in Segment
    BY <2>1 DEF Segment, Same
  <2>3. QED
    BY <1>3, <2>1, <2>2 DEF Deduplicated
<1>5. DOMAIN u = DOMAIN text
  BY <1>1
<1>6. u \in Seq(Segment)
  <2>1. u = [k \in DOMAIN text |-> u[k]]
    BY <1>1
  <2>2. DOMAIN text = 1..Len(text) /\ Len(text) \in Nat
    OBVIOUS
  <2>3. QED
    BY <1>4, <2>1, <2>2
<1>7. QED
  BY <1>3, <1>5, <1>6 DEF u

\* Segment by segment, what the first n replacements make of a part.
DedupedTexts(p, q, n) ==
  /\ DOMAIN q.texts = DOMAIN p.texts
  /\ \A k \in DOMAIN p.texts :
       /\ DOMAIN q.texts[k] = DOMAIN p.texts[k]
       /\ \A l \in DOMAIN p.texts[k] : Deduplicated(q.texts[k][l], p.texts[k][l], n)

LEMMA DedupedFacts ==
  ASSUME NEW m, NEW p, PartOk(m, p), NEW n \in Int
  PROVE  LET q == Deduped(p, n) IN
         /\ PartOk(m, q) /\ q.type = p.type /\ q.size = p.size
         /\ DOMAIN q.texts = DOMAIN p.texts
         /\ \A k \in DOMAIN p.texts :
              /\ DOMAIN q.texts[k] = DOMAIN p.texts[k]
              /\ \A l \in DOMAIN p.texts[k] : Deduplicated(q.texts[k][l], p.texts[k][l], n)
         /\ Lacks(p, {"trace"}) => q = p
<1> DEFINE q == Deduped(p, n)
           u == Replaced(p.texts[1], n)
<1>1. p \in PartTyped /\ p.texts \in Seq(Seq(Segment))
  BY DEF PartOk, PartTyped
<1>2. CASE p.type # "text"
  <2>1. q = p
    BY <1>2 DEF Deduped
  <2> HIDE DEF q
  <2>2. QED
    BY <2>1 DEF Deduplicated, q
<1>3. CASE p.type = "text"
  <2>1. Len(p.texts) = 1
    BY <1>3 DEF PartOk
  <2>2. p.texts[1] \in Seq(Segment) /\ DOMAIN p.texts = {1}
    <3>1. DOMAIN p.texts = 1..1 /\ 1..1 = {1}
      BY <1>1, <2>1
    <3>2. QED
      BY <1>1, <3>1
  <2>3. /\ u \in Seq(Segment) /\ DOMAIN u = DOMAIN p.texts[1]
        /\ \A l \in DOMAIN p.texts[1] : Deduplicated(u[l], p.texts[1][l], n)
    BY <2>2, ReplacedFacts
  <2> HIDE DEF u
  <2>4. q = [p EXCEPT !.texts = [p.texts EXCEPT ![1] = u]]
    BY <1>3 DEF Deduped, u
  <2>5. [p.texts EXCEPT ![1] = u] \in Seq(Seq(Segment))
        /\ DOMAIN [p.texts EXCEPT ![1] = u] = {1} /\ [p.texts EXCEPT ![1] = u][1] = u
        /\ Len([p.texts EXCEPT ![1] = u]) = 1
    BY <1>1, <2>1, <2>2, <2>3
  <2>6. q \in PartTyped /\ q.type = p.type /\ q.size = p.size /\ q.texts = [p.texts EXCEPT ![1] = u]
    BY <1>1, <2>4, <2>5 DEF PartTyped
  <2>7. DOMAIN q.texts = {1} /\ q.texts[1] = u /\ Len(q.texts) = 1
    BY <2>5, <2>6
  <2>8. ASSUME Lacks(p, {"trace"})
        PROVE  q = p
    <3>1. \A l \in DOMAIN p.texts[1] : u[l] = p.texts[1][l]
      BY <2>2, <2>3, <2>8 DEF Lacks, Deduplicated
    <3>2. u = p.texts[1]
      <4>1. Len(u) = Len(p.texts[1]) /\ DOMAIN u = 1..Len(u)
        BY <2>2, <2>3
      <4>2. QED
        BY <2>2, <2>3, <3>1, <4>1, SeqEqual
    <3>3. [p.texts EXCEPT ![1] = u] = p.texts
      <4> DEFINE texts == p.texts
      <4>1. texts \in Seq(Seq(Segment)) /\ u = texts[1]
        BY <1>1, <3>2
      <4> HIDE DEF texts
      <4>2. [texts EXCEPT ![1] = u] = texts
        BY <4>1
      <4>3. QED
        BY <4>2 DEF texts
    <3>4. QED
      BY <1>1, <2>4, <3>3 DEF PartTyped
  <2> HIDE DEF q
  <2>9. Lacks(p, {"trace"}) => Lacks(q, {"trace"})
    BY <2>8
  <2>10. PartOk(m, q)
    BY <2>6, <2>7, <2>9 DEF PartOk
  <2>11. QED
    BY <2>2, <2>3, <2>6, <2>7, <2>8, <2>10 DEF q
<1>4. QED
  BY <1>2, <1>3

\* The same, under its name.
LEMMA DedupedTextsHold ==
  ASSUME NEW m, NEW p, PartOk(m, p), NEW n \in Int
  PROVE  DedupedTexts(p, Deduped(p, n), n)
BY DedupedFacts DEF DedupedTexts

SegmentsOf(p) == UNION {Range(p.texts[k]) : k \in DOMAIN p.texts}
LEMMA LacksSegments ==
  ASSUME NEW p, NEW kinds
  PROVE  Lacks(p, kinds) <=> \A s \in SegmentsOf(p) : s.is \notin kinds
BY DEF Lacks, SegmentsOf, Range

\* Condensing takes nothing from a part but waste.
LEMMA CondensedFacts ==
  ASSUME NEW m, NEW p, PartOk(m, p)
  PROVE  LET q == condensed(p) IN
         /\ PartOk(m, q) /\ q.type = p.type /\ q.size = p.size
         /\ SegmentsOf(q) \subseteq SegmentsOf(p)
         /\ \A s \in SegmentsOf(p) : s.is # "waste" => s \in SegmentsOf(q)
         /\ p.type # "tool_result" \/ p.size = 0 => q = p
<1> DEFINE q == condensed(p)
           text == FlattenSeq(p.texts)
           u == Stripped(text)
<1>1. p \in PartTyped /\ p.texts \in Seq(Seq(Segment)) /\ p.size \in Nat
  BY DEF PartOk, PartTyped
<1>2. text \in Seq(Segment) /\ Range(text) = SegmentsOf(p)
  BY <1>1, FlattenMembers DEF SegmentsOf
<1> HIDE DEF text
<1>3. u \in Seq(Segment) /\ Range(u) = {s \in SegmentsOf(p) : s.is # "waste"}
  <2>1. Range(text) \cap {s \in Range(text) : s.is # "waste"} = {s \in SegmentsOf(p) : s.is # "waste"}
    BY <1>2
  <2>2. u = Only(text, {s \in Range(text) : s.is # "waste"})
    BY DEF Stripped
  <2>3. QED
    BY <1>2, <2>1, <2>2, OnlyMembers
<1> HIDE DEF u
<1>4. CASE q = p
  BY <1>4
<1>5. CASE q # p
  <2>1. p.type = "tool_result" /\ p.size > 0 /\ q = [p EXCEPT !.texts = [p.texts EXCEPT ![1] = u]]
    BY <1>5 DEF condensed, text, u
  <2>2. p.texts # <<>> /\ m.content # "string" /\ m.role # "assistant"
    BY <2>1 DEF PartOk
  <2> DEFINE texts == [p.texts EXCEPT ![1] = u]
  <2>3. /\ texts \in Seq(Seq(Segment)) /\ DOMAIN texts = DOMAIN p.texts /\ 1 \in DOMAIN texts
        /\ texts[1] = u /\ \A k \in DOMAIN texts : k = 1 \/ texts[k] = p.texts[k]
        /\ texts # <<>>
    BY <1>1, <1>3, <2>2
  <2> HIDE DEF texts
  <2>4. q = [p EXCEPT !.texts = texts]
    BY <2>1 DEF texts
  <2>5. q \in PartTyped /\ q.type = p.type /\ q.size = p.size /\ q.texts = texts
    BY <1>1, <2>3, <2>4 DEF PartTyped
  <2> HIDE DEF q
  <2>6. PartOk(m, q)
    BY <2>1, <2>2, <2>3, <2>5 DEF PartOk
  <2>7. SegmentsOf(q) = UNION {Range(texts[k]) : k \in DOMAIN texts}
    BY <2>5 DEF SegmentsOf
  <2>8. SegmentsOf(q) \subseteq SegmentsOf(p)
    <3>1. Range(u) \subseteq SegmentsOf(p)
      BY <1>3
    <3>2. \A k \in DOMAIN texts : Range(texts[k]) \subseteq SegmentsOf(p)
      BY <2>3, <3>1 DEF SegmentsOf
    <3>3. QED
      BY <2>7, <3>2
  <2>9. \A s \in SegmentsOf(p) : s.is # "waste" => s \in SegmentsOf(q)
    BY <1>3, <2>3, <2>7
  <2>10. ~(p.type # "tool_result" \/ p.size = 0)
    BY <1>1, <2>1
  <2>11. QED
    BY <2>5, <2>6, <2>8, <2>9, <2>10 DEF q
<1>6. QED
  BY <1>4, <1>5

\* A message that has been through a strategy, and what it was.
SamePlan(x, y) ==
  /\ x \in SoundMessage /\ x.role = y.role /\ x.content = y.content /\ x.turn = y.turn
  /\ DOMAIN x.parts = DOMAIN y.parts
\* The strategy changes messages one by one.
OneByOne(out, ms) ==
  /\ out \in Seq(SoundMessage) /\ DOMAIN out = DOMAIN ms /\ Len(out) = Len(ms)
  /\ \A i \in DOMAIN ms : SamePlan(out[i], ms[i])

LEMMA MessageByMessage ==
  ASSUME NEW ms \in Seq(SoundMessage), NEW out, out = [i \in DOMAIN ms |-> out[i]],
         \A i \in DOMAIN ms : SamePlan(out[i], ms[i])
  PROVE  OneByOne(out, ms)
<1>1. DOMAIN ms = 1..Len(ms) /\ Len(ms) \in Nat
  OBVIOUS
<1>2. \A i \in 1..Len(ms) : out[i] \in SoundMessage
  BY <1>1 DEF SamePlan
<1>3. out = [i \in 1..Len(ms) |-> out[i]]
  BY <1>1
<1>4. out \in Seq(SoundMessage)
  BY <1>1, <1>2, <1>3
<1>5. DOMAIN out = 1..Len(ms)
  BY <1>3
<1>6. Len(out) = Len(ms)
  BY <1>1, <1>4, <1>5
<1>7. QED
  BY <1>1, <1>4, <1>5, <1>6 DEF OneByOne

LEMMA WithPlan ==
  ASSUME NEW m \in SoundMessage, NEW parts, DOMAIN parts = DOMAIN m.parts,
         parts = [j \in DOMAIN parts |-> parts[j]],
         \A j \in DOMAIN m.parts : PartOk(m, parts[j])
  PROVE  SamePlan(With(m, parts), m) /\ With(m, parts).parts = parts
BY WithSound DEF SamePlan

LEMMA PlanKept ==
  ASSUME NEW m \in SoundMessage
  PROVE  SamePlan(m, m) /\ \A j \in DOMAIN m.parts : PartOk(m, m.parts[j])
BY DEF SamePlan, SoundMessage

LEMMA PlanTwice ==
  ASSUME NEW x, NEW y, NEW z, SamePlan(x, y), SamePlan(y, z)
  PROVE  SamePlan(x, z)
BY DEF SamePlan

LEMMA PartOkAlike ==
  ASSUME NEW x, NEW y, NEW p, SamePlan(x, y), PartOk(x, p)
  PROVE  PartOk(y, p)
BY DEF SamePlan, PartOk

\* prune_tool_results.
LEMMA PrunedParts ==
  ASSUME NEW ms \in Seq(SoundMessage)
  PROVE  /\ OneByOne(prune_tool_results(ms), ms)
         /\ \A i \in DOMAIN ms : \A j \in DOMAIN ms[i].parts :
              prune_tool_results(ms)[i].parts[j] =
                Sized(ms[i], ms[i].parts[j], size_threshold(i \in Older(ms, ToolTurns)))
<1> DEFINE out == prune_tool_results(ms)
           part(i, j) == Sized(ms[i], ms[i].parts[j], size_threshold(i \in Older(ms, ToolTurns)))
<1>1. \A i \in DOMAIN ms :
        /\ SamePlan(out[i], ms[i])
        /\ \A j \in DOMAIN ms[i].parts : out[i].parts[j] = part(i, j)
  <2> TAKE i \in DOMAIN ms
  <2> DEFINE m == ms[i]
             parts == [j \in DOMAIN m.parts |-> part(i, j)]
  <2>1. m \in SoundMessage
    OBVIOUS
  <2>2. out[i] = With(m, parts)
    BY PrunedAt
  <2>3. \A j \in DOMAIN m.parts : PartOk(m, part(i, j))
    BY <2>1, PlanKept, CutOk DEF Sized
  <2>4. DOMAIN parts = DOMAIN m.parts /\ parts = [j \in DOMAIN parts |-> parts[j]]
        /\ \A j \in DOMAIN m.parts : parts[j] = part(i, j)
    OBVIOUS
  <2> HIDE DEF parts, part, m
  <2>5. SamePlan(With(m, parts), m) /\ With(m, parts).parts = parts
    BY <2>1, <2>3, <2>4, WithPlan
  <2>6. QED
    BY <2>2, <2>4, <2>5 DEF m
<1>2. out = [i \in DOMAIN ms |-> out[i]]
  BY DEF prune_tool_results
<1> HIDE DEF out, part
<1>3. OneByOne(out, ms)
  BY <1>1, <1>2, MessageByMessage
<1>4. QED
  BY <1>1, <1>3 DEF out, part

\* prune_thought_blocks.
LEMMA ThinnedParts ==
  ASSUME NEW ms \in Seq(SoundMessage)
  PROVE  /\ OneByOne(prune_thought_blocks(ms), ms)
         /\ \A i \in DOMAIN ms : \A j \in DOMAIN ms[i].parts :
              prune_thought_blocks(ms)[i].parts[j] =
                IF i \in Older(ms, ThoughtTurns) /\ ms[i].role = "assistant"
                THEN Thinned(ms[i].parts[j]) ELSE ms[i].parts[j]
<1> DEFINE out == prune_thought_blocks(ms)
           part(i, j) == IF i \in Older(ms, ThoughtTurns) /\ ms[i].role = "assistant"
                         THEN Thinned(ms[i].parts[j]) ELSE ms[i].parts[j]
<1>1. \A i \in DOMAIN ms :
        /\ SamePlan(out[i], ms[i])
        /\ \A j \in DOMAIN ms[i].parts : out[i].parts[j] = part(i, j)
  <2> TAKE i \in DOMAIN ms
  <2>1. ms[i] \in SoundMessage
    OBVIOUS
  <2>2. CASE ~(i \in Older(ms, ThoughtTurns) /\ ms[i].role = "assistant")
    <3>1. out[i] = ms[i]
      BY <2>2, ThinnedAt
    <3>2. QED
      BY <2>1, <2>2, <3>1, PlanKept
  <2>3. CASE i \in Older(ms, ThoughtTurns) /\ ms[i].role = "assistant"
    <3> DEFINE m == ms[i]
               parts == [j \in DOMAIN m.parts |-> Thinned(m.parts[j])]
    <3>1. out[i] = With(m, parts)
      BY <2>3, ThinnedAt
    <3>2. \A j \in DOMAIN m.parts : PartOk(m, Thinned(m.parts[j]))
      BY <2>1, <2>3, PlanKept, MarkedFacts DEF Thinned
    <3>3. DOMAIN parts = DOMAIN m.parts /\ parts = [j \in DOMAIN parts |-> parts[j]]
          /\ \A j \in DOMAIN m.parts : parts[j] = Thinned(m.parts[j])
      OBVIOUS
    <3> HIDE DEF parts, m
    <3>4. SamePlan(With(m, parts), m) /\ With(m, parts).parts = parts
      BY <2>1, <3>2, <3>3, WithPlan DEF m
    <3>5. QED
      BY <2>3, <3>1, <3>3, <3>4 DEF m
  <2>4. QED
    BY <2>2, <2>3
<1>2. out = [i \in DOMAIN ms |-> out[i]]
  BY DEF prune_thought_blocks
<1> HIDE DEF out, part
<1>3. OneByOne(out, ms)
  BY <1>1, <1>2, MessageByMessage
<1>4. QED
  BY <1>1, <1>3 DEF out, part

\* condense_file_views.
LEMMA CondensedParts ==
  ASSUME NEW ms \in Seq(SoundMessage)
  PROVE  /\ OneByOne(condense_file_views(ms), ms)
         /\ \A i \in DOMAIN ms : \A j \in DOMAIN ms[i].parts :
              condense_file_views(ms)[i].parts[j] =
                IF ms[i].content = "blocks" THEN condensed(ms[i].parts[j]) ELSE ms[i].parts[j]
<1> DEFINE out == condense_file_views(ms)
           part(i, j) == IF ms[i].content = "blocks" THEN condensed(ms[i].parts[j]) ELSE ms[i].parts[j]
<1>1. \A i \in DOMAIN ms :
        /\ SamePlan(out[i], ms[i])
        /\ \A j \in DOMAIN ms[i].parts : out[i].parts[j] = part(i, j)
  <2> TAKE i \in DOMAIN ms
  <2>1. ms[i] \in SoundMessage
    OBVIOUS
  <2>2. CASE ms[i].content # "blocks"
    <3>1. out[i] = ms[i]
      BY <2>2, CondensedAt
    <3>2. QED
      BY <2>1, <2>2, <3>1, PlanKept
  <2>3. CASE ms[i].content = "blocks"
    <3> DEFINE m == ms[i]
               parts == [j \in DOMAIN m.parts |-> condensed(m.parts[j])]
    <3>1. out[i] = With(m, parts)
      BY <2>3, CondensedAt
    <3>2. \A j \in DOMAIN m.parts : PartOk(m, condensed(m.parts[j]))
      BY <2>1, PlanKept, CondensedFacts
    <3>3. DOMAIN parts = DOMAIN m.parts /\ parts = [j \in DOMAIN parts |-> parts[j]]
          /\ \A j \in DOMAIN m.parts : parts[j] = condensed(m.parts[j])
      OBVIOUS
    <3> HIDE DEF parts, m
    <3>4. SamePlan(With(m, parts), m) /\ With(m, parts).parts = parts
      BY <2>1, <3>2, <3>3, WithPlan DEF m
    <3>5. QED
      BY <2>3, <3>1, <3>3, <3>4 DEF m
  <2>4. QED
    BY <2>2, <2>3
<1>2. out = [i \in DOMAIN ms |-> out[i]]
  BY DEF condense_file_views
<1> HIDE DEF out, part
<1>3. OneByOne(out, ms)
  BY <1>1, <1>2, MessageByMessage
<1>4. QED
  BY <1>1, <1>3 DEF out, part

LEMMA PlacesFinite ==
  ASSUME NEW m \in SoundMessage
  PROVE  IsFiniteSet(Places(m))
<1> DEFINE text(j, k) == {<<j, k, l>> : l \in DOMAIN m.parts[j].texts[k]}
           part(j) == UNION {text(j, k) : k \in DOMAIN m.parts[j].texts}
<1>1. /\ m.parts \in Seq(PartTyped)
      /\ \A j \in DOMAIN m.parts : m.parts[j].texts \in Seq(Seq(Segment))
  BY DEF SoundMessage, MessageTyped, PartOk, PartTyped
<1>2. \A j \in DOMAIN m.parts : \A k \in DOMAIN m.parts[j].texts : IsFiniteSet(text(j, k))
  <2> TAKE j \in DOMAIN m.parts
  <2> TAKE k \in DOMAIN m.parts[j].texts
  <2> DEFINE s == m.parts[j].texts[k]
             f == [l \in DOMAIN s |-> <<j, k, l>>]
  <2>1. s \in Seq(Segment)
    BY <1>1
  <2>2. DOMAIN s = 1..Len(s) /\ Len(s) \in Nat
    BY <2>1
  <2>3. IsFiniteSet(DOMAIN s)
    BY <2>2, FS_Interval
  <2>4. text(j, k) = {f[l] : l \in DOMAIN s}
    OBVIOUS
  <2> HIDE DEF f, s, text
  <2>5. QED
    BY <2>3, <2>4, FiniteValues
<1>3. \A j \in DOMAIN m.parts : IsFiniteSet(part(j))
  <2> TAKE j \in DOMAIN m.parts
  <2> DEFINE t == m.parts[j].texts
             f == [k \in DOMAIN t |-> text(j, k)]
             all == {f[k] : k \in DOMAIN t}
  <2>1. DOMAIN t = 1..Len(t) /\ Len(t) \in Nat
    BY <1>1
  <2>2. IsFiniteSet(DOMAIN t)
    BY <2>1, FS_Interval
  <2>3. \A a \in all : IsFiniteSet(a)
    BY <1>2
  <2>4. part(j) = UNION all
    <3>1. \A k \in DOMAIN t : f[k] = text(j, k)
      OBVIOUS
    <3> HIDE DEF f, text
    <3>2. {text(j, k) : k \in DOMAIN t} = all
      BY <3>1
    <3>3. QED
      BY <3>2
  <2>5. IsFiniteSet(all)
    <3> HIDE DEF f
    <3> QED BY <2>2, FiniteValues
  <2> HIDE DEF all, part
  <2>6. QED
    BY <2>3, <2>4, <2>5, FS_UNION
<1>4. IsFiniteSet(DOMAIN m.parts)
  <2> DEFINE n == Len(m.parts)
  <2>1. DOMAIN m.parts = 1..n /\ n \in Nat
    BY <1>1
  <2> HIDE DEF n
  <2>2. IsFiniteSet(1..n)
    BY <2>1, FS_Interval
  <2>3. QED
    BY <2>1, <2>2
<1>5. Places(m) = UNION {part(j) : j \in DOMAIN m.parts}
  BY DEF Places
<1> HIDE DEF part
<1> DEFINE f == [j \in DOMAIN m.parts |-> part(j)]
           all == {f[j] : j \in DOMAIN m.parts}
<1>6. Places(m) = UNION all /\ \A a \in all : IsFiniteSet(a)
  BY <1>3, <1>5
<1>7. IsFiniteSet(all)
  <2> HIDE DEF f
  <2> QED BY <1>4, FiniteValues
<1> HIDE DEF all
<1>8. QED
  BY <1>6, <1>7, FS_UNION

LEMMA TracesFinite ==
  ASSUME NEW m \in SoundMessage
  PROVE  IsFiniteSet(TracesAt(m)) /\ IsFiniteSet(TracesIn(m))
<1>1. IsFiniteSet(TracesAt(m))
  BY PlacesFinite, FS_Subset DEF TracesAt
<1> DEFINE f == [place \in TracesAt(m) |-> At(m, place).trace]
<1>2. TracesIn(m) = {f[place] : place \in TracesAt(m)}
  BY DEF TracesIn
<1> HIDE DEF f
<1>3. QED
  BY <1>1, <1>2, FiniteValues

LEMMA RepeatsTyped ==
  ASSUME NEW m \in SoundMessage, NEW seen
  PROVE  Repeats(m, seen) \in Int
<1>1. IsFiniteSet(TracesAt(m)) /\ IsFiniteSet(TracesIn(m) \ seen)
  BY TracesFinite, FS_Subset
<1>2. QED
  BY <1>1, FS_CardinalityType DEF Repeats

\* dedup_errors.
LEMMA DedupedParts ==
  ASSUME NEW ms \in Seq(SoundMessage)
  PROVE  /\ OneByOne(dedup_errors(ms), ms)
         /\ \A i \in DOMAIN ms : \A j \in DOMAIN ms[i].parts :
              dedup_errors(ms)[i].parts[j] = Deduped(ms[i].parts[j], Repeats(ms[i], Seen(ms, i)))
<1> DEFINE out == dedup_errors(ms)
           part(i, j) == Deduped(ms[i].parts[j], Repeats(ms[i], Seen(ms, i)))
<1>1. \A i \in DOMAIN ms :
        /\ SamePlan(out[i], ms[i])
        /\ \A j \in DOMAIN ms[i].parts : out[i].parts[j] = part(i, j)
  <2> TAKE i \in DOMAIN ms
  <2> DEFINE m == ms[i]
             n == Repeats(m, Seen(ms, i))
             parts == [j \in DOMAIN m.parts |-> Deduped(m.parts[j], n)]
  <2>1. m \in SoundMessage
    OBVIOUS
  <2>2. out[i] = With(m, parts)
    BY DedupedAt
  <2>3. n \in Int
    BY <2>1, RepeatsTyped
  <2>4. \A j \in DOMAIN m.parts : part(i, j) = Deduped(m.parts[j], n)
    OBVIOUS
  <2> HIDE DEF n, m, part
  <2>5. \A j \in DOMAIN m.parts : PartOk(m, Deduped(m.parts[j], n))
    BY <2>1, <2>3, PlanKept, DedupedFacts
  <2>6. DOMAIN parts = DOMAIN m.parts /\ parts = [j \in DOMAIN parts |-> parts[j]]
        /\ \A j \in DOMAIN m.parts : parts[j] = Deduped(m.parts[j], n)
    OBVIOUS
  <2> HIDE DEF parts
  <2>7. SamePlan(With(m, parts), m) /\ With(m, parts).parts = parts
    BY <2>1, <2>5, <2>6, WithPlan
  <2>8. QED
    BY <2>2, <2>4, <2>6, <2>7 DEF m
<1>2. out = [i \in DOMAIN ms |-> out[i]]
  BY DEF dedup_errors
<1> HIDE DEF out, part
<1>3. OneByOne(out, ms)
  BY <1>1, <1>2, MessageByMessage
<1>4. QED
  BY <1>1, <1>3 DEF out, part

\* apply_sliding_window, before it leaves out what is before the window.
PurgedPart(y, p, a, b) ==
  LET r == IF a THEN Purge(y, p) ELSE p
  IN  IF b /\ y.role = "assistant" /\ y.content = "string" THEN Emptied(r) ELSE r
LEMMA PurgedParts ==
  ASSUME NEW ms \in Seq(SoundMessage)
  PROVE  /\ OneByOne(Purged(ms), ms)
         /\ \A i \in DOMAIN ms : \A j \in DOMAIN ms[i].parts :
              Purged(ms)[i].parts[j] =
                PurgedPart(ms[i], ms[i].parts[j], i \in Older(ms, WindowToolTurns), i \in Older(ms, WindowThoughtTurns))
<1> DEFINE out == Purged(ms)
           part(i, j) == PurgedPart(ms[i], ms[i].parts[j], i \in Older(ms, WindowToolTurns),
                                    i \in Older(ms, WindowThoughtTurns))
<1>1. \A i \in DOMAIN ms :
        /\ SamePlan(out[i], ms[i])
        /\ \A j \in DOMAIN ms[i].parts : out[i].parts[j] = part(i, j)
  <2> TAKE i \in DOMAIN ms
  <2> DEFINE m == ms[i]
             a == i \in Older(ms, WindowToolTurns)
             b == i \in Older(ms, WindowThoughtTurns)
             old == [j \in DOMAIN m.parts |-> Purge(m, m.parts[j])]
             r == IF a THEN With(m, old) ELSE m
             new == [j \in DOMAIN r.parts |-> Emptied(r.parts[j])]
  <2>1. m \in SoundMessage /\ a \in BOOLEAN /\ b \in BOOLEAN
    OBVIOUS
  <2>2. out[i] = IF b /\ m.role = "assistant" /\ m.content = "string" THEN With(r, new) ELSE r
    BY PurgedAt
  <2>3. \A j \in DOMAIN m.parts : part(i, j) = PurgedPart(m, m.parts[j], a, b)
    OBVIOUS
  <2> HIDE DEF m, a, b, part, out
  <2>4. SamePlan(r, m) /\ \A j \in DOMAIN m.parts : r.parts[j] = IF a THEN Purge(m, m.parts[j]) ELSE m.parts[j]
    <3>1. \A j \in DOMAIN m.parts : PartOk(m, Purge(m, m.parts[j]))
      BY <2>1, PlanKept, CutOk DEF Purge
    <3>2. DOMAIN old = DOMAIN m.parts /\ old = [j \in DOMAIN old |-> old[j]]
          /\ \A j \in DOMAIN m.parts : old[j] = Purge(m, m.parts[j])
      OBVIOUS
    <3> HIDE DEF old
    <3>3. SamePlan(With(m, old), m) /\ With(m, old).parts = old
      BY <2>1, <3>1, <3>2, WithPlan
    <3>4. SamePlan(m, m)
      BY <2>1, PlanKept
    <3>5. QED
      BY <3>2, <3>3, <3>4
  <2> HIDE DEF r
  <2>5. CASE ~(b /\ m.role = "assistant" /\ m.content = "string")
    <3>1. out[i] = r
      BY <2>2, <2>5
    <3>2. \A j \in DOMAIN m.parts : part(i, j) = IF a THEN Purge(m, m.parts[j]) ELSE m.parts[j]
      BY <2>3, <2>5 DEF PurgedPart
    <3>3. QED
      BY <2>4, <3>1, <3>2 DEF m
  <2>6. CASE b /\ m.role = "assistant" /\ m.content = "string"
    <3>1. out[i] = With(r, new)
      BY <2>2, <2>6
    <3>2. r \in SoundMessage /\ r.role = "assistant" /\ r.content = "string"
          /\ DOMAIN r.parts = DOMAIN m.parts
      BY <2>4, <2>6 DEF SamePlan
    <3>3. \A j \in DOMAIN r.parts : PartOk(r, Emptied(r.parts[j]))
      BY <3>2, PlanKept, EmptiedFacts
    <3>4. DOMAIN new = DOMAIN r.parts /\ new = [j \in DOMAIN new |-> new[j]]
          /\ \A j \in DOMAIN r.parts : new[j] = Emptied(r.parts[j])
      OBVIOUS
    <3> HIDE DEF new
    <3>5. SamePlan(With(r, new), r) /\ With(r, new).parts = new
      BY <3>2, <3>3, <3>4, WithPlan
    <3>6. SamePlan(out[i], m)
      BY <2>4, <3>1, <3>5, PlanTwice
    <3>7. \A j \in DOMAIN m.parts : out[i].parts[j] = part(i, j)
      BY <2>3, <2>4, <2>6, <3>1, <3>2, <3>4, <3>5 DEF PurgedPart
    <3>8. QED
      BY <3>6, <3>7 DEF m
  <2>7. QED
    BY <2>5, <2>6
<1>2. out = [i \in DOMAIN ms |-> out[i]]
  BY DEF Purged
<1> HIDE DEF out, part
<1>3. OneByOne(out, ms)
  BY <1>1, <1>2, MessageByMessage
<1>4. QED
  BY <1>1, <1>3 DEF out, part

\* What a summary quotes are tracebacks.
LEMMA QuoteFacts ==
  ASSUME NEW m \in MessageTyped, NEW quoted \in Quotings
  PROVE  /\ TextOf(m) \in Seq(Segment) /\ Quote(m, quoted) \in Seq(Segment)
         /\ \A s \in Range(Quote(m, quoted)) : s.is = "trace"
<1> DEFINE list == [j \in DOMAIN m.parts |-> FlattenSeq(m.parts[j].texts)]
           text == TextOf(m)
<1>1. m.parts \in Seq(PartTyped)
  BY DEF MessageTyped
<1>2. \A j \in DOMAIN m.parts : FlattenSeq(m.parts[j].texts) \in Seq(Segment)
  <2> TAKE j \in DOMAIN m.parts
  <2>1. m.parts[j] \in PartTyped
    BY <1>1
  <2>2. m.parts[j].texts \in Seq(Seq(Segment))
    BY <2>1 DEF PartTyped
  <2>3. QED
    BY <2>2, FlattenMembers
<1>3. list \in Seq(Seq(Segment))
  <2>1. DOMAIN m.parts = 1..Len(m.parts) /\ Len(m.parts) \in Nat
    BY <1>1
  <2>2. QED
    BY <1>2, <2>1
<1>4. text \in Seq(Segment)
  <2> HIDE DEF list
  <2>1. FlattenSeq(list) \in Seq(Segment)
    BY <1>3, FlattenMembers
  <2>2. QED
    BY <2>1 DEF TextOf, list
<1> HIDE DEF text
<1>5. Quote(m, quoted) = IF text # <<>> /\ text[1].is = "trace" THEN <<Trace(quoted[text[1].trace])>> ELSE <<>>
  BY DEF Quote, text
<1>6. CASE text # <<>> /\ text[1].is = "trace"
  <2>1. text[1] \in Segment
    BY <1>4, <1>6
  <2>2. text[1].trace \in Tracebacks
    BY <1>6, <2>1 DEF Segment
  <2> DEFINE t == quoted[text[1].trace]
  <2>3. t \in Tracebacks
    BY <2>2 DEF Quotings
  <2> HIDE DEF t
  <2>4. Trace(t) \in Segment /\ Trace(t).is = "trace"
    BY <2>3, SegmentsTyped DEF Trace
  <2>5. <<Trace(t)>> \in Seq(Segment) /\ \A s \in Range(<<Trace(t)>>) : s = Trace(t)
    BY <2>4 DEF Range
  <2>6. QED
    BY <1>4, <1>5, <1>6, <2>4, <2>5 DEF text, t
<1>7. CASE ~(text # <<>> /\ text[1].is = "trace")
  <2>1. <<>> \in Seq(Segment) /\ Range(<<>>) = {}
    BY DEF Range
  <2>2. QED
    BY <1>4, <1>5, <1>7, <2>1 DEF text
<1>8. QED
  BY <1>6, <1>7

\* What a summary is like: it has no turn, and no placeholder yet.
FromSummary(m) ==
  m.turn = 0 /\ m.content = "string" /\ \A j \in DOMAIN m.parts : Lacks(m.parts[j], {"same"})

LEMMA SummaryMessage ==
  ASSUME NEW role \in {"user", "assistant"}, NEW size \in Nat, NEW text \in Seq(Segment),
         \A s \in Range(text) : s.is # "same" /\ (role = "assistant" => s.is # "trace")
  PROVE  LET m == MessageOf(role, "string", <<Part("text", size, <<text>>)>>) IN
         m \in SoundMessage /\ FromSummary(m)
<1> DEFINE p == Part("text", size, <<text>>)
           m == MessageOf(role, "string", <<p>>)
<1>1. <<text>> \in Seq(Seq(Segment)) /\ DOMAIN <<text>> = {1} /\ <<text>>[1] = text /\ Len(<<text>>) = 1
  <2>1. DOMAIN <<text>> = 1..1 /\ 1..1 = {1}
    OBVIOUS
  <2>2. QED
    BY <2>1
<1>2. p \in PartTyped /\ p.type = "text" /\ p.texts = <<text>>
  BY <1>1, PartIsTyped DEF Part
<1> HIDE DEF p
<1>3. \A l \in DOMAIN text : text[l] \in Range(text)
  BY DEF Range
<1>4. Lacks(p, {"same"}) /\ (role = "assistant" => Lacks(p, {"trace"}))
  BY <1>1, <1>2, <1>3 DEF Lacks
<1>5. m \in MessageTyped
  BY <1>2, OnePart
<1>6. /\ m.parts = <<p>> /\ m.turn = 0 /\ m.role = role /\ m.content = "string"
      /\ \A j \in DOMAIN <<p>> : <<p>>[j] = p
  BY DEF MessageOf
<1> HIDE DEF m
<1>7. PartOk(m, p)
  BY <1>1, <1>2, <1>4, <1>6 DEF PartOk
<1>8. m \in SoundMessage /\ FromSummary(m)
  BY <1>4, <1>5, <1>6, <1>7 DEF SoundMessage, FromSummary
<1>9. QED
  BY <1>8 DEF m, p

\* The two messages of the summary.
LEMMA SummaryFacts ==
  ASSUME NEW ms \in Seq(SoundMessage), NEW told, NEW quoted \in Quotings
  PROVE  LET summary == Summary(ms, told, quoted) IN
         summary \in Seq(SoundMessage) /\ \A i \in DOMAIN summary : FromSummary(summary[i])
<1> DEFINE list == [i \in DOMAIN ms |-> IF i \in told THEN Quote(ms[i], quoted) ELSE <<>>]
           quotes == FlattenSeq(list)
           text == <<Note>> \o quotes
           a == MessageOf("user", "string", <<Part("text", 1, <<text>>)>>)
           b == MessageOf("assistant", "string", <<Part("text", 0, <<<<Note>>>>)>>)
<1>1. \A i \in DOMAIN ms : list[i] \in Seq(Segment) /\ \A s \in Range(list[i]) : s.is = "trace"
  <2> TAKE i \in DOMAIN ms
  <2>1. ms[i] \in MessageTyped
    BY DEF SoundMessage
  <2>2. <<>> \in Seq(Segment) /\ Range(<<>>) = {}
    BY DEF Range
  <2>3. list[i] = Quote(ms[i], quoted) \/ list[i] = <<>>
    OBVIOUS
  <2> HIDE DEF list
  <2>4. QED
    BY <2>1, <2>2, <2>3, QuoteFacts
<1>2. list \in Seq(Seq(Segment)) /\ DOMAIN list = DOMAIN ms
  <2>1. DOMAIN ms = 1..Len(ms) /\ Len(ms) \in Nat
    OBVIOUS
  <2>2. QED
    BY <1>1, <2>1
<1>3. Summary(ms, told, quoted) = <<a, b>>
  BY DEF Summary, Said
<1> HIDE DEF list
<1>4. quotes \in Seq(Segment) /\ \A s \in Range(quotes) : s.is = "trace"
  BY <1>1, <1>2, FlattenMembers
<1>5. Note \in Segment /\ Note.is = "note"
  BY SegmentsTyped DEF Note, Plainly
<1> HIDE DEF quotes, Note
<1>6. text \in Seq(Segment) /\ \A s \in Range(text) : s.is # "same"
  <2>1. <<Note>> \in Seq(Segment) /\ Len(<<Note>>) = 1 /\ <<Note>>[1] = Note
    BY <1>5
  <2>2. /\ text \in Seq(Segment) /\ Len(text) = Len(<<Note>>) + Len(quotes)
        /\ \A l \in 1..Len(<<Note>>) + Len(quotes) :
             text[l] = IF l <= Len(<<Note>>) THEN <<Note>>[l] ELSE quotes[l - Len(<<Note>>)]
    BY <1>4, <2>1, ConcatProperties
  <2> HIDE DEF text
  <2>3. \A l \in DOMAIN text : text[l].is # "same"
    <3> TAKE l \in DOMAIN text
    <3>1. l \in 1..(1 + Len(quotes)) /\ Len(quotes) \in Nat /\ DOMAIN quotes = 1..Len(quotes)
      BY <1>4, <2>1, <2>2
    <3>2. CASE l <= 1
      <4>1. l = 1 /\ text[l] = Note
        BY <2>1, <2>2, <3>1, <3>2
      <4>2. QED
        BY <1>5, <4>1
    <3>3. CASE ~(l <= 1)
      <4>1. l - 1 \in DOMAIN quotes /\ text[l] = quotes[l - 1]
        BY <2>1, <2>2, <3>1, <3>3
      <4>2. QED
        BY <1>4, <4>1 DEF Range
    <3>4. QED
      BY <3>2, <3>3
  <2>4. QED
    BY <2>2, <2>3 DEF Range
<1>7. <<Note>> \in Seq(Segment) /\ \A s \in Range(<<Note>>) : s = Note
  BY <1>5 DEF Range
<1> HIDE DEF text
<1>8. a \in SoundMessage /\ FromSummary(a)
  BY <1>6, SummaryMessage
<1>9. b \in SoundMessage /\ FromSummary(b)
  BY <1>5, <1>7, SummaryMessage
<1> HIDE DEF a, b
<1>10. <<a, b>> \in Seq(SoundMessage) /\ \A i \in DOMAIN <<a, b>> : <<a, b>>[i] \in {a, b}
  BY <1>8, <1>9
<1>11. QED
  BY <1>3, <1>8, <1>9, <1>10

\* A summary and the end of a list: what is of the list is as far from the end
\* as it was.
FromList(w, list, first, i) == \E k \in first..Len(list) : w[i] = list[k] /\ Len(w) - i = Len(list) - k
LEMMA BehindSummary ==
  ASSUME NEW list \in Seq(SoundMessage), NEW first \in 1..(Len(list) + 1),
         NEW summary \in Seq(SoundMessage), \A i \in DOMAIN summary : FromSummary(summary[i])
  PROVE  LET w == summary \o SubSeq(list, first, Len(list)) IN
         /\ w \in Seq(SoundMessage)
         /\ \A i \in DOMAIN w : FromSummary(w[i]) \/ FromList(w, list, first, i)
<1> DEFINE n == Len(list)
           c == Len(summary)
           t == SubSeq(list, first, n)
           w == summary \o t
<1>1. n \in Nat /\ c \in Nat /\ first \in Nat /\ first >= 1 /\ first <= n + 1
  OBVIOUS
<1>2. /\ t \in Seq(SoundMessage) /\ Len(t) = n + 1 - first
      /\ \A k \in 1..Len(t) : t[k] = list[first + k - 1]
  <2>1. \A k \in first..n : list[k] \in SoundMessage
    BY <1>1
  <2>2. t \in Seq(SoundMessage)
    BY <1>1, <2>1
  <2>3. Len(t) = IF first <= n THEN n - first + 1 ELSE 0
    BY <1>1
  <2>4. Len(t) = n + 1 - first
    BY <1>1, <2>3
  <2>5. \A k \in 1..Len(t) : t[k] = list[first + k - 1]
    BY <1>1
  <2>6. QED
    BY <2>2, <2>4, <2>5
<1> HIDE DEF t
<1>3. /\ w \in Seq(SoundMessage) /\ Len(w) = c + Len(t)
      /\ \A i \in 1..c + Len(t) : w[i] = IF i <= c THEN summary[i] ELSE t[i - c]
  BY <1>2, ConcatProperties
<1> HIDE DEF w, n, c
<1>4. \A i \in DOMAIN w : FromSummary(w[i]) \/ FromList(w, list, first, i)
  <2> TAKE i \in DOMAIN w
  <2>1. i \in 1..(c + Len(t)) /\ i \in Nat /\ i >= 1
    BY <1>1, <1>2, <1>3
  <2>2. CASE i <= c
    <3>1. w[i] = summary[i] /\ i \in DOMAIN summary
      BY <1>1, <1>3, <2>1, <2>2 DEF c
    <3>2. QED
      BY <3>1
  <2>3. CASE ~(i <= c)
    <3>1. /\ n \in Nat /\ c \in Nat /\ first \in Nat /\ i \in Nat
          /\ Len(t) = n + 1 - first /\ i <= c + Len(t) /\ ~(i <= c)
      BY <1>1, <1>2, <2>1, <2>3
    <3> DEFINE k == first + (i - c) - 1
    <3>2. /\ i - c >= 1 /\ i - c <= Len(t) /\ k >= first /\ k <= n /\ k \in Nat
          /\ (c + Len(t)) - i = n - k
      BY <3>1
    <3>3. w[i] = list[k] /\ Len(w) - i = n - k
      <4>1. w[i] = t[i - c]
        BY <1>3, <2>1, <2>3
      <4>2. i - c \in 1..Len(t)
        BY <1>1, <2>1, <3>1, <3>2
      <4>3. t[i - c] = list[k]
        BY <1>2, <4>2
      <4>4. QED
        BY <1>3, <3>2, <4>1, <4>3
    <3> HIDE DEF k
    <3>4. k \in first..n
      BY <1>1, <3>2
    <3>5. QED
      BY <3>3, <3>4 DEF FromList, n
  <2>4. QED
    BY <2>2, <2>3
<1>5. QED
  BY <1>3, <1>4 DEF w, t, n

\* What is in the window is as far from the end as it was.
FromWindow(w, ms, i) ==
  \E k \in DOMAIN ms : w[i] = Purged(ms)[k] /\ Len(w) - i = Len(ms) - k
LEMMA WindowParts ==
  ASSUME NEW ms \in Seq(SoundMessage), NEW quoted \in Quotings
  PROVE  LET w == apply_sliding_window(ms, quoted) IN
         /\ w \in Seq(SoundMessage)
         /\ \A i \in DOMAIN w : FromSummary(w[i]) \/ FromWindow(w, ms, i)
<1> DEFINE P == Purged(ms)
           n == Len(ms)
           keep == 2 * SlidingTurns
           first == n - keep + 1
           t == SubSeq(P, first, n)
           told == {i \in DOMAIN ms : i + keep <= n /\ i + keep + SummaryOf > n}
           sm == Summary(P, told, quoted)
           w == apply_sliding_window(ms, quoted)
<1>1. P \in Seq(SoundMessage) /\ DOMAIN P = DOMAIN ms /\ Len(P) = n
  BY PurgedParts DEF OneByOne
<1>2. n \in Nat /\ DOMAIN ms = 1..n /\ keep \in Nat /\ Slack \in Nat
  BY AgentAssumption
<1>3. w \in IF n <= keep + Slack THEN {P} ELSE {t, sm \o t}
  BY DEF apply_sliding_window
<1> HIDE DEF P, n, keep, told, w
<1>4. \A i : FromList(w, P, 1, i) => FromWindow(w, ms, i)
  BY <1>1, <1>2 DEF FromList, FromWindow, P, n
<1>5. CASE n <= keep + Slack
  <2>1. w = P
    BY <1>3, <1>5
  <2>2. \A i \in DOMAIN w : FromList(w, P, 1, i)
    BY <1>1, <1>2, <2>1 DEF FromList
  <2>3. QED
    BY <1>1, <1>4, <2>1, <2>2 DEF w
<1>6. CASE ~(n <= keep + Slack)
  <2>1. first \in 1..(Len(P) + 1) /\ n = Len(P)
    BY <1>1, <1>2, <1>6
  <2>2. sm \in Seq(SoundMessage) /\ \A i \in DOMAIN sm : FromSummary(sm[i])
    BY <1>1, SummaryFacts
  <2> HIDE DEF first, sm
  <2>3. PICK s \in {<<>>, sm} : w = s \o t
    <3>1. t \in Seq(SoundMessage)
      BY <1>1, <1>2, <2>1
    <3> HIDE DEF t
    <3>2. <<>> \o t = t
      BY <3>1
    <3>3. QED
      BY <1>3, <1>6, <3>2
  <2>4. s \in Seq(SoundMessage) /\ \A i \in DOMAIN s : FromSummary(s[i])
    <3>1. <<>> \in Seq(SoundMessage) /\ DOMAIN <<>> = {}
      OBVIOUS
    <3>2. QED
      BY <2>2, <3>1
  <2>5. /\ w \in Seq(SoundMessage)
        /\ \A i \in DOMAIN w : FromSummary(w[i]) \/ FromList(w, P, first, i)
    BY <1>1, <2>1, <2>3, <2>4, BehindSummary
  <2>6. \A i : FromList(w, P, first, i) => FromList(w, P, 1, i)
    BY <1>1, <1>2, <2>1 DEF FromList
  <2>7. QED
    BY <1>4, <2>5, <2>6 DEF w
<1>7. QED
  BY <1>5, <1>6

\* The same of the context optimizer, for as many messages as it keeps.
FirstKept(ms) ==
  IF Split(ms) < Len(ms) /\ Answering(ms[Split(ms) + 1]) THEN Split(ms) ELSE Split(ms) + 1
LEMMA ContextParts ==
  ASSUME NEW ms \in Seq(SoundMessage), Len(ms) >= 2, NEW told, NEW quoted \in Quotings
  PROVE  LET w == context_optimize(ms, told, quoted) IN
         /\ FirstKept(ms) \in Nat \ {0}
         /\ w \in Seq(SoundMessage)
         /\ \A i \in DOMAIN w : FromSummary(w[i]) \/ FromList(w, ms, FirstKept(ms), i)
<1> DEFINE n == Len(ms)
           split == Split(ms)
           first == FirstKept(ms)
           some == told \cap 1..split
           sm == Summary(ms, some, quoted)
           w == context_optimize(ms, told, quoted)
<1>1. n \in Nat /\ n >= 2 /\ RecentTurns \in Nat
  BY AgentAssumption
<1>2. split \in Nat /\ split >= 1 /\ split <= n
  BY <1>1 DEF Split
<1>3. w = sm \o SubSeq(ms, first, n)
  BY DEF context_optimize, FirstKept
<1>4. first \in {split, split + 1}
  BY DEF FirstKept
<1> HIDE DEF split, first, some
<1>5. first \in 1..(n + 1) /\ first \in Nat \ {0}
  BY <1>1, <1>2, <1>4
<1>6. sm \in Seq(SoundMessage) /\ \A i \in DOMAIN sm : FromSummary(sm[i])
  BY SummaryFacts
<1> HIDE DEF sm, w
<1>7. /\ w \in Seq(SoundMessage)
      /\ \A i \in DOMAIN w : FromSummary(w[i]) \/ FromList(w, ms, first, i)
  BY <1>3, <1>5, <1>6, BehindSummary
<1>8. QED
  BY <1>5, <1>7 DEF w, first

-------------------------------------------------------------------------------
(* The placeholder points at a traceback that is still there. *)

LEMMA PlaceFacts ==
  ASSUME NEW m
  PROVE  /\ \A a \in Places(m) :
              \E j \in DOMAIN m.parts : \E k \in DOMAIN m.parts[j].texts :
              \E l \in DOMAIN m.parts[j].texts[k] : a = <<j, k, l>> /\ At(m, a) = m.parts[j].texts[k][l]
         /\ \A j \in DOMAIN m.parts : \A k \in DOMAIN m.parts[j].texts :
            \A l \in DOMAIN m.parts[j].texts[k] :
              <<j, k, l>> \in Places(m) /\ At(m, <<j, k, l>>) = m.parts[j].texts[k][l]
<1>1. \A a \in Places(m) :
        \E j \in DOMAIN m.parts : \E k \in DOMAIN m.parts[j].texts :
        \E l \in DOMAIN m.parts[j].texts[k] : a = <<j, k, l>>
  BY DEF Places
<1>2. \A j \in DOMAIN m.parts : \A k \in DOMAIN m.parts[j].texts :
      \A l \in DOMAIN m.parts[j].texts[k] : <<j, k, l>> \in Places(m)
  BY DEF Places
<1>3. \A j, k, l : At(m, <<j, k, l>>) = m.parts[j].texts[k][l]
  BY DEF At
<1>4. QED
  BY <1>1, <1>2, <1>3

\* A message that no placeholder has touched; and with one traceback at most.
Unmarked(m) == m \in SoundMessage /\ \A j \in DOMAIN m.parts : Lacks(m.parts[j], {"same"})
Calm(m) == Unmarked(m) /\ \A a, b \in TracesAt(m) : a = b

\* What the strategies before dedup_errors leave of a part.
Fewer(p, q) == q = p \/ (Lacks(q, {"trace"}) /\ (Lacks(p, {"same"}) => Lacks(q, {"same"})))

LEMMA FewerCalm ==
  ASSUME NEW x, NEW y, Unmarked(y), SamePlan(x, y),
         \A j \in DOMAIN y.parts : Fewer(y.parts[j], x.parts[j])
  PROVE  Unmarked(x) /\ (Calm(y) => Calm(x))
<1>1. x \in SoundMessage /\ DOMAIN x.parts = DOMAIN y.parts
  BY DEF SamePlan
<1>2. \A j \in DOMAIN x.parts : Lacks(x.parts[j], {"same"})
  BY <1>1 DEF Unmarked, Fewer
<1>3. TracesAt(x) \subseteq TracesAt(y)
  <2> SUFFICES ASSUME NEW a \in TracesAt(x) PROVE a \in TracesAt(y)
    OBVIOUS
  <2>1. a \in Places(x) /\ At(x, a).is = "trace"
    BY DEF TracesAt
  <2>2. PICK j \in DOMAIN x.parts : \E k \in DOMAIN x.parts[j].texts :
        \E l \in DOMAIN x.parts[j].texts[k] : a = <<j, k, l>> /\ At(x, a) = x.parts[j].texts[k][l]
    BY <2>1, PlaceFacts
  <2>3. PICK k \in DOMAIN x.parts[j].texts : 
        \E l \in DOMAIN x.parts[j].texts[k] : a = <<j, k, l>> /\ At(x, a) = x.parts[j].texts[k][l]
    BY <2>2
  <2>4. PICK l \in DOMAIN x.parts[j].texts[k] : a = <<j, k, l>> /\ At(x, a) = x.parts[j].texts[k][l]
    BY <2>3
  <2>5. ~Lacks(x.parts[j], {"trace"})
    BY <2>1, <2>4 DEF Lacks
  <2>6. x.parts[j] = y.parts[j] /\ j \in DOMAIN y.parts
    BY <1>1, <2>5 DEF Fewer
  <2>7. a \in Places(y) /\ At(y, a) = At(x, a)
    BY <2>4, <2>6, PlaceFacts
  <2>8. QED
    BY <2>1, <2>7 DEF TracesAt
<1>4. QED
  BY <1>1, <1>2, <1>3 DEF Calm, Unmarked

LEMMA CutFewer ==
  ASSUME NEW p, p.type \in {"text", "tool_use", "tool_result"}
  PROVE  Fewer(p, Part(p.type, 0, Pruned))
BY PrunedFacts DEF Fewer

\* The strategies before dedup_errors keep messages calm.
LEMMA PurgedCalm ==
  ASSUME NEW ms \in Seq(SoundMessage), \A i \in DOMAIN ms : Unmarked(ms[i])
  PROVE  \A i \in DOMAIN ms : Unmarked(Purged(ms)[i]) /\ (Calm(ms[i]) => Calm(Purged(ms)[i]))
<1> TAKE i \in DOMAIN ms
<1> DEFINE m == ms[i]
           a == i \in Older(ms, WindowToolTurns)
           b == i \in Older(ms, WindowThoughtTurns)
<1>1. SamePlan(Purged(ms)[i], m) /\ \A j \in DOMAIN m.parts : Purged(ms)[i].parts[j] = PurgedPart(m, m.parts[j], a, b)
  BY PurgedParts DEF OneByOne
<1>2. m \in SoundMessage /\ Unmarked(m)
  OBVIOUS
<1> HIDE DEF m, a, b
<1>3. \A j \in DOMAIN m.parts : Fewer(m.parts[j], PurgedPart(m, m.parts[j], a, b))
  <2> TAKE j \in DOMAIN m.parts
  <2> DEFINE p == m.parts[j]
             r == IF a THEN Purge(m, p) ELSE p
  <2>1. PartOk(m, p) /\ p.type \in {"text", "tool_use", "tool_result"}
    <3>1. PartOk(m, p)
      BY <1>2, PlanKept
    <3>2. QED
      BY <3>1 DEF PartOk, PartTyped
  <2> HIDE DEF p
  <2>2. Fewer(p, r) /\ PartOk(m, r)
    BY <2>1, CutFewer, CutOk DEF Fewer, Purge
  <2>3. PurgedPart(m, p, a, b) = IF b /\ m.role = "assistant" /\ m.content = "string" THEN Emptied(r) ELSE r
    BY DEF PurgedPart
  <2> HIDE DEF r
  <2>4. Fewer(p, PurgedPart(m, p, a, b))
    BY <2>2, <2>3, EmptiedFacts DEF Fewer
  <2>5. QED
    BY <2>4 DEF p
<1>4. Unmarked(Purged(ms)[i]) /\ (Calm(m) => Calm(Purged(ms)[i]))
  BY <1>1, <1>2, <1>3, FewerCalm
<1>5. QED
  BY <1>4 DEF m

LEMMA PrunedCalm ==
  ASSUME NEW ms \in Seq(SoundMessage), \A i \in DOMAIN ms : Unmarked(ms[i])
  PROVE  \A i \in DOMAIN ms : Unmarked(prune_tool_results(ms)[i]) /\ (Calm(ms[i]) => Calm(prune_tool_results(ms)[i]))
<1> TAKE i \in DOMAIN ms
<1> DEFINE m == ms[i]
           size == size_threshold(i \in Older(ms, ToolTurns))
<1>1. SamePlan(prune_tool_results(ms)[i], m)
      /\ \A j \in DOMAIN m.parts : prune_tool_results(ms)[i].parts[j] = Sized(m, m.parts[j], size)
  BY PrunedParts DEF OneByOne
<1>2. m \in SoundMessage /\ Unmarked(m)
  OBVIOUS
<1> HIDE DEF m, size
<1>3. \A j \in DOMAIN m.parts : PartOk(m, m.parts[j]) /\ m.parts[j].type \in {"text", "tool_use", "tool_result"}
  <2>1. \A j \in DOMAIN m.parts : PartOk(m, m.parts[j])
    BY <1>2, PlanKept
  <2>2. QED
    BY <2>1 DEF PartOk, PartTyped
<1>4. \A j \in DOMAIN m.parts : Fewer(m.parts[j], Sized(m, m.parts[j], size))
  <2> TAKE j \in DOMAIN m.parts
  <2>1. Fewer(m.parts[j], Part(m.parts[j].type, 0, Pruned))
    BY <1>3, CutFewer
  <2>2. QED
    BY <2>1 DEF Sized, Fewer
<1>5. Unmarked(prune_tool_results(ms)[i]) /\ (Calm(m) => Calm(prune_tool_results(ms)[i]))
  BY <1>1, <1>2, <1>4, FewerCalm
<1>6. QED
  BY <1>5 DEF m

LEMMA ThinnedCalm ==
  ASSUME NEW ms \in Seq(SoundMessage), \A i \in DOMAIN ms : Unmarked(ms[i])
  PROVE  \A i \in DOMAIN ms : Unmarked(prune_thought_blocks(ms)[i]) /\ (Calm(ms[i]) => Calm(prune_thought_blocks(ms)[i]))
<1> TAKE i \in DOMAIN ms
<1> DEFINE m == ms[i]
           x == prune_thought_blocks(ms)[i]
<1>1. SamePlan(x, m) /\ \A j \in DOMAIN m.parts :
        x.parts[j] = m.parts[j] \/ (m.role = "assistant" /\ x.parts[j] = Thinned(m.parts[j]))
  BY ThinnedParts DEF OneByOne
<1>2. m \in SoundMessage /\ Unmarked(m)
  OBVIOUS
<1> HIDE DEF m, x
<1>3. \A j \in DOMAIN m.parts : PartOk(m, m.parts[j])
  BY <1>2, PlanKept
<1>4. \A j \in DOMAIN m.parts : m.role = "assistant" => Fewer(m.parts[j], Thinned(m.parts[j]))
  BY <1>3, MarkedFacts DEF Thinned, Fewer
<1>5. \A j \in DOMAIN m.parts : Fewer(m.parts[j], x.parts[j])
  BY <1>1, <1>4 DEF Fewer
<1>6. Unmarked(x) /\ (Calm(m) => Calm(x))
  BY <1>1, <1>2, <1>5, FewerCalm
<1>7. QED
  BY <1>6 DEF x, m

\* The messages dedup_errors sees.
BeforeDedup(messages) == prune_thought_blocks(prune_tool_results(messages))
LEMMA StrategiesOrder ==
  ASSUME NEW ms
  PROVE  strategies(ms) = condense_file_views(dedup_errors(BeforeDedup(ms)))
BY DEF strategies, prune_then_dedup, BeforeDedup

LEMMA BeforeDedupCalm ==
  ASSUME NEW ms \in Seq(SoundMessage), \A i \in DOMAIN ms : Unmarked(ms[i])
  PROVE  LET c == BeforeDedup(ms) IN
         /\ OneByOne(c, ms)
         /\ \A i \in DOMAIN ms : Unmarked(c[i]) /\ (Calm(ms[i]) => Calm(c[i]))
<1> DEFINE b == prune_tool_results(ms)
           c == prune_thought_blocks(b)
<1>1. OneByOne(b, ms) /\ \A i \in DOMAIN ms : Unmarked(b[i]) /\ (Calm(ms[i]) => Calm(b[i]))
  BY PrunedParts, PrunedCalm
<1>2. b \in Seq(SoundMessage) /\ DOMAIN b = DOMAIN ms
  BY <1>1 DEF OneByOne
<1> HIDE DEF b
<1>3. OneByOne(c, b) /\ \A i \in DOMAIN b : Unmarked(c[i]) /\ (Calm(b[i]) => Calm(c[i]))
  BY <1>1, <1>2, ThinnedParts, ThinnedCalm
<1>4. BeforeDedup(ms) = c
  BY DEF BeforeDedup, b
<1> HIDE DEF c
<1>5. OneByOne(c, ms)
  BY <1>1, <1>3, PlanTwice DEF OneByOne
<1>6. QED
  BY <1>1, <1>2, <1>3, <1>4, <1>5

\* What is left of the conversation before the strategies: its messages, calm
\* when they were, and a summary.
Quiet(m) == Unmarked(m) /\ (Calm(m) \/ (m.turn = 0 /\ m.content = "string"))
LEMMA SummaryQuiet ==
  ASSUME NEW m \in SoundMessage, FromSummary(m)
  PROVE  Quiet(m)
BY DEF Quiet, Unmarked, FromSummary

LEMMA WindowedQuiet ==
  ASSUME NEW ms \in Seq(SoundMessage), \A i \in DOMAIN ms : Calm(ms[i]), NEW quoted \in Quotings
  PROVE  LET w == windowed(ms, quoted) IN w \in Seq(SoundMessage) /\ \A i \in DOMAIN w : Quiet(w[i])
<1> DEFINE w == windowed(ms, quoted)
           v == apply_sliding_window(ms, quoted)
<1>1. CASE ~(Len(ms) > WindowAt)
  <2>1. w = ms
    BY <1>1 DEF windowed
  <2>2. QED
    BY <2>1 DEF Quiet, Calm
<1>2. CASE Len(ms) > WindowAt
  <2>1. v \in Seq(SoundMessage) /\ \A i \in DOMAIN v : FromSummary(v[i]) \/ FromWindow(v, ms, i)
    BY WindowParts
  <2>2. w = v
    BY <1>2 DEF windowed
  <2>3. \A i \in DOMAIN ms : Quiet(Purged(ms)[i])
    BY PurgedCalm DEF Quiet, Calm
  <2> HIDE DEF v, w
  <2>4. \A i \in DOMAIN v : v[i] \in SoundMessage
    BY <2>1
  <2>5. \A i \in DOMAIN v : Quiet(v[i])
    BY <2>1, <2>3, <2>4, SummaryQuiet DEF FromWindow
  <2>6. QED
    BY <2>1, <2>2, <2>5 DEF w
<1>3. QED
  BY <1>1, <1>2

LEMMA CutQuiet ==
  ASSUME NEW ms \in Seq(SoundMessage), \A i \in DOMAIN ms : Calm(ms[i]), Len(ms) >= 2,
         NEW told, NEW quoted \in Quotings
  PROVE  LET w == context_optimize(ms, told, quoted) IN
         w \in Seq(SoundMessage) /\ \A i \in DOMAIN w : Quiet(w[i])
<1> DEFINE w == context_optimize(ms, told, quoted)
           first == FirstKept(ms)
<1>1. /\ first \in Nat \ {0} /\ w \in Seq(SoundMessage)
      /\ \A i \in DOMAIN w : FromSummary(w[i]) \/ FromList(w, ms, first, i)
  BY ContextParts
<1> HIDE DEF w, first
<1>2. \A i \in DOMAIN w : FromList(w, ms, first, i) => Quiet(w[i])
  <2> SUFFICES ASSUME NEW i \in DOMAIN w, FromList(w, ms, first, i)
               PROVE  Quiet(w[i])
    OBVIOUS
  <2>1. PICK k \in first..Len(ms) : w[i] = ms[k]
    BY DEF FromList
  <2>2. k \in DOMAIN ms
    BY <1>1, <2>1
  <2>3. Calm(ms[k])
    BY <2>2
  <2>4. QED
    BY <2>1, <2>3 DEF Quiet, Calm
<1>3. \A i \in DOMAIN w : w[i] \in SoundMessage
  BY <1>1
<1>4. QED
  BY <1>1, <1>2, <1>3, SummaryQuiet DEF w

\* With one traceback at most, a message repeats something only when it has
\* one that was seen before.
LEMMA CalmRepeats ==
  ASSUME NEW m, Calm(m), NEW seen
  PROVE  /\ Repeats(m, seen) \in Int
         /\ Repeats(m, seen) >= 1 => TracesIn(m) \subseteq seen
         /\ \A t \in TracesIn(m) : t \notin seen => Repeats(m, seen) = 0
         /\ \A t, u \in TracesIn(m) : t = u
<1>1. CASE TracesAt(m) = {}
  <2>1. TracesIn(m) = {} /\ TracesIn(m) \ seen = {}
    BY <1>1 DEF TracesIn
  <2>2. Cardinality(TracesAt(m)) = 0 /\ Cardinality(TracesIn(m) \ seen) = 0
    BY <1>1, <2>1, FS_EmptySet
  <2>3. Repeats(m, seen) = 0
    BY <2>2 DEF Repeats
  <2>4. QED
    BY <2>1, <2>3
<1>2. CASE TracesAt(m) # {}
  <2>1. PICK a : TracesAt(m) = {a}
    BY <1>2 DEF Calm
  <2> DEFINE t == At(m, a).trace
  <2>2. TracesIn(m) = {t}
    BY <2>1 DEF TracesIn
  <2> HIDE DEF t
  <2>3. Cardinality(TracesAt(m)) = 1
    BY <2>1, FS_Singleton
  <2>4. CASE t \in seen
    <3>1. TracesIn(m) \ seen = {}
      BY <2>2, <2>4
    <3>2. Cardinality(TracesIn(m) \ seen) = 0
      BY <3>1, FS_EmptySet
    <3>3. Repeats(m, seen) = 1
      BY <2>3, <3>2 DEF Repeats
    <3>4. QED
      BY <2>2, <2>4, <3>3
  <2>5. CASE t \notin seen
    <3>1. TracesIn(m) \ seen = {t}
      BY <2>2, <2>5
    <3>2. Cardinality(TracesIn(m) \ seen) = 1
      BY <3>1, FS_Singleton
    <3>3. Repeats(m, seen) = 0
      BY <2>3, <3>2 DEF Repeats
    <3>4. QED
      BY <2>2, <3>3
  <2>6. QED
    BY <2>4, <2>5
<1>3. QED
  BY <1>1, <1>2

\* Who is the first to have a traceback.
LEMMA FirstToHave ==
  ASSUME NEW ms, NEW i \in Nat, NEW t, t \in Seen(ms, i)
  PROVE  \E j \in 1..(i - 1) : t \in TracesIn(ms[j]) /\ t \notin Seen(ms, j)
<1> DEFINE P == {n \in Nat : t \in Seen(ms, n) => \E j \in 1..(n - 1) : t \in TracesIn(ms[j]) /\ t \notin Seen(ms, j)}
<1>1. 0 \in P
  BY DEF Seen
<1>2. \A n \in Nat : n \in P => n + 1 \in P
  <2> SUFFICES ASSUME NEW n \in Nat, t \in Seen(ms, n + 1),
                      t \in Seen(ms, n) => \E j \in 1..(n - 1) : t \in TracesIn(ms[j]) /\ t \notin Seen(ms, j)
               PROVE  \E j \in 1..n : t \in TracesIn(ms[j]) /\ t \notin Seen(ms, j)
    <3>1. \A n \in Nat : n + 1 \in Nat /\ (n + 1) - 1 = n
      OBVIOUS
    <3>2. QED
      BY <3>1
  <2>1. CASE t \in Seen(ms, n)
    BY <2>1
  <2>2. CASE t \notin Seen(ms, n)
    <3>1. PICK j \in 1..((n + 1) - 1) : t \in TracesIn(ms[j])
      BY DEF Seen
    <3>2. j \notin 1..(n - 1)
      BY <2>2, <3>1 DEF Seen
    <3>3. j = n /\ n \in 1..n
      BY <3>1, <3>2
    <3>4. QED
      BY <2>2, <3>1, <3>3
  <2>3. QED
    BY <2>1, <2>2
<1>3. i \in P
  <2> HIDE DEF P
  <2> QED BY <1>1, <1>2, NatInductionSet
<1>4. QED
  BY <1>3

\* What a message has, wherever it is in it.
HasSegment(m, s) == \E j \in DOMAIN m.parts : s \in SegmentsOf(m.parts[j])
LEMMA HasPlace ==
  ASSUME NEW m, NEW s
  PROVE  HasSegment(m, s) <=> \E j \in DOMAIN m.parts : \E k \in DOMAIN m.parts[j].texts :
                              \E l \in DOMAIN m.parts[j].texts[k] : s = m.parts[j].texts[k][l]
BY DEF HasSegment, SegmentsOf, Range
LEMMA HoldsSegment ==
  ASSUME NEW ms, NEW i, NEW t
  PROVE  Holds(ms, i, t) <=> HasSegment(ms[i], Trace(t))
BY DEF Holds, HasSegment, SegmentsOf, Range
LEMMA PointsSegments ==
  ASSUME NEW ms,
         \A i \in DOMAIN ms : \A s : HasSegment(ms[i], s) /\ s.is = "same" =>
            \E j \in 1..i : HasSegment(ms[j], Trace(s.trace))
  PROVE  Points(ms)
BY HoldsSegment DEF Points, HasSegment, SegmentsOf, Range

\* Condensing loses no traceback and adds no placeholder.
LEMMA CondensedSegments ==
  ASSUME NEW ms \in Seq(SoundMessage), NEW i \in DOMAIN ms, NEW s
  PROVE  LET c == condense_file_views(ms)[i] IN
         /\ HasSegment(c, s) => HasSegment(ms[i], s)
         /\ HasSegment(ms[i], s) /\ s.is # "waste" => HasSegment(c, s)
<1> DEFINE m == ms[i]
           c == condense_file_views(ms)[i]
<1>1. SamePlan(c, m) /\ \A j \in DOMAIN m.parts : c.parts[j] = m.parts[j] \/ c.parts[j] = condensed(m.parts[j])
  BY CondensedParts DEF OneByOne
<1>2. \A j \in DOMAIN m.parts : PartOk(m, m.parts[j])
  <2>1. m \in SoundMessage
    OBVIOUS
  <2>2. QED
    BY <2>1, PlanKept
<1>3. DOMAIN c.parts = DOMAIN m.parts
  BY <1>1 DEF SamePlan
<1> HIDE DEF m, c
<1>4. \A j \in DOMAIN m.parts :
        /\ SegmentsOf(c.parts[j]) \subseteq SegmentsOf(m.parts[j])
        /\ s.is # "waste" /\ s \in SegmentsOf(m.parts[j]) => s \in SegmentsOf(c.parts[j])
  <2> TAKE j \in DOMAIN m.parts
  <2> DEFINE p == m.parts[j]
  <2>1. /\ SegmentsOf(condensed(p)) \subseteq SegmentsOf(p)
        /\ \A z \in SegmentsOf(p) : z.is # "waste" => z \in SegmentsOf(condensed(p))
    <3>1. PartOk(m, p)
      BY <1>2
    <3> HIDE DEF p
    <3>2. QED
      BY <3>1, CondensedFacts
  <2>2. c.parts[j] = p \/ c.parts[j] = condensed(p)
    BY <1>1
  <2> HIDE DEF p
  <2>3. SegmentsOf(c.parts[j]) \subseteq SegmentsOf(p) /\ (s.is # "waste" /\ s \in SegmentsOf(p) => s \in SegmentsOf(c.parts[j]))
    BY <2>1, <2>2
  <2>4. QED
    BY <2>3 DEF p
<1>5. /\ HasSegment(c, s) => HasSegment(m, s)
      /\ HasSegment(m, s) /\ s.is # "waste" => HasSegment(c, s)
  BY <1>3, <1>4 DEF HasSegment
<1>6. QED
  BY <1>5 DEF m, c

\* dedup_errors puts a placeholder where a traceback was, and leaves a message
\* with one new traceback alone.
LEMMA DedupedSegments ==
  ASSUME NEW ms \in Seq(SoundMessage), NEW i \in DOMAIN ms, NEW s, Calm(ms[i])
  PROVE  LET m == ms[i]
             n == Repeats(m, Seen(ms, i))
             d == dedup_errors(ms)[i]
         IN  /\ HasSegment(d, s) /\ s.is = "same" => n >= 1 /\ HasSegment(m, Trace(s.trace)) /\ s.trace \in TracesIn(m)
             /\ n = 0 /\ HasSegment(m, s) => HasSegment(d, s)
<1> DEFINE m == ms[i]
           n == Repeats(m, Seen(ms, i))
           d == dedup_errors(ms)[i]
<1>1. SamePlan(d, m) /\ \A j \in DOMAIN m.parts : d.parts[j] = Deduped(m.parts[j], n)
  BY DedupedParts DEF OneByOne
<1>2. m \in SoundMessage /\ Calm(m)
  OBVIOUS
<1> HIDE DEF n, d, m
<1>3. n \in Int /\ DOMAIN d.parts = DOMAIN m.parts /\ \A j \in DOMAIN m.parts : PartOk(m, m.parts[j])
  BY <1>1, <1>2, PlanKept, RepeatsTyped DEF SamePlan, n
<1>4. \A j \in DOMAIN m.parts :
        /\ DOMAIN d.parts[j].texts = DOMAIN m.parts[j].texts
        /\ \A k \in DOMAIN m.parts[j].texts :
             /\ DOMAIN d.parts[j].texts[k] = DOMAIN m.parts[j].texts[k]
             /\ \A l \in DOMAIN m.parts[j].texts[k] :
                  Deduplicated(d.parts[j].texts[k][l], m.parts[j].texts[k][l], n)
  <2> TAKE j \in DOMAIN m.parts
  <2> DEFINE p == m.parts[j]
             q == Deduped(p, n)
  <2>1. PartOk(m, p) /\ d.parts[j] = q
    BY <1>1, <1>3
  <2> HIDE DEF p
  <2>2. /\ DOMAIN q.texts = DOMAIN p.texts
        /\ \A k \in DOMAIN p.texts :
             /\ DOMAIN q.texts[k] = DOMAIN p.texts[k]
             /\ \A l \in DOMAIN p.texts[k] : Deduplicated(q.texts[k][l], p.texts[k][l], n)
    <3>1. DedupedTexts(p, q, n)
      BY <1>3, <2>1, DedupedTextsHold
    <3> HIDE DEF q
    <3>2. QED
      BY <3>1 DEF DedupedTexts
  <2> HIDE DEF q
  <2>3. QED
    BY <2>1, <2>2 DEF p
<1>5. ASSUME HasSegment(d, s), s.is = "same"
      PROVE  n >= 1 /\ HasSegment(m, Trace(s.trace)) /\ s.trace \in TracesIn(m)
  <2>1. PICK j \in DOMAIN d.parts : \E k \in DOMAIN d.parts[j].texts :
                              \E l \in DOMAIN d.parts[j].texts[k] : s = d.parts[j].texts[k][l]
    BY <1>5, HasPlace
  <2>2. PICK k \in DOMAIN d.parts[j].texts :
                              \E l \in DOMAIN d.parts[j].texts[k] : s = d.parts[j].texts[k][l]
    BY <2>1
  <2>3. PICK l \in DOMAIN d.parts[j].texts[k] : s = d.parts[j].texts[k][l]
    BY <2>2
  <2> DEFINE u == m.parts[j].texts[k][l]
  <2>4. /\ j \in DOMAIN m.parts /\ k \in DOMAIN m.parts[j].texts /\ l \in DOMAIN m.parts[j].texts[k]
        /\ Deduplicated(s, u, n)
    BY <1>3, <1>4, <2>3
  <2>5. u.is # "same" /\ u \in Segment
    <3>1. Lacks(m.parts[j], {"same"}) /\ m.parts[j].texts \in Seq(Seq(Segment))
      BY <1>2, <1>3, <2>4 DEF Calm, Unmarked, PartOk, PartTyped
    <3>2. u.is \notin {"same"}
      BY <2>4, <3>1 DEF Lacks
    <3>3. u \in Segment
      BY <2>4, <3>1
    <3>4. QED
      BY <3>2, <3>3
  <2>6. u.is = "trace" /\ n >= 1 /\ s = Same(u.trace)
    BY <1>5, <2>4, <2>5 DEF Deduplicated
  <2>7. s.trace = u.trace /\ u = Trace(s.trace)
    BY <2>5, <2>6 DEF Same, Trace, Segment
  <2>8. <<j, k, l>> \in TracesAt(m) /\ At(m, <<j, k, l>>) = u
    <3>1. <<j, k, l>> \in Places(m) /\ At(m, <<j, k, l>>) = u
      BY <2>4, PlaceFacts
    <3>2. QED
      BY <2>6, <3>1 DEF TracesAt
  <2>9. s.trace \in TracesIn(m)
    BY <2>7, <2>8 DEF TracesIn
  <2>10. HasSegment(m, u)
    BY <2>4, HasPlace
  <2>11. QED
    BY <2>6, <2>7, <2>9, <2>10
<1>6. ASSUME n = 0, HasSegment(m, s)
      PROVE  HasSegment(d, s)
  <2>1. PICK j \in DOMAIN m.parts : \E k \in DOMAIN m.parts[j].texts :
                              \E l \in DOMAIN m.parts[j].texts[k] : s = m.parts[j].texts[k][l]
    BY <1>6, HasPlace
  <2>2. PICK k \in DOMAIN m.parts[j].texts :
                              \E l \in DOMAIN m.parts[j].texts[k] : s = m.parts[j].texts[k][l]
    BY <2>1
  <2>3. PICK l \in DOMAIN m.parts[j].texts[k] : s = m.parts[j].texts[k][l]
    BY <2>2
  <2>4. d.parts[j].texts[k][l] = s
    BY <1>4, <1>6, <2>3 DEF Deduplicated
  <2>5. QED
    BY <1>3, <1>4, <2>3, <2>4, HasPlace
<1>7. QED
  BY <1>5, <1>6 DEF m, n, d

LEMMA TraceHeld ==
  ASSUME NEW m \in SoundMessage, NEW t \in TracesIn(m)
  PROVE  HasSegment(m, Trace(t))
<1>1. PICK a \in TracesAt(m) : At(m, a).trace = t
  BY DEF TracesIn
<1>2. a \in Places(m) /\ At(m, a).is = "trace"
  BY DEF TracesAt
<1>3. PICK j \in DOMAIN m.parts : \E k \in DOMAIN m.parts[j].texts :
                           \E l \in DOMAIN m.parts[j].texts[k] : At(m, a) = m.parts[j].texts[k][l]
  BY <1>2, PlaceFacts
<1>4. HasSegment(m, At(m, a))
  BY <1>3, HasPlace
<1>5. m.parts[j].texts \in Seq(Seq(Segment))
  BY DEF SoundMessage, PartOk, PartTyped
<1>6. At(m, a) \in Segment
  BY <1>3, <1>5
<1>7. At(m, a) = Trace(t)
  BY <1>1, <1>2, <1>6 DEF Segment, Trace
<1>8. QED
  BY <1>4, <1>7

LEMMA AtMostOne ==
  ASSUME NEW S, IsFiniteSet(S), Cardinality(S) <= 1
  PROVE  \A a, b \in S : a = b
<1> SUFFICES ASSUME NEW a \in S, NEW b \in S, a # b
             PROVE  FALSE
  OBVIOUS
<1>1. {a, b} \subseteq S
  OBVIOUS
<1>2. Cardinality({a, b}) = 2
  <2>1. Cardinality({b}) = 1 /\ IsFiniteSet({b})
    BY FS_Singleton
  <2>2. Cardinality({b} \cup {a}) = Cardinality({b}) + 1
    BY <2>1, FS_AddElement
  <2>3. {a, b} = {b} \cup {a}
    OBVIOUS
  <2>4. QED
    BY <2>1, <2>2, <2>3
<1>3. Cardinality({a, b}) <= Cardinality(S) /\ Cardinality(S) \in Nat
  BY <1>1, FS_Subset, FS_CardinalityType
<1>4. QED
  BY <1>2, <1>3

\* A string has, when it has left, a traceback or a placeholder where it had a
\* traceback before dedup_errors.
LEMMA MarksLeft ==
  ASSUME NEW ms \in Seq(SoundMessage), NEW i \in DOMAIN ms, ms[i].content = "string",
         Cardinality(Marks(condense_file_views(dedup_errors(ms))[i])) <= 1
  PROVE  \A a, b \in TracesAt(ms[i]) : a = b
<1> DEFINE m == ms[i]
           n == Repeats(m, Seen(ms, i))
           ds == dedup_errors(ms)
           d == ds[i]
<1>1. ds \in Seq(SoundMessage) /\ DOMAIN ds = DOMAIN ms
      /\ SamePlan(d, m) /\ \A j \in DOMAIN m.parts : d.parts[j] = Deduped(m.parts[j], n)
  BY DedupedParts DEF OneByOne
<1>2. m \in SoundMessage /\ m.content = "string"
  OBVIOUS
<1>3. condense_file_views(ds)[i] = d
  <2>1. i \in DOMAIN ds /\ ds[i].content = "string"
    BY <1>1, <1>2 DEF SamePlan
  <2> HIDE DEF ds
  <2>2. QED
    BY <2>1, CondensedAt
<1>4. Cardinality(Marks(d)) <= 1
  BY <1>3
<1> HIDE DEF n, d, ds, m
<1>5. n \in Int /\ DOMAIN d.parts = DOMAIN m.parts /\ \A j \in DOMAIN m.parts : PartOk(m, m.parts[j])
  BY <1>1, <1>2, PlanKept, RepeatsTyped DEF SamePlan, n
<1>6. \A j \in DOMAIN m.parts : DedupedTexts(m.parts[j], d.parts[j], n)
  BY <1>1, <1>5, DedupedTextsHold
<1>7. TracesAt(m) \subseteq Marks(d)
  <2> SUFFICES ASSUME NEW a \in TracesAt(m) PROVE a \in Marks(d)
    OBVIOUS
  <2>1. a \in Places(m) /\ At(m, a).is = "trace"
    BY DEF TracesAt
  <2>2. PICK j \in DOMAIN m.parts : \E k \in DOMAIN m.parts[j].texts :
        \E l \in DOMAIN m.parts[j].texts[k] : a = <<j, k, l>> /\ At(m, a) = m.parts[j].texts[k][l]
    BY <2>1, PlaceFacts
  <2>3. PICK k \in DOMAIN m.parts[j].texts : 
        \E l \in DOMAIN m.parts[j].texts[k] : a = <<j, k, l>> /\ At(m, a) = m.parts[j].texts[k][l]
    BY <2>2
  <2>4. PICK l \in DOMAIN m.parts[j].texts[k] : a = <<j, k, l>> /\ At(m, a) = m.parts[j].texts[k][l]
    BY <2>3
  <2>5. /\ j \in DOMAIN d.parts /\ k \in DOMAIN d.parts[j].texts /\ l \in DOMAIN d.parts[j].texts[k]
        /\ Deduplicated(d.parts[j].texts[k][l], At(m, a), n)
    <3>1. DedupedTexts(m.parts[j], d.parts[j], n)
      BY <1>6
    <3>2. QED
      BY <1>5, <2>4, <3>1 DEF DedupedTexts
  <2>6. d.parts[j].texts[k][l].is \in {"trace", "same"}
    BY <2>1, <2>5 DEF Deduplicated, Same
  <2>7. a \in Places(d) /\ At(d, a) = d.parts[j].texts[k][l]
    BY <2>4, <2>5, PlaceFacts
  <2>8. QED
    BY <2>6, <2>7 DEF Marks
<1>8. IsFiniteSet(Marks(d))
  <2>1. IsFiniteSet(Places(d))
    BY <1>1, PlacesFinite DEF SamePlan
  <2>2. Marks(d) \subseteq Places(d)
    BY DEF Marks
  <2>3. QED
    BY <2>1, <2>2, FS_Subset
<1>9. \A a, b \in Marks(d) : a = b
  BY <1>4, <1>8, AtMostOne
<1>10. QED
  BY <1>7, <1>9 DEF m

\* Every placeholder stands for a traceback that one message, the first to have
\* it, has kept.
OneMark(ms) == \A i \in DOMAIN ms : ms[i].turn = 0 => Cardinality(Marks(ms[i])) <= 1
LEMMA StrategiesPoint ==
  ASSUME NEW ms \in Seq(SoundMessage), \A i \in DOMAIN ms : Quiet(ms[i]), OneMark(strategies(ms))
  PROVE  Points(strategies(ms))
<1> DEFINE b == BeforeDedup(ms)
           d == dedup_errors(b)
           c == condense_file_views(d)
<1>1. strategies(ms) = c
  BY StrategiesOrder
<1>2. b \in Seq(SoundMessage) /\ \A i \in DOMAIN b : Calm(b[i])
  <2>1. \A i \in DOMAIN ms : Unmarked(ms[i])
    BY DEF Quiet
  <2>2. OneByOne(b, ms) /\ \A i \in DOMAIN ms : Unmarked(b[i]) /\ (Calm(ms[i]) => Calm(b[i]))
    BY <2>1, BeforeDedupCalm
  <2> HIDE DEF b
  <2>3. b \in Seq(SoundMessage) /\ DOMAIN b = DOMAIN ms /\ \A i \in DOMAIN ms : SamePlan(b[i], ms[i])
    BY <2>2 DEF OneByOne
  <2>4. \A i \in DOMAIN b : Calm(b[i])
    <3> TAKE i \in DOMAIN b
    <3>1. CASE Calm(ms[i])
      BY <2>2, <2>3, <3>1
    <3>2. CASE ms[i].turn = 0 /\ ms[i].content = "string"
      <4>1. b[i].turn = 0 /\ b[i].content = "string"
        BY <2>3, <3>2 DEF SamePlan
      <4>2. d \in Seq(SoundMessage) /\ DOMAIN d = DOMAIN b /\ d[i].turn = 0
        BY <2>3, <4>1, DedupedParts DEF OneByOne, SamePlan
      <4>3. DOMAIN c = DOMAIN d /\ c[i].turn = 0
        <5> HIDE DEF d
        <5> QED BY <4>2, CondensedParts DEF OneByOne, SamePlan
      <4>4. Cardinality(Marks(c[i])) <= 1
        <5> HIDE DEF c
        <5> QED BY <1>1, <4>2, <4>3 DEF OneMark
      <4>5. \A x, y \in TracesAt(b[i]) : x = y
        BY <2>3, <4>1, <4>4, MarksLeft
      <4>6. QED
        BY <2>2, <2>3, <4>5 DEF Calm
    <3>3. Quiet(ms[i])
      BY <2>3
    <3>4. QED
      BY <3>1, <3>2, <3>3 DEF Quiet
  <2>5. QED
    BY <2>3, <2>4
<1> HIDE DEF b
<1>3. d \in Seq(SoundMessage) /\ DOMAIN d = DOMAIN b
  BY <1>2, DedupedParts DEF OneByOne
<1>4. DOMAIN c = DOMAIN d
  <2> HIDE DEF d
  <2> QED BY <1>3, CondensedParts DEF OneByOne
<1>5. \A i \in DOMAIN c : \A s : HasSegment(c[i], s) /\ s.is = "same" =>
            \E j \in 1..i : HasSegment(c[j], Trace(s.trace))
  <2> SUFFICES ASSUME NEW i \in DOMAIN c, NEW s, HasSegment(c[i], s), s.is = "same"
               PROVE  \E j \in 1..i : HasSegment(c[j], Trace(s.trace))
    OBVIOUS
  <2> DEFINE t == s.trace
  <2>1. i \in DOMAIN d /\ i \in DOMAIN b
    BY <1>3, <1>4
  <2>2. HasSegment(d[i], s)
    <3> HIDE DEF d
    <3> QED BY <1>3, <2>1, CondensedSegments
  <2>3. Repeats(b[i], Seen(b, i)) >= 1 /\ t \in TracesIn(b[i])
    BY <1>2, <2>1, <2>2, DedupedSegments
  <2>4. t \in Seen(b, i)
    BY <1>2, <2>1, <2>3, CalmRepeats
  <2>5. i \in Nat /\ DOMAIN b = 1..Len(b) /\ Len(b) \in Nat /\ i <= Len(b)
    BY <1>2, <2>1
  <2>6. PICK j \in 1..(i - 1) : t \in TracesIn(b[j]) /\ t \notin Seen(b, j)
    BY <2>4, <2>5, FirstToHave
  <2>7. j \in DOMAIN b /\ j \in 1..i
    BY <2>5
  <2>8. b[j] \in SoundMessage /\ Calm(b[j])
    BY <1>2, <2>7
  <2>9. Repeats(b[j], Seen(b, j)) = 0
    BY <2>6, <2>8, CalmRepeats
  <2>10. HasSegment(b[j], Trace(t))
    BY <2>6, <2>8, TraceHeld
  <2>11. HasSegment(d[j], Trace(t))
    BY <1>2, <2>7, <2>8, <2>9, <2>10, DedupedSegments
  <2>12. Trace(t).is # "waste"
    BY DEF Trace
  <2>13. j \in DOMAIN d
    BY <1>3, <2>7
  <2>14. HasSegment(c[j], Trace(t))
    <3> HIDE DEF d, t
    <3> QED BY <1>3, <2>11, <2>12, <2>13, CondensedSegments
  <2>15. QED
    BY <2>7, <2>14
<1>6. Points(c)
  <2> HIDE DEF c
  <2> QED BY <1>5, PointsSegments
<1>7. QED
  BY <1>1, <1>6

\* What is said is calm when it has one traceback at most.
LEMMA SaidCalm ==
  ASSUME NEW m \in SaidMessage, Cardinality(TracesAt(m)) <= 1
  PROVE  Calm(m)
<1>1. m \in SoundMessage /\ \A j \in DOMAIN m.parts : Lacks(m.parts[j], {"same"})
  BY SaidIsSound DEF SaidMessage, SaidPart, Lacks
<1>2. \A a, b \in TracesAt(m) : a = b
  BY <1>1, TracesFinite, AtMostOne
<1>3. QED
  BY <1>1, <1>2 DEF Calm, Unmarked

\* A request of one message has no placeholder.
LEMMA TalkPoints ==
  ASSUME NEW ms \in Seq(SaidMessage)
  PROVE  Points(ms)
<1>1. \A i \in DOMAIN ms : \A s : HasSegment(ms[i], s) => s.is # "same"
  <2> TAKE i \in DOMAIN ms
  <2> TAKE s
  <2>1. ms[i] \in SaidMessage
    OBVIOUS
  <2>2. \A j \in DOMAIN ms[i].parts : Lacks(ms[i].parts[j], {"same", "cut"})
    BY <2>1 DEF SaidMessage, SaidPart
  <2>3. QED
    BY <2>2, HasPlace DEF Lacks
<1>2. QED
  BY <1>1, PointsSegments

OneTrace == \A m \in Range(talk) : Cardinality(TracesAt(m)) <= 1

\* Where the messages of a request come from.
LEMMA RequestOf ==
  ASSUME TalkType, Optimize
  PROVE  IF Len(talk) < 2 THEN request'.messages = talk
         ELSE \E told : \E quoted \in Quotings :
                request'.messages = strategies(IF IsCut THEN context_optimize(talk, told, quoted)
                                               ELSE windowed(talk, quoted))
<1>1. PICK told : \E quoted \in Quotings : request' = optimize(told, quoted)
  BY DEF Optimize
<1>2. PICK quoted \in Quotings : request' = optimize(told, quoted)
  BY <1>1
<1>3. CASE Len(talk) < 2
  BY <1>2, <1>3 DEF optimize
<1>4. CASE ~(Len(talk) < 2)
  <2>1. request'.messages = strategies(IF IsCut THEN context_optimize(talk, told, quoted)
                                       ELSE windowed(talk, quoted))
    BY <1>2, <1>4 DEF optimize
  <2>2. QED
    BY <1>4, <2>1
<1>5. QED
  BY <1>3, <1>4

LEMMA PointsOptimize ==
  ASSUME TalkType, OneTrace, Optimize, OneMark(request'.messages)
  PROVE  Points(request'.messages)
<1>1. talk \in Seq(SaidMessage) /\ talk \in Seq(SoundMessage) /\ Len(talk) \in Nat
  BY SaidIsSound DEF TalkType
<1>2. CASE Len(talk) < 2
  <2>1. request'.messages = talk
    BY <1>2, RequestOf
  <2>2. QED
    BY <1>1, <2>1, TalkPoints
<1>3. CASE ~(Len(talk) < 2)
  <2>0. PICK told : \E quoted \in Quotings :
          request'.messages = strategies(IF IsCut THEN context_optimize(talk, told, quoted)
                                         ELSE windowed(talk, quoted))
    BY <1>3, RequestOf
  <2>1. PICK quoted \in Quotings :
          request'.messages = strategies(IF IsCut THEN context_optimize(talk, told, quoted)
                                         ELSE windowed(talk, quoted))
    BY <2>0
  <2>2. \A i \in DOMAIN talk : Calm(talk[i])
    <3> TAKE i \in DOMAIN talk
    <3>1. talk[i] \in SaidMessage /\ talk[i] \in Range(talk)
      BY <1>1 DEF Range
    <3>2. QED
      BY <3>1, SaidCalm DEF OneTrace
  <2> DEFINE left == IF IsCut THEN context_optimize(talk, told, quoted) ELSE windowed(talk, quoted)
  <2>3. left \in Seq(SoundMessage) /\ \A i \in DOMAIN left : Quiet(left[i])
    <3>1. Len(talk) >= 2
      BY <1>1, <1>3
    <3>2. LET w == windowed(talk, quoted) IN w \in Seq(SoundMessage) /\ \A i \in DOMAIN w : Quiet(w[i])
      BY <1>1, <2>2, WindowedQuiet
    <3>3. LET w == context_optimize(talk, told, quoted) IN
          w \in Seq(SoundMessage) /\ \A i \in DOMAIN w : Quiet(w[i])
      BY <1>1, <2>2, <3>1, CutQuiet
    <3>4. QED
      BY <3>2, <3>3
  <2>4. request'.messages = strategies(left)
    BY <2>1
  <2> HIDE DEF left
  <2>5. QED
    BY <2>3, <2>4, StrategiesPoint
<1>4. QED
  BY <1>2, <1>3

LEMMA OneTraceBefore ==
  ASSUME TalkType, NEW m \in SaidMessage, Speak(m), OneTrace'
  PROVE  OneTrace
<1>1. /\ talk' \in Seq(SaidMessage) /\ Len(talk') = Len(talk) + 1 /\ talk \in Seq(SaidMessage)
      /\ \A t \in 1..Len(talk) : talk'[t] = talk[t]
  BY SpeakFacts DEF TalkType
<1>2. \A t \in DOMAIN talk : t \in DOMAIN talk' /\ talk'[t] = talk[t]
  BY <1>1
<1>3. Range(talk) \subseteq Range(talk')
  BY <1>2 DEF Range
<1>4. QED
  BY <1>3 DEF OneTrace

LEMMA PointsStep ==
  ASSUME TalkType, PlaceholdersPoint, [AgentNext]_agentVars
  PROVE  PlaceholdersPoint'
<1>1. PlaceholdersPoint = (OneTrace /\ OneMark(request.messages) => Points(request.messages))
  BY DEF PlaceholdersPoint, OneTrace, OneMark, Range
<1>2. PlaceholdersPoint' = (OneTrace' /\ OneMark(request'.messages) => Points(request'.messages))
  <2>1. (\A m \in Range(request'.messages) : m.turn = 0 => Cardinality(Marks(m)) <= 1)
          <=> OneMark(request'.messages)
    BY DEF OneMark, Range
  <2>2. QED
    BY <2>1 DEF PlaceholdersPoint, OneTrace, Points, Holds
<1>3. CASE Ask
  <2>1. request' = request /\ \E m \in SaidMessage : Speak(m)
    BY <1>3, QuestionsSaid DEF Ask
  <2>2. QED
    BY <1>1, <1>2, <2>1, OneTraceBefore
<1>4. CASE Reply
  <2>1. request' = request /\ \E m \in SaidMessage : Speak(m)
    BY <1>4, AnswersSaid DEF Reply
  <2>2. QED
    BY <1>1, <1>2, <2>1, OneTraceBefore
<1>5. CASE Optimize
  <2>1. OneTrace' = OneTrace
    BY <1>5 DEF Optimize, OneTrace
  <2>2. QED
    BY <1>2, <1>5, <2>1, PointsOptimize
<1>6. CASE UNCHANGED agentVars
  BY <1>6 DEF agentVars, PlaceholdersPoint
<1>7. QED
  BY <1>3, <1>4, <1>5, <1>6 DEF AgentNext

\* While neither a message nor a summary has two tracebacks, the placeholder of
\* dedup_errors (src/openclaw.rs) is only ever sent when the traceback it stands
\* for is in the same message or in an earlier one of the same request, behind
\* the context optimizer and the sliding window, whatever their summaries quote.
THEOREM PlaceholdersHold == AgentSpec => []PlaceholdersPoint
<1>1. AgentInit => PlaceholdersPoint
  <2>1. AgentInit => request.messages = <<>>
    BY DEF AgentInit
  <2>2. QED
    BY <2>1 DEF PlaceholdersPoint, Points
<1>2. AgentInit => TalkType
  BY TalkInit
<1>3. TalkType /\ PlaceholdersPoint /\ [AgentNext]_agentVars => (TalkType /\ PlaceholdersPoint)'
  BY TalkStep, PointsStep
<1>4. QED
  BY <1>1, <1>2, <1>3, PTL DEF AgentSpec

-------------------------------------------------------------------------------
(* What has been cut stays cut. *)

\* A message of the conversation is so many turns from the end of it.
Old(L, t, turns) == t + 2 * turns <= L
\* What the first n strategies cut from turn t of a conversation of L messages.
Lost(n, L, m, t, p) ==
  \/ n >= 1 /\ L > WindowAt /\ IsResult(m, p) /\ Old(L, t, WindowToolTurns)
  \/ n >= 1 /\ L > WindowAt /\ m.role = "assistant" /\ m.content = "string" /\ Old(L, t, WindowThoughtTurns)
  \/ n >= 2 /\ IsResult(m, p) /\ p.size > size_threshold(Old(L, t, ToolTurns))
  \/ n >= 3 /\ m.role = "assistant" /\ p.type = "text" /\ Old(L, t, ThoughtTurns) /\ Shrinks(p.texts[1])

\* q is what is left of p: nothing, or nothing of the thoughts; or all of it, but
\* for repeated tracebacks and waste.
Gone(m, p, q) ==
  \/ IsResult(m, p) /\ q.texts = Pruned /\ q.size = 0
  \/ /\ m.role = "assistant" /\ ~IsResult(m, p) /\ ~Lacks(p, {"long", "short"})
     /\ Lacks(q, {"long", "short"}) /\ Lacks(q, {"trace"})
Whole(m, p, q) ==
  /\ m.role = "assistant" => q = p
  /\ m.role # "assistant" => Lacks(q, {"long", "short", "cut"}) /\ q.size = p.size
Left(m, p, q, lost) == q.type = p.type /\ (IF lost THEN Gone(m, p, q) ELSE Whole(m, p, q))

\* What the agent says is no placeholder, and a result has no thoughts.
Original(m, p) == SaidPart(m, p) /\ PartOk(m, p)

LEMMA LacksAnd ==
  ASSUME NEW p, Lacks(p, {"same", "cut"}), Lacks(p, {"long", "short"})
  PROVE  Lacks(p, {"long", "short", "cut"})
BY DEF Lacks

\* Without a segment of some kind there is none to count.
LEMMA NothingShrinks ==
  ASSUME NEW text, \A k \in DOMAIN text : text[k].is \notin {"long", "short"}
  PROVE  ~Shrinks(text)
<1>1. {k \in DOMAIN text : text[k].is = "long"} = {} /\ {k \in DOMAIN text : text[k].is = "short"} = {}
  OBVIOUS
<1>2. QED
  BY <1>1, FS_EmptySet DEF Shrinks
LEMMA ShrinksThoughts ==
  ASSUME NEW m, NEW p, PartOk(m, p), p.type = "text", Shrinks(p.texts[1])
  PROVE  ~Lacks(p, {"long", "short"})
<1>1. Len(p.texts) = 1 /\ p.texts \in Seq(Seq(Segment))
  BY DEF PartOk, PartTyped
<1>2. 1 \in DOMAIN p.texts
  BY <1>1
<1>3. QED
  BY <1>2, NothingShrinks DEF Lacks

LEMMA PurgeLeaves ==
  ASSUME NEW m, NEW p, Original(m, p), NEW a \in BOOLEAN, NEW b \in BOOLEAN
  PROVE  Left(m, p, PurgedPart(m, p, a, b),
              (a /\ IsResult(m, p)) \/ (b /\ m.role = "assistant" /\ m.content = "string"))
<1> DEFINE q == PurgedPart(m, p, a, b)
<1>1. SaidPart(m, p) /\ PartOk(m, p) /\ p.type \in {"text", "tool_use", "tool_result"}
  BY DEF Original, PartOk, PartTyped
<1>2. CASE b /\ m.role = "assistant" /\ m.content = "string"
  <2>1. ~IsResult(m, p)
    BY <1>1, <1>2 DEF IsResult, PartOk
  <2>2. q = Emptied(p)
    BY <1>2, <2>1 DEF PurgedPart, Purge
  <2>3. q.type = p.type /\ Lacks(q, {"long", "short"}) /\ Lacks(q, {"trace"})
    BY <1>1, <1>2, <2>2, EmptiedFacts
  <2>4. ~Lacks(p, {"long", "short"})
    BY <1>1, <1>2 DEF SaidPart
  <2> HIDE DEF q
  <2>5. Left(m, p, q, TRUE)
    BY <1>2, <2>1, <2>3, <2>4 DEF Left, Gone
  <2>6. QED
    BY <1>2, <2>5 DEF Left, q
<1>3. CASE ~(b /\ m.role = "assistant" /\ m.content = "string") /\ a /\ IsResult(m, p)
  <2>1. q = Part(p.type, 0, Pruned)
    BY <1>3 DEF PurgedPart, Purge
  <2>2. q.type = p.type /\ q.texts = Pruned /\ q.size = 0
    BY <1>1, <2>1, PrunedFacts
  <2> HIDE DEF q
  <2>3. Left(m, p, q, TRUE)
    BY <1>3, <2>2 DEF Left, Gone
  <2>4. QED
    BY <1>3, <2>3 DEF Left, q
<1>4. CASE ~(b /\ m.role = "assistant" /\ m.content = "string") /\ ~(a /\ IsResult(m, p))
  <2>1. q = p
    BY <1>4 DEF PurgedPart, Purge
  <2>2. Whole(m, p, p)
    BY <1>1, LacksAnd DEF Whole, SaidPart
  <2>3. Left(m, p, p, FALSE)
    BY <2>2 DEF Left
  <2> HIDE DEF q
  <2>4. QED
    BY <1>4, <2>1, <2>3 DEF Left, q
<1>5. QED
  BY <1>2, <1>3, <1>4

LEMMA PruneLeaves ==
  ASSUME NEW m, NEW p, Original(m, p), NEW lost \in BOOLEAN, NEW x, NEW q, Left(m, p, q, lost),
         x.role = m.role, x.content = m.content, NEW size \in Nat
  PROVE  Left(m, p, Sized(x, q, size), lost \/ (IsResult(m, p) /\ p.size > size))
<1> DEFINE z == Sized(x, q, size)
           more == IsResult(m, p) /\ p.size > size
<1>1. SaidPart(m, p) /\ PartOk(m, p) /\ p.type \in {"text", "tool_use", "tool_result"} /\ p.size \in Nat
  BY DEF Original, PartOk, PartTyped
<1>2. IsResult(x, q) <=> IsResult(m, p)
  BY DEF IsResult, Left
<1>3. ~(0 > size)
  OBVIOUS
<1>4. CASE lost
  <2>1. Gone(m, p, q) /\ q.type = p.type
    BY <1>4 DEF Left
  <2>2. z = q
    BY <1>2, <1>3, <2>1 DEF Sized, Gone
  <2>3. QED
    BY <1>4, <2>1, <2>2 DEF Left
<1>5. CASE ~lost /\ more
  <2>1. m.role # "assistant" /\ Whole(m, p, q) /\ q.type = p.type
    BY <1>1, <1>5 DEF Left, IsResult, PartOk
  <2>2. q.size = p.size
    BY <2>1 DEF Whole
  <2>3. z = Part(p.type, 0, Pruned)
    BY <1>2, <1>5, <2>1, <2>2 DEF Sized
  <2>4. z.type = p.type /\ z.texts = Pruned /\ z.size = 0
    BY <1>1, <2>3, PrunedFacts
  <2> HIDE DEF z
  <2>5. Left(m, p, z, TRUE)
    BY <1>5, <2>4 DEF Left, Gone
  <2>6. QED
    BY <1>5, <2>5 DEF Left, z
<1>6. CASE ~lost /\ ~more
  <2>1. Whole(m, p, q) /\ q.type = p.type
    BY <1>6 DEF Left
  <2>2. q.size = p.size
    BY <2>1 DEF Whole
  <2>3. z = q
    BY <1>2, <1>6, <2>2 DEF Sized
  <2>4. QED
    BY <1>6, <2>1, <2>3 DEF Left
<1>7. QED
  BY <1>4, <1>5, <1>6

LEMMA ThinLeaves ==
  ASSUME NEW m, NEW p, Original(m, p), NEW lost \in BOOLEAN, NEW x, NEW q, Left(m, p, q, lost),
         x.role = m.role, PartOk(x, q), NEW old \in BOOLEAN
  PROVE  Left(m, p, IF old /\ x.role = "assistant" THEN Thinned(q) ELSE q,
              lost \/ (m.role = "assistant" /\ p.type = "text" /\ old /\ Shrinks(p.texts[1])))
<1> DEFINE z == IF old /\ x.role = "assistant" THEN Thinned(q) ELSE q
           more == m.role = "assistant" /\ p.type = "text" /\ old /\ Shrinks(p.texts[1])
<1>1. SaidPart(m, p) /\ PartOk(m, p) /\ q.type = p.type
  BY DEF Original, Left
<1>2. CASE lost
  <2>1. Gone(m, p, q)
    BY <1>2 DEF Left
  <2>2. z = q
    <3>1. CASE ~(old /\ x.role = "assistant" /\ q.type = "text")
      BY <3>1 DEF Thinned
    <3>2. CASE old /\ x.role = "assistant" /\ q.type = "text"
      <4>1. ~IsResult(m, p)
        BY <1>1, <3>2 DEF IsResult, PartOk
      <4>2. Lacks(q, {"long", "short"})
        BY <2>1, <4>1 DEF Gone
      <4>3. ~Shrinks(q.texts[1])
        BY <3>2, <4>2, ShrinksThoughts
      <4>4. QED
        BY <4>3 DEF Thinned
    <3>3. QED
      BY <3>1, <3>2
  <2>3. QED
    BY <1>2, <2>1, <2>2 DEF Left
<1>3. CASE ~lost /\ more
  <2>1. q = p
    BY <1>3 DEF Left, Whole
  <2>2. z = Marked(p)
    BY <1>3, <2>1 DEF Thinned
  <2>3. z.type = p.type /\ Lacks(z, {"long", "short"}) /\ Lacks(z, {"trace"})
    BY <1>1, <1>3, <2>2, MarkedFacts
  <2>4. ~Lacks(p, {"long", "short"})
    BY <1>1, <1>3, ShrinksThoughts
  <2>5. ~IsResult(m, p)
    BY <1>1, <1>3 DEF IsResult, PartOk
  <2> HIDE DEF z
  <2>6. Left(m, p, z, TRUE)
    BY <1>3, <2>3, <2>4, <2>5 DEF Left, Gone
  <2>7. QED
    BY <1>3, <2>6 DEF Left, z
<1>4. CASE ~lost /\ ~more
  <2>1. Whole(m, p, q)
    BY <1>4 DEF Left
  <2>2. z = q
    BY <1>1, <1>4, <2>1 DEF Thinned, Whole
  <2>3. QED
    BY <1>1, <1>4, <2>1, <2>2 DEF Left
<1>5. QED
  BY <1>2, <1>3, <1>4

LEMMA DedupLeaves ==
  ASSUME NEW m, NEW p, Original(m, p), NEW lost \in BOOLEAN, NEW x, NEW q, Left(m, p, q, lost),
         PartOk(x, q), NEW n \in Int
  PROVE  Left(m, p, Deduped(q, n), lost)
<1> DEFINE z == Deduped(q, n)
<1>1. /\ z.type = q.type /\ z.size = q.size /\ DOMAIN z.texts = DOMAIN q.texts
      /\ \A k \in DOMAIN q.texts :
           /\ DOMAIN z.texts[k] = DOMAIN q.texts[k]
           /\ \A l \in DOMAIN q.texts[k] : Deduplicated(z.texts[k][l], q.texts[k][l], n)
      /\ Lacks(q, {"trace"}) => z = q
  BY DedupedFacts
<1> HIDE DEF z
<1>2. CASE lost
  <2>1. Gone(m, p, q)
    BY <1>2 DEF Left
  <2>2. Lacks(q, {"trace"})
    <3>1. CASE q.texts = Pruned
      BY <3>1 DEF Pruned, Lacks, Plainly
    <3>2. QED
      BY <2>1, <3>1 DEF Gone
  <2>3. QED
    BY <1>1, <2>2 DEF z
<1>3. CASE ~lost
  <2>1. Whole(m, p, q) /\ q.type = p.type
    BY <1>3 DEF Left
  <2>2. m.role = "assistant" => z = p
    BY <1>1, <2>1 DEF Whole, Original, PartOk
  <2>3. ASSUME m.role # "assistant"
        PROVE  Lacks(z, {"long", "short", "cut"}) /\ z.size = p.size
    <3>1. Lacks(q, {"long", "short", "cut"}) /\ q.size = p.size
      BY <2>1, <2>3 DEF Whole
    <3>2. \A t : Same(t).is = "same"
      BY DEF Same
    <3>3. Lacks(z, {"long", "short", "cut"})
      BY <1>1, <3>1, <3>2 DEF Lacks, Deduplicated
    <3>4. QED
      BY <1>1, <3>1, <3>3
  <2>4. Whole(m, p, z)
    BY <2>2, <2>3 DEF Whole
  <2>5. QED
    BY <1>1, <1>3, <2>1, <2>4 DEF Left, z
<1>4. QED
  BY <1>2, <1>3

LEMMA CondenseLeaves ==
  ASSUME NEW m, NEW p, Original(m, p), NEW lost \in BOOLEAN, NEW x, NEW q, Left(m, p, q, lost),
         PartOk(x, q)
  PROVE  Left(m, p, condensed(q), lost)
<1> DEFINE z == condensed(q)
<1>1. /\ z.type = q.type /\ z.size = q.size /\ SegmentsOf(z) \subseteq SegmentsOf(q)
      /\ q.type # "tool_result" \/ q.size = 0 => z = q
  BY CondensedFacts
<1> HIDE DEF z
<1>2. CASE z = q
  BY <1>2 DEF z
<1>3. CASE z # q
  <2>1. q.type = "tool_result" /\ q.size # 0
    BY <1>1, <1>3
  <2>2. IsResult(m, p) /\ m.role # "assistant" /\ q.type = p.type
    BY <2>1 DEF Left, IsResult, Original, PartOk
  <2>3. ~lost
    BY <2>1, <2>2 DEF Left, Gone
  <2>4. Whole(m, p, q)
    BY <2>3 DEF Left
  <2>5. Lacks(z, {"long", "short", "cut"})
    BY <1>1, <2>2, <2>4, LacksSegments DEF Whole
  <2>6. Whole(m, p, z)
    BY <1>1, <2>2, <2>4, <2>5 DEF Whole
  <2>7. QED
    BY <1>1, <2>2, <2>3, <2>6 DEF Left, z
<1>4. QED
  BY <1>2, <1>3

\* The list holds turns of the conversation tk, of L messages, each as far from
\* the end as it is there, and of every part what n strategies leave.
LeftOf(n, L, x, m, t) ==
  \A j \in DOMAIN m.parts : Left(m, m.parts[j], x.parts[j], Lost(n, L, m, t, m.parts[j]))
Turn(n, L, tk, ms, i) ==
  LET t == ms[i].turn IN
  /\ t \in 1..L /\ Len(ms) - i = L - t /\ SamePlan(ms[i], tk[t]) /\ LeftOf(n, L, ms[i], tk[t], t)
Reflects(n, L, tk, ms) == \A i \in DOMAIN ms : ms[i].turn # 0 => Turn(n, L, tk, ms, i)

\* The conversation, when each message has its turn.
Conversation(tk) ==
  tk \in Seq(SaidMessage) /\ (\A t \in DOMAIN tk : tk[t].turn = t) /\ Answered(tk)

LEMMA ConversationFacts ==
  ASSUME NEW tk, Conversation(tk), NEW t \in DOMAIN tk
  PROVE  /\ tk[t] \in SoundMessage
         /\ \A j \in DOMAIN tk[t].parts : Original(tk[t], tk[t].parts[j])
<1>1. tk[t] \in SaidMessage /\ tk[t] \in SoundMessage
  BY SaidIsSound DEF Conversation
<1>2. QED
  BY <1>1, PlanKept DEF SaidMessage, Original

\* A message is old in the list when it is in the conversation.
LEMMA OldInList ==
  ASSUME NEW n, NEW L \in Nat, NEW tk, NEW ms \in Seq(SoundMessage), NEW i \in DOMAIN ms,
         Turn(n, L, tk, ms, i), NEW turns \in Nat
  PROVE  i \in Older(ms, turns) <=> Old(L, ms[i].turn, turns)
<1>1. i \in Nat /\ Len(ms) \in Nat /\ ms[i].turn \in 1..L /\ Len(ms) - i = L - ms[i].turn
  BY DEF Turn
<1> DEFINE t == ms[i].turn
           k == Len(ms)
           d == 2 * turns
<1>2. i \in Nat /\ k \in Nat /\ t \in Nat /\ d \in Nat /\ k - i = L - t
  BY <1>1
<1> HIDE DEF t, k, d
<1>3. i + d <= k <=> t + d <= L
  BY <1>2
<1>4. QED
  BY <1>3 DEF Older, Old, t, k, d

\* A strategy that takes the parts of each turn from one stage to the next.
LEMMA NextStage ==
  ASSUME NEW n, NEW n2, NEW L \in Nat, NEW tk, NEW ms, NEW out, OneByOne(out, ms), Reflects(n, L, tk, ms),
         \A i \in DOMAIN ms : ms[i].turn # 0 => LeftOf(n2, L, out[i], tk[ms[i].turn], ms[i].turn)
  PROVE  Reflects(n2, L, tk, out)
<1> SUFFICES ASSUME NEW i \in DOMAIN out, out[i].turn # 0 PROVE Turn(n2, L, tk, out, i)
  BY DEF Reflects
<1>1. DOMAIN out = DOMAIN ms /\ Len(out) = Len(ms) /\ SamePlan(out[i], ms[i]) /\ out[i].turn = ms[i].turn
  BY DEF OneByOne, SamePlan
<1>2. Turn(n, L, tk, ms, i)
  BY <1>1 DEF Reflects
<1>3. SamePlan(out[i], tk[out[i].turn])
  BY <1>1, <1>2, PlanTwice DEF Turn
<1>4. QED
  BY <1>1, <1>2, <1>3 DEF Turn

LEMMA ReflectsTalk ==
  ASSUME NEW tk, Conversation(tk)
  PROVE  /\ Reflects(0, Len(tk), tk, tk)
         /\ ~(Len(tk) > WindowAt) => Reflects(1, Len(tk), tk, tk)
<1> DEFINE L == Len(tk)
<1>1. L \in Nat /\ DOMAIN tk = 1..L
  BY DEF Conversation
<1>2. \A n \in {0, 1} : n = 0 \/ ~(L > WindowAt) => Reflects(n, L, tk, tk)
  <2> SUFFICES ASSUME NEW n \in {0, 1}, n = 0 \/ ~(L > WindowAt), NEW t \in DOMAIN tk
               PROVE  Turn(n, L, tk, tk, t)
    BY DEF Reflects
  <2>1. tk[t].turn = t /\ tk[t] \in SoundMessage /\ \A j \in DOMAIN tk[t].parts : Original(tk[t], tk[t].parts[j])
    BY ConversationFacts DEF Conversation
  <2>2. \A j \in DOMAIN tk[t].parts : ~Lost(n, L, tk[t], t, tk[t].parts[j])
    BY DEF Lost
  <2>3. \A j \in DOMAIN tk[t].parts : Whole(tk[t], tk[t].parts[j], tk[t].parts[j])
    BY <2>1, LacksAnd DEF Original, SaidPart, Whole
  <2>4. LeftOf(n, L, tk[t], tk[t], t)
    BY <2>2, <2>3 DEF LeftOf, Left
  <2>5. SamePlan(tk[t], tk[t])
    BY <2>1, PlanKept
  <2>6. QED
    BY <1>1, <2>1, <2>4, <2>5 DEF Turn
<1>3. QED
  BY <1>2

LEMMA ReflectsWindow ==
  ASSUME NEW tk, Conversation(tk), Len(tk) > WindowAt, NEW quoted \in Quotings
  PROVE  Reflects(1, Len(tk), tk, apply_sliding_window(tk, quoted))
<1> DEFINE L == Len(tk)
           w == apply_sliding_window(tk, quoted)
           P == Purged(tk)
<1>1. /\ L \in Nat /\ DOMAIN tk = 1..L /\ tk \in Seq(SoundMessage) /\ WindowAt \in Nat
      /\ WindowToolTurns \in Nat /\ WindowThoughtTurns \in Nat
  BY SaidIsSound, AgentAssumption DEF Conversation
<1>2. w \in Seq(SoundMessage) /\ \A i \in DOMAIN w : FromSummary(w[i]) \/ FromWindow(w, tk, i)
  BY <1>1, WindowParts
<1>3. \A t \in DOMAIN tk : SamePlan(P[t], tk[t]) /\ LeftOf(1, L, P[t], tk[t], t)
  <2> TAKE t \in DOMAIN tk
  <2> DEFINE m == tk[t]
             a == t \in Older(tk, WindowToolTurns)
             b == t \in Older(tk, WindowThoughtTurns)
  <2>1. SamePlan(P[t], m) /\ \A j \in DOMAIN m.parts : P[t].parts[j] = PurgedPart(m, m.parts[j], a, b)
    BY <1>1, PurgedParts DEF OneByOne
  <2>2. \A j \in DOMAIN m.parts : Original(m, m.parts[j])
    BY ConversationFacts
  <2>3. (a <=> Old(L, t, WindowToolTurns)) /\ (b <=> Old(L, t, WindowThoughtTurns))
    BY DEF Older, Old
  <2>4. a \in BOOLEAN /\ b \in BOOLEAN
    OBVIOUS
  <2> HIDE DEF m, a, b, P, L
  <2>5. \A j \in DOMAIN m.parts :
          Lost(1, L, m, t, m.parts[j]) <=> ((a /\ IsResult(m, m.parts[j])) \/ (b /\ m.role = "assistant" /\ m.content = "string"))
    BY <2>3 DEF Lost, L
  <2>6. \A j \in DOMAIN m.parts : Left(m, m.parts[j], P[t].parts[j],
          (a /\ IsResult(m, m.parts[j])) \/ (b /\ m.role = "assistant" /\ m.content = "string"))
    BY <2>1, <2>2, <2>4, PurgeLeaves
  <2>7. LeftOf(1, L, P[t], m, t)
    BY <2>5, <2>6 DEF LeftOf, Left
  <2>8. QED
    BY <2>1, <2>7 DEF m
<1> HIDE DEF P, w, L
<1>4. \A i \in DOMAIN w : w[i].turn # 0 => Turn(1, L, tk, w, i)
  <2> SUFFICES ASSUME NEW i \in DOMAIN w, w[i].turn # 0 PROVE Turn(1, L, tk, w, i)
    OBVIOUS
  <2>1. PICK t \in DOMAIN tk : w[i] = P[t] /\ Len(w) - i = L - t
    BY <1>2 DEF FromSummary, FromWindow, P, L
  <2>2. w[i].turn = t
    BY <1>3, <2>1 DEF SamePlan, Conversation
  <2>3. QED
    BY <1>1, <1>3, <2>1, <2>2 DEF Turn
<1>5. QED
  BY <1>4 DEF Reflects, w, L

\* What the context optimizer keeps is too young for the window to cut; the call
\* that it recovers is at the edge, and there is nothing in it to cut.
LEMMA KeptIsYoung ==
  ASSUME NEW tk, Conversation(tk), Len(tk) >= 2, NEW t \in FirstKept(tk)..Len(tk), t \in DOMAIN tk,
         NEW j \in DOMAIN tk[t].parts
  PROVE  ~Lost(1, Len(tk), tk[t], t, tk[t].parts[j])
<1> DEFINE L == Len(tk)
           d == 2 * RecentTurns
           split == Split(tk)
           m == tk[t]
           p == m.parts[j]
<1>1. /\ L \in Nat /\ L >= 2 /\ d \in Nat /\ t \in Nat /\ DOMAIN tk = 1..L
      /\ WindowToolTurns \in Nat /\ WindowThoughtTurns \in Nat
      /\ d <= 2 * WindowToolTurns /\ d <= 2 * WindowThoughtTurns
  <2>1. /\ WindowToolTurns \in Nat /\ WindowThoughtTurns \in Nat /\ RecentTurns \in Nat
        /\ RecentTurns <= WindowToolTurns /\ RecentTurns <= WindowThoughtTurns
    BY AgentAssumption
  <2>2. tk \in Seq(SaidMessage)
    BY DEF Conversation
  <2>3. QED
    BY <2>1, <2>2
<1>2. split = IF L - 2 < d THEN 2 ELSE L - d
  BY DEF Split
<1>3. FirstKept(tk) = IF split < L /\ Answering(tk[split + 1]) THEN split ELSE split + 1
  BY DEF FirstKept
<1>4. t >= FirstKept(tk) /\ t <= L
  BY <1>1, <1>2, <1>3
<1> HIDE DEF split, d, L
<1>5. CASE t > L - d
  <2>1. ~Old(L, t, WindowToolTurns) /\ ~Old(L, t, WindowThoughtTurns)
    BY <1>1, <1>5 DEF Old
  <2>2. QED
    BY <2>1 DEF Lost, L
<1>6. CASE ~(t > L - d)
  <2>1. t = split /\ split < L /\ Answering(tk[split + 1])
    BY <1>1, <1>2, <1>3, <1>4, <1>6
  <2>2. split + 1 \in DOMAIN tk /\ (split + 1) - 1 = split
    BY <1>1, <2>1
  <2>3. m.parts = CallParts
    BY <2>1, <2>2 DEF Conversation, Answered
  <2>4. \A i \in DOMAIN CallParts : CallParts[i].type \in {"text", "tool_use"}
    BY DEF CallParts, Part
  <2>5. 2 \in DOMAIN m.parts /\ m.parts[2].type = "tool_use"
    BY <2>3 DEF CallParts, Part
  <2>6. m \in SaidMessage
    BY DEF Conversation
  <2> HIDE DEF m
  <2>7. m.content # "string"
    BY <2>5, <2>6 DEF SaidMessage, SaidPart
  <2>8. p.type # "tool_result"
    BY <2>3, <2>4 DEF m
  <2>9. ~IsResult(m, p)
    BY <2>7, <2>8 DEF IsResult
  <2>10. QED
    BY <2>7, <2>9 DEF Lost, m, p
<1>7. QED
  BY <1>5, <1>6

LEMMA ReflectsCut ==
  ASSUME NEW tk, Conversation(tk), Len(tk) >= 2, NEW told, NEW quoted \in Quotings
  PROVE  Reflects(1, Len(tk), tk, context_optimize(tk, told, quoted))
<1> DEFINE L == Len(tk)
           w == context_optimize(tk, told, quoted)
           first == FirstKept(tk)
<1>1. L \in Nat /\ DOMAIN tk = 1..L /\ tk \in Seq(SoundMessage)
  BY SaidIsSound DEF Conversation
<1>2. /\ first \in Nat \ {0} /\ w \in Seq(SoundMessage)
      /\ \A i \in DOMAIN w : FromSummary(w[i]) \/ FromList(w, tk, first, i)
  BY <1>1, ContextParts
<1> HIDE DEF w
<1>3. \A i \in DOMAIN w : w[i].turn # 0 => Turn(1, L, tk, w, i)
  <2> SUFFICES ASSUME NEW i \in DOMAIN w, w[i].turn # 0 PROVE Turn(1, L, tk, w, i)
    OBVIOUS
  <2>1. PICK t \in first..L : w[i] = tk[t] /\ Len(w) - i = L - t
    BY <1>2 DEF FromSummary, FromList
  <2>2. t \in DOMAIN tk /\ t \in 1..L
    BY <1>1, <1>2, <2>1
  <2>3. tk[t].turn = t /\ tk[t] \in SoundMessage /\ \A j \in DOMAIN tk[t].parts : Original(tk[t], tk[t].parts[j])
    BY <2>2, ConversationFacts DEF Conversation
  <2>4. \A j \in DOMAIN tk[t].parts : ~Lost(1, L, tk[t], t, tk[t].parts[j])
    BY <2>2, KeptIsYoung
  <2>5. \A j \in DOMAIN tk[t].parts : Whole(tk[t], tk[t].parts[j], tk[t].parts[j])
    BY <2>3, LacksAnd DEF Original, SaidPart, Whole
  <2>6. LeftOf(1, L, tk[t], tk[t], t)
    BY <2>4, <2>5 DEF LeftOf, Left
  <2>7. SamePlan(tk[t], tk[t])
    BY <2>3, PlanKept
  <2>8. QED
    BY <2>1, <2>2, <2>3, <2>6, <2>7 DEF Turn
<1>4. QED
  BY <1>3 DEF Reflects, w

\* What a stage needs of a turn in the list.
AtTurn(n, L, x, m, t) ==
  /\ t \in 1..L /\ L \in Nat
  /\ x.role = m.role /\ x.content = m.content /\ DOMAIN x.parts = DOMAIN m.parts
  /\ \A j \in DOMAIN m.parts :
       /\ Original(m, m.parts[j]) /\ PartOk(x, x.parts[j])
       /\ Left(m, m.parts[j], x.parts[j], Lost(n, L, m, t, m.parts[j]))
LEMMA TurnFacts ==
  ASSUME NEW n, NEW tk, Conversation(tk), NEW ms \in Seq(SoundMessage),
         Reflects(n, Len(tk), tk, ms), NEW i \in DOMAIN ms, ms[i].turn # 0
  PROVE  Turn(n, Len(tk), tk, ms, i) /\ AtTurn(n, Len(tk), ms[i], tk[ms[i].turn], ms[i].turn)
<1> DEFINE L == Len(tk)
           x == ms[i]
           t == x.turn
           m == tk[t]
<1>1. Turn(n, L, tk, ms, i)
  BY DEF Reflects
<1>2. t \in DOMAIN tk /\ t \in 1..L /\ L \in Nat
  BY <1>1 DEF Turn, Conversation
<1>3. SamePlan(x, m) /\ LeftOf(n, L, x, m, t)
  BY <1>1 DEF Turn
<1>4. x \in SoundMessage
  OBVIOUS
<1>5. \A j \in DOMAIN m.parts : Original(m, m.parts[j])
  BY <1>2, ConversationFacts
<1> HIDE DEF x, t, m, L
<1>6. x.role = m.role /\ x.content = m.content /\ DOMAIN x.parts = DOMAIN m.parts
  BY <1>3 DEF SamePlan
<1>7. \A j \in DOMAIN m.parts : PartOk(x, x.parts[j])
  BY <1>4, <1>6, PlanKept
<1>8. AtTurn(n, L, x, m, t)
  BY <1>2, <1>3, <1>5, <1>6, <1>7 DEF LeftOf, AtTurn
<1>9. QED
  BY <1>1, <1>8 DEF L, x, t, m

LEMMA LostTyped ==
  ASSUME NEW n, NEW L, NEW m, NEW t, NEW p
  PROVE  Lost(n, L, m, t, p) \in BOOLEAN
BY DEF Lost

LEMMA ReflectsPruned ==
  ASSUME NEW tk, Conversation(tk), NEW ms \in Seq(SoundMessage), Reflects(1, Len(tk), tk, ms)
  PROVE  Reflects(2, Len(tk), tk, prune_tool_results(ms))
<1> DEFINE L == Len(tk)
           out == prune_tool_results(ms)
<1>1. OneByOne(out, ms)
  BY PrunedParts
<1>2. L \in Nat /\ ToolTurns \in Nat
  BY AgentAssumption DEF Conversation
<1>3. \A i \in DOMAIN ms : ms[i].turn # 0 => LeftOf(2, L, out[i], tk[ms[i].turn], ms[i].turn)
  <2> SUFFICES ASSUME NEW i \in DOMAIN ms, ms[i].turn # 0
               PROVE  LeftOf(2, L, out[i], tk[ms[i].turn], ms[i].turn)
    OBVIOUS
  <2> DEFINE x == ms[i]
             t == x.turn
             m == tk[t]
             old == i \in Older(ms, ToolTurns)
             size == size_threshold(old)
  <2>1. \A j \in DOMAIN x.parts : out[i].parts[j] = Sized(x, x.parts[j], size)
    BY PrunedParts
  <2>2. Turn(1, L, tk, ms, i) /\ AtTurn(1, L, x, m, t)
    BY TurnFacts
  <2>3. old <=> Old(L, t, ToolTurns)
    BY <1>2, <2>2, OldInList
  <2>4. old \in BOOLEAN /\ size \in Nat
    BY DEF size_threshold
  <2>5. size = size_threshold(Old(L, t, ToolTurns))
    <3>1. Old(L, t, ToolTurns) \in BOOLEAN
      BY DEF Old
    <3>2. QED
      BY <2>3, <2>4, <3>1
  <2> HIDE DEF x, t, m, old, size, out, L
  <2>6. \A j \in DOMAIN m.parts :
          Left(m, m.parts[j], out[i].parts[j],
               Lost(1, L, m, t, m.parts[j]) \/ (IsResult(m, m.parts[j]) /\ m.parts[j].size > size))
    BY <2>1, <2>2, <2>4, LostTyped, PruneLeaves DEF AtTurn
  <2>7. \A j \in DOMAIN m.parts :
          Lost(2, L, m, t, m.parts[j]) <=>
            (Lost(1, L, m, t, m.parts[j]) \/ (IsResult(m, m.parts[j]) /\ m.parts[j].size > size))
    BY <2>5 DEF Lost
  <2>8. LeftOf(2, L, out[i], m, t)
    BY <2>6, <2>7 DEF LeftOf, Left
  <2>9. QED
    BY <2>8 DEF m, t, x
<1> HIDE DEF L, out
<1>4. QED
  BY <1>1, <1>2, <1>3, NextStage DEF L, out

LEMMA ReflectsThinned ==
  ASSUME NEW tk, Conversation(tk), NEW ms \in Seq(SoundMessage), Reflects(2, Len(tk), tk, ms)
  PROVE  Reflects(3, Len(tk), tk, prune_thought_blocks(ms))
<1> DEFINE L == Len(tk)
           out == prune_thought_blocks(ms)
<1>1. OneByOne(out, ms)
  BY ThinnedParts
<1>2. L \in Nat /\ ThoughtTurns \in Nat
  BY AgentAssumption DEF Conversation
<1>3. \A i \in DOMAIN ms : ms[i].turn # 0 => LeftOf(3, L, out[i], tk[ms[i].turn], ms[i].turn)
  <2> SUFFICES ASSUME NEW i \in DOMAIN ms, ms[i].turn # 0
               PROVE  LeftOf(3, L, out[i], tk[ms[i].turn], ms[i].turn)
    OBVIOUS
  <2> DEFINE x == ms[i]
             t == x.turn
             m == tk[t]
             old == i \in Older(ms, ThoughtTurns)
  <2>1. \A j \in DOMAIN x.parts :
          out[i].parts[j] = IF old /\ x.role = "assistant" THEN Thinned(x.parts[j]) ELSE x.parts[j]
    BY ThinnedParts
  <2>2. Turn(2, L, tk, ms, i) /\ AtTurn(2, L, x, m, t)
    BY TurnFacts
  <2>3. old <=> Old(L, t, ThoughtTurns)
    BY <1>2, <2>2, OldInList
  <2>4. old \in BOOLEAN
    OBVIOUS
  <2> HIDE DEF x, t, m, old, out, L
  <2> DEFINE more(p) == m.role = "assistant" /\ p.type = "text" /\ old /\ Shrinks(p.texts[1])
  <2>5. \A j \in DOMAIN m.parts :
          Left(m, m.parts[j], out[i].parts[j], Lost(2, L, m, t, m.parts[j]) \/ more(m.parts[j]))
    BY <2>1, <2>2, <2>4, LostTyped, ThinLeaves DEF AtTurn
  <2>6. \A j \in DOMAIN m.parts :
          Lost(3, L, m, t, m.parts[j]) <=> (Lost(2, L, m, t, m.parts[j]) \/ more(m.parts[j]))
    BY <2>3 DEF Lost
  <2> HIDE DEF more
  <2>7. LeftOf(3, L, out[i], m, t)
    BY <2>5, <2>6 DEF LeftOf, Left
  <2>8. QED
    BY <2>7 DEF m, t, x
<1> HIDE DEF L, out
<1>4. QED
  BY <1>1, <1>2, <1>3, NextStage DEF L, out

LEMMA ReflectsDeduped ==
  ASSUME NEW tk, Conversation(tk), NEW ms \in Seq(SoundMessage), Reflects(3, Len(tk), tk, ms)
  PROVE  Reflects(3, Len(tk), tk, dedup_errors(ms))
<1> DEFINE L == Len(tk)
           out == dedup_errors(ms)
<1>1. OneByOne(out, ms)
  BY DedupedParts
<1>2. L \in Nat
  BY DEF Conversation
<1>3. \A i \in DOMAIN ms : ms[i].turn # 0 => LeftOf(3, L, out[i], tk[ms[i].turn], ms[i].turn)
  <2> SUFFICES ASSUME NEW i \in DOMAIN ms, ms[i].turn # 0
               PROVE  LeftOf(3, L, out[i], tk[ms[i].turn], ms[i].turn)
    OBVIOUS
  <2> DEFINE x == ms[i]
             t == x.turn
             m == tk[t]
             n == Repeats(x, Seen(ms, i))
  <2>1. \A j \in DOMAIN x.parts : out[i].parts[j] = Deduped(x.parts[j], n)
    BY DedupedParts
  <2>2. AtTurn(3, L, x, m, t)
    BY TurnFacts
  <2>3. n \in Int
    BY RepeatsTyped
  <2> HIDE DEF x, t, m, n, out, L
  <2>4. \A j \in DOMAIN m.parts : Left(m, m.parts[j], out[i].parts[j], Lost(3, L, m, t, m.parts[j]))
    BY <2>1, <2>2, <2>3, LostTyped, DedupLeaves DEF AtTurn
  <2>5. LeftOf(3, L, out[i], m, t)
    BY <2>4 DEF LeftOf
  <2>6. QED
    BY <2>5 DEF m, t, x
<1> HIDE DEF L, out
<1>4. QED
  BY <1>1, <1>2, <1>3, NextStage DEF L, out

LEMMA ReflectsCondensed ==
  ASSUME NEW tk, Conversation(tk), NEW ms \in Seq(SoundMessage), Reflects(3, Len(tk), tk, ms)
  PROVE  Reflects(3, Len(tk), tk, condense_file_views(ms))
<1> DEFINE L == Len(tk)
           out == condense_file_views(ms)
<1>1. OneByOne(out, ms)
  BY CondensedParts
<1>2. L \in Nat
  BY DEF Conversation
<1>3. \A i \in DOMAIN ms : ms[i].turn # 0 => LeftOf(3, L, out[i], tk[ms[i].turn], ms[i].turn)
  <2> SUFFICES ASSUME NEW i \in DOMAIN ms, ms[i].turn # 0
               PROVE  LeftOf(3, L, out[i], tk[ms[i].turn], ms[i].turn)
    OBVIOUS
  <2> DEFINE x == ms[i]
             t == x.turn
             m == tk[t]
  <2>1. \A j \in DOMAIN x.parts : out[i].parts[j] = IF x.content = "blocks" THEN condensed(x.parts[j]) ELSE x.parts[j]
    BY CondensedParts
  <2>2. AtTurn(3, L, x, m, t)
    BY TurnFacts
  <2> HIDE DEF x, t, m, out, L
  <2>3. \A j \in DOMAIN m.parts : Left(m, m.parts[j], condensed(x.parts[j]), Lost(3, L, m, t, m.parts[j]))
    BY <2>2, LostTyped, CondenseLeaves DEF AtTurn
  <2>4. LeftOf(3, L, out[i], m, t)
    BY <2>1, <2>2, <2>3 DEF LeftOf, AtTurn
  <2>5. QED
    BY <2>4 DEF m, t, x
<1> HIDE DEF L, out
<1>4. QED
  BY <1>1, <1>2, <1>3, NextStage DEF L, out

LEMMA ReflectsStrategies ==
  ASSUME NEW tk, Conversation(tk), NEW w \in Seq(SoundMessage), Reflects(1, Len(tk), tk, w)
  PROVE  strategies(w) \in Seq(SoundMessage) /\ Reflects(3, Len(tk), tk, strategies(w))
<1> DEFINE L == Len(tk)
           b == prune_tool_results(w)
           c == prune_thought_blocks(b)
           d == dedup_errors(c)
           e == condense_file_views(d)
<1>1. b \in Seq(SoundMessage) /\ Reflects(2, L, tk, b)
  BY PrunedParts, ReflectsPruned DEF OneByOne
<1> HIDE DEF b
<1>2. c \in Seq(SoundMessage) /\ Reflects(3, L, tk, c)
  BY <1>1, ThinnedParts, ReflectsThinned DEF OneByOne
<1> HIDE DEF c
<1>3. d \in Seq(SoundMessage) /\ Reflects(3, L, tk, d)
  BY <1>2, DedupedParts, ReflectsDeduped DEF OneByOne
<1> HIDE DEF d
<1>4. e \in Seq(SoundMessage) /\ Reflects(3, L, tk, e)
  BY <1>3, CondensedParts, ReflectsCondensed DEF OneByOne
<1>5. strategies(w) = e
  BY StrategiesOrder DEF BeforeDedup, e, d, c, b
<1> HIDE DEF e
<1>6. QED
  BY <1>4, <1>5

\* The number of the thoughts of a part, and when it is not zero.
LEMMA ThoughtsFacts ==
  ASSUME NEW m \in SoundMessage, NEW j \in DOMAIN m.parts
  PROVE  /\ Lacks(m.parts[j], {"long", "short"}) => Thoughts(m, j) = 0
         /\ ~Lacks(m.parts[j], {"long", "short"}) => Thoughts(m, j) # 0
<1> DEFINE S == {place \in Places(m) : place[1] = j /\ IsThought(At(m, place))}
<1>1. IsFiniteSet(S) /\ Thoughts(m, j) = Cardinality(S)
  BY PlacesFinite, FS_Subset DEF Thoughts
<1>2. ASSUME Lacks(m.parts[j], {"long", "short"})
      PROVE  S = {}
  <2> SUFFICES ASSUME NEW a \in S PROVE FALSE
    OBVIOUS
  <2>1. a \in Places(m) /\ a[1] = j /\ At(m, a).is \in {"long", "short"}
    BY DEF IsThought
  <2>2. \E i \in DOMAIN m.parts : \E k \in DOMAIN m.parts[i].texts :
        \E l \in DOMAIN m.parts[i].texts[k] : a = <<i, k, l>> /\ At(m, a) = m.parts[i].texts[k][l]
    BY <2>1, PlaceFacts
  <2>3. \E k \in DOMAIN m.parts[j].texts : \E l \in DOMAIN m.parts[j].texts[k] : At(m, a) = m.parts[j].texts[k][l]
    BY <2>1, <2>2
  <2>4. QED
    BY <1>2, <2>1, <2>3 DEF Lacks
<1>3. ASSUME ~Lacks(m.parts[j], {"long", "short"})
      PROVE  S # {}
  <2>1. PICK k \in DOMAIN m.parts[j].texts : \E l \in DOMAIN m.parts[j].texts[k] :
          m.parts[j].texts[k][l].is \in {"long", "short"}
    BY <1>3 DEF Lacks
  <2>2. PICK l \in DOMAIN m.parts[j].texts[k] : m.parts[j].texts[k][l].is \in {"long", "short"}
    BY <2>1
  <2>3. <<j, k, l>> \in Places(m) /\ At(m, <<j, k, l>>) = m.parts[j].texts[k][l]
    BY PlaceFacts
  <2>4. <<j, k, l>>[1] = j
    OBVIOUS
  <2>5. <<j, k, l>> \in S
    BY <2>2, <2>3, <2>4 DEF IsThought
  <2>6. QED
    BY <2>5
<1> HIDE DEF S
<1>4. Cardinality(S) = 0 <=> S = {}
  BY <1>1, FS_EmptySet
<1>5. QED
  BY <1>1, <1>2, <1>3, <1>4

\* Two messages with the same part have the same thoughts in it.
LEMMA ThoughtsAlike ==
  ASSUME NEW x, NEW m, NEW j \in DOMAIN m.parts, j \in DOMAIN x.parts, x.parts[j] = m.parts[j]
  PROVE  Thoughts(x, j) = Thoughts(m, j)
<1> DEFINE S(y) == {place \in Places(y) : place[1] = j /\ IsThought(At(y, place))}
           T == UNION {{<<j, k, l>> : l \in {z \in DOMAIN m.parts[j].texts[k] : IsThought(m.parts[j].texts[k][z])}}
                       : k \in DOMAIN m.parts[j].texts}
<1>1. ASSUME NEW y, j \in DOMAIN y.parts, y.parts[j] = m.parts[j]
      PROVE  S(y) = T
  <2>1. \A a \in S(y) : a \in T
    <3> SUFFICES ASSUME NEW a \in S(y) PROVE a \in T
      OBVIOUS
    <3>1. a \in Places(y) /\ a[1] = j /\ IsThought(At(y, a))
      OBVIOUS
    <3>2. \E i \in DOMAIN y.parts : \E k \in DOMAIN y.parts[i].texts :
          \E l \in DOMAIN y.parts[i].texts[k] : a = <<i, k, l>> /\ At(y, a) = y.parts[i].texts[k][l]
      BY <3>1, PlaceFacts
    <3>3. \E k \in DOMAIN m.parts[j].texts : \E l \in DOMAIN m.parts[j].texts[k] :
            a = <<j, k, l>> /\ At(y, a) = m.parts[j].texts[k][l]
      BY <1>1, <3>1, <3>2
    <3>4. QED
      BY <3>1, <3>3
  <2>2. \A a \in T : a \in S(y)
    <3> SUFFICES ASSUME NEW k \in DOMAIN m.parts[j].texts, NEW l \in DOMAIN m.parts[j].texts[k],
                        IsThought(m.parts[j].texts[k][l])
                 PROVE  <<j, k, l>> \in S(y)
      OBVIOUS
    <3>1. <<j, k, l>> \in Places(y) /\ At(y, <<j, k, l>>) = m.parts[j].texts[k][l]
      BY <1>1, PlaceFacts
    <3>2. <<j, k, l>>[1] = j
      OBVIOUS
    <3>3. QED
      BY <3>1, <3>2
  <2>3. QED
    BY <2>1, <2>2
<1>2. S(x) = T /\ S(m) = T
  BY <1>1
<1>3. QED
  BY <1>2 DEF Thoughts

\* A part is in full exactly when no strategy has cut it.
LEMMA FullFacts ==
  ASSUME NEW m \in SoundMessage, NEW x \in SoundMessage, DOMAIN x.parts = DOMAIN m.parts,
         NEW j \in DOMAIN m.parts, NEW lost \in BOOLEAN,
         Original(m, m.parts[j]), Left(m, m.parts[j], x.parts[j], lost)
  PROVE  x.parts[j].texts # Pruned /\ Thoughts(x, j) = Thoughts(m, j) <=> ~lost
<1> DEFINE p == m.parts[j]
           q == x.parts[j]
<1>1. SaidPart(m, p)
  BY DEF Original
<1>2. CASE lost
  <2>1. Gone(m, p, q)
    BY <1>2 DEF Left
  <2>2. CASE q.texts = Pruned
    BY <1>2, <2>2
  <2>3. CASE q.texts # Pruned
    <3>1. ~Lacks(p, {"long", "short"}) /\ Lacks(q, {"long", "short"})
      BY <2>1, <2>3 DEF Gone
    <3>2. Thoughts(x, j) = 0 /\ Thoughts(m, j) # 0
      BY <3>1, ThoughtsFacts
    <3>3. QED
      BY <1>2, <3>2
  <2>4. QED
    BY <2>2, <2>3
<1>3. CASE ~lost
  <2>1. Whole(m, p, q)
    BY <1>3 DEF Left
  <2>2. \A y : y.texts = Pruned => ~Lacks(y, {"cut"})
    BY DEF Pruned, Lacks, Plainly
  <2>3. CASE m.role = "assistant"
    <3>1. q = p /\ Lacks(p, {"cut"})
      BY <1>1, <2>1, <2>3 DEF Whole, SaidPart, Lacks
    <3>2. Thoughts(x, j) = Thoughts(m, j)
      BY <3>1, ThoughtsAlike
    <3>3. QED
      BY <1>3, <2>2, <3>1, <3>2
  <2>4. CASE m.role # "assistant"
    <3>1. Lacks(q, {"cut"}) /\ Lacks(q, {"long", "short"}) /\ Lacks(p, {"long", "short"})
      BY <1>1, <2>1, <2>4 DEF Whole, SaidPart, Lacks
    <3>2. Thoughts(x, j) = 0 /\ Thoughts(m, j) = 0
      BY <3>1, ThoughtsFacts
    <3>3. QED
      BY <1>3, <2>2, <3>1, <3>2
  <2>5. QED
    BY <2>3, <2>4
<1>4. QED
  BY <1>2, <1>3

\* The request that left last was made of the conversation as it once was.
MadeOf(n, L) ==
  /\ n \in {0, 3} /\ L \in 0..Len(talk) /\ (n = 3 <=> L > 1)
  /\ request.messages \in Seq(SoundMessage)
  /\ Reflects(n, L, talk, request.messages)
RequestInv == \E n \in {0, 3}, L \in Nat : MadeOf(n, L)

\* What was lost is lost in what is made of a longer conversation.
LEMMA LostLonger ==
  ASSUME NEW L \in Nat, NEW M \in Nat, L <= M, NEW m, NEW t \in Nat, NEW p, PartOk(m, p),
         Lost(3, L, m, t, p)
  PROVE  Lost(3, M, m, t, p)
<1>1. /\ WindowToolTurns \in Nat /\ WindowThoughtTurns \in Nat /\ ToolTurns \in Nat /\ ThoughtTurns \in Nat
      /\ WindowAt \in Nat /\ p.size \in Nat
  BY AgentAssumption DEF PartOk, PartTyped
<1>2. \A turns \in Nat : Old(L, t, turns) => Old(M, t, turns)
  <2> SUFFICES ASSUME NEW turns \in Nat, Old(L, t, turns) PROVE Old(M, t, turns)
    OBVIOUS
  <2> DEFINE d == 2 * turns
  <2>1. d \in Nat /\ t + d <= L
    BY DEF Old
  <2> HIDE DEF d
  <2>2. t + d <= M
    BY <2>1
  <2>3. QED
    BY <2>2 DEF Old, d
<1>3. L > WindowAt => M > WindowAt
  BY <1>1
<1>4. p.size > size_threshold(Old(L, t, ToolTurns)) => p.size > size_threshold(Old(M, t, ToolTurns))
  BY <1>1, <1>2 DEF size_threshold
<1>5. QED
  BY <1>1, <1>2, <1>3, <1>4 DEF Lost

FullAt(n, L, tk, x, t, j) ==
  /\ t \in 1..L /\ t \in DOMAIN tk /\ j \in DOMAIN tk[t].parts /\ PartOk(tk[t], tk[t].parts[j])
  /\ x.parts[j].texts # Pruned /\ Thoughts(x, j) = Thoughts(tk[t], j)
       <=> ~Lost(n, L, tk[t], t, tk[t].parts[j])
LEMMA FullInList ==
  ASSUME NEW n, NEW tk, Conversation(tk), NEW L \in 0..Len(tk), NEW ms \in Seq(SoundMessage),
         Reflects(n, L, tk, ms), NEW i \in DOMAIN ms, ms[i].turn # 0,
         NEW j \in DOMAIN ms[i].parts
  PROVE  FullAt(n, L, tk, ms[i], ms[i].turn, j)
<1> DEFINE x == ms[i]
           t == ms[i].turn
           m == tk[t]
           lost == Lost(n, L, m, t, m.parts[j])
<1>1. Turn(n, L, tk, ms, i)
  BY DEF Reflects
<1>2. t \in 1..L /\ t \in DOMAIN tk
  <2>1. t \in 1..L /\ Len(tk) \in Nat /\ DOMAIN tk = 1..Len(tk)
    BY <1>1 DEF Turn, Conversation
  <2>2. QED
    BY <2>1
<1>3. SamePlan(x, m) /\ LeftOf(n, L, x, m, t)
  BY <1>1 DEF Turn
<1>4. m \in SoundMessage /\ \A k \in DOMAIN m.parts : Original(m, m.parts[k])
  BY <1>2, ConversationFacts
<1>5. x \in SoundMessage
  OBVIOUS
<1> HIDE DEF x, t, m
<1>6. DOMAIN x.parts = DOMAIN m.parts /\ j \in DOMAIN m.parts
  BY <1>3 DEF SamePlan, x
<1>7. Original(m, m.parts[j]) /\ Left(m, m.parts[j], x.parts[j], lost) /\ lost \in BOOLEAN
  BY <1>3, <1>4, <1>6, LostTyped DEF LeftOf
<1> HIDE DEF lost
<1>8. x.parts[j].texts # Pruned /\ Thoughts(x, j) = Thoughts(m, j) <=> ~lost
  BY <1>4, <1>5, <1>6, <1>7, FullFacts
<1>9. PartOk(m, m.parts[j])
  BY <1>7 DEF Original
<1>10. QED
  BY <1>2, <1>6, <1>8, <1>9 DEF x, t, m, lost, FullAt

\* A longer conversation still has what the list was made of.
LEMMA ReflectsLonger ==
  ASSUME NEW n, NEW L \in Nat, NEW tk, NEW tk2, NEW ms, Reflects(n, L, tk, ms),
         \A t \in 1..L : tk2[t] = tk[t]
  PROVE  Reflects(n, L, tk2, ms)
<1> SUFFICES ASSUME NEW i \in DOMAIN ms, ms[i].turn # 0 PROVE Turn(n, L, tk2, ms, i)
  BY DEF Reflects
<1>1. Turn(n, L, tk, ms, i)
  BY DEF Reflects
<1>2. ms[i].turn \in 1..L /\ tk2[ms[i].turn] = tk[ms[i].turn]
  BY <1>1 DEF Turn
<1>3. QED
  BY <1>1, <1>2 DEF Turn

LEMMA TalkConversation ==
  ASSUME TalkType
  PROVE  Conversation(talk) /\ Len(talk) \in Nat /\ DOMAIN talk = 1..Len(talk)
BY DEF TalkType, Conversation

LEMMA RequestSpeak ==
  ASSUME TalkType, RequestInv, NEW m \in SaidMessage, Speak(m), request' = request
  PROVE  RequestInv'
<1>1. PICK n \in {0, 3}, L \in Nat : MadeOf(n, L)
  BY DEF RequestInv
<1>2. Len(talk') = Len(talk) + 1 /\ \A t \in 1..Len(talk) : talk'[t] = talk[t]
  BY SpeakFacts
<1>3. L \in 0..Len(talk) /\ Len(talk) \in Nat
  BY <1>1, TalkConversation DEF MadeOf
<1>4. L \in 0..Len(talk') /\ \A t \in 1..L : talk'[t] = talk[t]
  BY <1>2, <1>3
<1>5. Reflects(n, L, talk, request.messages)
  BY <1>1 DEF MadeOf
<1>6. Reflects(n, L, talk', request.messages)
  BY <1>4, <1>5, ReflectsLonger
<1>7. Reflects(n, L, talk', request'.messages) /\ request'.messages \in Seq(SoundMessage)
  BY <1>1, <1>6 DEF MadeOf
<1>8. MadeOf(n, L)'
  BY <1>1, <1>4, <1>7 DEF MadeOf
<1>9. QED
  BY <1>8 DEF RequestInv

\* What the request is made of when it leaves.
LEMMA RequestOptimize ==
  ASSUME TalkType, Optimize
  PROVE  LET n == IF Len(talk) > 1 THEN 3 ELSE 0 IN
         /\ talk' = talk /\ request'.messages \in Seq(SoundMessage)
         /\ Reflects(n, Len(talk), talk, request'.messages)
<1>1. Conversation(talk) /\ Len(talk) \in Nat /\ talk \in Seq(SoundMessage)
  BY TalkConversation, SaidIsSound DEF Conversation
<1>2. talk' = talk
  BY DEF Optimize
<1>3. CASE Len(talk) < 2
  <2>1. request'.messages = talk /\ ~(Len(talk) > 1)
    BY <1>1, <1>3, RequestOf
  <2>2. QED
    BY <1>1, <1>2, <2>1, ReflectsTalk
<1>4. CASE ~(Len(talk) < 2)
  <2>1. PICK told : \E quoted \in Quotings :
          request'.messages = strategies(IF IsCut THEN context_optimize(talk, told, quoted)
                                         ELSE windowed(talk, quoted))
    BY <1>4, RequestOf
  <2>2. PICK quoted \in Quotings :
          request'.messages = strategies(IF IsCut THEN context_optimize(talk, told, quoted)
                                         ELSE windowed(talk, quoted))
    BY <2>1
  <2> DEFINE left == IF IsCut THEN context_optimize(talk, told, quoted) ELSE windowed(talk, quoted)
  <2>3. Len(talk) > 1 /\ Len(talk) >= 2
    BY <1>1, <1>4
  <2>4. left \in Seq(SoundMessage) /\ Reflects(1, Len(talk), talk, left)
    <3>1. CASE IsCut
      BY <1>1, <2>3, <3>1, ContextParts, ReflectsCut
    <3>2. CASE ~IsCut /\ Len(talk) > WindowAt
      BY <1>1, <3>2, WindowParts, ReflectsWindow DEF windowed
    <3>3. CASE ~IsCut /\ ~(Len(talk) > WindowAt)
      BY <1>1, <3>3, ReflectsTalk DEF windowed
    <3>4. QED
      BY <3>1, <3>2, <3>3
  <2>5. request'.messages = strategies(left)
    BY <2>2
  <2> HIDE DEF left
  <2>6. QED
    BY <1>1, <1>2, <2>3, <2>4, <2>5, ReflectsStrategies
<1>5. QED
  BY <1>3, <1>4

LEMMA RequestStep ==
  ASSUME TalkType, RequestInv, [AgentNext]_agentVars
  PROVE  RequestInv'
<1>1. CASE Ask
  BY <1>1, QuestionsSaid, RequestSpeak DEF Ask
<1>2. CASE Reply
  BY <1>2, AnswersSaid, RequestSpeak DEF Reply
<1>3. CASE Optimize
  <2> DEFINE n == IF Len(talk) > 1 THEN 3 ELSE 0
             L == Len(talk)
  <2>1. talk' = talk /\ request'.messages \in Seq(SoundMessage) /\ Reflects(n, L, talk, request'.messages)
    BY <1>3, RequestOptimize
  <2>2. L \in Nat /\ n \in {0, 3} /\ (n = 3 <=> L > 1)
    BY TalkConversation
  <2> HIDE DEF n
  <2>3. Reflects(n, L, talk', request'.messages) /\ L \in 0..Len(talk')
    BY <2>1, <2>2
  <2> HIDE DEF L
  <2>4. \E k \in {0, 3}, M \in Nat :
          /\ k \in {0, 3} /\ M \in 0..Len(talk') /\ (k = 3 <=> M > 1)
          /\ request'.messages \in Seq(SoundMessage)
          /\ Reflects(k, M, talk', request'.messages)
    BY <2>1, <2>2, <2>3
  <2>5. QED
    BY <2>4 DEF RequestInv, MadeOf
<1>4. CASE UNCHANGED agentVars
  BY <1>4 DEF agentVars, RequestInv, MadeOf
<1>5. QED
  BY <1>1, <1>2, <1>3, <1>4 DEF AgentNext

LEMMA RequestInit == AgentInit => RequestInv
<1> SUFFICES ASSUME AgentInit PROVE RequestInv
  OBVIOUS
<1>1. talk = <<>> /\ request.messages = <<>>
  BY DEF AgentInit
<1>2. MadeOf(0, 0)
  BY <1>1 DEF MadeOf, Reflects
<1>3. QED
  BY <1>2 DEF RequestInv

\* A part that a list has in full, against the conversation tk.
Kept(ms, tk, t, j) ==
  \E m \in Range(ms) :
    m.turn = t /\ m.parts[j].texts # Pruned /\ Thoughts(m, j) = Thoughts(tk[t], j)

LEMMA KeptInList ==
  ASSUME NEW n, NEW tk, Conversation(tk), NEW L \in 0..Len(tk), NEW ms \in Seq(SoundMessage),
         Reflects(n, L, tk, ms), NEW t, t # 0, NEW j \in DOMAIN tk[t].parts, Kept(ms, tk, t, j)
  PROVE  ~Lost(n, L, tk[t], t, tk[t].parts[j])
<1>1. PICK i \in DOMAIN ms :
        /\ ms[i].turn = t /\ ms[i].parts[j].texts # Pruned
        /\ Thoughts(ms[i], j) = Thoughts(tk[t], j)
  BY DEF Kept, Range
<1>2. Turn(n, L, tk, ms, i)
  BY <1>1 DEF Reflects
<1>3. j \in DOMAIN ms[i].parts
  BY <1>1, <1>2 DEF Turn, SamePlan
<1>4. FullAt(n, L, tk, ms[i], t, j)
  BY <1>1, <1>3, FullInList
<1>5. QED
  BY <1>1, <1>4 DEF FullAt

\* What is cut stays cut: what an earlier strategy lost, a later request loses.
CutMoves == PartsIn(request.messages) \cap InFull(request.messages)' \subseteq InFull(request.messages)

LEMMA CutPart ==
  ASSUME TalkType, Optimize, NEW n \in {0, 3}, NEW L \in Nat, MadeOf(n, L),
         NEW i \in DOMAIN request.messages, NEW t, t = request.messages[i].turn, t # 0,
         NEW j \in DOMAIN request.messages[i].parts, Kept(request'.messages, talk', t, j)
  PROVE  Kept(request.messages, talk, t, j)
<1> DEFINE ms == request.messages
           M == Len(talk)
           k == IF M > 1 THEN 3 ELSE 0
           p == talk[t].parts[j]
<1>1. Conversation(talk) /\ M \in Nat
  BY TalkConversation
<1>2. L \in 0..M /\ (n = 3 <=> L > 1) /\ ms \in Seq(SoundMessage) /\ Reflects(n, L, talk, ms)
  BY DEF MadeOf
<1>3. FullAt(n, L, talk, ms[i], t, j)
  BY <1>1, <1>2, FullInList
<1>4. /\ talk' = talk /\ request'.messages \in Seq(SoundMessage)
      /\ Reflects(k, M, talk, request'.messages)
  BY RequestOptimize
<1>5. Kept(request'.messages, talk, t, j) /\ M \in 0..M
  BY <1>1, <1>4
<1> HIDE DEF k, ms, M
<1>6. ~Lost(k, M, talk[t], t, talk[t].parts[j])
  BY <1>1, <1>3, <1>4, <1>5, KeptInList DEF M, FullAt
<1> HIDE DEF p
<1>7. ~Lost(n, L, talk[t], t, p)
  <2>1. CASE n = 0
    BY <2>1 DEF Lost
  <2>2. CASE n = 3
    <3>1. L <= M /\ M > 1 /\ k = 3 /\ t \in Nat
      BY <1>1, <1>2, <1>3, <2>2 DEF k, FullAt
    <3>2. ~Lost(3, M, talk[t], t, p)
      BY <1>6, <3>1 DEF p
    <3>3. PartOk(talk[t], p) /\ L \in Nat /\ M \in Nat /\ L <= M /\ t \in Nat
      BY <1>1, <1>3, <3>1 DEF p, FullAt
    <3>4. QED
      BY <2>2, <3>2, <3>3, LostLonger
  <2>3. QED
    BY <2>1, <2>2
<1>8. ms[i] \in Range(ms) /\ ms[i].turn = t
  BY DEF Range, ms
<1>9. ms[i].parts[j].texts # Pruned /\ Thoughts(ms[i], j) = Thoughts(talk[t], j)
  BY <1>3, <1>7 DEF p, FullAt
<1>10. QED
  BY <1>8, <1>9 DEF Kept, ms

LEMMA CutMove ==
  ASSUME TalkType, RequestInv, [AgentNext]_agentVars
  PROVE  CutMoves
<1> SUFFICES ASSUME NEW part, part \in PartsIn(request.messages), part \in InFull(request.messages)'
             PROVE  part \in InFull(request.messages)
  BY DEF CutMoves
<1>1. PICK n \in {0, 3}, L \in Nat : MadeOf(n, L)
  BY DEF RequestInv
<1>2. PICK i \in DOMAIN request.messages :
        /\ request.messages[i].turn > 0
        /\ \E k \in DOMAIN request.messages[i].parts : part = <<request.messages[i].turn, k>>
  BY DEF PartsIn, Range
<1>3. PICK j \in DOMAIN request.messages[i].parts : part = <<request.messages[i].turn, j>>
  BY <1>2
<1> DEFINE t == request.messages[i].turn
<1>4. Kept(request'.messages, talk', t, j)
  BY <1>2, <1>3 DEF InFull, Kept
<1>5. t # 0
  BY <1>2
<1>6. SUFFICES Kept(request.messages, talk, t, j)
  BY <1>2, <1>3 DEF InFull, Kept
<1>7. t \in DOMAIN talk
  <2>1. Turn(n, L, talk, request.messages, i) /\ L \in 0..Len(talk)
    BY <1>1, <1>5 DEF MadeOf, Reflects
  <2>2. t \in 1..L /\ DOMAIN talk = 1..Len(talk) /\ Len(talk) \in Nat
    BY <2>1, TalkConversation DEF Turn
  <2>3. QED
    BY <2>1, <2>2
<1>8. ASSUME NEW m \in SaidMessage, Speak(m), request' = request
      PROVE  Kept(request.messages, talk, t, j)
  <2>1. talk'[t] = talk[t]
    <3>1. \A u \in 1..Len(talk) : talk'[u] = talk[u]
      BY <1>8, SpeakFacts
    <3>2. QED
      BY <1>7, <3>1, TalkConversation
  <2> HIDE DEF t
  <2>2. QED
    BY <1>4, <1>8, <2>1 DEF Kept
<1>9. CASE Ask
  BY <1>8, <1>9, QuestionsSaid DEF Ask
<1>10. CASE Reply
  BY <1>8, <1>10, AnswersSaid DEF Reply
<1>11. CASE Optimize
  BY <1>1, <1>4, <1>5, <1>11, CutPart
<1>12. CASE UNCHANGED agentVars
  BY <1>4, <1>12 DEF agentVars
<1>13. QED
  BY <1>9, <1>10, <1>11, <1>12 DEF AgentNext

\* What the window, prune_tool_results or prune_thought_blocks
\* (src/openclaw.rs) has cut out of a message of one request is cut out of it
\* in every later one that has the message, with the context optimizer
\* (src/context.rs) in front of them or without.
THEOREM CutHolds == AgentSpec => CutStaysCut
<1>1. AgentInit => TalkType /\ RequestInv
  BY TalkInit, RequestInit
<1>2. TalkType /\ RequestInv /\ [AgentNext]_agentVars => (TalkType /\ RequestInv)'
  BY TalkStep, RequestStep
<1>3. TalkType /\ RequestInv /\ [AgentNext]_agentVars => [CutMoves]_agentVars
  BY CutMove
<1>4. QED
  BY <1>1, <1>2, <1>3, PTL DEF AgentSpec, CutStaysCut, CutMoves
===============================================================================
