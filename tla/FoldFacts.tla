------------------------------ MODULE FoldFacts ------------------------------
(***************************************************************************)
(* Induction and recursion over finite sets and natural numbers, for the   *)
(* modules whose definitions fold over a set or a sequence. The induction  *)
(* theorems of the library take the property as an operator, which the     *)
(* provers cannot instantiate; here it is the set of what has the          *)
(* property, and the proofs go by a minimal counterexample (WFMin).        *)
(* Then what the filter Only and FlattenSeq do to a list, step by step.    *)
(***************************************************************************)
EXTENDS Integers, Lists, SequencesExt, SequenceTheorems, FiniteSetTheorems, TLAPS

\* A nonempty set of finite sets has a member with no proper subset among them.
LEMMA SetMinimum ==
  ASSUME NEW S, NEW T \in SUBSET FiniteSubsetsOf(S), T # {}
  PROVE  \E x \in T : \A y \in T : ~ (y \subseteq x /\ y # x)
<1>1. IsWellFoundedOn(StrictSubsetOrdering(S), FiniteSubsetsOf(S))
  BY FS_StrictSubsetOrderingWellFounded
<1>2. \E x \in T : \A y \in T : ~ (<<y, x>> \in StrictSubsetOrdering(S))
  BY <1>1, WFMin
<1>3. QED
  BY <1>2 DEF StrictSubsetOrdering, FiniteSubsetsOf

\* What holds of a set as soon as it holds of its proper subsets holds of all
\* subsets of a finite set.  The property is given as the set P of those that
\* have it.
LEMMA SetInduction ==
  ASSUME NEW S, IsFiniteSet(S), NEW P,
         \A T \in SUBSET S : (\A U \in SUBSET T : U # T => U \in P) => T \in P
  PROVE  \A T \in SUBSET S : T \in P
<1> DEFINE Bad == {T \in SUBSET S : T \notin P}
<1> SUFFICES ASSUME Bad # {} PROVE FALSE
  OBVIOUS
<1>1. Bad \in SUBSET FiniteSubsetsOf(S)
  BY FS_FiniteSubsetsOfFinite
<1>2. \E T \in Bad : \A U \in Bad : ~ (U \subseteq T /\ U # T)
  <2> HIDE DEF Bad
  <2> QED BY <1>1, SetMinimum
<1>3. QED
  BY <1>2

\* Induction over the natural numbers, for a property given as a set.
LEMMA NatInductionSet ==
  ASSUME NEW P, 0 \in P, \A n \in Nat : n \in P => n + 1 \in P
  PROVE  \A n \in Nat : n \in P
<1> SUFFICES ASSUME NEW n \in Nat, n \notin P PROVE FALSE
  OBVIOUS
<1> DEFINE Bad == {0..m : m \in {k \in 0..n : k \notin P}}
<1>1. IsFiniteSet(0..n)
  BY FS_Interval
<1>2. Bad \in SUBSET FiniteSubsetsOf(0..n) /\ Bad # {}
  <2>1. ASSUME NEW m \in 0..n PROVE 0..m \in SUBSET (0..n)
    OBVIOUS
  <2>2. QED
    BY <1>1, <2>1, FS_FiniteSubsetsOfFinite
<1>3. PICK T \in Bad : \A U \in Bad : ~ (U \subseteq T /\ U # T)
  <2> HIDE DEF Bad
  <2> QED BY <1>2, SetMinimum
<1>4. PICK m \in 0..n : m \notin P /\ T = 0..m
  BY <1>3
<1>5. m # 0 /\ m - 1 \in Nat /\ m - 1 \in 0..n
  BY <1>4
<1>6. m - 1 \notin P
  <2>1. (m - 1) + 1 = m
    BY <1>4
  <2>2. QED
  BY <1>4, <1>5, <2>1
<1>7. 0..(m - 1) \in Bad
  BY <1>5, <1>6
<1>8. 0..(m - 1) \subseteq T /\ 0..(m - 1) # T
  BY <1>4, <1>5
<1>9. QED
  BY <1>3, <1>7, <1>8

\* f is defined on the subsets of S by recursion: c picks the element to take
\* away, h combines it with the value of the rest.  The folds of the community
\* modules have this form.
RecursiveOnSets(f, S, c, base, h) ==
  f = [s \in SUBSET S |-> IF s = {} THEN base ELSE h[<<c[s], f[s \ {c[s]}]>>]]

\* A recursion over the subsets of a finite set defines a function.
LEMMA SetRecursionExists ==
  ASSUME NEW S, IsFiniteSet(S), NEW c, NEW base, NEW h,
         \A s \in SUBSET S : s # {} => c[s] \in s
  PROVE  \E f : RecursiveOnSets(f, S, c, base, h)
<1> DEFINE D(n) == {s \in SUBSET S : Cardinality(s) <= n}
           Rec(f, n) == f = [s \in D(n) |->
                              IF s = {} THEN base ELSE h[<<c[s], f[s \ {c[s]}]>>]]
           P == {n \in Nat : \E f : Rec(f, n)}
<1>c. \A s \in SUBSET S : IsFiniteSet(s) /\ Cardinality(s) \in Nat
                          /\ (Cardinality(s) = 0 <=> s = {})
  BY FS_Subset, FS_CardinalityType, FS_EmptySet
<1>r. \A s \in SUBSET S : s # {} =>
        s \ {c[s]} \in SUBSET S /\ Cardinality(s \ {c[s]}) = Cardinality(s) - 1
  BY <1>c, FS_RemoveElement
<1>1. 0 \in P
  <2>1. D(0) = {{}}
    BY <1>c
  <2>2. Rec([s \in D(0) |-> base], 0)
    BY <2>1
  <2>3. QED
    BY <2>2
<1>2. ASSUME NEW n \in Nat, n \in P PROVE n + 1 \in P
  <2>1. PICK f : Rec(f, n)
    BY <1>2
  <2> DEFINE g == [s \in D(n + 1) |->
                     IF s = {} THEN base ELSE h[<<c[s], f[s \ {c[s]}]>>]]
  <2>2. \A s \in D(n + 1) : s # {} => s \ {c[s]} \in D(n) /\ s \ {c[s]} \in D(n + 1)
    BY <1>c, <1>r
  <2>3. \A s \in D(n) : f[s] = IF s = {} THEN base ELSE h[<<c[s], f[s \ {c[s]}]>>]
    BY <2>1
  <2>4. D(n) \subseteq D(n + 1)
    BY <1>c
  <2>5. \A s \in D(n) : g[s] = f[s]
    BY <2>3, <2>4
  <2>6. g = [s \in D(n + 1) |->
               IF s = {} THEN base ELSE h[<<c[s], g[s \ {c[s]}]>>]]
    <3> HIDE DEF D
    <3>1. \A s \in D(n + 1) : s # {} => g[s \ {c[s]}] = f[s \ {c[s]}]
      BY <2>2, <2>5
    <3>2. QED
      BY <3>1
  <2>7. Rec(g, n + 1)
    BY <2>6
  <2> HIDE DEF Rec, g
  <2>8. QED
    BY <2>7
<1>3. Cardinality(S) \in P
  <2> HIDE DEF P
  <2>1. \A n \in Nat : n \in P
    BY <1>1, <1>2, NatInductionSet
  <2>2. QED
    BY <2>1, <1>c
<1>4. D(Cardinality(S)) = SUBSET S
  BY FS_Subset
<1>5. QED
  BY <1>3, <1>4 DEF RecursiveOnSets

\* f is defined on 0..n by recursion.
RecursiveUpTo(f, n, base, h) ==
  f = [i \in 0..n |-> IF i = 0 THEN base ELSE h[<<i, f[i - 1]>>]]

\* A recursion over the numbers up to n defines a function.
LEMMA NatRecursionExists ==
  ASSUME NEW n \in Nat, NEW base, NEW h
  PROVE  \E f : RecursiveUpTo(f, n, base, h)
<1> DEFINE Rec(f, m) == f = [i \in 0..m |-> IF i = 0 THEN base ELSE h[<<i, f[i - 1]>>]]
           P == {m \in Nat : \E f : Rec(f, m)}
<1>1. 0 \in P
  <2>1. Rec([i \in 0..0 |-> base], 0)
    OBVIOUS
  <2>2. QED
    BY <2>1
<1>2. ASSUME NEW m \in Nat, m \in P PROVE m + 1 \in P
  <2>1. PICK f : Rec(f, m)
    BY <1>2
  <2> DEFINE g == [i \in 0..(m + 1) |-> IF i = 0 THEN base ELSE h[<<i, f[i - 1]>>]]
  <2>2. \A i \in 0..m : g[i] = f[i]
    BY <2>1
  <2>3. \A i \in 0..(m + 1) : i # 0 => i - 1 \in 0..m
    OBVIOUS
  <2>4. g = [i \in 0..(m + 1) |-> IF i = 0 THEN base ELSE h[<<i, g[i - 1]>>]]
    BY <2>2, <2>3
  <2>5. Rec(g, m + 1)
    BY <2>4
  <2> HIDE DEF Rec, g
  <2>6. QED
    BY <2>5
<1>3. QED
  <2> HIDE DEF P
  <2>1. n \in P
    BY <1>1, <1>2, NatInductionSet
  <2>2. QED
    BY <2>1 DEF P, RecursiveUpTo

\* The sum of w over S as MapThenSumSet computes it.
Pick(s) == CHOOSE x \in s : TRUE
IsSum(f, w, S) ==
  f = [s \in SUBSET S |-> IF s = {} THEN 0 ELSE w[Pick(s)] + f[s \ {Pick(s)}]]
SumOver(w, S) == (CHOOSE f : IsSum(f, w, S))[S]

\* A member of the set is picked.
LEMMA PickFacts ==
  ASSUME NEW s, s # {}
  PROVE  Pick(s) \in s
BY DEF Pick

\* The sums of integers are integers.
LEMMA SumTyped ==
  ASSUME NEW S, IsFiniteSet(S), NEW w, \A x \in S : w[x] \in Int,
         NEW f, IsSum(f, w, S)
  PROVE  \A s \in SUBSET S : f[s] \in Int
<1> DEFINE P == {s \in SUBSET S : f[s] \in Int}
<1>1. ASSUME NEW s \in SUBSET S, \A u \in SUBSET s : u # s => u \in P
      PROVE  s \in P
  <2>1. f[s] = IF s = {} THEN 0 ELSE w[Pick(s)] + f[s \ {Pick(s)}]
    BY DEF IsSum
  <2>2. CASE s = {}
    BY <2>1, <2>2
  <2>3. CASE s # {}
    <3>1. Pick(s) \in s
      BY <2>3, PickFacts
    <3>2. s \ {Pick(s)} \in P
      BY <3>1, <1>1
    <3>3. QED
      BY <2>1, <2>3, <3>1, <3>2
  <2>4. QED
    BY <2>2, <2>3
<1>2. \A s \in SUBSET S : s \in P
  <2> HIDE DEF P
  <2> QED BY <1>1, SetInduction
<1>3. QED
  BY <1>2

\* The recursion of the sum defines a function.
LEMMA SumExists ==
  ASSUME NEW S, IsFiniteSet(S), NEW w, \A x \in S : w[x] \in Int
  PROVE  \E f : IsSum(f, w, S)
<1> DEFINE c == [s \in SUBSET S |-> Pick(s)]
           h == [p \in S \X Int |-> w[p[1]] + p[2]]
           base == 0
<1>1. \A s \in SUBSET S : s # {} => c[s] \in s
  BY PickFacts
<1>2. PICK f : RecursiveOnSets(f, S, c, base, h)
  <2> HIDE DEF c, h, base
  <2> QED BY <1>1, SetRecursionExists
<1> DEFINE P == {s \in SUBSET S : f[s] \in Int}
<1>3. ASSUME NEW s \in SUBSET S, s # {}, f[s \ {Pick(s)}] \in Int
      PROVE  /\ f[s] = w[Pick(s)] + f[s \ {Pick(s)}]
             /\ f[s] \in Int
  <2>1. Pick(s) \in s /\ c[s] = Pick(s)
    BY <1>3, PickFacts
  <2>2. f[s] = h[<<Pick(s), f[s \ {Pick(s)}]>>]
    <3> HIDE DEF c, h
    <3> QED BY <1>2, <1>3, <2>1 DEF RecursiveOnSets
  <2>3. QED
    BY <2>1, <2>2, <1>3
<1>4. f[{}] = 0
  BY <1>2 DEF RecursiveOnSets
<1>5. \A s \in SUBSET S : s \in P
  <2>1. ASSUME NEW s \in SUBSET S, \A u \in SUBSET s : u # s => u \in P
        PROVE  s \in P
    <3>1. CASE s # {}
      BY <3>1, <2>1, <1>3, PickFacts
    <3>2. QED
      BY <3>1, <1>4
  <2> HIDE DEF P
  <2>2. QED
    BY <2>1, SetInduction
<1>6. IsSum(f, w, S)
  <2> DEFINE g == [s \in SUBSET S |->
                     IF s = {} THEN 0 ELSE w[Pick(s)] + f[s \ {Pick(s)}]]
  <2>1. \A s \in SUBSET S : f[s] = g[s]
    BY <1>3, <1>4, <1>5, PickFacts
  <2>2. f = [s \in SUBSET S |-> f[s]]
    BY <1>2 DEF RecursiveOnSets
  <2>3. f = g
    BY <2>1, <2>2
  <2>4. QED
    BY <2>3 DEF IsSum
<1>7. QED
  BY <1>6

\* The sum over T does not depend on the set whose subsets the recursion runs on.
LEMMA SumAgree ==
  ASSUME NEW S, IsFiniteSet(S), NEW w, \A x \in S : w[x] \in Int,
         NEW f, IsSum(f, w, S),
         NEW T \in SUBSET S, NEW g, IsSum(g, w, T)
  PROVE  f[T] = g[T]
<1> DEFINE P == {s \in SUBSET T : f[s] = g[s]}
<1>1. ASSUME NEW s \in SUBSET T, \A u \in SUBSET s : u # s => u \in P
      PROVE  s \in P
  <2>1. f[s] = IF s = {} THEN 0 ELSE w[Pick(s)] + f[s \ {Pick(s)}]
    BY DEF IsSum
  <2>2. g[s] = IF s = {} THEN 0 ELSE w[Pick(s)] + g[s \ {Pick(s)}]
    BY DEF IsSum
  <2>3. CASE s # {}
    BY <1>1, <2>1, <2>2, <2>3, PickFacts
  <2>4. QED
    BY <2>1, <2>2, <2>3
<1>2. IsFiniteSet(T)
  BY FS_Subset
<1>3. \A s \in SUBSET T : s \in P
  <2> HIDE DEF P
  <2> QED BY <1>1, <1>2, SetInduction
<1>4. QED
  BY <1>3

\* SumOver is the value of any function that meets the recursion.
LEMMA SumIsRecursive ==
  ASSUME NEW S, IsFiniteSet(S), NEW w, \A x \in S : w[x] \in Int,
         NEW f, IsSum(f, w, S)
  PROVE  \A T \in SUBSET S : SumOver(w, T) = f[T]
<1> TAKE T \in SUBSET S
<1>1. IsFiniteSet(T) /\ \A x \in T : w[x] \in Int
  BY FS_Subset
<1>2. IsSum(CHOOSE g : IsSum(g, w, T), w, T)
  BY <1>1, SumExists
<1>3. QED
  BY <1>2, SumAgree DEF SumOver

\* The sum over a set, by its defining equation.
LEMMA SumPick ==
  ASSUME NEW S, IsFiniteSet(S), NEW w, \A x \in S : w[x] \in Int
  PROVE  /\ SumOver(w, S) \in Int
         /\ SumOver(w, {}) = 0
         /\ S # {} => SumOver(w, S) = w[Pick(S)] + SumOver(w, S \ {Pick(S)})
<1>1. PICK f : IsSum(f, w, S)
  BY SumExists
<1>2. \A T \in SUBSET S : SumOver(w, T) = f[T] /\ f[T] \in Int
  BY <1>1, SumIsRecursive, SumTyped
<1>3. f[{}] = 0 /\ (S # {} => f[S] = w[Pick(S)] + f[S \ {Pick(S)}])
  BY <1>1 DEF IsSum
<1>4. QED
  BY <1>2, <1>3

\* The sum over a set is any one of its elements plus the sum over the others,
\* whichever element the recursion picks.
LEMMA SumRemove ==
  ASSUME NEW S, IsFiniteSet(S), NEW w, \A x \in S : w[x] \in Int
  PROVE  \A x \in S : SumOver(w, S) = w[x] + SumOver(w, S \ {x})
<1> DEFINE P == {T \in SUBSET S : \A x \in T : SumOver(w, T) = w[x] + SumOver(w, T \ {x})}
<1>0. \A T \in SUBSET S : IsFiniteSet(T) /\ \A x \in T : w[x] \in Int
  BY FS_Subset
<1>1. ASSUME NEW T \in SUBSET S, \A U \in SUBSET T : U # T => U \in P
      PROVE  T \in P
  <2> SUFFICES ASSUME NEW x \in T PROVE SumOver(w, T) = w[x] + SumOver(w, T \ {x})
    OBVIOUS
  <2> DEFINE y == Pick(T)
  <2>1. y \in T
    BY PickFacts
  <2>2. SumOver(w, T) = w[y] + SumOver(w, T \ {y})
    BY <1>0, SumPick
  <2>3. CASE x # y
    <3>1. SumOver(w, T \ {y}) = w[x] + SumOver(w, (T \ {y}) \ {x})
      BY <1>1, <2>1, <2>3
    <3>2. SumOver(w, T \ {x}) = w[y] + SumOver(w, (T \ {x}) \ {y})
      BY <1>1, <2>1, <2>3
    <3>3. SumOver(w, (T \ {y}) \ {x}) = SumOver(w, (T \ {x}) \ {y})
      <4>1. (T \ {y}) \ {x} = (T \ {x}) \ {y}
        OBVIOUS
      <4>2. QED
        BY <4>1
    <3>4. SumOver(w, (T \ {x}) \ {y}) \in Int
      BY <1>0, SumPick
    <3>5. w[x] \in Int /\ w[y] \in Int
      BY <2>1
    <3> HIDE DEF y
    <3>6. QED
      BY <2>2, <3>1, <3>2, <3>3, <3>4, <3>5
  <2>4. QED
    BY <2>2, <2>3
<1>2. \A T \in SUBSET S : T \in P
  <2> HIDE DEF P
  <2> QED BY <1>1, SetInduction
<1>3. QED
  BY <1>2

\* A sum of natural numbers grows with its set.
LEMMA SumMonotone ==
  ASSUME NEW S, IsFiniteSet(S), NEW w, \A x \in S : w[x] \in Nat
  PROVE  \A U, T \in SUBSET S : T \subseteq U => SumOver(w, T) <= SumOver(w, U)
<1> DEFINE P == {U \in SUBSET S : \A T \in SUBSET U : SumOver(w, T) <= SumOver(w, U)}
<1>0. \A T \in SUBSET S : /\ IsFiniteSet(T)
                          /\ \A x \in T : w[x] \in Int
                          /\ SumOver(w, T) \in Int
  <2>1. \A T \in SUBSET S : IsFiniteSet(T) /\ \A x \in T : w[x] \in Int
    BY FS_Subset
  <2>2. QED
    BY <2>1, SumPick
<1>1. ASSUME NEW U \in SUBSET S, \A V \in SUBSET U : V # U => V \in P
      PROVE  U \in P
  <2> SUFFICES ASSUME NEW T \in SUBSET U, T # U
               PROVE  SumOver(w, T) <= SumOver(w, U)
    BY <1>0
  <2>1. PICK x \in U : x \notin T
    OBVIOUS
  <2>2. SumOver(w, U) = w[x] + SumOver(w, U \ {x})
    BY <1>0, SumRemove
  <2>3. SumOver(w, T) <= SumOver(w, U \ {x})
    BY <1>1, <2>1
  <2>4. SumOver(w, T) \in Int /\ SumOver(w, U \ {x}) \in Int /\ w[x] \in Nat
    BY <1>0
  <2>5. QED
    BY <2>2, <2>3, <2>4
<1>2. \A T \in SUBSET S : T \in P
  <2> HIDE DEF P
  <2> QED BY <1>1, SetInduction
<1>3. QED
  BY <1>2

\* The sum of ones is the cardinality.
LEMMA SumOfOnes ==
  ASSUME NEW S, IsFiniteSet(S), NEW w, \A x \in S : w[x] = 1
  PROVE  SumOver(w, S) = Cardinality(S)
<1> DEFINE P == {T \in SUBSET S : SumOver(w, T) = Cardinality(T)}
<1>1. \A T \in SUBSET S : IsFiniteSet(T) /\ \A x \in T : w[x] \in Int
  BY FS_Subset
<1>2. ASSUME NEW T \in SUBSET S, \A U \in SUBSET T : U # T => U \in P
      PROVE  T \in P
  <2>1. CASE T = {}
    BY <1>1, <2>1, SumPick, FS_EmptySet
  <2>2. ASSUME NEW x \in T PROVE T \in P
    <3>1. SumOver(w, T) = 1 + SumOver(w, T \ {x})
      BY <1>1, SumRemove
    <3>2. T \ {x} \in P
      BY <1>2
    <3>3. Cardinality(T \ {x}) = Cardinality(T) - 1 /\ Cardinality(T) \in Nat
      BY <1>1, FS_RemoveElement, FS_CardinalityType
    <3>4. QED
      BY <3>1, <3>2, <3>3
  <2>3. QED
    BY <2>1, <2>2
<1>3. \A T \in SUBSET S : T \in P
  <2> HIDE DEF P
  <2> QED BY <1>2, SetInduction
<1>4. QED
  BY <1>3

\* The sum of w[1], ..., w[n] as a recursive function computes it.
IsSumUpTo(f, w, n) == f = [i \in 0..n |-> IF i = 0 THEN 0 ELSE f[i - 1] + w[i]]
SumUpTo(w, n) == (CHOOSE f : IsSumUpTo(f, w, n))[n]

\* The recursion of the sum defines a function.
LEMMA SumUpToExists ==
  ASSUME NEW n \in Nat, NEW w, \A i \in 1..n : w[i] \in Int
  PROVE  \E f : IsSumUpTo(f, w, n)
<1> DEFINE h == [p \in (1..n) \X Int |-> p[2] + w[p[1]]]
           base == 0
<1>1. PICK f : RecursiveUpTo(f, n, base, h)
  <2> HIDE DEF h, base
  <2> QED BY NatRecursionExists
<1>2. f[0] = 0
  BY <1>1 DEF RecursiveUpTo
<1>3. ASSUME NEW i \in 1..n, f[i - 1] \in Int
      PROVE  f[i] = f[i - 1] + w[i] /\ f[i] \in Int
  <2>1. f[i] = h[<<i, f[i - 1]>>]
    <3> HIDE DEF h
    <3> QED BY <1>1 DEF RecursiveUpTo
  <2>2. QED
    BY <2>1, <1>3
<1> DEFINE P == {m \in Nat : m <= n => f[m] \in Int}
<1>4. \A m \in Nat : m \in P
  <2>1. 0 \in P
    BY <1>2
  <2>2. ASSUME NEW m \in Nat, m \in P PROVE m + 1 \in P
    <3>1. CASE m + 1 <= n
      <4>1. m + 1 \in 1..n /\ (m + 1) - 1 = m /\ f[m] \in Int
        BY <2>2, <3>1
      <4>2. QED
        BY <4>1, <1>3
    <3>2. QED
      BY <3>1
  <2> HIDE DEF P
  <2>3. QED
    BY <2>1, <2>2, NatInductionSet
<1>5. IsSumUpTo(f, w, n)
  <2> DEFINE g == [i \in 0..n |-> IF i = 0 THEN 0 ELSE f[i - 1] + w[i]]
  <2>1. \A i \in 0..n : f[i] = g[i]
    <3> SUFFICES ASSUME NEW i \in 1..n PROVE f[i] = f[i - 1] + w[i]
      BY <1>2
    <3>1. i - 1 \in Nat /\ i - 1 <= n
      OBVIOUS
    <3>2. f[i - 1] \in Int
      BY <1>4, <3>1
    <3>3. QED
      BY <1>3, <3>2
  <2>2. f = [i \in 0..n |-> f[i]]
    BY <1>1 DEF RecursiveUpTo
  <2>3. f = g
    BY <2>1, <2>2
  <2>4. QED
    BY <2>3 DEF IsSumUpTo
<1>6. QED
  BY <1>5

\* The sum up to m does not depend on how far the recursion runs.
LEMMA SumUpToIsRecursive ==
  ASSUME NEW n \in Nat, NEW w, \A i \in 1..n : w[i] \in Int,
         NEW f, IsSumUpTo(f, w, n)
  PROVE  \A m \in 0..n : SumUpTo(w, m) = f[m]
<1> TAKE m \in 0..n
<1> DEFINE g == CHOOSE g : IsSumUpTo(g, w, m)
<1>1. IsSumUpTo(g, w, m)
  BY SumUpToExists
<1> HIDE DEF g
<1> DEFINE P == {i \in Nat : i <= m => f[i] = g[i]}
<1>2. 0 \in P
  BY <1>1 DEF IsSumUpTo
<1>3. ASSUME NEW i \in Nat, i \in P PROVE i + 1 \in P
  <2>1. CASE i + 1 <= m
    <3>1. f[i + 1] = f[i] + w[i + 1]
      BY <2>1 DEF IsSumUpTo
    <3>2. g[i + 1] = g[i] + w[i + 1]
      BY <1>1, <2>1 DEF IsSumUpTo
    <3>3. f[i] = g[i]
      BY <1>3, <2>1
    <3>4. QED
      BY <3>1, <3>2, <3>3
  <2>2. QED
    BY <2>1
<1>4. m \in P
  <2> HIDE DEF P
  <2>1. \A i \in Nat : i \in P
    BY <1>2, <1>3, NatInductionSet
  <2>2. QED
    BY <2>1
<1>5. QED
  BY <1>4 DEF SumUpTo, g

\* The sum by its last term.
LEMMA SumUpToFacts ==
  ASSUME NEW n \in Nat, NEW w, \A i \in 1..n : w[i] \in Nat
  PROVE  /\ SumUpTo(w, 0) = 0
         /\ \A m \in 0..n : SumUpTo(w, m) \in Nat
         /\ \A m \in 1..n : SumUpTo(w, m) = SumUpTo(w, m - 1) + w[m]
<1>1. PICK f : IsSumUpTo(f, w, n)
  BY SumUpToExists
<1>2. f[0] = 0 /\ \A m \in 1..n : f[m] = f[m - 1] + w[m]
  BY <1>1 DEF IsSumUpTo
<1>3. \A m \in 0..n : SumUpTo(w, m) = f[m]
  BY <1>1, SumUpToIsRecursive
<1> DEFINE P == {m \in Nat : m <= n => f[m] \in Nat}
<1>4. 0 \in P
  BY <1>2
<1>5. ASSUME NEW m \in Nat, m \in P PROVE m + 1 \in P
  <2>1. CASE m + 1 <= n
    <3>1. m + 1 \in 1..n /\ (m + 1) - 1 = m /\ f[m] \in Nat
      BY <1>5, <2>1
    <3>2. f[m + 1] = f[m] + w[m + 1] /\ w[m + 1] \in Nat
      BY <1>2, <3>1
    <3>3. QED
      BY <3>1, <3>2
  <2>2. QED
    BY <2>1
<1>6. \A m \in Nat : m \in P
  <2> HIDE DEF P
  <2> QED BY <1>4, <1>5, NatInductionSet
<1>7. QED
  BY <1>2, <1>3, <1>6

\* A fold from the left over 1..n, as FoldLeft computes it: h combines an index
\* with the result so far.
Largest(s) == CHOOSE x \in s : \A y \in s : x >= y
IsFold(f, h, base, n) ==
  f = [s \in SUBSET (1..n) |->
         IF s = {} THEN base ELSE h[<<Largest(s), f[s \ {Largest(s)}]>>]]
FoldUpTo(h, base, n) == (CHOOSE f : IsFold(f, h, base, n))[1..n]

\* A nonempty set of indices has a largest one.
LEMMA LargestFacts ==
  ASSUME NEW n \in Nat, NEW s \in SUBSET (1..n), s # {}
  PROVE  Largest(s) \in s /\ \A y \in s : Largest(s) >= y
<1> DEFINE P == {m \in Nat : \A t \in SUBSET (1..m) :
                               t # {} => \E x \in t : \A y \in t : x >= y}
<1>1. 0 \in P
  <2>1. 1..0 = {}
    OBVIOUS
  <2>2. \A t \in SUBSET (1..0) : t = {}
    BY <2>1
  <2>3. QED
    BY <2>2
<1>2. ASSUME NEW m \in Nat, m \in P PROVE m + 1 \in P
  <2> SUFFICES ASSUME NEW t \in SUBSET (1..(m + 1)), t # {}
               PROVE  \E x \in t : \A y \in t : x >= y
    OBVIOUS
  <2>1. CASE m + 1 \in t
    BY <2>1
  <2>2. CASE m + 1 \notin t
    <3>1. \A x \in t : x \in 1..m
      BY <2>2
    <3>2. t \in SUBSET (1..m)
      BY <3>1
    <3>3. QED
      BY <3>2, <1>2
  <2>3. QED
    BY <2>1, <2>2
<1>3. n \in P
  <2> HIDE DEF P
  <2>1. \A m \in Nat : m \in P
    BY <1>1, <1>2, NatInductionSet
  <2>2. QED
    BY <2>1
<1>4. QED
  BY <1>3 DEF Largest

\* The recursion of the fold defines a function.
LEMMA FoldExists ==
  ASSUME NEW n \in Nat, NEW h, NEW base
  PROVE  \E f : IsFold(f, h, base, n)
<1> DEFINE c == [s \in SUBSET (1..n) |-> Largest(s)]
<1>1. \A s \in SUBSET (1..n) : s # {} => c[s] \in s
  BY LargestFacts
<1>2. IsFiniteSet(1..n)
  BY FS_Interval
<1>3. PICK f : RecursiveOnSets(f, 1..n, c, base, h)
  <2> HIDE DEF c
  <2> QED BY <1>1, <1>2, SetRecursionExists
<1>4. \A s \in SUBSET (1..n) : c[s] = Largest(s)
  OBVIOUS
<1>5. IsFold(f, h, base, n)
  <2> HIDE DEF c
  <2> QED BY <1>3, <1>4 DEF RecursiveOnSets, IsFold
<1>6. QED
  BY <1>5

\* One step of the fold.
LEMMA FoldStep ==
  ASSUME NEW n \in Nat, NEW h, NEW base, NEW f, IsFold(f, h, base, n)
  PROVE  /\ f[1..0] = base
         /\ \A m \in 1..n : f[1..m] = h[<<m, f[1..(m - 1)]>>]
<1>1. f[1..0] = base
  <2>1. 1..0 = {}
    OBVIOUS
  <2>2. f[{}] = base
    BY DEF IsFold
  <2>3. QED
    BY <2>1, <2>2
<1>2. ASSUME NEW m \in 1..n PROVE f[1..m] = h[<<m, f[1..(m - 1)]>>]
  <2>1. 1..m \in SUBSET (1..n) /\ 1..m # {} /\ m \in 1..m
    OBVIOUS
  <2>2. Largest(1..m) = m
    <3>1. Largest(1..m) \in 1..m /\ Largest(1..m) >= m
      BY <2>1, LargestFacts
    <3>2. QED
      BY <3>1
  <2>3. (1..m) \ {m} = 1..(m - 1)
    OBVIOUS
  <2>4. f[1..m] = h[<<Largest(1..m), f[(1..m) \ {Largest(1..m)}]>>]
    BY <2>1 DEF IsFold
  <2>5. QED
    BY <2>2, <2>3, <2>4
<1>3. QED
  BY <1>1, <1>2

\* The fold up to m does not depend on how far the recursion runs.
LEMMA FoldIsRecursive ==
  ASSUME NEW n \in Nat, NEW h, NEW base, NEW f, IsFold(f, h, base, n),
         NEW m \in 0..n
  PROVE  FoldUpTo(h, base, m) = f[1..m]
<1> DEFINE g == CHOOSE g : IsFold(g, h, base, m)
<1>1. IsFold(g, h, base, m)
  BY FoldExists
<1> HIDE DEF g
<1> DEFINE P == {i \in Nat : i <= m => f[1..i] = g[1..i]}
<1>2. 0 \in P
  BY <1>1, FoldStep
<1>3. ASSUME NEW i \in Nat, i \in P PROVE i + 1 \in P
  <2>1. CASE i + 1 <= m
    <3>1. i + 1 \in 1..n /\ i + 1 \in 1..m /\ (i + 1) - 1 = i /\ f[1..i] = g[1..i]
      BY <1>3, <2>1
    <3>2. f[1..(i + 1)] = h[<<i + 1, f[1..((i + 1) - 1)]>>]
      BY <3>1, FoldStep
    <3>3. g[1..(i + 1)] = h[<<i + 1, g[1..((i + 1) - 1)]>>]
      BY <1>1, <3>1, FoldStep
    <3>4. f[1..(i + 1)] = g[1..(i + 1)]
      BY <3>1, <3>2, <3>3
    <3>5. QED
      BY <3>4
  <2>2. QED
    BY <2>1
<1>4. m \in P
  <2> HIDE DEF P
  <2>1. \A i \in Nat : i \in P
    BY <1>2, <1>3, NatInductionSet
  <2>2. QED
    BY <2>1
<1>5. QED
  BY <1>4 DEF FoldUpTo, g

\* The fold by its last step.
FoldsStepwise(h, base, n) ==
  /\ FoldUpTo(h, base, 0) = base
  /\ \A m \in 1..n : FoldUpTo(h, base, m) = h[<<m, FoldUpTo(h, base, m - 1)>>]
LEMMA FoldUpToFacts ==
  ASSUME NEW n \in Nat, NEW h, NEW base
  PROVE  FoldsStepwise(h, base, n)
<1>1. PICK f : IsFold(f, h, base, n)
  BY FoldExists
<1>2. \A m \in 0..n : FoldUpTo(h, base, m) = f[1..m]
  BY <1>1, FoldIsRecursive
<1>3. f[1..0] = base /\ \A m \in 1..n : f[1..m] = h[<<m, f[1..(m - 1)]>>]
  BY <1>1, FoldStep
<1>4. QED
  BY <1>2, <1>3 DEF FoldsStepwise

\* A fold whose steps stay in a set stays in it.
LEMMA FoldTyped ==
  ASSUME NEW n \in Nat, NEW h, NEW base, NEW R, base \in R,
         \A m \in 1..n, acc \in R : h[<<m, acc>>] \in R
  PROVE  \A m \in 0..n : FoldUpTo(h, base, m) \in R
<1> DEFINE P == {m \in Nat : m <= n => FoldUpTo(h, base, m) \in R}
<1>f. FoldsStepwise(h, base, n)
  BY FoldUpToFacts
<1>0. /\ FoldUpTo(h, base, 0) = base
      /\ \A q \in 1..n : FoldUpTo(h, base, q) = h[<<q, FoldUpTo(h, base, q - 1)>>]
  BY <1>f DEF FoldsStepwise
<1>1. 0 \in P
  BY <1>0
<1>2. ASSUME NEW m \in Nat, m \in P PROVE m + 1 \in P
  <2>1. CASE m + 1 <= n
    <3>1. m + 1 \in 1..n /\ (m + 1) - 1 = m /\ FoldUpTo(h, base, m) \in R
      BY <1>2, <2>1
    <3>2. FoldUpTo(h, base, m + 1) = h[<<m + 1, FoldUpTo(h, base, (m + 1) - 1)>>]
      BY <1>0, <3>1
    <3>3. QED
      BY <3>1, <3>2
  <2>2. QED
    BY <2>1
<1>3. \A m \in Nat : m \in P
  <2> HIDE DEF P
  <2> QED BY <1>1, <1>2, NatInductionSet
<1>4. QED
  BY <1>3

AgreeOn(h, k, n, R) ==
  \A m \in 1..n, acc \in R : h[<<m, acc>>] \in R /\ k[<<m, acc>>] = h[<<m, acc>>]

\* Two functions that agree on the values met fold alike.
LEMMA FoldAgree ==
  ASSUME NEW n \in Nat, NEW h, NEW k, NEW base, NEW R, base \in R, AgreeOn(h, k, n, R)
  PROVE  FoldUpTo(k, base, n) = FoldUpTo(h, base, n)
<1>a. \A m \in 1..n, acc \in R : h[<<m, acc>>] \in R /\ k[<<m, acc>>] = h[<<m, acc>>]
  BY DEF AgreeOn
<1> DEFINE P == {m \in Nat : m <= n => FoldUpTo(k, base, m) = FoldUpTo(h, base, m)}
<1>0. \A m \in 0..n : FoldUpTo(h, base, m) \in R
  BY <1>a, FoldTyped
<1>fh. FoldsStepwise(h, base, n)
  BY FoldUpToFacts
<1>h. /\ FoldUpTo(h, base, 0) = base
      /\ \A q \in 1..n : FoldUpTo(h, base, q) = h[<<q, FoldUpTo(h, base, q - 1)>>]
  BY <1>fh DEF FoldsStepwise
<1>fk. FoldsStepwise(k, base, n)
  BY FoldUpToFacts
<1>k. /\ FoldUpTo(k, base, 0) = base
      /\ \A q \in 1..n : FoldUpTo(k, base, q) = k[<<q, FoldUpTo(k, base, q - 1)>>]
  BY <1>fk DEF FoldsStepwise
<1>1. 0 \in P
  BY <1>h, <1>k
<1>2. ASSUME NEW m \in Nat, m \in P PROVE m + 1 \in P
  <2>1. CASE m + 1 <= n
    <3>1. /\ m + 1 \in 1..n /\ (m + 1) - 1 = m
          /\ FoldUpTo(k, base, m) = FoldUpTo(h, base, m)
          /\ FoldUpTo(h, base, m) \in R
      BY <1>0, <1>2, <2>1
    <3>2. FoldUpTo(h, base, m + 1) = h[<<m + 1, FoldUpTo(h, base, (m + 1) - 1)>>]
      BY <1>h, <3>1
    <3>3. FoldUpTo(k, base, m + 1) = k[<<m + 1, FoldUpTo(k, base, (m + 1) - 1)>>]
      BY <1>k, <3>1
    <3>4. QED
      BY <1>a, <3>1, <3>2, <3>3
  <2>2. QED
    BY <2>1
<1>3. \A m \in Nat : m \in P
  <2> HIDE DEF P
  <2> QED BY <1>1, <1>2, NatInductionSet
<1>4. QED
  BY <1>3

\* A recursion over sets of indices that keeps to R has its values in R.
LEMMA FoldValuesTyped ==
  ASSUME NEW n \in Nat, NEW f, NEW R,
         f[{}] \in R,
         \A s \in SUBSET (1..n) :
           s # {} /\ f[s \ {Largest(s)}] \in R => f[s] \in R
  PROVE  \A s \in SUBSET (1..n) : f[s] \in R
<1> DEFINE P == {s \in SUBSET (1..n) : f[s] \in R}
<1>1. ASSUME NEW T \in SUBSET (1..n), \A U \in SUBSET T : U # T => U \in P
      PROVE  T \in P
  <2>1. CASE T = {}
    BY <2>1
  <2>2. CASE T # {}
    <3>1. Largest(T) \in T
      BY <2>2, LargestFacts
    <3>2. T \ {Largest(T)} \in SUBSET T /\ T \ {Largest(T)} # T
      BY <3>1
    <3>3. T \ {Largest(T)} \in P
      BY <1>1, <3>2
    <3>4. QED
      BY <2>2, <3>3
  <2>3. QED
    BY <2>1, <2>2
<1>2. IsFiniteSet(1..n)
  BY FS_Interval
<1>3. \A s \in SUBSET (1..n) : s \in P
  <2> HIDE DEF P
  <2> DEFINE I == 1..n
  <2>1. IsFiniteSet(I) /\ \A T \in SUBSET I : (\A U \in SUBSET T : U # T => U \in P) => T \in P
    BY <1>1, <1>2
  <2> HIDE DEF I
  <2>2. \A T \in SUBSET I : T \in P
    BY <2>1, SetInduction
  <2>3. QED
    BY <2>2 DEF I
<1>4. QED
  BY <1>3
-------------------------------------------------------------------------------
(* The filter of lists. *)

\* The recursion of Only, up to n.
IsKept(f, s, K, n) ==
  f = [i \in 0..n |-> IF i = 0 THEN <<>>
                      ELSE IF s[i] \in K THEN Append(f[i - 1], s[i]) ELSE f[i - 1]]

\* The recursion has a solution.
LEMMA KeptExists ==
  ASSUME NEW s, NEW K, NEW n \in Nat
  PROVE  \E f : IsKept(f, s, K, n)
<1> DEFINE P == {m \in Nat : \E f : IsKept(f, s, K, m)}
<1>1. 0 \in P
  <2>1. IsKept([i \in 0..0 |-> <<>>], s, K, 0)
    BY DEF IsKept
  <2>2. QED
    BY <2>1
<1>2. ASSUME NEW m \in Nat, m \in P PROVE m + 1 \in P
  <2>1. PICK f : IsKept(f, s, K, m)
    BY <1>2
  <2> DEFINE next(i) == IF i = 0 THEN <<>>
                        ELSE IF s[i] \in K THEN Append(f[i - 1], s[i]) ELSE f[i - 1]
             g == [i \in 0..(m + 1) |-> next(i)]
  <2>2. \A i \in 0..m : f[i] = next(i)
    BY <2>1 DEF IsKept
  <2>3. \A i \in 0..(m + 1) : g[i] = next(i)
    OBVIOUS
  <2>4. \A i \in 0..(m + 1) : i # 0 => i - 1 \in 0..m /\ i - 1 \in 0..(m + 1)
    OBVIOUS
  <2> DEFINE next2(i) == IF i = 0 THEN <<>>
                         ELSE IF s[i] \in K THEN Append(g[i - 1], s[i]) ELSE g[i - 1]
  <2>5. \A i \in 0..(m + 1) : next(i) = next2(i)
    <3> HIDE DEF g
    <3> SUFFICES ASSUME NEW i \in 0..(m + 1), i # 0 PROVE g[i - 1] = f[i - 1]
      OBVIOUS
    <3>1. i - 1 \in 0..m /\ i - 1 \in 0..(m + 1)
      BY <2>4
    <3> HIDE DEF next
    <3>2. QED
      BY <2>2, <2>3, <3>1
  <2>6. g = [i \in 0..(m + 1) |-> next2(i)]
    <3> HIDE DEF next, next2
    <3> QED BY <2>5
  <2>7. IsKept(g, s, K, m + 1)
    <3> HIDE DEF g
    <3> QED BY <2>6 DEF IsKept
  <2> HIDE DEF g
  <2>8. QED
    BY <2>7
<1>3. QED
  <2> HIDE DEF P
  <2>1. n \in P
    BY <1>1, <1>2, NatInductionSet
  <2>2. QED
    BY <2>1 DEF P

\* Only is what its recursion says.
LEMMA OnlyIsKept ==
  ASSUME NEW S, NEW s \in Seq(S), NEW K
  PROVE  \E f : IsKept(f, s, K, Len(s)) /\ Only(s, K) = f[Len(s)]
<1> DEFINE F == CHOOSE f : IsKept(f, s, K, Len(s))
<1>1. IsKept(F, s, K, Len(s))
  BY KeptExists
<1>2. Only(s, K) = F[Len(s)]
  BY DEF Only, IsKept
<1>3. QED
  BY <1>1, <1>2

\* The recursion, step by step.
LEMMA KeptSteps ==
  ASSUME NEW f, NEW s, NEW K, NEW n \in Nat, IsKept(f, s, K, n)
  PROVE  /\ f[0] = <<>>
         /\ \A m \in Nat : m + 1 <= n =>
              f[m + 1] = IF s[m + 1] \in K THEN Append(f[m], s[m + 1]) ELSE f[m]
<1>1. f[0] = <<>>
  BY DEF IsKept
<1>2. ASSUME NEW m \in Nat, m + 1 <= n
      PROVE  f[m + 1] = IF s[m + 1] \in K THEN Append(f[m], s[m + 1]) ELSE f[m]
  <2> DEFINE i == m + 1
  <2>1. i \in 0..n /\ i # 0 /\ i - 1 = m
    BY <1>2
  <2> HIDE DEF i
  <2>2. f[i] = IF s[i] \in K THEN Append(f[i - 1], s[i]) ELSE f[i - 1]
    BY <2>1 DEF IsKept
  <2>3. QED
    BY <2>1, <2>2 DEF i
<1>3. QED
  BY <1>1, <1>2

\* t has the members of K among the first m of s, in their order: g says where
\* they are from.
Embeds(g, t, s, K, m) ==
  /\ g \in [1..Len(t) -> 1..m]
  /\ \A i, j \in 1..Len(t) : i < j => g[i] < g[j]
  /\ \A i \in 1..Len(t) : t[i] = s[g[i]] /\ t[i] \in K
  /\ \A k \in 1..m : s[k] \in K => \E i \in 1..Len(t) : g[i] = k

\* Only keeps the members of K, all of them, in their order.
LEMMA OnlyEmbeds ==
  ASSUME NEW S, NEW s \in Seq(S), NEW K
  PROVE  /\ Only(s, K) \in Seq(S)
         /\ \E g : Embeds(g, Only(s, K), s, K, Len(s))
<1>1. PICK f : IsKept(f, s, K, Len(s)) /\ Only(s, K) = f[Len(s)]
  BY OnlyIsKept
<1> DEFINE P == {m \in Nat : m <= Len(s) =>
                   f[m] \in Seq(S) /\ \E g : Embeds(g, f[m], s, K, m)}
<1>2. 0 \in P
  <2>1. f[0] = <<>>
    BY <1>1, KeptSteps
  <2> DEFINE g == [i \in {} |-> 1]
  <2>2. Embeds(g, f[0], s, K, 0)
    BY <2>1 DEF Embeds
  <2>3. f[0] \in Seq(S)
    BY <2>1
  <2> HIDE DEF g
  <2>4. \E e : Embeds(e, f[0], s, K, 0)
    BY <2>2
  <2>5. QED
    BY <2>3, <2>4
<1>3. ASSUME NEW m \in Nat, m \in P PROVE m + 1 \in P
  <2> SUFFICES ASSUME m + 1 <= Len(s)
               PROVE  f[m + 1] \in Seq(S) /\ \E g : Embeds(g, f[m + 1], s, K, m + 1)
    OBVIOUS
  <2> DEFINE t == f[m]
             u == f[m + 1]
  <2>1. t \in Seq(S) /\ s[m + 1] \in S
    BY <1>3
  <2>2. PICK g : Embeds(g, t, s, K, m)
    BY <1>3
  <2>3. u = IF s[m + 1] \in K THEN Append(t, s[m + 1]) ELSE t
    BY <1>1, KeptSteps
  <2> HIDE DEF t, u
  <2>4. CASE s[m + 1] \in K
    <3> DEFINE h == [i \in 1..Len(t) + 1 |-> IF i = Len(t) + 1 THEN m + 1 ELSE g[i]]
    <3>1. /\ u \in Seq(S) /\ Len(u) = Len(t) + 1 /\ u[Len(t) + 1] = s[m + 1]
          /\ \A i \in 1..Len(t) : u[i] = t[i]
      BY <2>1, <2>3, <2>4
    <3>2. Len(t) \in Nat
      BY <2>1
    <3>3. h \in [1..Len(u) -> 1..m + 1]
      BY <2>2, <3>1, <3>2 DEF Embeds
    <3>4. ASSUME NEW i \in 1..Len(u), NEW j \in 1..Len(u), i < j PROVE h[i] < h[j]
      <4>0. i \in 1..Len(t) /\ i # Len(t) + 1
        BY <3>1, <3>2, <3>4
      <4>1. i \in 1..Len(t) /\ h[i] = g[i] /\ g[i] \in 1..m
        BY <2>2, <3>2, <4>0 DEF Embeds
      <4>2. CASE j = Len(t) + 1
        BY <3>1, <3>2, <4>1, <4>2
      <4>3. CASE j # Len(t) + 1
        <5>1. j \in 1..Len(t) /\ h[j] = g[j]
          BY <3>1, <3>2, <4>3
        <5> HIDE DEF h
        <5>2. QED
          BY <2>2, <3>4, <4>1, <5>1 DEF Embeds
      <4>4. QED
        BY <4>2, <4>3
    <3>5. \A i \in 1..Len(u) : u[i] = s[h[i]] /\ u[i] \in K
      BY <2>2, <2>4, <3>1, <3>2 DEF Embeds
    <3>6. ASSUME NEW k \in 1..m + 1, s[k] \in K
          PROVE  \E i \in 1..Len(u) : h[i] = k
      <4>1. CASE k = m + 1
        BY <3>1, <3>2, <4>1
      <4>2. CASE k # m + 1
        <5>1. PICK i \in 1..Len(t) : g[i] = k
          BY <2>2, <3>6, <4>2 DEF Embeds
        <5>2. i \in 1..Len(u) /\ h[i] = k
          BY <3>1, <3>2, <5>1
        <5>3. QED
          BY <5>2
      <4>3. QED
        BY <4>1, <4>2
    <3> HIDE DEF h
    <3>7. Embeds(h, u, s, K, m + 1)
      BY <3>3, <3>4, <3>5, <3>6 DEF Embeds
    <3>8. QED
      BY <3>1, <3>7 DEF u
  <2>5. CASE s[m + 1] \notin K
    <3>1. Embeds(g, u, s, K, m + 1)
      BY <2>2, <2>3, <2>5 DEF Embeds
    <3>2. QED
      BY <2>1, <2>3, <2>5, <3>1 DEF u
  <2>6. QED
    BY <2>4, <2>5
<1>4. \A m \in Nat : m \in P
  <2> HIDE DEF P
  <2> QED BY <1>2, <1>3, NatInductionSet
<1>5. QED
  <2>1. Len(s) \in P
    BY <1>4
  <2>2. QED
    BY <1>1, <2>1

\* When K has the last members of s and no others, they are an end of s.
LEMMA OnlyTheEnd ==
  ASSUME NEW S, NEW s \in Seq(S), NEW K, NEW d \in 0..Len(s),
         \A k \in 1..Len(s) : s[k] \in K <=> k > d
  PROVE  Only(s, K) = SubSeq(s, d + 1, Len(s))
<1>1. PICK f : IsKept(f, s, K, Len(s)) /\ Only(s, K) = f[Len(s)]
  BY OnlyIsKept
<1> DEFINE P == {m \in Nat : m <= Len(s) =>
                   f[m] = IF m <= d THEN <<>> ELSE SubSeq(s, d + 1, m)}
<1>2. 0 \in P
  BY <1>1, KeptSteps
<1>3. ASSUME NEW m \in Nat, m \in P PROVE m + 1 \in P
  <2> SUFFICES ASSUME m + 1 <= Len(s)
               PROVE  f[m + 1] = IF m + 1 <= d THEN <<>> ELSE SubSeq(s, d + 1, m + 1)
    OBVIOUS
  <2>1. f[m + 1] = IF s[m + 1] \in K THEN Append(f[m], s[m + 1]) ELSE f[m]
    BY <1>1, KeptSteps
  <2>2. f[m] = IF m <= d THEN <<>> ELSE SubSeq(s, d + 1, m)
    BY <1>3
  <2>3. CASE m + 1 <= d
    BY <2>1, <2>2, <2>3
  <2>4. CASE m + 1 > d
    <3>1. s[m + 1] \in K
      BY <2>4
    <3>2. CASE m = d
      <4>1. SubSeq(s, m + 1, m + 1) = <<s[m + 1]>>
        <5> DEFINE t == SubSeq(s, m + 1, m + 1)
        <5>1. m + 1 \in 1..Len(s)
          OBVIOUS
        <5>2. t \in Seq(S) /\ Len(t) = 1 /\ t[1] = s[m + 1]
          BY <5>1
        <5> HIDE DEF t
        <5>3. t = <<s[m + 1]>>
          BY <5>2
        <5>4. QED
          BY <5>3 DEF t
      <4>2. f[m + 1] = <<s[m + 1]>>
        BY <2>1, <2>2, <3>1, <3>2
      <4>3. QED
        BY <2>4, <3>2, <4>1, <4>2
    <3>3. CASE m # d
      <4>1. m > d /\ f[m] = SubSeq(s, d + 1, m)
        BY <2>2, <2>4, <3>3
      <4>2. Append(SubSeq(s, d + 1, m), s[m + 1]) = SubSeq(s, d + 1, m + 1)
        BY <4>1
      <4>3. QED
        BY <2>1, <2>4, <3>1, <4>1, <4>2
    <3>4. QED
      BY <3>2, <3>3
  <2>5. QED
    BY <2>3, <2>4
<1>4. \A m \in Nat : m \in P
  <2> HIDE DEF P
  <2> QED BY <1>2, <1>3, NatInductionSet
<1>5. f[Len(s)] = IF Len(s) <= d THEN <<>> ELSE SubSeq(s, d + 1, Len(s))
  BY <1>4
<1>6. ASSUME Len(s) <= d PROVE SubSeq(s, d + 1, Len(s)) = <<>>
  <2>1. d = Len(s)
    BY <1>6
  <2>2. Len(SubSeq(s, Len(s) + 1, Len(s))) = 0
    OBVIOUS
  <2>3. QED
    BY <2>1, <2>2
<1>7. QED
  BY <1>1, <1>5, <1>6

\* The recursions of two lists agree as long as the lists and the sets do.
LEMMA KeptAgree ==
  ASSUME NEW f, NEW s, NEW K, NEW n \in Nat, IsKept(f, s, K, n),
         NEW g, NEW t, NEW L, NEW k \in Nat, IsKept(g, t, L, k),
         NEW d \in Nat, d <= n, d <= k,
         \A i \in 1..d : s[i] = t[i] /\ (s[i] \in K <=> t[i] \in L)
  PROVE  f[d] = g[d]
<1> DEFINE P == {m \in Nat : m <= d => f[m] = g[m]}
<1>f. /\ f[0] = <<>>
      /\ \A m \in Nat : m + 1 <= n =>
           f[m + 1] = IF s[m + 1] \in K THEN Append(f[m], s[m + 1]) ELSE f[m]
  BY KeptSteps
<1>g. /\ g[0] = <<>>
      /\ \A m \in Nat : m + 1 <= k =>
           g[m + 1] = IF t[m + 1] \in L THEN Append(g[m], t[m + 1]) ELSE g[m]
  BY KeptSteps
<1>1. 0 \in P
  BY <1>f, <1>g
<1>2. ASSUME NEW m \in Nat, m \in P PROVE m + 1 \in P
  <2> SUFFICES ASSUME m + 1 <= d PROVE f[m + 1] = g[m + 1]
    OBVIOUS
  <2>1. m + 1 <= n /\ m + 1 <= k /\ m + 1 \in 1..d /\ f[m] = g[m]
    BY <1>2
  <2>2. s[m + 1] = t[m + 1] /\ (s[m + 1] \in K <=> t[m + 1] \in L)
    BY <2>1
  <2>3. f[m + 1] = IF s[m + 1] \in K THEN Append(f[m], s[m + 1]) ELSE f[m]
    BY <1>f, <2>1
  <2>4. g[m + 1] = IF t[m + 1] \in L THEN Append(g[m], t[m + 1]) ELSE g[m]
    BY <1>g, <2>1
  <2>5. QED
    BY <2>1, <2>2, <2>3, <2>4
<1>3. \A m \in Nat : m \in P
  <2> HIDE DEF P
  <2> QED BY <1>1, <1>2, NatInductionSet
<1>4. QED
  BY <1>3

\* Of an empty list nothing is left.
LEMMA OnlyEmpty ==
  ASSUME NEW K
  PROVE  Only(<<>>, K) = <<>>
<1>1. <<>> \in Seq({}) /\ Len(<<>>) = 0
  OBVIOUS
<1>2. PICK f : IsKept(f, <<>>, K, Len(<<>>)) /\ Only(<<>>, K) = f[Len(<<>>)]
  BY <1>1, OnlyIsKept
<1>3. f[0] = <<>>
  BY <1>1, <1>2 DEF IsKept
<1>4. QED
  BY <1>1, <1>2, <1>3

\* The filter goes through a list from the left.
LEMMA OnlyAppend ==
  ASSUME NEW S, NEW s \in Seq(S), NEW x \in S, NEW K
  PROVE  Only(Append(s, x), K) = IF x \in K THEN Append(Only(s, K), x) ELSE Only(s, K)
<1> DEFINE t == Append(s, x)
           n == Len(s)
<1>1. /\ t \in Seq(S) /\ n \in Nat /\ Len(t) = n + 1 /\ t[n + 1] = x
      /\ \A i \in 1..n : s[i] = t[i]
  OBVIOUS
<1> HIDE DEF t
<1>2. PICK f : IsKept(f, s, K, n) /\ Only(s, K) = f[n]
  BY OnlyIsKept
<1>3. PICK g : IsKept(g, t, K, n + 1) /\ Only(t, K) = g[n + 1]
  BY <1>1, OnlyIsKept
<1> HIDE DEF n
<1>4. n + 1 \in Nat /\ n <= n /\ n <= n + 1
  BY <1>1
<1>5. f[n] = g[n]
  BY <1>1, <1>2, <1>3, <1>4, KeptAgree
<1>6. g[n + 1] = IF t[n + 1] \in K THEN Append(g[n], t[n + 1]) ELSE g[n]
  BY <1>1, <1>3, <1>4, KeptSteps
<1>7. QED
  BY <1>1, <1>2, <1>3, <1>5, <1>6 DEF t

\* Sets that agree on the members of a list filter it alike.
LEMMA OnlySame ==
  ASSUME NEW S, NEW s \in Seq(S), NEW K, NEW L,
         \A i \in 1..Len(s) : s[i] \in K <=> s[i] \in L
  PROVE  Only(s, K) = Only(s, L)
<1>1. PICK f : IsKept(f, s, K, Len(s)) /\ Only(s, K) = f[Len(s)]
  BY OnlyIsKept
<1>2. PICK g : IsKept(g, s, L, Len(s)) /\ Only(s, L) = g[Len(s)]
  BY OnlyIsKept
<1>3. f[Len(s)] = g[Len(s)]
  <2>1. Len(s) \in Nat /\ Len(s) <= Len(s)
    OBVIOUS
  <2>2. QED
    BY <1>1, <1>2, <2>1, KeptAgree
<1>4. QED
  BY <1>1, <1>2, <1>3

\* When K has the first members of s and no others, they are a start of s.
LEMMA OnlyTheStart ==
  ASSUME NEW S, NEW s \in Seq(S), NEW K, NEW d \in 0..Len(s),
         \A k \in 1..Len(s) : s[k] \in K <=> k <= d
  PROVE  Only(s, K) = SubSeq(s, 1, d)
<1>1. PICK f : IsKept(f, s, K, Len(s)) /\ Only(s, K) = f[Len(s)]
  BY OnlyIsKept
<1> DEFINE P == {m \in Nat : m <= Len(s) => f[m] = IF m <= d THEN SubSeq(s, 1, m) ELSE SubSeq(s, 1, d)}
<1>2. 0 \in P
  <2>1. SubSeq(s, 1, 0) = <<>>
    <3>1. Len(SubSeq(s, 1, 0)) = 0 /\ SubSeq(s, 1, 0) \in Seq(S)
      OBVIOUS
    <3>2. QED
      BY <3>1
  <2>2. f[0] = <<>>
    <3>1. Len(s) \in Nat
      OBVIOUS
    <3>2. QED
      BY <1>1, <3>1, KeptSteps
  <2>3. f[0] = IF 0 <= d THEN SubSeq(s, 1, 0) ELSE SubSeq(s, 1, d)
    BY <2>1, <2>2
  <2> DEFINE part(m) == IF m <= d THEN SubSeq(s, 1, m) ELSE SubSeq(s, 1, d)
  <2>4. f[0] = part(0)
    BY <2>3
  <2> HIDE DEF part
  <2>5. 0 \in {m \in Nat : m <= Len(s) => f[m] = part(m)}
    BY <2>4
  <2>6. QED
    BY <2>5 DEF part
<1>3. ASSUME NEW m \in Nat, m \in P PROVE m + 1 \in P
  <2> SUFFICES ASSUME m + 1 <= Len(s)
               PROVE  f[m + 1] = IF m + 1 <= d THEN SubSeq(s, 1, m + 1) ELSE SubSeq(s, 1, d)
    OBVIOUS
  <2>1. f[m + 1] = IF s[m + 1] \in K THEN Append(f[m], s[m + 1]) ELSE f[m]
    BY <1>1, KeptSteps
  <2>2. f[m] = IF m <= d THEN SubSeq(s, 1, m) ELSE SubSeq(s, 1, d)
    BY <1>3
  <2>3. CASE m + 1 <= d
    <3>1. s[m + 1] \in K /\ f[m] = SubSeq(s, 1, m)
      BY <2>2, <2>3
    <3>2. Append(SubSeq(s, 1, m), s[m + 1]) = SubSeq(s, 1, m + 1)
      <4> DEFINE t == Append(SubSeq(s, 1, m), s[m + 1])
                 u == SubSeq(s, 1, m + 1)
      <4>1. t \in Seq(S) /\ Len(t) = m + 1 /\ \A i \in 1..(m + 1) : t[i] = s[i]
        OBVIOUS
      <4>2. u \in Seq(S) /\ Len(u) = m + 1 /\ \A i \in 1..(m + 1) : u[i] = s[i]
        OBVIOUS
      <4> HIDE DEF t, u
      <4>3. t = u
        BY <4>1, <4>2
      <4>4. QED
        BY <4>3 DEF t, u
    <3>3. QED
      BY <2>1, <2>3, <3>1, <3>2
  <2>4. CASE m + 1 > d
    <3>1. s[m + 1] \notin K
      BY <2>4
    <3>2. QED
      BY <2>1, <2>2, <2>4, <3>1
  <2>5. QED
    BY <2>3, <2>4
<1>4. \A m \in Nat : m \in P
  <2> HIDE DEF P
  <2> QED BY <1>2, <1>3, NatInductionSet
<1>5. f[Len(s)] = IF Len(s) <= d THEN SubSeq(s, 1, Len(s)) ELSE SubSeq(s, 1, d)
  BY <1>4
<1>6. QED
  BY <1>1, <1>5

\* A filter that lets everything pass.
LEMMA OnlyAll ==
  ASSUME NEW S, NEW s \in Seq(S), NEW K, \A k \in 1..Len(s) : s[k] \in K
  PROVE  Only(s, K) = s
<1>1. Len(s) \in 0..Len(s) /\ \A k \in 1..Len(s) : s[k] \in K <=> k <= Len(s)
  OBVIOUS
<1>2. Only(s, K) = SubSeq(s, 1, Len(s))
  BY <1>1, OnlyTheStart
<1>3. QED
  BY <1>2
-------------------------------------------------------------------------------
(* A list of lists, flattened. *)

\* The recursion of FlattenSeq, up to n.
IsFlat(f, s, n) == f = [i \in 1..n |-> IF i = 1 THEN s[i] ELSE f[i - 1] \o s[i]]

\* The recursion has a solution.
LEMMA FlatExists ==
  ASSUME NEW s, NEW n \in Nat
  PROVE  \E f : IsFlat(f, s, n)
<1> DEFINE P == {m \in Nat : \E f : IsFlat(f, s, m)}
<1>1. 0 \in P
  <2>1. 1..0 = {}
    OBVIOUS
  <2>2. IsFlat([i \in {} |-> <<>>], s, 0)
    BY <2>1 DEF IsFlat
  <2>3. QED
    BY <2>2
<1>2. ASSUME NEW m \in Nat, m \in P PROVE m + 1 \in P
  <2>1. PICK f : IsFlat(f, s, m)
    BY <1>2
  <2> DEFINE next(i) == IF i = 1 THEN s[i] ELSE f[i - 1] \o s[i]
             g == [i \in 1..(m + 1) |-> next(i)]
             next2(i) == IF i = 1 THEN s[i] ELSE g[i - 1] \o s[i]
  <2>2. \A i \in 1..m : f[i] = next(i)
    BY <2>1 DEF IsFlat
  <2>3. \A i \in 1..(m + 1) : g[i] = next(i)
    OBVIOUS
  <2>4. \A i \in 1..(m + 1) : i # 1 => i - 1 \in 1..m /\ i - 1 \in 1..(m + 1)
    OBVIOUS
  <2>5. \A i \in 1..(m + 1) : next(i) = next2(i)
    <3> HIDE DEF g
    <3> SUFFICES ASSUME NEW i \in 1..(m + 1), i # 1 PROVE g[i - 1] = f[i - 1]
      OBVIOUS
    <3>1. i - 1 \in 1..m /\ i - 1 \in 1..(m + 1)
      BY <2>4
    <3> HIDE DEF next
    <3>2. QED
      BY <2>2, <2>3, <3>1
  <2>6. g = [i \in 1..(m + 1) |-> next2(i)]
    <3> HIDE DEF next, next2
    <3> QED BY <2>5
  <2>7. IsFlat(g, s, m + 1)
    <3> HIDE DEF g
    <3> QED BY <2>6 DEF IsFlat
  <2> HIDE DEF g
  <2>8. QED
    BY <2>7
<1>3. QED
  <2> HIDE DEF P
  <2>1. n \in P
    BY <1>1, <1>2, NatInductionSet
  <2>2. QED
    BY <2>1 DEF P

\* f has what the first so many lists give together.
Flattens(f, S, s) ==
  /\ f \in [0..Len(s) -> Seq(S)]
  /\ f[0] = <<>>
  /\ \A i \in 1..Len(s) : f[i] = f[i - 1] \o s[i]
LEMMA FlattenSteps ==
  ASSUME NEW S, NEW s \in Seq(Seq(S))
  PROVE  \E f : Flattens(f, S, s) /\ FlattenSeq(s) = f[Len(s)]
<1> DEFINE n == Len(s)
<1>1. CASE n = 0
  <2> DEFINE f == [i \in 0..0 |-> <<>>]
  <2>1. s = <<>> /\ FlattenSeq(s) = s
    BY <1>1 DEF FlattenSeq
  <2>2. f \in [0..0 -> Seq(S)] /\ f[0] = <<>>
    OBVIOUS
  <2> HIDE DEF f
  <2>3. Flattens(f, S, s)
    BY <1>1, <2>2 DEF Flattens
  <2>4. QED
    BY <1>1, <2>1, <2>2, <2>3
<1>2. CASE n # 0
  <2> DEFINE g == CHOOSE g : IsFlat(g, s, n)
  <2>1. n \in Nat /\ n >= 1
    BY <1>2
  <2>2. IsFlat(g, s, n)
    BY <2>1, FlatExists
  <2>3. FlattenSeq(s) = g[n]
    BY <1>2 DEF FlattenSeq, IsFlat
  <2> HIDE DEF g
  <2>4. \A i \in 1..n : g[i] = IF i = 1 THEN s[i] ELSE g[i - 1] \o s[i]
    BY <2>2 DEF IsFlat
  <2> DEFINE P == {m \in Nat : m + 1 <= n => g[m + 1] \in Seq(S)}
  <2>5. 0 \in P
    <3>1. 1 \in 1..n /\ s[1] \in Seq(S)
      BY <2>1
    <3>2. QED
      BY <2>4, <3>1
  <2>6. ASSUME NEW m \in Nat, m \in P PROVE m + 1 \in P
    <3> SUFFICES ASSUME m + 2 <= n PROVE g[m + 2] \in Seq(S)
      OBVIOUS
    <3>1. m + 2 \in 1..n /\ m + 2 # 1 /\ (m + 2) - 1 = m + 1 /\ g[m + 1] \in Seq(S)
      BY <2>6
    <3> DEFINE i == m + 2
    <3>2. i \in 1..n /\ i # 1 /\ i - 1 = m + 1
      BY <3>1
    <3> HIDE DEF i
    <3>3. g[i] = g[i - 1] \o s[i]
      BY <2>4, <3>2
    <3>4. s[i] \in Seq(S)
      BY <3>2
    <3>5. QED
      BY <3>1, <3>2, <3>3, <3>4 DEF i
  <2>7. \A m \in Nat : m \in P
    <3> HIDE DEF P
    <3> QED BY <2>5, <2>6, NatInductionSet
  <2> DEFINE f == [i \in 0..n |-> IF i = 0 THEN <<>> ELSE g[i]]
  <2>8. \A i \in 1..n : i - 1 \in Nat /\ (i - 1) + 1 = i /\ i # 0
    BY <2>1
  <2>9. ASSUME NEW i \in 1..n PROVE g[i] \in Seq(S)
    <3> DEFINE m == i - 1
    <3>1. m \in Nat /\ m + 1 = i /\ m + 1 <= n
      BY <2>1
    <3>2. m \in P
      <4> HIDE DEF P, m
      <4> QED BY <2>7, <3>1
    <3>3. g[m + 1] \in Seq(S)
      BY <3>1, <3>2
    <3>4. QED
      BY <3>1, <3>3
  <2>10. f[0] = <<>> /\ \A i \in 1..n : f[i] = g[i]
    BY <2>1
  <2>11. f \in [0..n -> Seq(S)]
    BY <2>1, <2>9
  <2>12. ASSUME NEW i \in 1..n PROVE f[i] = f[i - 1] \o s[i]
    <3>1. CASE i = 1
      <4>1. s[1] \in Seq(S) /\ <<>> \o s[1] = s[1]
        BY <3>1
      <4>2. g[i] = s[1] /\ f[i] = g[i] /\ f[0] = <<>> /\ i - 1 = 0
        BY <2>4, <2>10, <3>1
      <4> HIDE DEF f
      <4>3. QED
        BY <3>1, <4>1, <4>2
    <3>2. CASE i # 1
      <4>1. i - 1 \in 1..n
        BY <3>2
      <4> HIDE DEF f
      <4>2. QED
        BY <2>4, <2>10, <3>2, <4>1
    <3>3. QED
      BY <3>1, <3>2
  <2> HIDE DEF f
  <2>13. Flattens(f, S, s)
    BY <2>10, <2>11, <2>12 DEF Flattens
  <2>14. n \in 1..n
    BY <2>1
  <2>15. QED
    BY <2>3, <2>10, <2>13, <2>14
<1>3. QED
  BY <1>1, <1>2

\* What a list of lists has, put together, is what the lists have.
LEMMA FlattenMembers ==
  ASSUME NEW S, NEW s \in Seq(Seq(S))
  PROVE  /\ FlattenSeq(s) \in Seq(S)
         /\ Range(FlattenSeq(s)) = UNION {Range(s[k]) : k \in DOMAIN s}
<1>1. PICK f : Flattens(f, S, s) /\ FlattenSeq(s) = f[Len(s)]
  BY FlattenSteps
<1> DEFINE n == Len(s)
           all(m) == UNION {Range(s[k]) : k \in 1..m}
           P == {m \in Nat : m <= n => Range(f[m]) = all(m)}
<1>2. n \in Nat /\ DOMAIN s = 1..n /\ \A k \in 1..n : s[k] \in Seq(S)
  OBVIOUS
<1>3. \A m \in 0..n : f[m] \in Seq(S)
  BY <1>1 DEF Flattens
<1> HIDE DEF n
<1>4. 0 \in P
  <2>1. f[0] = <<>> /\ all(0) = {}
    BY <1>1 DEF Flattens
  <2>2. Range(f[0]) = {}
    BY <2>1 DEF Range
  <2>3. QED
    BY <2>1, <2>2
<1>5. \A m \in Nat : m \in P => m + 1 \in P
  <2> HIDE DEF all
  <2> SUFFICES ASSUME NEW m \in Nat, m <= n => Range(f[m]) = all(m)
               PROVE  m + 1 <= n => Range(f[m + 1]) = all(m + 1)
    <3>1. \A m \in Nat : m + 1 \in Nat
      OBVIOUS
    <3>2. QED
      BY <3>1
  <2> SUFFICES ASSUME m + 1 <= n
               PROVE  Range(f[m + 1]) = all(m + 1)
    OBVIOUS
  <2>1. m + 1 \in 1..n /\ (m + 1) - 1 = m /\ m \in 0..n /\ m <= n
    BY <1>2
  <2>2. f[m + 1] = f[m] \o s[m + 1]
    BY <1>1, <2>1 DEF Flattens, n
  <2>3. f[m] \in Seq(S) /\ s[m + 1] \in Seq(S)
    BY <1>2, <1>3, <2>1
  <2>4. Range(f[m] \o s[m + 1]) = Range(f[m]) \cup Range(s[m + 1])
    BY <2>3, RangeConcatenation
  <2>5. 1..(m + 1) = (1..m) \cup {m + 1}
    OBVIOUS
  <2>6. all(m + 1) = all(m) \cup Range(s[m + 1])
    BY <2>5 DEF all
  <2>7. Range(f[m]) = all(m)
    BY <2>1
  <2>8. QED
    BY <2>2, <2>4, <2>6, <2>7
<1>6. n \in P
  <2> HIDE DEF P
  <2> QED BY <1>2, <1>4, <1>5, NatInductionSet
<1>7. Range(f[n]) = all(n)
  BY <1>2, <1>6
<1>8. QED
  BY <1>1, <1>2, <1>3, <1>7 DEF n

\* What the filter keeps of a list is what is in the set.
LEMMA OnlyMembers ==
  ASSUME NEW S, NEW s \in Seq(S), NEW K
  PROVE  Only(s, K) \in Seq(S) /\ Range(Only(s, K)) = Range(s) \cap K
<1>1. PICK g : Embeds(g, Only(s, K), s, K, Len(s))
  BY OnlyEmbeds
<1> DEFINE t == Only(s, K)
<1>2. t \in Seq(S) /\ DOMAIN t = 1..Len(t) /\ DOMAIN s = 1..Len(s)
  BY OnlyEmbeds
<1> HIDE DEF t
<1>3. /\ \A i \in 1..Len(t) : g[i] \in 1..Len(s) /\ t[i] = s[g[i]] /\ t[i] \in K
      /\ \A k \in 1..Len(s) : s[k] \in K => \E i \in 1..Len(t) : g[i] = k
  BY <1>1 DEF Embeds, t
<1>4. Range(t) = Range(s) \cap K
  <2>1. Range(t) \subseteq Range(s) \cap K
    BY <1>2, <1>3 DEF Range
  <2>2. ASSUME NEW k \in 1..Len(s), s[k] \in K
        PROVE  s[k] \in Range(t)
    BY <1>2, <1>3, <2>2 DEF Range
  <2>3. QED
    BY <1>2, <2>1, <2>2 DEF Range
<1>5. QED
  BY <1>2, <1>4 DEF t

\* The values of a function on a finite set are finitely many.
LEMMA FiniteValues ==
  ASSUME NEW S, IsFiniteSet(S), NEW f
  PROVE  IsFiniteSet({f[x] : x \in S})
<1> DEFINE T == {f[x] : x \in S}
           g == [x \in S |-> f[x]]
<1>1. g \in Surjection(S, T)
  BY DEF Surjection
<1> HIDE DEF g, T
<1>2. QED
  BY <1>1, FS_Surjection DEF T
================================================================================
