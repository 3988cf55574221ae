------------------------ MODULE RequestTelemetryProofs ------------------------
(***************************************************************************)
(* Theorems about RequestTelemetry: what the counters and the log hold,    *)
(* for every finite set of requests, every amount they count and any       *)
(* number of crashes.  At the end, the other keeper of totals: what the    *)
(* worker of the browser extension has in its storage.                     *)
(***************************************************************************)
EXTENDS RequestTelemetry, ExtensionWorker, FoldFacts

\* Types.
TypeInv ==
  /\ counters \in [Counter -> Nat]
  /\ file \in Seq(Requests \cup {Newline})
  /\ pc \in [Requests -> PC]
  /\ todo \in [Requests -> SUBSET Counter]
  /\ crashes \in Nat /\ inherited \in Nat
  /\ poll \in [lines : Nat \cup {-1}, requests : Nat \cup {-1}]

\* The initial state has the types.
LEMMA InitTypeInv == Init => TypeInv
BY DEF Init, TypeInv, Zero, Idle, PC

\* A file has a natural number of lines.
LEMMA LinesTyped ==
  ASSUME NEW f \in Seq(Requests \cup {Newline})
  PROVE  Lines(f) \in Nat
<1>1. IsFiniteSet({i \in 1..Len(f) : IsNewline(f[i])})
  BY FS_Interval, FS_Subset
<1>2. QED
  BY <1>1, FS_CardinalityType DEF Lines

\* What each request adds to counter c.
Amounts(c) == [r \in Requests |-> Amount[r][c]]

\* Sum, a fold of the community modules, is the sum of FoldFacts.
LEMMA SumIsOver ==
  ASSUME NEW c \in Counter, NEW S \in SUBSET Requests
  PROVE  Sum(c, S) = SumOver(Amounts(c), S)
<1> DEFINE Rec(f) == f = [s \in SUBSET S |->
                            IF s = {} THEN 0
                            ELSE Amount[CHOOSE x \in s : TRUE][c]
                                 + f[s \ {CHOOSE x \in s : TRUE}]]
<1>1. Sum(c, S) = (CHOOSE f : Rec(f))[S]
  BY DEF Sum, MapThenSumSet, MapThenFoldSet
<1>2. IsFiniteSet(S) /\ \A x \in S : Amounts(c)[x] \in Int
  BY RequestsAssumption, AmountAssumption, FS_Subset DEF Amounts
<1>3. \A f : Rec(f) <=> IsSum(f, Amounts(c), S)
  <2>1. \A s \in SUBSET S : s # {} =>
           Amounts(c)[Pick(s)] = Amount[CHOOSE x \in s : TRUE][c]
    BY PickFacts DEF Amounts, Pick
  <2>2. TAKE f
  <2> DEFINE a == [s \in SUBSET S |->
                     IF s = {} THEN 0
                     ELSE Amount[CHOOSE x \in s : TRUE][c]
                          + f[s \ {CHOOSE x \in s : TRUE}]]
             b == [s \in SUBSET S |->
                     IF s = {} THEN 0 ELSE Amounts(c)[Pick(s)] + f[s \ {Pick(s)}]]
  <2>3. a = b
    BY <2>1 DEF Pick
  <2>4. QED
    BY <2>3 DEF IsSum
<1>4. \E f : Rec(f)
  <2> HIDE DEF Rec
  <2>1. PICK f : IsSum(f, Amounts(c), S)
    BY <1>2, SumExists
  <2>2. QED
    BY <2>1, <1>3
<1>5. IsSum(CHOOSE f : Rec(f), Amounts(c), S)
  <2> HIDE DEF Rec
  <2>1. Rec(CHOOSE f : Rec(f))
    BY <1>4
  <2>2. QED
    BY <2>1, <1>3
<1>6. QED
  <2> HIDE DEF Rec
  <2> QED BY <1>1, <1>2, <1>5, SumIsRecursive

\* What the sums of a counter are made of.
LEMMA SumFacts ==
  ASSUME NEW c \in Counter, NEW S \in SUBSET Requests
  PROVE  /\ Sum(c, S) \in Nat
         /\ Sum(c, {}) = 0
         /\ \A r \in Requests \ S : Sum(c, S \cup {r}) = Sum(c, S) + Amount[r][c]
         /\ \A r \in S : Sum(c, S) = Sum(c, S \ {r}) + Amount[r][c]
         /\ \A T \in SUBSET S : Sum(c, T) <= Sum(c, S)
         /\ c = "total_requests" => Sum(c, S) = Cardinality(S)
<1>1. \A T \in SUBSET Requests : /\ IsFiniteSet(T)
                                 /\ Sum(c, T) = SumOver(Amounts(c), T)
                                 /\ \A x \in T : Amounts(c)[x] \in Nat
                                 /\ \A x \in T : Amounts(c)[x] \in Int
  BY RequestsAssumption, AmountAssumption, FS_Subset, SumIsOver DEF Amounts
<1>2. \A T \in SUBSET Requests : \A r \in T :
         Sum(c, T) = Sum(c, T \ {r}) + Amount[r][c]
  <2> TAKE T \in SUBSET Requests
  <2> TAKE r \in T
  <2>1. SumOver(Amounts(c), T) = Amounts(c)[r] + SumOver(Amounts(c), T \ {r})
    BY <1>1, SumRemove
  <2>2. SumOver(Amounts(c), T \ {r}) \in Int
    BY <1>1, SumPick
  <2>3. Amounts(c)[r] = Amount[r][c] /\ Amounts(c)[r] \in Int
    BY <1>1 DEF Amounts
  <2>4. T \ {r} \in SUBSET Requests
    OBVIOUS
  <2>5. QED
    BY <1>1, <2>1, <2>2, <2>3, <2>4
<1>3. Sum(c, {}) = 0
  BY <1>1, SumPick
<1>4. \A T \in SUBSET S : Sum(c, T) <= Sum(c, S)
  BY <1>1, SumMonotone
<1>5. Sum(c, S) \in Nat
  <2>1. Sum(c, S) \in Int
    BY <1>1, SumPick
  <2>2. 0 <= Sum(c, S)
    BY <1>3, <1>4
  <2>3. QED
    BY <2>1, <2>2
<1>6. ASSUME NEW r \in Requests \ S
      PROVE  Sum(c, S \cup {r}) = Sum(c, S) + Amount[r][c]
  <2>1. (S \cup {r}) \ {r} = S /\ S \cup {r} \in SUBSET Requests /\ r \in S \cup {r}
    OBVIOUS
  <2>2. QED
    BY <1>2, <2>1
<1>7. c = "total_requests" => Sum(c, S) = Cardinality(S)
  <2> SUFFICES ASSUME c = "total_requests"
               PROVE  Sum(c, S) = Cardinality(S)
    OBVIOUS
  <2>1. \A x \in S : Amounts(c)[x] = 1
    BY AmountAssumption DEF Amounts
  <2>2. QED
    BY <1>1, <2>1, SumOfOnes
<1>8. QED
  BY <1>2, <1>3, <1>4, <1>5, <1>6, <1>7
-------------------------------------------------------------------------------
\* A handler has only those counters left to add to that it is at.
TodoFits ==
  \A r \in Requests :
    /\ pc[r] = "response" => todo[r] \subseteq ResponseCounter /\ r \in Compresses
    /\ pc[r] = "analytics" => todo[r] \subseteq RequestCounter

\* The requests whose compressed answers are in counter c, and that the handler
\* has not given up since.
Responded(c) ==
  {r \in Compresses :
     \/ pc[r] \in {"upstream", "analytics", "json", "newline", "done"}
     \/ pc[r] = "response" /\ c \notin todo[r]}

\* What is in each counter.  The response counters may hold more: an answer stays
\* counted when the client leaves or the upstream fails.
SumsMatch ==
  /\ \A c \in RequestCounter :
       counters[c] = Sum(c, Counted) + Sum(c, BeingCounted(c))
  /\ \A c \in ResponseCounter : counters[c] >= Sum(c, Responded(c))

CountInv == TypeInv /\ TodoFits /\ SumsMatch

\* Every step keeps the types.
LEMMA NextTypeInv == TypeInv /\ [Next]_vars => TypeInv'
<1> SUFFICES ASSUME TypeInv, [Next]_vars PROVE TypeInv'
  OBVIOUS
<1> USE DEF TypeInv
<1>1. ASSUME NEW r \in Requests, Handle(r) PROVE TypeInv'
  <2>1. CASE PipelineDone(r)
    BY <2>1 DEF PipelineDone, Goto, PC, Counter
  <2>2. CASE Add(r)
    <3>1. PICK c \in todo[r] :
             /\ counters' = [counters EXCEPT ![c] = Increased(r, c)]
             /\ todo' = [todo EXCEPT ![r] = @ \ {c}]
      BY <2>2 DEF Add
    <3>2. c \in Counter /\ Increased(r, c) \in Nat
      BY AmountAssumption DEF Increased
    <3>3. QED
      BY <2>2, <3>1, <3>2 DEF Add
  <2>3. CASE Added(r)
    BY <2>3 DEF Added, Goto, PC
  <2>4. CASE UpstreamAnswers(r)
    BY <2>4 DEF UpstreamAnswers, Goto, PC, Counter
  <2>5. CASE UpstreamFails(r)
    BY <2>5 DEF UpstreamFails, Goto, PC
  <2>6. CASE WriteJson(r)
    BY <2>6 DEF WriteJson, Goto, PC
  <2>7. CASE WriteNewline(r)
    BY <2>7 DEF WriteNewline, Goto, PC, LineEnd
  <2>8. CASE Disconnect(r)
    BY <2>8 DEF Disconnect, PC
  <2>9. QED
    BY <1>1, <2>1, <2>2, <2>3, <2>4, <2>5, <2>6, <2>7, <2>8 DEF Handle
<1>2. CASE Crash
  BY <1>2, LinesTyped DEF Crash, Zero, PC, Idle
<1>3. CASE PollFile
  BY <1>3, LinesTyped DEF PollFile, Reported
<1>4. CASE PollAnalytics
  BY <1>4 DEF PollAnalytics, Counter, RequestCounter
<1>5. CASE PollAnswered
  BY <1>5 DEF PollAnswered, Idle
<1>6. CASE UNCHANGED vars
  BY <1>6 DEF vars
<1>7. QED
  BY <1>1, <1>2, <1>3, <1>4, <1>5, <1>6 DEF Next

\* Every step keeps the lists of what is left to add.
LEMMA NextTodoFits == TypeInv /\ TodoFits /\ [Next]_vars => TodoFits'
<1> SUFFICES ASSUME TypeInv, TodoFits, [Next]_vars PROVE TodoFits'
  OBVIOUS
<1> USE DEF TypeInv, TodoFits
<1>1. ASSUME NEW r \in Requests, Handle(r) PROVE TodoFits'
  <2>1. CASE PipelineDone(r)
    BY <2>1 DEF PipelineDone, Goto
  <2>2. CASE Add(r)
    BY <2>2 DEF Add
  <2>3. CASE Added(r)
    BY <2>3 DEF Added, Goto
  <2>4. CASE UpstreamAnswers(r)
    BY <2>4 DEF UpstreamAnswers, Goto
  <2>5. CASE UpstreamFails(r)
    BY <2>5 DEF UpstreamFails, Goto
  <2>6. CASE WriteJson(r)
    BY <2>6 DEF WriteJson, Goto
  <2>7. CASE WriteNewline(r)
    BY <2>7 DEF WriteNewline, Goto
  <2>8. CASE Disconnect(r)
    BY <2>8 DEF Disconnect
  <2>9. QED
    BY <1>1, <2>1, <2>2, <2>3, <2>4, <2>5, <2>6, <2>7, <2>8 DEF Handle
<1>2. CASE Crash
  BY <1>2 DEF Crash
<1>3. CASE UNCHANGED <<pc, todo>>
  BY <1>3
<1>4. QED
  BY <1>1, <1>2, <1>3 DEF Next, PollFile, PollAnalytics, PollAnswered, vars

\* A step that changes no counter and none of the counted sets keeps SumsMatch.
LEMMA SameSums ==
  ASSUME SumsMatch, counters' = counters,
         Counted' = Counted,
         \A c \in RequestCounter : BeingCounted(c)' = BeingCounted(c),
         \A c \in ResponseCounter : Responded(c)' = Responded(c)
  PROVE  SumsMatch'
BY DEF SumsMatch

\* Every step keeps SumsMatch: an addition moves a request into the set of its
\* counter, and the step to "json" moves it from BeingCounted to Counted.
LEMMA NextSumsMatch == CountInv /\ [Next]_vars => SumsMatch'
<1> SUFFICES ASSUME CountInv, [Next]_vars PROVE SumsMatch'
  OBVIOUS
<1> USE DEF CountInv, TypeInv, TodoFits
<1>c. RequestCounter \cap ResponseCounter = {} /\ Counter = RequestCounter \cup ResponseCounter
  BY DEF RequestCounter, ResponseCounter, Counter
<1>s. Compresses \subseteq Requests
  BY AmountAssumption
<1>1. ASSUME NEW r \in Requests, PipelineDone(r) PROVE SumsMatch'
  <2>1. Counted' = Counted
    BY <1>1 DEF PipelineDone, Goto, Counted
  <2>2. \A c \in RequestCounter : BeingCounted(c)' = BeingCounted(c)
    BY <1>1 DEF PipelineDone, Goto, BeingCounted
  <2>3. \A c \in ResponseCounter : Responded(c)' = Responded(c)
    BY <1>1, <1>s DEF PipelineDone, Goto, Responded
  <2>4. QED
    BY <2>1, <2>2, <2>3, <1>1, SameSums DEF PipelineDone
<1>2. ASSUME NEW r \in Requests, Add(r) PROVE SumsMatch'
  <2>1. PICK a \in todo[r] :
           /\ counters' = [counters EXCEPT ![a] = counters[a] + Amount[r][a]]
           /\ todo' = [todo EXCEPT ![r] = @ \ {a}]
    BY <1>2 DEF Add, Increased
  <2>2. a \in Counter /\ pc' = pc /\ pc[r] \in {"response", "analytics"}
    BY <1>2 DEF Add
  <2>3. Counted' = Counted /\ Counted \in SUBSET Requests
    BY <2>2 DEF Counted
  <2>4. ASSUME NEW c \in RequestCounter
        PROVE  counters'[c] = Sum(c, Counted') + Sum(c, BeingCounted(c)')
    <3>0. counters[c] = Sum(c, Counted) + Sum(c, BeingCounted(c)) /\ c \in Counter
      BY <1>c DEF SumsMatch
    <3>1. CASE c = a
      <4>1. pc[r] = "analytics"
        BY <2>2, <3>1, <1>c
      <4>2. r \notin BeingCounted(c) /\ BeingCounted(c) \in SUBSET Requests
        BY <3>1 DEF BeingCounted
      <4>3. BeingCounted(c)' = BeingCounted(c) \cup {r}
        BY <2>1, <2>2, <3>1, <4>1 DEF BeingCounted
      <4>4. Sum(c, BeingCounted(c) \cup {r}) = Sum(c, BeingCounted(c)) + Amount[r][c]
        BY <3>0, <4>2, SumFacts
      <4>5. /\ Sum(c, BeingCounted(c)) \in Nat /\ Sum(c, Counted) \in Nat
            /\ Amount[r][c] \in Nat
        BY <2>3, <3>0, <4>2, SumFacts, AmountAssumption
      <4>6. counters'[c] = counters[c] + Amount[r][c]
        BY <2>1, <2>2, <3>1
      <4>7. QED
        BY <2>3, <3>0, <4>3, <4>4, <4>5, <4>6
    <3>2. CASE c # a
      <4>1. BeingCounted(c)' = BeingCounted(c)
        BY <2>1, <2>2, <3>2 DEF BeingCounted
      <4>2. counters'[c] = counters[c]
        BY <2>1, <2>2, <3>0, <3>2
      <4>3. QED
        BY <2>3, <3>0, <4>1, <4>2
    <3>3. QED
      BY <3>1, <3>2
  <2>5. ASSUME NEW c \in ResponseCounter
        PROVE  counters'[c] >= Sum(c, Responded(c)')
    <3>0. counters[c] >= Sum(c, Responded(c)) /\ c \in Counter
      BY <1>c DEF SumsMatch
    <3>1. CASE c = a
      <4>1. pc[r] = "response" /\ r \in Compresses
        BY <2>2, <3>1, <1>c
      <4>2. r \notin Responded(c) /\ Responded(c) \in SUBSET Requests
        BY <3>1, <4>1, <1>s DEF Responded
      <4>3. Responded(c)' = Responded(c) \cup {r}
        BY <2>1, <2>2, <3>1, <4>1 DEF Responded
      <4>4. Sum(c, Responded(c) \cup {r}) = Sum(c, Responded(c)) + Amount[r][c]
        BY <3>0, <4>2, SumFacts
      <4>5. Sum(c, Responded(c)) \in Nat /\ Amount[r][c] \in Nat
        BY <3>0, <4>2, SumFacts, AmountAssumption
      <4>6. counters'[c] = counters[c] + Amount[r][c] /\ counters[c] \in Nat
        BY <2>1, <2>2, <3>1
      <4>7. QED
        BY <3>0, <4>3, <4>4, <4>5, <4>6
    <3>2. CASE c # a
      <4>1. Responded(c)' = Responded(c)
        BY <2>1, <2>2, <3>2 DEF Responded
      <4>2. counters'[c] = counters[c]
        BY <2>1, <2>2, <3>0, <3>2
      <4>3. QED
        BY <3>0, <4>1, <4>2
    <3>3. QED
      BY <3>1, <3>2
  <2>6. QED
    BY <2>4, <2>5 DEF SumsMatch
<1>3. ASSUME NEW r \in Requests, Added(r) PROVE SumsMatch'
  <2>1. CASE pc[r] = "response"
    <3>1. Counted' = Counted
      BY <1>3, <2>1 DEF Added, Goto, Counted
    <3>2. \A c \in RequestCounter : BeingCounted(c)' = BeingCounted(c)
      BY <1>3, <2>1 DEF Added, Goto, BeingCounted
    <3>3. \A c \in ResponseCounter : Responded(c)' = Responded(c)
      BY <1>3, <2>1, <1>s DEF Added, Goto, Responded
    <3>4. QED
      BY <3>1, <3>2, <3>3, <1>3, SameSums DEF Added
  <2>2. CASE pc[r] = "analytics"
    <3>1. Counted' = Counted \cup {r} /\ r \notin Counted /\ Counted \in SUBSET Requests
      BY <1>3, <2>2 DEF Added, Goto, Counted
    <3>2. \A c \in RequestCounter :
             /\ BeingCounted(c)' = BeingCounted(c) \ {r}
             /\ r \in BeingCounted(c) /\ BeingCounted(c) \in SUBSET Requests
      BY <1>3, <2>2 DEF Added, Goto, BeingCounted
    <3>3. \A c \in ResponseCounter : Responded(c)' = Responded(c)
      BY <1>3, <2>2, <1>s DEF Added, Goto, Responded
    <3>4. counters' = counters
      BY <1>3 DEF Added
    <3>5. ASSUME NEW c \in RequestCounter
          PROVE  Sum(c, Counted \cup {r}) + Sum(c, BeingCounted(c) \ {r})
                   = Sum(c, Counted) + Sum(c, BeingCounted(c))
      <4>1. Sum(c, Counted \cup {r}) = Sum(c, Counted) + Amount[r][c]
        BY <3>1, <1>c, SumFacts
      <4>2. Sum(c, BeingCounted(c)) = Sum(c, BeingCounted(c) \ {r}) + Amount[r][c]
        BY <3>2, <1>c, SumFacts
      <4>3. /\ Sum(c, Counted) \in Nat /\ Sum(c, BeingCounted(c) \ {r}) \in Nat
            /\ Amount[r][c] \in Nat
        BY <3>1, <3>2, <1>c, SumFacts, AmountAssumption
      <4>4. QED
        BY <4>1, <4>2, <4>3
    <3>6. QED
      BY <3>1, <3>2, <3>3, <3>4, <3>5 DEF SumsMatch
  <2>3. QED
    BY <1>3, <2>1, <2>2 DEF Added, Goto
<1>4. ASSUME NEW r \in Requests, UpstreamAnswers(r) PROVE SumsMatch'
  <2>1. Counted' = Counted
    BY <1>4 DEF UpstreamAnswers, Goto, Counted
  <2>2. \A c \in RequestCounter : BeingCounted(c)' = BeingCounted(c)
    BY <1>4 DEF UpstreamAnswers, Goto, BeingCounted
  <2>3. \A c \in ResponseCounter : Responded(c)' = Responded(c)
    BY <1>4, <1>s DEF UpstreamAnswers, Goto, Responded
  <2>4. QED
    BY <2>1, <2>2, <2>3, <1>4, SameSums DEF UpstreamAnswers
<1>5. ASSUME NEW r \in Requests, WriteJson(r) \/ WriteNewline(r) PROVE SumsMatch'
  <2>1. Counted' = Counted
    BY <1>5 DEF WriteJson, WriteNewline, Goto, Counted
  <2>2. \A c \in RequestCounter : BeingCounted(c)' = BeingCounted(c)
    BY <1>5 DEF WriteJson, WriteNewline, Goto, BeingCounted
  <2>3. \A c \in ResponseCounter : Responded(c)' = Responded(c)
    BY <1>5, <1>s DEF WriteJson, WriteNewline, Goto, Responded
  <2>4. QED
    BY <2>1, <2>2, <2>3, <1>5, SameSums DEF WriteJson, WriteNewline
<1>6. ASSUME NEW r \in Requests, UpstreamFails(r) \/ Disconnect(r) PROVE SumsMatch'
  <2>1. Counted' = Counted
    BY <1>6 DEF UpstreamFails, Disconnect, Awaits, Goto, Counted
  <2>2. \A c \in RequestCounter : BeingCounted(c)' = BeingCounted(c)
    BY <1>6 DEF UpstreamFails, Disconnect, Awaits, Goto, BeingCounted
  <2>3. \A c \in ResponseCounter :
           Responded(c)' \in SUBSET Responded(c) /\ Responded(c) \in SUBSET Requests
    BY <1>6, <1>s DEF UpstreamFails, Disconnect, Awaits, Goto, Responded
  <2>4. counters' = counters
    BY <1>6 DEF UpstreamFails, Disconnect
  <2>5. ASSUME NEW c \in ResponseCounter
        PROVE  counters'[c] >= Sum(c, Responded(c)')
    <3>1. Sum(c, Responded(c)') <= Sum(c, Responded(c))
      BY <2>3, <1>c, SumFacts
    <3>2. Sum(c, Responded(c)') \in Nat /\ Sum(c, Responded(c)) \in Nat
      BY <2>3, <1>c, SumFacts
    <3>3. counters[c] >= Sum(c, Responded(c)) /\ counters[c] \in Nat
      BY <1>c DEF SumsMatch
    <3>4. QED
      BY <2>4, <3>1, <3>2, <3>3
  <2>6. QED
    BY <2>1, <2>2, <2>4, <2>5 DEF SumsMatch
<1>7. CASE Crash
  <2>1. Counted' = {}
    BY <1>7 DEF Crash, Counted
  <2>2. \A c : BeingCounted(c)' = {}
    BY <1>7 DEF Crash, BeingCounted
  <2>3. \A c : Responded(c)' = {}
    BY <1>7, <1>s DEF Crash, Responded
  <2>4. counters' = Zero
    BY <1>7 DEF Crash
  <2>5. \A c \in Counter : Sum(c, {}) = 0 /\ Zero[c] = 0
    BY SumFacts DEF Zero
  <2>6. ASSUME NEW c \in RequestCounter
        PROVE  counters'[c] = Sum(c, Counted') + Sum(c, BeingCounted(c)')
    <3>1. Sum(c, Counted') = 0 /\ Sum(c, BeingCounted(c)') = 0
      BY <1>c, <2>1, <2>2, <2>5
    <3>2. counters'[c] = 0
      BY <1>c, <2>4, <2>5
    <3>3. QED
      BY <3>1, <3>2
  <2>7. ASSUME NEW c \in ResponseCounter
        PROVE  counters'[c] >= Sum(c, Responded(c)')
    <3>1. Sum(c, Responded(c)') = 0
      BY <1>c, <2>3, <2>5
    <3>2. counters'[c] = 0
      BY <1>c, <2>4, <2>5
    <3>3. QED
      BY <3>1, <3>2
  <2>8. QED
    BY <2>6, <2>7 DEF SumsMatch
<1>8. CASE UNCHANGED <<counters, pc, todo>>
  <2>1. Counted' = Counted /\ counters' = counters
    BY <1>8 DEF Counted
  <2>2. \A c : BeingCounted(c)' = BeingCounted(c)
    BY <1>8 DEF BeingCounted
  <2>3. \A c : Responded(c)' = Responded(c)
    BY <1>8 DEF Responded
  <2>4. QED
    BY <2>1, <2>2, <2>3, SameSums
<1>9. QED
  BY <1>1, <1>2, <1>3, <1>4, <1>5, <1>6, <1>7, <1>8
     DEF Next, Handle, PollFile, PollAnalytics, PollAnswered, vars
-------------------------------------------------------------------------------
\* The lines of a file that have their newline, and whether it ends in one.
Newlines(f) == {i \in 1..Len(f) : IsNewline(f[i])}
Ended(f) == Cardinality(Newlines(f))
Torn(f) == f # <<>> /\ ~IsNewline(f[Len(f)])

\* The lines are those with a newline, and perhaps one without.
LEMMA LinesFacts ==
  ASSUME NEW f \in Seq(Requests \cup {Newline})
  PROVE  /\ IsFiniteSet(Newlines(f)) /\ Ended(f) \in Nat
         /\ Lines(f) = IF Torn(f) THEN Ended(f) + 1 ELSE Ended(f)
<1>1. IsFiniteSet(Newlines(f))
  BY FS_Interval, FS_Subset DEF Newlines
<1>2. QED
  BY <1>1, FS_CardinalityType DEF Lines, Ended, Newlines, Torn, Last

\* The JSON of a request ends no line.
LEMMA AppendJson ==
  ASSUME NEW f \in Seq(Requests \cup {Newline}), NEW r \in Requests
  PROVE  Ended(Append(f, r)) = Ended(f) /\ Torn(Append(f, r))
<1>1. ~IsNewline(r)
  BY NewlineAssumption DEF IsNewline
<1>2. Newlines(Append(f, r)) = Newlines(f)
  BY <1>1 DEF Newlines
<1>3. QED
  BY <1>1, <1>2 DEF Ended, Torn

\* A newline ends one.
LEMMA AppendNewline ==
  ASSUME NEW f \in Seq(Requests \cup {Newline})
  PROVE  Ended(f \o LineEnd) = Ended(f) + 1 /\ ~Torn(f \o LineEnd)
<1> DEFINE g == f \o LineEnd
<1>1. /\ g \in Seq(Requests \cup {Newline})
      /\ Len(g) = Len(f) + 1 /\ g[Len(f) + 1] = Newline
      /\ \A i \in 1..Len(f) : g[i] = f[i]
  BY DEF LineEnd
<1>2. Newlines(g) = Newlines(f) \cup {Len(f) + 1}
  BY <1>1 DEF Newlines, IsNewline
<1>3. Len(f) + 1 \notin Newlines(f)
  BY DEF Newlines
<1>4. Cardinality(Newlines(g)) = Cardinality(Newlines(f)) + 1
  BY <1>2, <1>3, LinesFacts, FS_AddElement
<1>5. QED
  BY <1>1, <1>4 DEF Ended, Torn, IsNewline

\* Missing is the number of requests whose newline went to the end of a line that
\* was already counted when the process started: the one a crash had left torn.
Finished == {r \in Requests : pc[r] = "done"}
AtNewline == {r \in Requests : pc[r] = "newline"}
Missing == inherited + Cardinality(Finished) - Ended(file)

\* At most one line is missing, only after a crash, and the file ends without a
\* newline only while a handler is between its two writes or before the first
\* write of a process that inherited a torn line.
LineInv ==
  /\ Missing \in {0, 1}
  /\ Missing = 1 => crashes > 0
  /\ Torn(file) /\ AtNewline = {} => Logged = {} /\ Missing = 1
  /\ Logged = {} => (Torn(file) <=> Missing = 1)

\* The empty file of the first process has no line torn or missing.
LEMMA InitLineInv == Init => LineInv
<1> SUFFICES ASSUME Init PROVE LineInv
  OBVIOUS
<1>1. Finished = {} /\ Logged = {} /\ AtNewline = {}
  BY DEF Init, Finished, Logged, AtNewline
<1>2. Newlines(file) = {} /\ ~Torn(file)
  BY DEF Init, Newlines, Torn
<1>3. QED
  BY <1>1, <1>2, FS_EmptySet DEF Init, LineInv, Missing, Ended

\* Every step keeps LineInv.
LEMMA NextLineInv == TypeInv /\ LineInv /\ [Next]_vars => LineInv'
<1> SUFFICES ASSUME TypeInv, LineInv, [Next]_vars PROVE LineInv'
  OBVIOUS
<1>f. IsFiniteSet(Finished) /\ Cardinality(Finished) \in Nat
  BY RequestsAssumption, FS_Subset, FS_CardinalityType DEF Finished
<1>e. Ended(file) \in Nat /\ Missing \in Int
  BY <1>f, LinesFacts DEF TypeInv, Missing
<1>1. ASSUME NEW r \in Requests, WriteJson(r) PROVE LineInv'
  <2>1. Finished' = Finished
    BY <1>1 DEF WriteJson, Goto, Finished, TypeInv
  <2>2. r \in AtNewline' /\ r \in Logged'
    BY <1>1 DEF WriteJson, Goto, AtNewline, Logged, TypeInv
  <2>3. Ended(file') = Ended(file)
    BY <1>1, AppendJson DEF WriteJson, TypeInv
  <2>4. Missing' = Missing /\ crashes' = crashes
    BY <1>1, <2>1, <2>3 DEF WriteJson, Missing
  <2>5. QED
    BY <2>2, <2>4 DEF LineInv
<1>2. ASSUME NEW r \in Requests, WriteNewline(r) PROVE LineInv'
  <2>1. Finished' = Finished \cup {r} /\ r \notin Finished
    BY <1>2 DEF WriteNewline, Goto, Finished, TypeInv
  <2>2. r \in Logged'
    BY <1>2 DEF WriteNewline, Goto, Logged, TypeInv
  <2>3. Ended(file') = Ended(file) + 1 /\ ~Torn(file')
    BY <1>2, AppendNewline DEF WriteNewline, TypeInv
  <2>4. Cardinality(Finished') = Cardinality(Finished) + 1
    BY <1>f, <2>1, FS_AddElement
  <2>5. Missing' = Missing /\ crashes' = crashes
    BY <1>2, <1>e, <1>f, <2>3, <2>4 DEF WriteNewline, Missing, TypeInv
  <2>6. QED
    BY <2>2, <2>3, <2>5 DEF LineInv
<1>3. CASE Crash
  <2>1. Finished' = {} /\ Logged' = {} /\ AtNewline' = {}
    BY <1>3 DEF Crash, Finished, Logged, AtNewline
  <2>2. Missing' = Lines(file) - Ended(file) /\ crashes' > 0
    BY <1>3, <2>1, FS_EmptySet, LinesFacts DEF Crash, Missing, TypeInv
  <2>3. Missing' = IF Torn(file) THEN 1 ELSE 0
    BY <1>e, <2>2, LinesFacts DEF TypeInv
  <2>4. file' = file
    BY <1>3 DEF Crash
  <2>5. QED
    BY <2>1, <2>2, <2>3, <2>4 DEF LineInv
<1>4. ASSUME UNCHANGED <<file, crashes, inherited>>,
             Finished' = Finished, Logged' = Logged, AtNewline' = AtNewline
      PROVE  LineInv'
  BY <1>4 DEF LineInv, Missing
<1>5. ASSUME NEW r \in Requests,
             \/ PipelineDone(r) \/ Add(r) \/ Added(r) \/ UpstreamAnswers(r)
             \/ UpstreamFails(r) \/ Disconnect(r)
      PROVE  LineInv'
  <2>1. UNCHANGED <<file, crashes, inherited>>
    BY <1>5 DEF PipelineDone, Add, Added, UpstreamAnswers, UpstreamFails, Disconnect
  <2>2. /\ pc'[r] \notin {"newline", "done"} /\ pc[r] \notin {"newline", "done"}
        /\ \A q \in Requests \ {r} : pc'[q] = pc[q]
    BY <1>5 DEF PipelineDone, Add, Added, UpstreamAnswers, UpstreamFails,
                Disconnect, Awaits, Goto, TypeInv
  <2>3. Finished' = Finished /\ Logged' = Logged /\ AtNewline' = AtNewline
    BY <2>2 DEF Finished, Logged, AtNewline
  <2>4. QED
    BY <1>4, <2>1, <2>3
<1>6. CASE UNCHANGED <<file, pc, crashes, inherited>>
  <2>1. Finished' = Finished /\ Logged' = Logged /\ AtNewline' = AtNewline
    BY <1>6 DEF Finished, Logged, AtNewline
  <2>2. QED
    BY <1>4, <1>6, <2>1
<1>7. QED
  BY <1>1, <1>2, <1>3, <1>5, <1>6
     DEF Next, Handle, PollFile, PollAnalytics, PollAnswered, vars

\* LineInv bounds the lines by the requests.
LEMMA LineInvLines == TypeInv /\ LineInv => LinesAreRequests
<1> SUFFICES ASSUME TypeInv, LineInv PROVE LinesAreRequests
  OBVIOUS
<1>1. /\ IsFiniteSet(Finished) /\ Cardinality(Finished) \in Nat
      /\ IsFiniteSet(Logged) /\ Cardinality(Logged) \in Nat
  BY RequestsAssumption, FS_Subset, FS_CardinalityType DEF Finished, Logged
<1>2. /\ Cardinality(Finished) <= Cardinality(Logged)
      /\ AtNewline # {} => Cardinality(Finished) + 1 <= Cardinality(Logged)
      /\ AtNewline = {} => Finished = Logged
  <2>1. Finished \subseteq Logged /\ Logged = Finished \cup AtNewline
    BY DEF Finished, Logged, AtNewline
  <2>2. ASSUME NEW r \in AtNewline
        PROVE  Cardinality(Finished) + 1 <= Cardinality(Logged)
    <3>1. r \notin Finished /\ Finished \cup {r} \subseteq Logged
      BY <2>1 DEF Finished, AtNewline
    <3>2. Cardinality(Finished \cup {r}) = Cardinality(Finished) + 1
      BY <1>1, <3>1, FS_AddElement
    <3>3. QED
      BY <1>1, <3>1, <3>2, FS_Subset
  <2>3. QED
    BY <1>1, <2>1, <2>2, FS_Subset
<1>3. /\ Ended(file) \in Nat
      /\ Lines(file) = IF Torn(file) THEN Ended(file) + 1 ELSE Ended(file)
      /\ inherited \in Nat /\ crashes \in Nat
  BY LinesFacts DEF TypeInv
<1>4. Lines(file) - inherited <= Cardinality(Logged)
  BY <1>1, <1>2, <1>3, FS_EmptySet DEF LineInv, Missing
<1>5. ASSUME \A r \in Requests : pc[r] # "newline"
      PROVE  Lines(file) - inherited
               >= Cardinality(Logged) - (IF crashes > 0 THEN 1 ELSE 0)
  <2>1. AtNewline = {}
    BY <1>5 DEF AtNewline
  <2>2. QED
    BY <1>1, <1>2, <1>3, <2>1 DEF LineInv, Missing
<1>6. QED
  BY <1>4, <1>5 DEF LinesAreRequests
-------------------------------------------------------------------------------
\* What a poll has read of the file is covered by the counters from then on:
\* they only grow, until a crash ends the poll.
PollInv ==
  /\ poll.lines = -1 => poll.requests = -1
  /\ poll.lines # -1 => poll.lines - inherited <= counters["total_requests"]
  /\ poll.requests # -1 => poll.lines - inherited <= poll.requests

\* At every moment the counters cover the file.
LEMMA CountersCoverLines ==
  CountInv /\ LineInv => Reported(file) - inherited <= counters["total_requests"]
<1> SUFFICES ASSUME CountInv, LineInv
             PROVE  Reported(file) - inherited <= counters["total_requests"]
  OBVIOUS
<1> DEFINE c == "total_requests"
<1>1. c \in RequestCounter /\ c \in Counter
  BY DEF RequestCounter, Counter
<1>2. Counted \in SUBSET Requests /\ BeingCounted(c) \in SUBSET Requests
  BY DEF Counted, BeingCounted
<1>3. Sum(c, Counted) = Cardinality(Counted) /\ Sum(c, BeingCounted(c)) \in Nat
  BY <1>1, <1>2, SumFacts
<1>4. counters[c] >= Cardinality(Counted) /\ Cardinality(Counted) \in Nat
  <2>1. Cardinality(Counted) \in Nat
    BY <1>2, RequestsAssumption, FS_Subset, FS_CardinalityType
  <2>2. counters[c] = Sum(c, Counted) + Sum(c, BeingCounted(c))
    BY <1>1 DEF CountInv, SumsMatch
  <2>3. QED
    BY <1>3, <2>1, <2>2
<1>5. Cardinality(Logged) <= Cardinality(Counted) /\ Cardinality(Logged) \in Nat
  <2>1. Logged \subseteq Counted /\ IsFiniteSet(Counted)
    BY <1>2, RequestsAssumption, FS_Subset DEF Logged, Counted
  <2>2. QED
    BY <2>1, FS_Subset, FS_CardinalityType
<1>6. Lines(file) - inherited <= Cardinality(Logged)
  BY LineInvLines DEF CountInv, LinesAreRequests
<1>7. Lines(file) \in Nat /\ inherited \in Nat /\ counters[c] \in Nat
  BY <1>1, LinesTyped DEF CountInv, TypeInv
<1>8. QED
  BY <1>4, <1>5, <1>6, <1>7 DEF Reported

\* Every step keeps PollInv.
LEMMA NextPollInv == CountInv /\ LineInv /\ PollInv /\ [Next]_vars => PollInv'
<1> SUFFICES ASSUME CountInv, LineInv, PollInv, [Next]_vars PROVE PollInv'
  OBVIOUS
<1>t. /\ poll.lines \in Nat \cup {-1} /\ poll.requests \in Nat \cup {-1}
      /\ inherited \in Nat /\ counters["total_requests"] \in Nat
  BY DEF CountInv, TypeInv, Counter, RequestCounter
<1>1. ASSUME UNCHANGED <<poll, inherited>>,
             counters'["total_requests"] \in Nat,
             counters'["total_requests"] >= counters["total_requests"]
      PROVE  PollInv'
  BY <1>1, <1>t DEF PollInv
<1>2. ASSUME NEW r \in Requests, Add(r) PROVE PollInv'
  <2>1. PICK c \in todo[r] : counters' = [counters EXCEPT ![c] = @ + Amount[r][c]]
    BY <1>2 DEF Add, Increased
  <2>2. c \in Counter /\ Amount[r][c] \in Nat
    BY AmountAssumption DEF CountInv, TypeInv
  <2>3. /\ counters'["total_requests"] \in Nat
        /\ counters'["total_requests"] >= counters["total_requests"]
    BY <2>1, <2>2 DEF CountInv, TypeInv, Counter, RequestCounter
  <2>4. QED
    BY <1>1, <1>2, <2>3 DEF Add
<1>3. CASE Crash
  BY <1>3 DEF Crash, Idle, PollInv
<1>4. CASE PollFile
  <2>1. poll' = [poll EXCEPT !.lines = Reported(file)] /\ poll.requests = -1
    BY <1>4 DEF PollFile, PollInv
  <2>2. poll'.lines = Reported(file) /\ poll'.requests = -1
    BY <2>1 DEF CountInv, TypeInv
  <2>3. inherited' = inherited /\ counters' = counters
    BY <1>4 DEF PollFile
  <2>4. Reported(file) \in Nat
    BY LinesTyped DEF Reported, CountInv, TypeInv
  <2>5. QED
    BY <2>2, <2>3, <2>4, CountersCoverLines DEF PollInv
<1>5. CASE PollAnalytics
  <2>1. poll'.requests = counters["total_requests"] /\ poll'.lines = poll.lines
    BY <1>5 DEF PollAnalytics, CountInv, TypeInv
  <2>2. inherited' = inherited /\ counters' = counters /\ poll.lines # -1
    BY <1>5 DEF PollAnalytics, FileWasRead
  <2>3. QED
    BY <2>1, <2>2 DEF PollInv
<1>6. CASE PollAnswered
  BY <1>6 DEF PollAnswered, Idle, PollInv
<1>7. CASE UNCHANGED <<counters, poll, inherited>>
  BY <1>1, <1>7, <1>t
<1>8. QED
  BY <1>2, <1>3, <1>4, <1>5, <1>6, <1>7
     DEF Next, Handle, PipelineDone, Added, UpstreamAnswers, UpstreamFails,
         WriteJson, WriteNewline, Disconnect, vars

\* The inductive invariant.
IInv == CountInv /\ LineInv /\ PollInv

\* It holds initially.
LEMMA InitIInv == Init => IInv
<1> SUFFICES ASSUME Init PROVE IInv
  OBVIOUS
<1>1. Counted = {} /\ (\A c : BeingCounted(c) = {} /\ Responded(c) = {})
  BY AmountAssumption DEF Init, Counted, BeingCounted, Responded
<1>2. \A c \in Counter : Sum(c, {}) = 0 /\ counters[c] = 0
  BY SumFacts DEF Init, Zero
<1>3. RequestCounter \subseteq Counter /\ ResponseCounter \subseteq Counter
  BY DEF Counter
<1>4. SumsMatch
  BY <1>1, <1>2, <1>3 DEF SumsMatch
<1>5. TodoFits /\ PollInv
  BY DEF Init, TodoFits, PollInv, Idle
<1>6. QED
  BY <1>4, <1>5, InitTypeInv, InitLineInv DEF IInv, CountInv

\* The inductive invariant holds in every reachable state.
THEOREM Invariance == Spec => []IInv
<1>1. IInv /\ [Next]_vars => IInv'
  BY NextTypeInv, NextTodoFits, NextSumsMatch, NextLineInv, NextPollInv
     DEF IInv, CountInv
<1>2. QED
  BY InitIInv, <1>1, PTL DEF Spec

\* For any number of concurrent handlers, whatever the order in which their
\* additions become visible, whenever clients leave or the process is killed: a
\* request is in all counters of record_request or in none once log_metrics has
\* moved on to the log.
THEOREM RequestsCountedWhole == Spec => []CountedWhole
<1>1. IInv => CountedWhole
  <2> SUFFICES ASSUME IInv PROVE CountedWhole
    OBVIOUS
  <2>1. ASSUME NEW c \in ResponseCounter
        PROVE  counters[c] >= Sum(c, Counted \cap Compresses)
    <3>1. c \in Counter
      BY DEF Counter
    <3>2. /\ Counted \cap Compresses \in SUBSET Responded(c)
          /\ Responded(c) \in SUBSET Requests
      BY AmountAssumption DEF Counted, Responded
    <3>3. Sum(c, Counted \cap Compresses) <= Sum(c, Responded(c))
      BY <3>1, <3>2, SumFacts
    <3>4. Sum(c, Counted \cap Compresses) \in Nat /\ Sum(c, Responded(c)) \in Nat
      BY <3>1, <3>2, SumFacts
    <3>5. counters[c] >= Sum(c, Responded(c)) /\ counters[c] \in Nat
      BY <3>1 DEF IInv, CountInv, SumsMatch, TypeInv
    <3>6. QED
      BY <3>3, <3>4, <3>5
  <2>2. QED
    BY <2>1 DEF CountedWhole, IInv, CountInv, SumsMatch
<1>2. QED
  BY <1>1, Invariance, PTL

\* The log gains one line per logged request, however the two writes of the
\* handlers interleave, but for at most one line a crash left torn.
THEOREM LogHasALinePerRequest == Spec => []LinesAreRequests
<1>1. IInv => LinesAreRequests
  BY LineInvLines DEF IInv, CountInv
<1>2. QED
  BY <1>1, Invariance, PTL

\* No answer of GET /metrics shows more lines of this process than requests: it
\* reads the file before the counters, and a handler counts before it logs.
THEOREM PollIsConsistent == Spec => []CountersCoverTheLog
<1>1. IInv => CountersCoverTheLog
  BY DEF IInv, PollInv, CountersCoverTheLog
<1>2. QED
  BY <1>1, Invariance, PTL
-------------------------------------------------------------------------------
(* The worker of the browser extension. *)

Record == [option : Options, total : Nat, proxyMode : BOOLEAN]

\* Types.
WorkerTypeInv ==
  /\ state \in [option : Options, total : Nat, proxyMode : BOOLEAN,
                shared : BOOLEAN, defaults : Nat]
  /\ running \in BOOLEAN /\ checking \in BOOLEAN /\ whole \in BOOLEAN
  /\ load \in [step : {"none", "asked", "found"}, found : Record \cup {NotStored}]
  /\ stored \in Record \cup {NotStored}
  /\ truth \in [option : Options, total : Nat]
  /\ events \in Nat

\* The inductive invariant.  A worker that has lost nothing runs and has in its
\* memory what the user has set; the storage, once written, has it too.  Nothing
\* is claimed when requests were counted in DEFAULTS.
WorkerInv ==
  /\ WorkerTypeInv
  /\ whole \/ load.step # "none" => running
  /\ whole /\ state.defaults = 0 =>
       /\ Known(state) = truth
       /\ stored # NotStored => Known(stored) = truth

\* What the worker starts from.
LEMMA WorkerTypes ==
  /\ Defaults \in [option : Options, total : Nat, proxyMode : BOOLEAN,
                   shared : BOOLEAN, defaults : Nat]
  /\ NoLoad \in [step : {"none", "asked", "found"}, found : Record \cup {NotStored}]
  /\ NoLoad.step = "none"
  /\ Known(Defaults) \in [option : Options, total : Nat]
<1>1. Defaults \in [option : Options, total : Nat, proxyMode : BOOLEAN,
                    shared : BOOLEAN, defaults : Nat]
  BY WorkerAssumption DEF Defaults
<1>2. NoLoad \in [step : {"none", "asked", "found"}, found : Record \cup {NotStored}]
  BY DEF NoLoad
<1>3. Known(Defaults) \in [option : Options, total : Nat]
  BY WorkerAssumption DEF Known, Defaults
<1>4. QED
  BY <1>1, <1>2, <1>3 DEF NoLoad

\* The worker before it was ever started has lost nothing yet.
LEMMA InitWorkerInv == WorkerInit => WorkerInv
<1> SUFFICES ASSUME WorkerInit PROVE WorkerInv
  OBVIOUS
<1>1. WorkerTypeInv
  BY WorkerTypes DEF WorkerInit, WorkerTypeInv
<1>2. ~whole /\ load.step = "none"
  BY WorkerTypes DEF WorkerInit
<1>3. QED
  BY <1>1, <1>2 DEF WorkerInv

\* A message keeps the invariant if the worker's memory follows the user.
LEMMA MessageWorkerInv ==
  ASSUME WorkerInv,
         NEW changed \in [option : Options, total : Nat, proxyMode : BOOLEAN,
                          shared : BOOLEAN, defaults : Nat],
         Message(changed), truth' \in [option : Options, total : Nat],
         whole /\ running /\ changed.defaults = 0 => Known(changed) = truth'
  PROVE  WorkerInv'
BY DEF WorkerInv, WorkerTypeInv, Message, Happens, save, Kept, Known, Record

\* Every step of the worker keeps the invariant.
LEMMA NextWorkerInv == WorkerInv /\ [WorkerNext]_workerVars => WorkerInv'
<1> SUFFICES ASSUME WorkerInv, [WorkerNext]_workerVars PROVE WorkerInv'
  OBVIOUS
<1>w. /\ Woken \in [option : Options, total : Nat, proxyMode : BOOLEAN,
                    shared : BOOLEAN, defaults : Nat]
      /\ running => Woken = state
  BY WorkerAssumption DEF WorkerInv, WorkerTypeInv, Woken, Defaults
<1>1. CASE BrowserStarts
  BY <1>1, WorkerAssumption
     DEF BrowserStarts, WorkerInv, WorkerTypeInv, Happens, Defaults, NoLoad
<1>2. CASE StorageAnswers
  BY <1>2 DEF StorageAnswers, WorkerInv, WorkerTypeInv
<1>3. CASE Loaded
  <2>1. CASE load.found = NotStored
    BY <1>3, <2>1, WorkerAssumption
       DEF Loaded, WorkerInv, WorkerTypeInv, merge, DefaultsNow, Defaults, NoLoad, Known
  <2>2. CASE load.found # NotStored
    BY <1>3, <2>2, WorkerAssumption
       DEF Loaded, WorkerInv, WorkerTypeInv, merge, Assigned, DefaultsNow, Defaults,
           NoLoad, Known, Record
  <2>3. QED
    BY <2>1, <2>2
<1>4. CASE CheckBegins
  BY <1>4 DEF CheckBegins, WorkerInv, WorkerTypeInv, Happens
<1>5. CASE CheckEnds
  <2>1. PICK ok \in BOOLEAN : state' = [state EXCEPT !.proxyMode = ok]
    BY <1>5 DEF CheckEnds
  <2>2. /\ state' \in [option : Options, total : Nat, proxyMode : BOOLEAN,
                       shared : BOOLEAN, defaults : Nat]
        /\ state'.option = state.option /\ state'.total = state.total
        /\ state'.defaults = state.defaults
    BY <2>1 DEF WorkerInv, WorkerTypeInv
  <2>3. stored' = Kept(state') /\ stored' \in Record /\ Known(stored') = Known(state')
    BY <1>5, <2>2 DEF CheckEnds, save, Kept, Known, Record
  <2>4. Known(state') = Known(state)
    BY <2>2 DEF Known
  <2>5. QED
    BY <1>5, <2>2, <2>3, <2>4 DEF CheckEnds, WorkerInv, WorkerTypeInv
<1>6. ASSUME NEW o \in Options, Set(o) PROVE WorkerInv'
  <2> DEFINE changed == [Woken EXCEPT !.option = o]
  <2>1. whole /\ running /\ changed.defaults = 0 => Known(changed) = truth'
    BY <1>w, <1>6 DEF Set, WorkerInv, WorkerTypeInv, Known
  <2>2. Message(changed) /\ truth' \in [option : Options, total : Nat]
    BY <1>6 DEF Set, WorkerInv, WorkerTypeInv
  <2>3. changed \in [option : Options, total : Nat, proxyMode : BOOLEAN,
                     shared : BOOLEAN, defaults : Nat]
    BY <1>w
  <2> HIDE DEF changed
  <2>4. QED
    BY <2>1, <2>2, <2>3, MessageWorkerInv
<1>7. CASE Count
  <2> DEFINE changed == WithOne(Woken)
  <2>1. whole /\ running /\ changed.defaults = 0 => Known(changed) = truth'
    BY <1>w, <1>7 DEF Count, WithOne, WorkerInv, WorkerTypeInv, Known
  <2>2. Message(changed) /\ truth' \in [option : Options, total : Nat]
    BY <1>7 DEF Count, WorkerInv, WorkerTypeInv
  <2>3. changed \in [option : Options, total : Nat, proxyMode : BOOLEAN,
                     shared : BOOLEAN, defaults : Nat]
    <3>1. Woken.total + 1 \in Nat /\ Woken.defaults + 1 \in Nat
      BY <1>w
    <3>2. (IF Woken.shared THEN Woken.defaults + 1 ELSE Woken.defaults) \in Nat
      BY <1>w, <3>1
    <3>3. QED
      BY <1>w, <3>1, <3>2 DEF WithOne
  <2> HIDE DEF changed
  <2>4. QED
    BY <2>1, <2>2, <2>3, MessageWorkerInv
<1>8. CASE Reset
  <2> DEFINE changed == [Woken EXCEPT !.total = Woken.defaults, !.shared = FALSE]
  <2>1. whole /\ running /\ changed.defaults = 0 => Known(changed) = truth'
    BY <1>w, <1>8 DEF Reset, WorkerInv, WorkerTypeInv, Known
  <2>2. Message(changed) /\ truth' \in [option : Options, total : Nat]
    BY <1>8 DEF Reset, WorkerInv, WorkerTypeInv
  <2>3. changed \in [option : Options, total : Nat, proxyMode : BOOLEAN,
                     shared : BOOLEAN, defaults : Nat]
    BY <1>w
  <2> HIDE DEF changed
  <2>4. QED
    BY <2>1, <2>2, <2>3, MessageWorkerInv
<1>9. CASE WorkerStops
  <2>1. WorkerTypeInv'
    <3>1. state' = Defaults /\ load' = NoLoad /\ UNCHANGED <<stored, truth>>
      BY <1>9 DEF WorkerStops
    <3>2. running' \in BOOLEAN /\ checking' \in BOOLEAN /\ whole' \in BOOLEAN
      BY <1>9 DEF WorkerStops
    <3>3. events' \in Nat
      BY <1>9 DEF WorkerStops, Happens, WorkerInv, WorkerTypeInv
    <3>4. QED
      BY <3>1, <3>2, <3>3, WorkerTypes DEF WorkerInv, WorkerTypeInv
  <2>2. ~whole' /\ load'.step = "none"
    BY <1>9, WorkerTypes DEF WorkerStops
  <2>3. QED
    BY <2>1, <2>2 DEF WorkerInv
<1>10. CASE UNCHANGED workerVars
  BY <1>10 DEF workerVars, WorkerInv, WorkerTypeInv
<1>11. QED
  BY <1>1, <1>2, <1>3, <1>4, <1>5, <1>6, <1>7, <1>8, <1>9, <1>10 DEF WorkerNext

\* However loads, checks of the proxy, messages and stops of the worker follow
\* each other: as long as the worker lives that loaded the storage, every save
\* leaves in it what the user has set and the requests counted since the reset.
THEOREM StorageAlwaysKeepsUp == WorkerSpec => []StorageKeepsUp
<1>1. WorkerInv => StorageKeepsUp
  BY DEF WorkerInv, StorageKeepsUp
<1>2. WorkerSpec => []WorkerInv
  BY InitWorkerInv, NextWorkerInv, PTL DEF WorkerSpec
<1>3. QED
  BY <1>1, <1>2, PTL
===============================================================================
