--------------------------- MODULE ChatExchangeProofs ---------------------------
(***************************************************************************)
(* Proofs about one client's exchanges: what a translated stream loses     *)
(* when chunks cut its events, and what the next requests tell of what was *)
(* said.                                                                   *)
(*                                                                         *)
(* The parts, in order: a client reads line by line (ReadAllSteps, by the  *)
(* recursion of the fold ReadAll); what one event does to what it has read *)
(* (WholeStep), and the first part of one (CutStep); a chunk, part by part *)
(* (ChunkRead).  StreamInv says after every step which events are still to *)
(* come and what the client has read of those that have come; LossIsLocal  *)
(* follows, and that an undamaged stream is read whole (ReadWhole).        *)
(* ToldInv says of the messages the client holds that every question has   *)
(* behind it what the model answered, if it came through; a request tells  *)
(* those messages, translated or not (ToldFollows).                        *)
(***************************************************************************)
EXTENDS ChatExchange, FoldFacts

\* The events of a stream of n pieces, at their places.
Kind(n, p) == IF p = 0 THEN {"start"} ELSE IF p <= n THEN {"text"} ELSE {"stop", "error"}
Events(n) ==
  {e \in [is : {"start", "text", "stop", "error"}, text : Nat, at : 0..(n + 1)] :
     e.is \in Kind(n, e.at) /\ (e.is = "text" => e.text = e.at)}

Message == [role : {"user", "system", "assistant"}, turn : Nat, texts : Seq(Nat)]
Reader == [texts : Seq(Nat), open : BOOLEAN, stopped : BOOLEAN, ended : BOOLEAN]
Line == [is : {"text", "stop", "done", "open"}, text : Nat]

\* What has arrived of n pieces when the event at place p is the next one.
Before(n, p) == IF p = 0 THEN 0 ELSE IF p <= n THEN p - 1 ELSE n

\* What a client has read of n pieces when the event at place p is the next one: h says
\* how much of it is there, X which events have been cut, c whether the stream
\* is translated, ok that nothing has been damaged.
TextInv(T, n, p, X, c) ==
  /\ \A k \in Range(T) : k \in 1..Before(n, p)
  /\ T = Only(AllPieces(Before(n, p)), Range(T))
  /\ \A k \in 1..Before(n, p) : k \notin Range(T) => c /\ {k - 1, k} \cap X # {}
ReadInv(r, n, p, h, X, c, ok) ==
  /\ r \in Reader
  /\ TextInv(r.texts, n, p, X, c)
  /\ h # "none" => p \in X /\ p <= n + 1
  /\ r.open => c /\ (h = "none" /\ p <= n + 1 => p - 1 \in X)
  /\ ok => (c => X = {}) /\ (p = n + 2 => r.ended)

\* The events on the wire are the last ones of the stream.
OnWire(w, n, ok) ==
  /\ w \in Seq(Events(n)) /\ Len(w) <= n + 2
  /\ \A i \in 1..Len(w) : w[i].at = n + 1 - Len(w) + i
  /\ \A i \in 1..Len(w) : ok => w[i].is # "error"

pieces == Len(answers[turn])
place == pieces + 2 - Len(wire)
StreamInv ==
  call.phase = "streaming" =>
    /\ splits \subseteq 0..(pieces + 1)
    /\ OnWire(wire, pieces, turn \notin hurt)
    /\ ReadInv(reader, pieces, place, half, splits, call.converts, turn \notin hurt)
    /\ half # "none" => wire # <<>>

ChatType ==
  /\ chat \in Seq(Message)
  /\ answers \in Seq(Seq(Nat))
  /\ \A t \in 1..turn : answers[t] = AllPieces(Len(answers[t]))
  /\ call.phase \in {"idle", "upstream", "streaming"}
  /\ call.converts \in BOOLEAN
  /\ DOMAIN call = {"phase", "stream", "converts", "keyed", "body"}
  /\ half \in {"none", "json", "early"}
  /\ wire # <<>> => call.phase = "streaming"
  /\ hurt \subseteq 1..turn
  /\ call.phase # "idle" => turn >= 1
  /\ call.phase = "streaming" => pieces >= 1
  /\ call.phase = "upstream" => /\ pieces = 0 /\ turn \notin hurt
                                /\ reader = Nothing /\ splits = {} 
  /\ call.phase # "streaming" => half = "none"

\* The questions and answers among the messages, and the questions.
Spoken(messages) == SaidBy(messages, {"user", "assistant"})
Asked(messages) == SaidBy(Spoken(messages), {"user"})

\* After t exchanges with the answers ans, the last one in the phase ph and those of h
\* damaged, s has after every question what the model answered to it.
Follows(s, ans, t, ph, h) ==
  \A i \in 1..Len(s) :
    /\ s[i].turn \in 1..t
    /\ s[i].turn = t => ph = "idle" \/ i = Len(s)
    /\ s[i].role = "assistant" => i > 1 /\ s[i - 1].turn = s[i].turn
    /\ s[i].role = "user" /\ s[i].turn \notin h /\ ans[s[i].turn] # <<>> =>
         \/ ph = "streaming" /\ s[i].turn = t
         \/ i < Len(s) /\ s[i + 1].texts = ans[s[i].turn]
Turns(s) == [i \in 1..Len(s) |-> s[i].turn]
ToldInv ==
  /\ Turns(Asked(chat)) = AllPieces(turn)
  /\ Follows(Spoken(chat), answers, turn, call.phase, hurt)
  /\ call.phase # "idle" =>
       /\ Len(Spoken(chat)) >= 1
       /\ Spoken(chat)[Len(Spoken(chat))].turn = turn
       /\ Spoken(chat)[Len(Spoken(chat))].role = "user"
  /\ call.phase = "upstream" =>
       call.body = IF call.converts THEN openai_to_anthropic(chat) ELSE unchanged_body(chat)
-------------------------------------------------------------------------------
(* Reading. *)

\* What a line makes of a reader is one.
LEMMA ReadTyped ==
  ASSUME NEW r \in Reader, NEW x \in Line
  PROVE  /\ Read(r, x) \in Reader
         /\ r.open /\ x.is # "open" => Read(r, x) = [r EXCEPT !.open = FALSE]
         /\ ~r.open /\ x.is = "text" => Read(r, x) = [r EXCEPT !.texts = Append(@, x.text)]
         /\ ~r.open /\ x.is = "stop" => Read(r, x) = [r EXCEPT !.stopped = TRUE]
         /\ ~r.open /\ x.is = "done" => Read(r, x) = [r EXCEPT !.ended = TRUE]
         /\ x.is = "open" => Read(r, x) = [r EXCEPT !.open = TRUE]
<1>1. x.is \in {"text", "stop", "done", "open"} /\ x.text \in Nat
  BY DEF Line
<1>2. CASE r.open /\ x.is # "open"
  BY <1>2 DEF Read, Reader
<1>3. CASE ~(r.open /\ x.is # "open") /\ x.is = "text"
  <2> DEFINE texts == Append(r.texts, x.text)
  <2>1. texts \in Seq(Nat)
    BY <1>1 DEF Reader
  <2>2. Read(r, x) = [r EXCEPT !.texts = texts]
    BY <1>3 DEF Read
  <2> HIDE DEF texts
  <2>3. Read(r, x) \in Reader
    BY <2>1, <2>2 DEF Reader
  <2>4. QED
    BY <1>3, <2>2, <2>3 DEF texts, Reader
<1>4. CASE ~(r.open /\ x.is # "open") /\ x.is = "stop"
  BY <1>4 DEF Read, Reader
<1>5. CASE ~(r.open /\ x.is # "open") /\ x.is = "done"
  BY <1>5 DEF Read, Reader
<1>6. CASE x.is = "open"
  BY <1>6 DEF Read, Reader
<1>7. QED
  BY <1>1, <1>2, <1>3, <1>4, <1>5, <1>6

\* What a line makes of a reader, as a function.
Reading(s) == [p \in (1..Len(s)) \X Reader |-> Read(p[2], s[p[1]])]

\* ReadAll is a fold of it.
LEMMA ReadAllIsFold ==
  ASSUME NEW r \in Reader, NEW s \in Seq(Line)
  PROVE  ReadAll(r, s) = FoldUpTo(Reading(s), r, Len(s))
<1> DEFINE n == Len(s)
           h == Reading(s)
           Rec(f) == f = [t \in SUBSET DOMAIN s |->
                            IF t = {} THEN r ELSE Read(f[t \ {Largest(t)}], s[Largest(t)])]
<1>1. ReadAll(r, s) = (CHOOSE f : Rec(f))[DOMAIN s]
  BY DEF ReadAll, FoldLeft, MapThenFoldSet, Max, Largest
<1>2. n \in Nat /\ DOMAIN s = 1..n /\ \A i \in 1..n : s[i] \in Line
  OBVIOUS
<1>3. \A t \in SUBSET (1..n) : t # {} => Largest(t) \in 1..n
  <2> HIDE DEF n
  <2> QED BY <1>2, LargestFacts
<1>4. \A i \in 1..n, acc \in Reader : Read(acc, s[i]) \in Reader /\ h[<<i, acc>>] = Read(acc, s[i])
  BY <1>2, ReadTyped DEF Reading
<1> HIDE DEF n, h
<1>5. ASSUME NEW f, Rec(f)
      PROVE  IsFold(f, h, r, n)
  <2>1. \A t \in SUBSET (1..n) : f[t] \in Reader
    <3>1. f[{}] \in Reader
      BY <1>2, <1>5
    <3>2. \A t \in SUBSET (1..n) :
            t # {} /\ f[t \ {Largest(t)}] \in Reader => f[t] \in Reader
      <4> TAKE t \in SUBSET (1..n)
      <4> HAVE t # {} /\ f[t \ {Largest(t)}] \in Reader
      <4>1. f[t] = Read(f[t \ {Largest(t)}], s[Largest(t)])
        BY <1>2, <1>5
      <4>2. QED
        BY <1>3, <1>4, <4>1
    <3>3. QED
      BY <1>2, <3>1, <3>2, FoldValuesTyped
  <2>2. \A t \in SUBSET (1..n) :
          f[t] = IF t = {} THEN r ELSE h[<<Largest(t), f[t \ {Largest(t)}]>>]
    <3> TAKE t \in SUBSET (1..n)
    <3>1. CASE t = {}
      BY <1>2, <1>5, <3>1
    <3>2. CASE t # {}
      <4>1. f[t] = Read(f[t \ {Largest(t)}], s[Largest(t)])
        BY <1>2, <1>5, <3>2
      <4>2. t \ {Largest(t)} \in SUBSET (1..n)
        OBVIOUS
      <4>3. QED
        BY <1>3, <1>4, <2>1, <3>2, <4>1, <4>2
    <3>3. QED
      BY <3>1, <3>2
  <2>3. f = [t \in SUBSET (1..n) |-> IF t = {} THEN r ELSE h[<<Largest(t), f[t \ {Largest(t)}]>>]]
    <3>1. DOMAIN f = SUBSET (1..n) /\ f = [t \in SUBSET (1..n) |-> f[t]]
      BY <1>2, <1>5
    <3>2. QED
      BY <2>2, <3>1
  <2>4. QED
    BY <2>3 DEF IsFold
<1>6. ASSUME NEW f, IsFold(f, h, r, n)
      PROVE  Rec(f)
  <2>1. \A t \in SUBSET (1..n) : f[t] \in Reader
    <3>1. f[{}] \in Reader
      BY <1>6 DEF IsFold
    <3>2. \A t \in SUBSET (1..n) :
            t # {} /\ f[t \ {Largest(t)}] \in Reader => f[t] \in Reader
      <4> TAKE t \in SUBSET (1..n)
      <4> HAVE t # {} /\ f[t \ {Largest(t)}] \in Reader
      <4>1. f[t] = h[<<Largest(t), f[t \ {Largest(t)}]>>]
        BY <1>6 DEF IsFold
      <4>2. QED
        BY <1>3, <1>4, <4>1
    <3>3. QED
      BY <1>2, <3>1, <3>2, FoldValuesTyped
  <2>2. \A t \in SUBSET (1..n) :
          f[t] = IF t = {} THEN r ELSE Read(f[t \ {Largest(t)}], s[Largest(t)])
    <3> TAKE t \in SUBSET (1..n)
    <3>1. CASE t = {}
      BY <1>6, <3>1 DEF IsFold
    <3>2. CASE t # {}
      <4>1. f[t] = h[<<Largest(t), f[t \ {Largest(t)}]>>]
        BY <1>6, <3>2 DEF IsFold
      <4>2. t \ {Largest(t)} \in SUBSET (1..n)
        OBVIOUS
      <4>3. QED
        BY <1>3, <1>4, <2>1, <3>2, <4>1, <4>2
    <3>3. QED
      BY <3>1, <3>2
  <2>3. DOMAIN f = SUBSET (1..n) /\ f = [t \in SUBSET (1..n) |-> f[t]]
    BY <1>6 DEF IsFold
  <2>4. QED
    BY <1>2, <2>2, <2>3
<1>7. \A f : Rec(f) <=> IsFold(f, h, r, n)
  BY <1>5, <1>6
<1>8. (CHOOSE f : Rec(f)) = (CHOOSE f : IsFold(f, h, r, n))
  <2> HIDE DEF Rec
  <2> QED BY <1>7
<1>9. QED
  BY <1>1, <1>2, <1>8 DEF FoldUpTo, n, h

\* A client reads line by line.
LEMMA ReadAllSteps ==
  ASSUME NEW r \in Reader
  PROVE  /\ ReadAll(r, <<>>) = r
         /\ \A s \in Seq(Line) : ReadAll(r, s) \in Reader
         /\ \A s \in Seq(Line), x \in Line :
              ReadAll(r, Append(s, x)) = Read(ReadAll(r, s), x)
<1>1. ASSUME NEW s \in Seq(Line)
      PROVE  /\ \A m \in 1..Len(s), acc \in Reader :
                  /\ Reading(s)[<<m, acc>>] = Read(acc, s[m])
                  /\ Reading(s)[<<m, acc>>] \in Reader
             /\ ReadAll(r, s) = FoldUpTo(Reading(s), r, Len(s))
             /\ Len(s) \in Nat
  <2>1. \A m \in 1..Len(s) : s[m] \in Line
    OBVIOUS
  <2>2. \A m \in 1..Len(s), acc \in Reader : Read(acc, s[m]) \in Reader
    BY <2>1, ReadTyped
  <2>3. \A m \in 1..Len(s), acc \in Reader : Reading(s)[<<m, acc>>] = Read(acc, s[m])
    BY DEF Reading
  <2>4. QED
    BY <2>2, <2>3, ReadAllIsFold
<1>2. ReadAll(r, <<>>) = r
  <2>1. <<>> \in Seq(Line) /\ Len(<<>>) = 0
    OBVIOUS
  <2>2. ReadAll(r, <<>>) = FoldUpTo(Reading(<<>>), r, 0)
    BY <1>1, <2>1
  <2>3. FoldsStepwise(Reading(<<>>), r, 0)
    BY FoldUpToFacts
  <2>4. QED
    BY <2>2, <2>3 DEF FoldsStepwise
<1>3. ASSUME NEW s \in Seq(Line) PROVE ReadAll(r, s) \in Reader
  <2> DEFINE n == Len(s)
             h == Reading(s)
  <2>1. n \in Nat /\ (\A m \in 1..n, acc \in Reader : h[<<m, acc>>] \in Reader)
        /\ ReadAll(r, s) = FoldUpTo(h, r, n)
    BY <1>1
  <2> HIDE DEF n, h
  <2>2. \A m \in 0..n : FoldUpTo(h, r, m) \in Reader
    BY <2>1, FoldTyped
  <2>3. QED
    BY <2>1, <2>2
<1>4. ASSUME NEW s \in Seq(Line), NEW x \in Line
      PROVE  ReadAll(r, Append(s, x)) = Read(ReadAll(r, s), x)
  <2> DEFINE t == Append(s, x)
             n == Len(s)
             h == Reading(s)
             k == Reading(t)
  <2>1. t \in Seq(Line) /\ Len(t) = n + 1 /\ t[n + 1] = x /\ n \in Nat
        /\ \A i \in 1..n : t[i] = s[i]
    OBVIOUS
  <2>2. /\ \A m \in 1..n, acc \in Reader : h[<<m, acc>>] = Read(acc, s[m]) /\ h[<<m, acc>>] \in Reader
        /\ ReadAll(r, s) = FoldUpTo(h, r, n)
    BY <1>1
  <2> HIDE DEF h, t
  <2>3. /\ \A m \in 1..(n + 1), acc \in Reader : k[<<m, acc>>] = Read(acc, t[m])
        /\ ReadAll(r, t) = FoldUpTo(k, r, n + 1)
    BY <1>1, <2>1
  <2> HIDE DEF n, k
  <2>4. AgreeOn(h, k, n, Reader)
    <3>1. ASSUME NEW m \in 1..n, NEW acc \in Reader
          PROVE  h[<<m, acc>>] \in Reader /\ k[<<m, acc>>] = h[<<m, acc>>]
      <4>1. m \in 1..(n + 1) /\ t[m] = s[m]
        BY <2>1
      <4>2. QED
        BY <2>2, <2>3, <4>1
    <3>2. QED
      BY <3>1 DEF AgreeOn
  <2>5. FoldUpTo(k, r, n) = FoldUpTo(h, r, n)
    BY <2>1, <2>4, FoldAgree
  <2>6. n + 1 \in Nat /\ n + 1 \in 1..(n + 1) /\ (n + 1) - 1 = n
    BY <2>1
  <2>7. FoldsStepwise(k, r, n + 1)
    BY <2>6, FoldUpToFacts
  <2>8. FoldUpTo(k, r, n + 1) = k[<<n + 1, FoldUpTo(k, r, n)>>]
    <3>1. FoldUpTo(k, r, n + 1) = k[<<n + 1, FoldUpTo(k, r, (n + 1) - 1)>>]
      BY <2>6, <2>7 DEF FoldsStepwise
    <3>2. QED
      BY <2>6, <3>1
  <2>9. ReadAll(r, s) \in Reader
    BY <1>3
  <2>10. k[<<n + 1, ReadAll(r, s)>>] = Read(ReadAll(r, s), t[n + 1])
    BY <2>3, <2>6, <2>9
  <2>11. QED
    BY <2>1, <2>2, <2>3, <2>5, <2>8, <2>10 DEF t
<1>5. QED
  BY <1>2, <1>3, <1>4
-------------------------------------------------------------------------------
(* One event, or the part of one. *)

\* The filter of a list of pieces with one more.
LEMMA OnlyNext ==
  ASSUME NEW s \in Seq(Nat), NEW a \in Nat, NEW K
  PROVE  Only(Append(s, a + 1), K) = IF a + 1 \in K THEN Append(Only(s, K), a + 1) ELSE Only(s, K)
<1> DEFINE x == a + 1
<1>1. x \in Nat
  OBVIOUS
<1> HIDE DEF x
<1>2. Only(Append(s, x), K) = IF x \in K THEN Append(Only(s, K), x) ELSE Only(s, K)
  BY <1>1, OnlyAppend
<1>3. QED
  BY <1>2 DEF x

\* The next piece, and a list with it.
LEMMA OnePieceMore ==
  ASSUME NEW a \in Nat, NEW T \in Seq(Nat), \A k \in Range(T) : k \in 1..a,
         T = Only(AllPieces(a), Range(T))
  PROVE  /\ T = Only(AllPieces(a + 1), Range(T))
         /\ Append(T, a + 1) = Only(AllPieces(a + 1), Range(Append(T, a + 1)))
         /\ Range(Append(T, a + 1)) = Range(T) \cup {a + 1}
<1> DEFINE s == AllPieces(a)
           U == Append(T, a + 1)
<1>1. s \in Seq(Nat) /\ Len(s) = a /\ (\A i \in 1..Len(s) : s[i] = i) /\ a + 1 \in Nat
  BY DEF AllPieces
<1>2. AllPieces(a + 1) = Append(s, a + 1)
  <2> DEFINE u == Append(s, a + 1)
  <2>1. u \in Seq(Nat) /\ Len(u) = a + 1 /\ \A i \in 1..(a + 1) : u[i] = i
    BY <1>1
  <2> HIDE DEF u
  <2>2. u = [i \in 1..(a + 1) |-> i]
    BY <2>1
  <2>3. QED
    BY <2>2 DEF AllPieces, u
<1>3. Range(U) = Range(T) \cup {a + 1}
  <2>1. Len(U) = Len(T) + 1 /\ Len(T) \in Nat /\ U[Len(T) + 1] = a + 1 /\ DOMAIN U = 1..Len(U)
        /\ DOMAIN T = 1..Len(T) /\ \A i \in 1..Len(T) : U[i] = T[i]
    OBVIOUS
  <2> HIDE DEF U
  <2>2. QED
    BY <2>1 DEF Range
<1> HIDE DEF s
<1>4. Only(Append(s, a + 1), Range(T)) = Only(s, Range(T))
  <2> DEFINE K == Range(T)
  <2>1. a + 1 \notin K
    OBVIOUS
  <2> HIDE DEF K
  <2>2. Only(Append(s, a + 1), K) = IF a + 1 \in K THEN Append(Only(s, K), a + 1) ELSE Only(s, K)
    BY <1>1, OnlyNext
  <2>3. QED
    BY <2>1, <2>2 DEF K
<1>5. Only(Append(s, a + 1), Range(U)) = Append(Only(s, Range(T)), a + 1)
  <2> HIDE DEF U
  <2>1. Only(s, Range(U)) = Only(s, Range(T))
    <3>1. \A i \in 1..Len(s) : s[i] \in Range(U) <=> s[i] \in Range(T)
      BY <1>1, <1>3
    <3>2. QED
      BY <1>1, <3>1, OnlySame
  <2>2. a + 1 \in Range(U)
    BY <1>3
  <2> DEFINE K == Range(U)
  <2>3. Only(Append(s, a + 1), K) = IF a + 1 \in K THEN Append(Only(s, K), a + 1) ELSE Only(s, K)
    <3> HIDE DEF K
    <3> QED BY <1>1, OnlyNext
  <2>4. QED
    BY <2>1, <2>2, <2>3
<1>6. QED
  BY <1>2, <1>3, <1>4, <1>5 DEF s

\* What has arrived, one event later.
LEMMA BeforeFacts ==
  ASSUME NEW n \in Nat, NEW p \in 0..(n + 1)
  PROVE  /\ Before(n, p) \in Nat
         /\ p \in 1..n => p = Before(n, p) + 1 /\ Before(n, p + 1) = Before(n, p) + 1
         /\ p \notin 1..n => Before(n, p + 1) = Before(n, p)
BY DEF Before

\* A piece that arrives without being read.
LEMMA TextLost ==
  ASSUME NEW n \in Nat, NEW p \in 0..(n + 1), NEW X, NEW c \in BOOLEAN, NEW T \in Seq(Nat),
         TextInv(T, n, p, X, c),
         p \in 1..n => c /\ {p - 1, p} \cap X # {}
  PROVE  TextInv(T, n, p + 1, X, c)
<1> DEFINE a == Before(n, p)
<1>1. /\ a \in Nat
      /\ p \in 1..n => p = a + 1 /\ Before(n, p + 1) = a + 1
      /\ p \notin 1..n => Before(n, p + 1) = a
  BY BeforeFacts
<1>2. /\ \A k \in Range(T) : k \in 1..a
      /\ T = Only(AllPieces(a), Range(T))
      /\ \A k \in 1..a : k \notin Range(T) => c /\ {k - 1, k} \cap X # {}
  BY DEF TextInv
<1> HIDE DEF a
<1>3. CASE p \notin 1..n
  BY <1>1, <1>2, <1>3 DEF TextInv
<1>4. CASE p \in 1..n
  <2>1. Before(n, p + 1) = a + 1 /\ p = a + 1
    BY <1>1, <1>4
  <2>2. T = Only(AllPieces(a + 1), Range(T))
    BY <1>1, <1>2, OnePieceMore
  <2>3. \A k \in 1..(a + 1) : k \in 1..a \/ k = a + 1
    BY <1>1
  <2>4. \A k \in 1..(a + 1) : k \notin Range(T) => c /\ {k - 1, k} \cap X # {}
    BY <1>2, <1>4, <2>1, <2>3
  <2>5. \A k \in 1..a : k \in 1..(a + 1)
    BY <1>1
  <2>6. QED
    BY <1>2, <2>1, <2>2, <2>4, <2>5 DEF TextInv
<1>5. QED
  BY <1>3, <1>4

\* A piece that is read.
LEMMA TextRead ==
  ASSUME NEW n \in Nat, NEW p \in 1..n, NEW X, NEW c \in BOOLEAN, NEW T \in Seq(Nat),
         TextInv(T, n, p, X, c)
  PROVE  TextInv(Append(T, p), n, p + 1, X, c)
<1> DEFINE a == Before(n, p)
           U == Append(T, a + 1)
<1>1. a \in Nat /\ Before(n, p + 1) = a + 1 /\ p = a + 1
  BY DEF Before
<1>2. /\ \A k \in Range(T) : k \in 1..a
      /\ T = Only(AllPieces(a), Range(T))
      /\ \A k \in 1..a : k \notin Range(T) => c /\ {k - 1, k} \cap X # {}
  BY DEF TextInv
<1> HIDE DEF a
<1>3. U = Only(AllPieces(a + 1), Range(U)) /\ Range(U) = Range(T) \cup {a + 1}
  BY <1>1, <1>2, OnePieceMore
<1> HIDE DEF U
<1>4. \A k \in 1..(a + 1) : k \in 1..a \/ k = a + 1
  BY <1>1
<1>5. \A k \in Range(U) : k \in 1..(a + 1)
  BY <1>1, <1>2, <1>3
<1>6. \A k \in 1..(a + 1) : k \notin Range(U) => c /\ {k - 1, k} \cap X # {}
  BY <1>2, <1>3, <1>4
<1>7. TextInv(U, n, p + 1, X, c)
  BY <1>1, <1>3, <1>5, <1>6 DEF TextInv
<1>8. QED
  BY <1>1, <1>7 DEF U

\* What a reader makes of at most two lines.
After(r, l) ==
  IF Len(l) = 0 THEN r
  ELSE IF Len(l) = 1 THEN Read(r, l[1]) ELSE Read(Read(r, l[1]), l[2])
\* At most two lines after some others.
LEMMA ReadOn ==
  ASSUME NEW r \in Reader, NEW s \in Seq(Line), NEW l \in Seq(Line), Len(l) <= 2
  PROVE  ReadAll(r, s \o l) = After(ReadAll(r, s), l)
<1>1. Len(l) \in {0, 1, 2} /\ s \o l \in Seq(Line) /\ Len(s \o l) = Len(s) + Len(l)
      /\ Len(s) \in Nat
      /\ (\A i \in 1..Len(s) : (s \o l)[i] = s[i])
      /\ (\A i \in 1..Len(l) : l[i] \in Line /\ (s \o l)[Len(s) + i] = l[i])
  <2>1. Len(l) \in Nat /\ Len(s) \in Nat /\ \A i \in 1..Len(l) : l[i] \in Line
    OBVIOUS
  <2>2. Len(l) \in {0, 1, 2}
    <3>1. \A k \in Nat : k <= 2 => k \in {0, 1, 2}
      OBVIOUS
    <3>2. QED
      BY <2>1, <3>1
  <2>3. s \o l \in Seq(Line) /\ Len(s \o l) = Len(s) + Len(l)
        /\ \A i \in 1..Len(s \o l) : (s \o l)[i] = IF i <= Len(s) THEN s[i] ELSE l[i - Len(s)]
    BY ConcatProperties
  <2> DEFINE u == s \o l
  <2> HIDE DEF u
  <2>4. \A i \in 1..Len(s) : u[i] = s[i]
    <3> TAKE i \in 1..Len(s)
    <3>1. i \in 1..Len(u) /\ i <= Len(s)
      BY <2>1, <2>3 DEF u
    <3>2. QED
      BY <2>3, <3>1 DEF u
  <2>5. \A i \in 1..Len(l) : u[Len(s) + i] = l[i]
    <3> TAKE i \in 1..Len(l)
    <3>1. Len(s) + i \in 1..Len(u) /\ ~(Len(s) + i <= Len(s)) /\ (Len(s) + i) - Len(s) = i
      BY <2>1, <2>3 DEF u
    <3> DEFINE k == Len(s) + i
    <3> HIDE DEF k
    <3>2. u[k] = l[k - Len(s)]
      BY <2>3, <3>1 DEF u, k
    <3>3. QED
      BY <3>1, <3>2 DEF k
  <2>6. QED
    BY <2>1, <2>2, <2>3, <2>4, <2>5 DEF u
<1> DEFINE sl == s \o l
           n == Len(s)
<1> HIDE DEF sl
<1>2. CASE Len(l) = 0
  <2>1. sl = s
    BY <1>1, <1>2, SeqEqual DEF sl
  <2>2. QED
    BY <1>2, <2>1 DEF After, sl
<1>3. CASE Len(l) = 1
  <2>1. l[1] \in Line
    BY <1>1, <1>3
  <2>2. sl = Append(s, l[1])
    <3> DEFINE t == Append(s, l[1])
    <3>1. t \in Seq(Line) /\ Len(t) = n + 1 /\ t[n + 1] = l[1] /\ \A i \in 1..n : t[i] = s[i]
      BY <1>1, <2>1
    <3>2. sl \in Seq(Line) /\ Len(sl) = n + 1 /\ sl[n + 1] = l[1] /\ \A i \in 1..n : sl[i] = s[i]
      BY <1>1, <1>3 DEF sl
    <3> HIDE DEF t
    <3>3. \A i \in 1..(n + 1) : i \in 1..n \/ i = n + 1
      BY <1>1
    <3> HIDE DEF n
    <3>4. \A i \in 1..Len(t) : sl[i] = t[i]
      BY <3>1, <3>2, <3>3
    <3>5. QED
      BY <3>1, <3>2, <3>4, SeqEqual DEF t
  <2>3. QED
    BY <1>3, <2>1, <2>2, ReadAllSteps DEF After, sl
<1>4. CASE Len(l) = 2
  <2> DEFINE t == Append(s, l[1])
  <2>1. l[1] \in Line /\ l[2] \in Line /\ t \in Seq(Line)
    BY <1>1, <1>4
  <2>2. sl = Append(t, l[2])
    <3> DEFINE u == Append(t, l[2])
    <3>1. u \in Seq(Line) /\ Len(u) = n + 2 /\ u[n + 1] = l[1] /\ u[n + 2] = l[2]
          /\ \A i \in 1..n : u[i] = s[i]
      BY <1>1, <2>1
    <3>2. sl \in Seq(Line) /\ Len(sl) = n + 2 /\ sl[n + 1] = l[1] /\ sl[n + 2] = l[2]
          /\ \A i \in 1..n : sl[i] = s[i]
      BY <1>1, <1>4 DEF sl
    <3> HIDE DEF t, u
    <3>3. \A i \in 1..(n + 2) : i \in 1..n \/ i = n + 1 \/ i = n + 2
      BY <1>1
    <3> HIDE DEF n
    <3>4. \A i \in 1..Len(u) : sl[i] = u[i]
      BY <3>1, <3>2, <3>3
    <3>5. QED
      BY <3>1, <3>2, <3>4, SeqEqual DEF u
  <2>3. ReadAll(r, t) = Read(ReadAll(r, s), l[1])
    BY <2>1, ReadAllSteps
  <2> HIDE DEF t
  <2>4. ReadAll(r, Append(t, l[2])) = Read(ReadAll(r, t), l[2])
    BY <2>1, ReadAllSteps
  <2>5. QED
    BY <1>4, <2>2, <2>3, <2>4 DEF After, sl
<1>5. QED
  BY <1>1, <1>2, <1>3, <1>4

\* A part of a chunk, and the lines the client gets for it.
Items(n) == [event : Events(n), part : {"whole", "rest", "json", "early"}]
LinesOf(c, x) ==
  IF c THEN CASE x.part = "whole" -> Translated(x.event)
              [] x.part = "json"  -> <<Out("open", 0)>>
              [] OTHER            -> <<>>
  ELSE IF x.part \in {"whole", "rest"} THEN Translated(x.event) ELSE <<>>

\* They are none, one or two.
LEMMA TranslatedLines ==
  ASSUME NEW n \in Nat, NEW e \in Events(n)
  PROVE  /\ Translated(e) \in Seq(Line) /\ Len(Translated(e)) <= 2
         /\ e.is = "text" => Translated(e) = <<Out("text", e.at)>>
         /\ e.is = "stop" => Translated(e) = <<Out("stop", 0), Out("done", 0)>>
         /\ e.is \notin {"text", "stop"} => Translated(e) = <<>>
<1>1. e.is \in {"start", "text", "stop", "error"} /\ e.text \in Nat /\ (e.is = "text" => e.text = e.at)
  BY DEF Events
<1>2. \A k \in Nat : Out("text", k) \in Line
  BY DEF Out, Line
<1>3. Out("stop", 0) \in Line /\ Out("done", 0) \in Line
  BY DEF Out, Line
<1>4. CASE e.is = "text"
  BY <1>1, <1>2, <1>4 DEF Translated
<1>5. CASE e.is = "stop"
  <2>1. Translated(e) = <<Out("stop", 0), Out("done", 0)>>
    BY <1>5 DEF Translated
  <2>2. QED
    BY <1>3, <1>5, <2>1
<1>6. CASE e.is \notin {"text", "stop"}
  BY <1>6 DEF Translated
<1>7. QED
  BY <1>4, <1>5, <1>6

\* A part of a chunk makes at most two lines.
LEMMA ItemLines ==
  ASSUME NEW n \in Nat, NEW x \in Items(n), NEW c \in BOOLEAN
  PROVE  LinesOf(c, x) \in Seq(Line) /\ Len(LinesOf(c, x)) <= 2
<1>1. Out("open", 0) \in Line
  BY DEF Out, Line
<1>2. <<Out("open", 0)>> \in Seq(Line) /\ Len(<<Out("open", 0)>>) = 1
  BY <1>1
<1>3. x.event \in Events(n)
  BY DEF Items
<1>4. Translated(x.event) \in Seq(Line) /\ Len(Translated(x.event)) <= 2
  BY <1>3, TranslatedLines
<1>5. <<>> \in Seq(Line) /\ Len(<<>>) = 0
  OBVIOUS
<1>6. LinesOf(c, x) \in {Translated(x.event), <<Out("open", 0)>>, <<>>}
  BY DEF LinesOf
<1> DEFINE l == LinesOf(c, x)
<1> HIDE DEF l
<1>7. l \in {Translated(x.event), <<Out("open", 0)>>, <<>>}
  BY <1>6 DEF l
<1>8. CASE l = Translated(x.event)
  BY <1>4, <1>8 DEF l
<1>9. CASE l = <<Out("open", 0)>>
  BY <1>2, <1>9 DEF l
<1>10. CASE l = <<>>
  BY <1>5, <1>10 DEF l
<1>11. QED
  BY <1>7, <1>8, <1>9, <1>10

\* What has to be said of a reader after a step.
LEMMA StepMade ==
  ASSUME NEW n \in Nat, NEW p \in 0..(n + 1), NEW h,
         NEW X \in SUBSET (0..(n + 1)), NEW c \in BOOLEAN, NEW ok \in BOOLEAN,
         NEW r, ReadInv(r, n, p, h, X, c, ok),
         NEW q \in Reader,
         \/ q.texts = r.texts /\ (p \in 1..n => c /\ {p - 1, p} \cap X # {})
         \/ q.texts = Append(r.texts, p) /\ p \in 1..n,
         q.open => c /\ (p + 1 <= n + 1 => p \in X),
         ok => (p = n + 1 => q.ended)
  PROVE  ReadInv(q, n, p + 1, "none", X, c, ok)
<1> DEFINE T == r.texts
<1>1. /\ r \in Reader /\ TextInv(T, n, p, X, c) /\ T \in Seq(Nat)
      /\ ok => (c => X = {})
  BY DEF ReadInv, Reader
<1>2. TextInv(q.texts, n, p + 1, X, c)
  <2>1. CASE q.texts = T /\ (p \in 1..n => c /\ {p - 1, p} \cap X # {})
    BY <1>1, <2>1, TextLost
  <2>2. CASE q.texts = Append(T, p) /\ p \in 1..n
    BY <1>1, <2>2, TextRead
  <2>3. QED
    BY <2>1, <2>2
<1>3. (p + 1) - 1 = p /\ (p + 1 = n + 2 <=> p = n + 1)
  OBVIOUS
<1>4. QED
  BY <1>1, <1>2, <1>3 DEF ReadInv

\* A whole event, or the rest of one that was cut.
LEMMA WholeStep ==
  ASSUME NEW n \in Nat, NEW p \in 0..(n + 1), NEW h \in {"none", "json", "early"},
         NEW X \in SUBSET (0..(n + 1)), NEW c \in BOOLEAN, NEW ok \in BOOLEAN,
         NEW r, ReadInv(r, n, p, h, X, c, ok),
         NEW x \in Items(n), x.event.at = p, ok => x.event.is # "error",
         x.part = IF h = "none" THEN "whole" ELSE "rest"
  PROVE  ReadInv(After(r, LinesOf(c, x)), n, p + 1, "none", X, c, ok)
<1> DEFINE e == x.event
           T == r.texts
           q == After(r, LinesOf(c, x))
<1> SUFFICES ReadInv(q, n, p + 1, "none", X, c, ok)
  OBVIOUS
<1>1. /\ r \in Reader /\ TextInv(T, n, p, X, c) /\ T \in Seq(Nat)
      /\ h # "none" => p \in X
      /\ r.open => c /\ (h = "none" => p - 1 \in X)
      /\ ok => (c => X = {})
  BY DEF ReadInv, Reader
<1>2. /\ e \in Events(n) /\ e.at = p
      /\ e.is \in {"start", "text", "stop", "error"}
      /\ e.is = "start" <=> p = 0
      /\ e.is = "text" <=> p \in 1..n
      /\ e.is \in {"stop", "error"} <=> p = n + 1
  BY DEF Items, Events, Kind
<1>3. Out("stop", 0) \in Line /\ Out("done", 0) \in Line /\ (p \in 1..n => Out("text", p) \in Line)
  BY DEF Out, Line
<1> HIDE DEF e
\* What is left to say of the step.
<1>4. ASSUME q \in Reader,
             \/ q.texts = T /\ (p \in 1..n => c /\ {p - 1, p} \cap X # {})
             \/ q.texts = Append(T, p) /\ p \in 1..n,
             q.open => c /\ (p + 1 <= n + 1 => p \in X),
             ok => (p = n + 1 => q.ended)
      PROVE  ReadInv(q, n, p + 1, "none", X, c, ok)
  <2> HIDE DEF q
  <2> QED BY <1>4, StepMade
\* Nothing reaches the reader.
<1>5. ASSUME LinesOf(c, x) = <<>> PROVE q = r
  BY <1>5 DEF After
<1> HIDE DEF q
<1>6. CASE c /\ h # "none"
  <2>1. q = r
    <3>1. x.part = "rest"
      BY <1>6
    <3>2. LinesOf(c, x) = <<>>
      BY <1>6, <3>1 DEF LinesOf
    <3>3. QED
      BY <1>5, <3>2
  <2>2. p \in X /\ ~ok
    BY <1>1, <1>6
  <2>3. QED
    BY <1>1, <1>4, <1>6, <2>1, <2>2
<1>7. CASE ~(c /\ h # "none")
  <2>1. LinesOf(c, x) = Translated(e)
    BY <1>7 DEF LinesOf, e
  <2>2. CASE e.is \in {"start", "error"}
    <3>1. q = r
      BY <1>2, <1>5, <2>1, <2>2, TranslatedLines
    <3>2. p \notin 1..n /\ (p = n + 1 => ~ok)
      BY <1>2, <2>2 DEF e
    <3>3. r.open /\ p + 1 <= n + 1 => FALSE
      <4>1. p + 1 <= n + 1 => p = 0 /\ p - 1 \notin X
        BY <1>2, <2>2
      <4>2. QED
        BY <1>1, <1>7, <4>1
    <3>4. QED
      BY <1>1, <1>4, <3>1, <3>2, <3>3
  <2>3. CASE e.is = "text"
    <3>1. q = Read(r, Out("text", p)) /\ p \in 1..n
      <4>1. LinesOf(c, x) = <<Out("text", p)>>
        BY <1>2, <2>1, <2>3, TranslatedLines
      <4>2. QED
        BY <1>2, <2>3, <4>1 DEF After, q
    <3>2. CASE r.open
      <4>1. q = [r EXCEPT !.open = FALSE] /\ q \in Reader
        BY <1>1, <1>3, <3>1, <3>2, ReadTyped DEF Out
      <4>2. q.texts = T /\ ~q.open
        BY <1>1, <4>1 DEF Reader
      <4>3. c /\ p - 1 \in X
        BY <1>1, <1>7, <3>2
      <4>4. p # n + 1 /\ {p - 1, p} \cap X # {}
        BY <3>1, <4>3
      <4>5. QED
        BY <1>4, <4>1, <4>2, <4>3, <4>4
    <3>3. CASE ~r.open
      <4>1. q = [r EXCEPT !.texts = Append(T, p)] /\ q \in Reader
        BY <1>1, <1>3, <3>1, <3>3, ReadTyped DEF Out
      <4>2. q.texts = Append(T, p) /\ ~q.open
        BY <1>1, <3>3, <4>1 DEF Reader
      <4>3. p # n + 1
        BY <3>1
      <4>4. QED
        BY <1>4, <3>1, <4>1, <4>2, <4>3
    <3>4. QED
      BY <1>1, <3>2, <3>3 DEF Reader
  <2>4. CASE e.is = "stop"
    <3>1. q = Read(Read(r, Out("stop", 0)), Out("done", 0)) /\ p = n + 1 /\ p \notin 1..n
      <4>1. LinesOf(c, x) = <<Out("stop", 0), Out("done", 0)>>
        BY <1>2, <2>1, <2>4, TranslatedLines
      <4>2. QED
        BY <1>2, <2>4, <4>1 DEF After, q
    <3> DEFINE u == Read(r, Out("stop", 0))
    <3>2. u \in Reader /\ ~u.open /\ u.texts = T
      <4>1. u \in Reader
        BY <1>1, <1>3, ReadTyped
      <4>2. CASE r.open
        <5>1. u = [r EXCEPT !.open = FALSE]
          BY <1>1, <1>3, <4>2, ReadTyped DEF Out
        <5> HIDE DEF u
        <5>2. QED
          BY <1>1, <4>1, <5>1 DEF Reader
      <4>3. CASE ~r.open
        <5>1. u = [r EXCEPT !.stopped = TRUE]
          BY <1>1, <1>3, <4>3, ReadTyped DEF Out
        <5> HIDE DEF u
        <5>2. QED
          BY <1>1, <4>1, <4>3, <5>1 DEF Reader
      <4>4. QED
        BY <4>2, <4>3
    <3> HIDE DEF u
    <3>3. q = Read(u, Out("done", 0))
      BY <3>1 DEF u
    <3>4. q = [u EXCEPT !.ended = TRUE] /\ q \in Reader
      BY <1>3, <3>2, <3>3, ReadTyped DEF Out
    <3>5. q.texts = T /\ ~q.open /\ q.ended
      BY <3>2, <3>4 DEF Reader
    <3>6. QED
      BY <1>4, <3>1, <3>4, <3>5
  <2>5. QED
    BY <1>2, <2>2, <2>3, <2>4
<1>8. QED
  BY <1>6, <1>7

\* The first part of an event.
LEMMA CutStep ==
  ASSUME NEW n \in Nat, NEW p \in 0..(n + 1), NEW cut \in {"json", "early"},
         NEW X \in SUBSET (0..(n + 1)), NEW c \in BOOLEAN, NEW ok \in BOOLEAN, c => ~ok,
         NEW r, ReadInv(r, n, p, "none", X, c, ok),
         NEW x \in Items(n), x.part = cut
  PROVE  ReadInv(After(r, LinesOf(c, x)), n, p, cut, X \cup {p}, c, ok)
<1> DEFINE q == After(r, LinesOf(c, x))
           T == r.texts
           Y == X \cup {p}
<1>1. /\ r \in Reader /\ TextInv(T, n, p, X, c)
      /\ r.open => c
      /\ p # n + 2
  BY DEF ReadInv
<1>2. q \in Reader /\ q.texts = T /\ (q.open => c)
  <2>1. CASE c /\ cut = "json"
    <3>1. LinesOf(c, x) = <<Out("open", 0)>>
      BY <2>1 DEF LinesOf
    <3>2. q = Read(r, Out("open", 0)) /\ Out("open", 0) \in Line
      BY <3>1 DEF After, Out, Line
    <3> HIDE DEF q
    <3>3. q = [r EXCEPT !.open = TRUE] /\ q \in Reader
      BY <1>1, <3>2, ReadTyped DEF Out
    <3>4. QED
      BY <1>1, <2>1, <3>3 DEF Reader
  <2>2. CASE ~(c /\ cut = "json")
    <3>1. LinesOf(c, x) = <<>>
      BY <2>2 DEF LinesOf
    <3>2. q = r
      BY <3>1 DEF After
    <3>3. QED
      BY <1>1, <3>2
  <2>3. QED
    BY <2>1, <2>2
<1> HIDE DEF q
<1>3. TextInv(T, n, p, Y, c)
  BY <1>1 DEF TextInv
<1>4. p \in Y /\ p <= n + 1 /\ cut # "none"
  OBVIOUS
<1>5. ReadInv(q, n, p, cut, Y, c, ok)
  BY <1>1, <1>2, <1>3, <1>4 DEF ReadInv
<1>6. QED
  BY <1>5 DEF q
-------------------------------------------------------------------------------
(* A chunk. *)

\* The first m parts of a chunk are whole events, but for a rest at its start.
WholeUpTo(ch, m, p, h, ok) ==
  \A i \in 1..m : /\ ch[i].event.at = p + i - 1
                  /\ ok => ch[i].event.is # "error"
                  /\ ch[i].part = IF i = 1 /\ h # "none" THEN "rest" ELSE "whole"
ItemsOf(c, ch) == [i \in 1..Len(ch) |-> LinesOf(c, ch[i])]

\* What the client has read after the whole events of a chunk.
LEMMA ChunkRead ==
  ASSUME NEW n \in Nat, NEW p \in 0..(n + 2), NEW h \in {"none", "json", "early"},
         NEW X \in SUBSET (0..(n + 1)), NEW c \in BOOLEAN, NEW ok \in BOOLEAN,
         NEW r, ReadInv(r, n, p, h, X, c, ok),
         NEW ch \in Seq(Items(n)), NEW m \in 0..Len(ch), p + m <= n + 2,
         WholeUpTo(ch, m, p, h, ok),
         NEW f, Flattens(f, Line, ItemsOf(c, ch))
  PROVE  ReadInv(ReadAll(r, f[m]), n, p + m, IF m = 0 THEN h ELSE "none", X, c, ok)
<1> DEFINE P == {k \in Nat : k <= m =>
                   ReadInv(ReadAll(r, f[k]), n, p + k, IF k = 0 THEN h ELSE "none", X, c, ok)}
           s == ItemsOf(c, ch)
<1>1. /\ Len(s) = Len(ch) /\ Len(ch) \in Nat /\ m \in Nat /\ m <= Len(ch) /\ r \in Reader
      /\ f \in [0..Len(ch) -> Seq(Line)] /\ f[0] = <<>>
      /\ \A i \in 1..Len(ch) : f[i] = f[i - 1] \o s[i]
  <2>1. Len(ch) \in Nat /\ m \in Nat /\ m <= Len(ch)
    OBVIOUS
  <2>2. Len(s) = Len(ch)
    BY <2>1 DEF ItemsOf
  <2>3. r \in Reader
    BY DEF ReadInv
  <2> HIDE DEF s
  <2>4. Flattens(f, Line, s)
    BY DEF s
  <2>5. QED
    BY <2>1, <2>2, <2>3, <2>4 DEF Flattens
<1>2. \A i \in 1..Len(ch) :
        ch[i] \in Items(n) /\ s[i] = LinesOf(c, ch[i]) /\ s[i] \in Seq(Line) /\ Len(s[i]) <= 2
  <2> TAKE i \in 1..Len(ch)
  <2>1. ch[i] \in Items(n) /\ s[i] = LinesOf(c, ch[i])
    BY DEF ItemsOf
  <2> HIDE DEF s
  <2>2. QED
    BY <2>1, ItemLines
<1> HIDE DEF s
<1>3. 0 \in P
  <2>1. ReadAll(r, f[0]) = r /\ p + 0 = p
    BY <1>1, ReadAllSteps
  <2>2. QED
    BY <2>1
<1>4. ASSUME NEW k \in Nat, k \in P PROVE k + 1 \in P
  <2> SUFFICES ASSUME k + 1 <= m
               PROVE  ReadInv(ReadAll(r, f[k + 1]), n, p + (k + 1),
                              IF k + 1 = 0 THEN h ELSE "none", X, c, ok)
    OBVIOUS
  <2> DEFINE i == k + 1
             q == ReadAll(r, f[k])
             x == ch[i]
             g == IF k = 0 THEN h ELSE "none"
             j == p + k
  <2>1. /\ i \in 1..Len(ch) /\ i \in 1..m /\ i - 1 = k /\ i # 0 /\ k \in 0..Len(ch)
        /\ j \in 0..(n + 1) /\ p + i - 1 = j /\ p + i = j + 1 /\ (i = 1 <=> k = 0)
    BY <1>1
  <2>2. ReadInv(q, n, j, g, X, c, ok)
    <3> HIDE DEF q, g, j
    <3> QED BY <1>4, <2>1 DEF q, g, j
  <2> HIDE DEF i, q, j
  <2>3. x \in Items(n) /\ x.event.at = j /\ (ok => x.event.is # "error")
        /\ x.part = IF g = "none" THEN "whole" ELSE "rest"
    BY <1>2, <2>1 DEF WholeUpTo
  <2>4. g \in {"none", "json", "early"}
    OBVIOUS
  <2> HIDE DEF g, x
  <2>5. ReadInv(After(q, LinesOf(c, x)), n, j + 1, "none", X, c, ok)
    BY <2>1, <2>2, <2>3, <2>4, WholeStep
  <2>6. ReadAll(r, f[i]) = After(q, LinesOf(c, x))
    <3>1. f[k] \in Seq(Line) /\ s[i] \in Seq(Line) /\ Len(s[i]) <= 2 /\ s[i] = LinesOf(c, x)
          /\ f[i] = f[k] \o s[i]
      BY <1>1, <1>2, <2>1 DEF x
    <3>2. ReadAll(r, f[k] \o s[i]) = After(ReadAll(r, f[k]), s[i])
      BY <1>1, <3>1, ReadOn
    <3>3. QED
      BY <3>1, <3>2 DEF q
  <2>7. ReadInv(ReadAll(r, f[i]), n, p + i, IF i = 0 THEN h ELSE "none", X, c, ok)
    BY <2>1, <2>5, <2>6
  <2>8. QED
    BY <2>7 DEF i
<1>5. m \in P
  <2> HIDE DEF P
  <2> QED BY <1>1, <1>3, <1>4, NatInductionSet
<1>6. QED
  BY <1>1, <1>5

\* Both ways of handling a chunk make the lines of its parts of it.
LEMMA LinesOfChunk ==
  ASSUME NEW n \in Nat, NEW ch \in Seq(Items(n))
  PROVE  /\ convert_sse_anthropic_to_openai(ch) = FlattenSeq(ItemsOf(TRUE, ch))
         /\ pass_through(ch) = FlattenSeq(ItemsOf(FALSE, ch))
<1>1. DOMAIN ch = 1..Len(ch)
  OBVIOUS
<1>2. \A i \in 1..Len(ch) :
        (CASE ch[i].part = "whole" -> Translated(ch[i].event)
           [] ch[i].part = "json"  -> <<Out("open", 0)>>
           [] OTHER                -> <<>>) = LinesOf(TRUE, ch[i])
  BY DEF LinesOf
<1>3. \A i \in 1..Len(ch) :
        (IF ch[i].part \in {"whole", "rest"} THEN Translated(ch[i].event) ELSE <<>>)
          = LinesOf(FALSE, ch[i])
  BY DEF LinesOf
<1>4. QED
  BY <1>1, <1>2, <1>3 DEF convert_sse_anthropic_to_openai, pass_through, ItemsOf

\* More damage asks for less.
LEMMA ReadHurt ==
  ASSUME NEW r, NEW n, NEW p, NEW h, NEW X, NEW c, NEW ok \in BOOLEAN, NEW ok2 \in BOOLEAN,
         ReadInv(r, n, p, h, X, c, ok), ok2 => ok
  PROVE  ReadInv(r, n, p, h, X, c, ok2)
BY DEF ReadInv

\* The parts of a chunk.
LEMMA ChunkParts ==
  ASSUME NEW n \in 0..Len(wire), NEW cut \in {"none", "json", "early"}, NEW N \in Nat,
         NEW ok \in BOOLEAN, OnWire(wire, N, ok), half \in {"none", "json", "early"},
         cut # "none" => n < Len(wire)
  PROVE  /\ Chunk(n, cut) \in Seq(Items(N))
         /\ Len(Chunk(n, cut)) = IF cut = "none" THEN n ELSE n + 1
         /\ WholeUpTo(Chunk(n, cut), n, N + 2 - Len(wire), half, ok)
         /\ cut # "none" => /\ Chunk(n, cut)[n + 1].part = cut
                            /\ wire[n + 1].at = N + 2 - Len(wire) + n
<1>1. /\ wire \in Seq(Events(N)) /\ Len(wire) \in Nat /\ Len(wire) <= N + 2 /\ n \in Nat
      /\ n <= Len(wire)
      /\ \A i \in 1..Len(wire) : wire[i] \in Events(N)
      /\ \A i \in 1..Len(wire) : wire[i].at = N + 1 - Len(wire) + i
      /\ \A i \in 1..Len(wire) : ok => wire[i].is # "error"
  BY DEF OnWire
<1> DEFINE A == [i \in 1..n |-> [event |-> wire[i],
                                 part |-> IF i = 1 /\ half # "none" THEN "rest" ELSE "whole"]]
           L == <<[event |-> wire[n + 1], part |-> cut]>>
           B == IF cut = "none" THEN <<>> ELSE L
<1>2. Chunk(n, cut) = A \o B
  BY DEF Chunk
<1>3. /\ \A i \in 1..n : A[i] \in Items(N)
      /\ \A i \in 1..n : A[i].event = wire[i] /\ A[i].part = IF i = 1 /\ half # "none" THEN "rest" ELSE "whole"
  BY <1>1 DEF Items
<1>4. A \in Seq(Items(N)) /\ Len(A) = n
  BY <1>1, <1>3
<1>5. WholeUpTo(A, n, N + 2 - Len(wire), half, ok)
  <2>1. \A i \in 1..n : i \in 1..Len(wire) /\ N + 1 - Len(wire) + i = N + 2 - Len(wire) + i - 1
    BY <1>1
  <2> HIDE DEF A
  <2>2. SUFFICES ASSUME NEW i \in 1..n
                 PROVE  /\ A[i].event.at = N + 2 - Len(wire) + i - 1
                        /\ ok => A[i].event.is # "error"
                        /\ A[i].part = IF i = 1 /\ half # "none" THEN "rest" ELSE "whole"
    BY DEF WholeUpTo
  <2>3. A[i].event = wire[i] /\ A[i].part = IF i = 1 /\ half # "none" THEN "rest" ELSE "whole"
    BY <1>3
  <2>4. i \in 1..Len(wire) /\ N + 1 - Len(wire) + i = N + 2 - Len(wire) + i - 1
    BY <2>1
  <2>5. wire[i].at = N + 1 - Len(wire) + i /\ (ok => wire[i].is # "error")
    BY <1>1, <2>4
  <2>6. QED
    BY <2>3, <2>4, <2>5
<1> HIDE DEF A
<1>6. CASE cut = "none"
  <2>1. A \o B = A
    BY <1>4, <1>6
  <2>2. QED
    BY <1>2, <1>4, <1>5, <1>6, <2>1
<1>7. CASE cut # "none"
  <2>1. n + 1 \in 1..Len(wire) /\ N + 1 - Len(wire) + (n + 1) = N + 2 - Len(wire) + n
    BY <1>1, <1>7
  <2> DEFINE x == [event |-> wire[n + 1], part |-> cut]
  <2>2. x \in Items(N) /\ x.part = cut
    BY <1>1, <1>7, <2>1 DEF Items
  <2> HIDE DEF x
  <2>3. A \o B = Append(A, x)
    <3>1. B = <<x>>
      BY <1>7 DEF x
    <3>2. QED
      BY <1>4, <2>2, <3>1, AppendIsConcat
  <2> DEFINE C == Append(A, x)
  <2>4. C \in Seq(Items(N)) /\ Len(C) = n + 1 /\ C[n + 1] = x /\ \A i \in 1..n : C[i] = A[i]
    BY <1>1, <1>4, <2>2
  <2> HIDE DEF C
  <2>5. WholeUpTo(C, n, N + 2 - Len(wire), half, ok)
    BY <1>5, <2>4 DEF WholeUpTo
  <2>6. wire[n + 1].at = N + 2 - Len(wire) + n
    BY <1>1, <2>1
  <2>7. QED
    BY <1>2, <1>7, <2>2, <2>3, <2>4, <2>5, <2>6 DEF C
<1>8. QED
  BY <1>6, <1>7

\* A chunk leaves the stream in order and the client with what it may have lost.
LEMMA Delivered ==
  ASSUME ChatType, StreamInv, NEW n \in 0..Len(wire), NEW cut \in {"none", "json", "early"},
         Deliver(n, cut)
  PROVE  StreamInv'
<1> DEFINE N == pieces
           p == place
           c == call.converts
           ok == turn \notin hurt
           ok2 == turn \notin hurt'
           ch == Chunk(n, cut)
           m == Len(wire)
<1>1. /\ call.phase = "streaming"
      /\ n > 0 \/ (half = "none" /\ cut # "none")
      /\ cut # "none" => n < m
      /\ wire' = SubSeq(wire, n + 1, m)
      /\ half' = cut
      /\ splits' = IF cut = "none" THEN splits ELSE splits \cup {wire[n + 1].at}
      /\ hurt' = IF cut # "none" /\ c THEN hurt \cup {turn} ELSE hurt
      /\ chat' = chat /\ answers' = answers /\ call' = call
  BY DEF Deliver
<1>2. reader' = ReadAll(reader, IF c THEN convert_sse_anthropic_to_openai(ch) ELSE pass_through(ch))
  BY DEF Deliver
<1>3. N \in Nat /\ c \in BOOLEAN /\ ok \in BOOLEAN /\ ok2 \in BOOLEAN /\ (ok2 => ok)
      /\ (cut # "none" /\ c => ~ok2)
  <2>1. N \in Nat
    BY <1>1 DEF ChatType, turn, pieces
  <2>2. QED
    BY <1>1, <2>1 DEF ChatType
<1>4. /\ splits \in SUBSET (0..(N + 1))
      /\ OnWire(wire, N, ok)
      /\ ReadInv(reader, N, p, half, splits, c, ok)
      /\ half # "none" => wire # <<>>
  BY <1>1 DEF StreamInv
<1>5. /\ turn' = turn /\ pieces' = N
      /\ place' = N + 2 - Len(wire')
  BY <1>1 DEF turn, pieces, place
<1>6. p = N + 2 - m /\ m \in Nat /\ m <= N + 2 /\ n \in Nat /\ n <= m
      /\ wire \in Seq(Events(N))
  BY <1>4 DEF place, OnWire
<1> HIDE DEF N, p, c, ok, ok2
<1>7. OnWire(wire, N, ok2)
  BY <1>3, <1>4 DEF OnWire
<1>8. /\ ch \in Seq(Items(N))
      /\ Len(ch) = IF cut = "none" THEN n ELSE n + 1
      /\ WholeUpTo(ch, n, p, half, ok2)
      /\ cut # "none" => ch[n + 1].part = cut /\ wire[n + 1].at = p + n
  <2>1. cut # "none" => n < Len(wire)
    BY <1>1
  <2> HIDE DEF m, ch
  <2>2. /\ Chunk(n, cut) \in Seq(Items(N))
        /\ Len(Chunk(n, cut)) = IF cut = "none" THEN n ELSE n + 1
        /\ WholeUpTo(Chunk(n, cut), n, N + 2 - Len(wire), half, ok2)
        /\ cut # "none" => /\ Chunk(n, cut)[n + 1].part = cut
                           /\ wire[n + 1].at = N + 2 - Len(wire) + n
    BY <1>3, <1>7, <2>1, ChunkParts DEF ChatType
  <2>3. QED
    BY <1>6, <2>2 DEF m, ch
<1> HIDE DEF ch
<1>9. reader' = ReadAll(reader, FlattenSeq(ItemsOf(c, ch)))
  <2>1. c = TRUE \/ c = FALSE
    BY <1>3
  <2>2. QED
    BY <1>2, <1>3, <1>8, <2>1, LinesOfChunk
<1> DEFINE s == ItemsOf(c, ch)
<1>10. s \in Seq(Seq(Line)) /\ Len(s) = Len(ch) /\ Len(ch) \in Nat
       /\ \A i \in 1..Len(ch) : s[i] = LinesOf(c, ch[i]) /\ Len(s[i]) <= 2 /\ s[i] \in Seq(Line)
                                /\ ch[i] \in Items(N)
  <2>1. \A i \in 1..Len(ch) : ch[i] \in Items(N)
    BY <1>8
  <2>2. \A i \in 1..Len(ch) : LinesOf(c, ch[i]) \in Seq(Line) /\ Len(LinesOf(c, ch[i])) <= 2
    BY <1>3, <2>1, ItemLines
  <2>3. Len(ch) \in Nat
    BY <1>8
  <2>4. Len(s) = Len(ch) /\ \A i \in 1..Len(ch) : s[i] = LinesOf(c, ch[i])
    BY <2>3 DEF ItemsOf
  <2>5. s \in Seq(Seq(Line))
    BY <2>2, <2>3 DEF ItemsOf
  <2> HIDE DEF s
  <2>6. QED
    BY <2>1, <2>2, <2>3, <2>4, <2>5
<1>11. PICK f : Flattens(f, Line, s) /\ FlattenSeq(s) = f[Len(s)]
  <2> HIDE DEF s
  <2> QED BY <1>10, FlattenSteps
<1>12. ReadInv(reader, N, p, half, splits, c, ok2)
  BY <1>3, <1>4, ReadHurt
<1> DEFINE q == ReadAll(reader, f[n])
           g == IF n = 0 THEN half ELSE "none"
<1>13. ReadInv(q, N, p + n, g, splits, c, ok2)
  <2>1. n \in 0..Len(ch) /\ p + n <= N + 2 /\ p \in 0..(N + 2)
    BY <1>3, <1>6, <1>8
  <2>2. half \in {"none", "json", "early"}
    BY DEF ChatType
  <2> HIDE DEF m
  <2>3. QED
    BY <1>3, <1>4, <1>8, <1>11, <1>12, <2>1, <2>2, ChunkRead
<1>14. OnWire(wire', N, ok2) /\ Len(wire') = m - n
  <2> DEFINE w == SubSeq(wire, n + 1, m)
  <2>1. w \in Seq(Events(N)) /\ Len(w) = m - n
        /\ \A i \in 1..(m - n) : w[i] = wire[n + i] /\ n + i \in 1..m
    BY <1>6
  <2> HIDE DEF w
  <2>2. Len(w) <= N + 2
    BY <1>3, <1>6, <2>1
  <2>3. \A i \in 1..Len(w) : w[i].at = N + 1 - Len(w) + i
    <3> TAKE i \in 1..Len(w)
    <3>1. w[i].at = N + 1 - m + (n + i)
      BY <1>7, <2>1 DEF OnWire
    <3>2. N + 1 - m + (n + i) = N + 1 - Len(w) + i
      BY <1>3, <1>6, <2>1
    <3>3. QED
      BY <3>1, <3>2
  <2>4. \A i \in 1..Len(w) : ok2 => w[i].is # "error"
    BY <1>7, <2>1 DEF OnWire
  <2>5. QED
    BY <1>1, <2>1, <2>2, <2>3, <2>4 DEF w, OnWire
<1>15. place' = p + n
  BY <1>3, <1>5, <1>6, <1>14
<1>16. CASE cut = "none"
  <2>1. reader' = q /\ g = "none"
    BY <1>1, <1>8, <1>9, <1>10, <1>11, <1>16
  <2> HIDE DEF q, g
  <2>2. QED
    BY <1>1, <1>4, <1>5, <1>13, <1>14, <1>15, <1>16, <2>1 DEF StreamInv, N, c, ok2
<1>17. CASE cut # "none"
  <2> DEFINE x == ch[n + 1]
             X == splits \cup {p + n}
  <2>1. n < m /\ p + n \in 0..(N + 1) /\ n + 1 \in 1..Len(ch) /\ (n + 1) - 1 = n /\ Len(s) = n + 1
    <3>1. n < m /\ Len(ch) = n + 1 /\ Len(s) = n + 1
      BY <1>1, <1>8, <1>10, <1>17
    <3> HIDE DEF m, s
    <3>2. p \in Nat /\ p + n <= N + 1
      BY <1>3, <1>6, <3>1
    <3>3. QED
      BY <1>3, <1>6, <3>1, <3>2
  <2>2. x \in Items(N) /\ x.part = cut
    BY <1>8, <1>10, <1>17, <2>1
  <2>3. g = "none"
    BY <1>1, <1>17
  <2>4. reader' = After(q, LinesOf(c, x))
    <3>1. f[n + 1] = f[n] \o s[n + 1] /\ f[n] \in Seq(Line) /\ s[n + 1] \in Seq(Line)
          /\ Len(s[n + 1]) <= 2 /\ s[n + 1] = LinesOf(c, x)
      <4> HIDE DEF s
      <4>1. n \in 0..Len(s) /\ n + 1 \in 1..Len(s)
        BY <1>6, <2>1
      <4>2. QED
        BY <1>10, <1>11, <2>1, <4>1 DEF Flattens
    <3>2. reader \in Reader
      BY <1>4 DEF ReadInv
    <3>3. ReadAll(reader, f[n] \o s[n + 1]) = After(ReadAll(reader, f[n]), s[n + 1])
      <4> HIDE DEF s
      <4> QED BY <3>1, <3>2, ReadOn
    <3>4. QED
      BY <1>9, <1>11, <2>1, <3>1, <3>3
  <2> HIDE DEF x, q, g
  <2>5. ReadInv(After(q, LinesOf(c, x)), N, p + n, cut, X, c, ok2)
    <3>1. cut \in {"json", "early"} /\ (c => ~ok2)
      BY <1>3, <1>17
    <3>2. ReadInv(q, N, p + n, "none", splits, c, ok2)
      BY <1>13, <2>3
    <3> DEFINE j == p + n
    <3>3. j \in 0..(N + 1)
      BY <2>1
    <3> HIDE DEF j
    <3>4. ReadInv(After(q, LinesOf(c, x)), N, j, cut, splits \cup {j}, c, ok2)
      <4>1. ReadInv(q, N, j, "none", splits, c, ok2)
        BY <3>2 DEF j
      <4>2. QED
        BY <1>3, <1>4, <2>2, <3>1, <3>3, <4>1, CutStep
    <3>5. QED
      BY <3>4 DEF j
  <2>6. splits' = X /\ X \subseteq 0..(N + 1) /\ half' = cut
    BY <1>1, <1>4, <1>8, <1>17, <2>1
  <2>7. wire' # <<>>
    BY <1>6, <1>14, <2>1
  <2> HIDE DEF X
  <2>8. QED
    BY <1>1, <1>5, <1>14, <1>15, <2>4, <2>5, <2>6, <2>7 DEF StreamInv, N, c, ok2
<1>18. QED
  BY <1>16, <1>17
-------------------------------------------------------------------------------
(* The steps of the exchange. *)

\* The pieces of an answer.
LEMMA PiecesFacts ==
  ASSUME NEW n \in Nat
  PROVE  /\ AllPieces(n) \in Seq(Nat) /\ Len(AllPieces(n)) = n
         /\ \A i \in 1..n : AllPieces(n)[i] = i
         /\ Range(AllPieces(n)) = 1..n
         /\ n = 0 => AllPieces(n) = <<>>
<1>1. AllPieces(n) \in Seq(Nat) /\ Len(AllPieces(n)) = n /\ \A i \in 1..n : AllPieces(n)[i] = i
  BY DEF AllPieces
<1>2. Range(AllPieces(n)) = 1..n
  BY DEF AllPieces, Range
<1>3. n = 0 => AllPieces(n) = <<>>
  BY <1>1
<1>4. QED
  BY <1>1, <1>2, <1>3

\* At the start.
LEMMA ChatTypeInit == ChatInit => ChatType /\ StreamInv
<1> SUFFICES ASSUME ChatInit PROVE ChatType /\ StreamInv
  OBVIOUS
<1>1. /\ chat = <<>> /\ answers = <<>> /\ hurt = {} /\ call = Idle /\ wire = <<>>
      /\ half = "none" /\ splits = {} /\ reader = Nothing
  BY DEF ChatInit
<1>2. turn = 0
  BY <1>1 DEF turn
<1>3. call.phase = "idle" /\ call.converts = FALSE
      /\ DOMAIN call = {"phase", "stream", "converts", "keyed", "body"}
  BY <1>1 DEF Idle
<1>4. chat \in Seq(Message) /\ answers \in Seq(Seq(Nat)) /\ 1..turn = {}
  BY <1>1, <1>2
<1>5. ChatType
  BY <1>1, <1>3, <1>4 DEF ChatType
<1>6. StreamInv
  BY <1>3 DEF StreamInv
<1>7. QED
  BY <1>5, <1>6

\* A request leaves the facts on types.
LEMMA AskTypes ==
  ASSUME ChatType, AskModel
  PROVE  ChatType' /\ StreamInv'
<1>1. /\ call.phase = "idle" /\ reader' = Nothing /\ splits' = {}
      /\ wire' = wire /\ half' = half /\ hurt' = hurt
  BY DEF AskModel
<1>2. PICK stream \in BOOLEAN, instruct \in BOOLEAN : \E provider, credentials, configured :
        chat_completions(stream, provider, credentials, configured, instruct)
  BY DEF AskModel
<1>3. /\ answers' = Append(answers, <<>>) /\ call'.phase = "upstream" /\ call'.converts \in BOOLEAN
      /\ DOMAIN call' = {"phase", "stream", "converts", "keyed", "body"}
  BY <1>2 DEF chat_completions, needs_conversion
<1> DEFINE asked == Saying("user", turn + 1, <<0>>)
           ruled == Saying("system", turn + 1, <<0>>)
<1>4. chat' = chat \o (IF instruct THEN <<ruled, asked>> ELSE <<asked>>)
  BY <1>2 DEF chat_completions
<1>5. turn \in Nat /\ answers \in Seq(Seq(Nat)) /\ chat \in Seq(Message)
      /\ \A t \in 1..turn : answers[t] = AllPieces(Len(answers[t]))
  BY DEF ChatType, turn
<1>6. asked \in Message /\ ruled \in Message
  <2>1. turn + 1 \in Nat /\ <<0>> \in Seq(Nat)
    BY <1>5
  <2>2. QED
    BY <2>1 DEF Saying, Message
<1> HIDE DEF asked, ruled
<1>7. chat' \in Seq(Message)
  BY <1>4, <1>5, <1>6
<1>8. /\ answers' \in Seq(Seq(Nat)) /\ turn' = turn + 1 /\ answers'[turn + 1] = <<>>
      /\ \A t \in 1..turn : answers'[t] = answers[t]
  <2>1. <<>> \in Seq(Nat)
    OBVIOUS
  <2>2. QED
    BY <1>3, <1>5, <2>1 DEF turn
<1>9. \A t \in 1..turn' : answers'[t] = AllPieces(Len(answers'[t]))
  <2>1. \A t \in 1..turn' : t \in 1..turn \/ t = turn + 1
    BY <1>5, <1>8
  <2>2. answers'[turn + 1] = AllPieces(Len(answers'[turn + 1]))
    <3>1. Len(answers'[turn + 1]) = 0
      BY <1>8
    <3>2. AllPieces(0) = <<>>
      BY PiecesFacts
    <3>3. QED
      BY <1>8, <3>1, <3>2
  <2>3. QED
    BY <1>5, <1>8, <2>1, <2>2
<1>10. hurt' \subseteq 1..turn /\ turn' \notin hurt' /\ turn' >= 1 /\ pieces' = 0
       /\ hurt' \subseteq 1..turn'
  BY <1>1, <1>5, <1>8 DEF ChatType, pieces
<1>11. wire' = <<>> /\ half' = "none"
  BY <1>1 DEF ChatType
<1>12. ChatType'
  BY <1>1, <1>3, <1>7, <1>8, <1>9, <1>10, <1>11 DEF ChatType
<1>13. StreamInv'
  BY <1>3 DEF StreamInv
<1>14. QED
  BY <1>12, <1>13

\* The answer that a provider gives.
LEMMA Answered ==
  ASSUME ChatType, NEW n \in Nat, turn >= 1, answers' = [answers EXCEPT ![turn] = AllPieces(n)]
  PROVE  /\ answers' \in Seq(Seq(Nat)) /\ turn' = turn /\ pieces' = n
         /\ answers'[turn] = AllPieces(n)
         /\ \A t \in 1..turn : t # turn => answers'[t] = answers[t]
         /\ \A t \in 1..turn' : answers'[t] = AllPieces(Len(answers'[t]))
<1> DEFINE a == AllPieces(n)
<1>1. a \in Seq(Nat) /\ Len(a) = n
  BY PiecesFacts
<1>2. /\ answers \in Seq(Seq(Nat)) /\ turn \in 1..Len(answers)
      /\ \A t \in 1..turn : answers[t] = AllPieces(Len(answers[t]))
  BY DEF ChatType, turn
<1> HIDE DEF a
<1>3. answers' = [answers EXCEPT ![turn] = a]
  BY DEF a
<1>4. answers' \in Seq(Seq(Nat)) /\ Len(answers') = Len(answers)
      /\ \A t \in 1..Len(answers) : answers'[t] = IF t = turn THEN a ELSE answers[t]
  <2> DEFINE k == turn
  <2>1. k \in 1..Len(answers) /\ answers' = [answers EXCEPT ![k] = a]
    BY <1>2, <1>3
  <2> HIDE DEF k
  <2>2. answers' \in Seq(Seq(Nat)) /\ Len(answers') = Len(answers)
        /\ \A t \in 1..Len(answers) : answers'[t] = IF t = k THEN a ELSE answers[t]
    BY <1>1, <1>2, <2>1
  <2>3. QED
    BY <2>2 DEF k
<1>5. turn' = turn /\ \A t \in 1..turn : answers'[t] = IF t = turn THEN a ELSE answers[t]
  BY <1>4 DEF turn
<1>6. pieces' = n /\ answers'[turn] = a
  BY <1>1, <1>2, <1>4, <1>5 DEF pieces
<1>7. \A t \in 1..turn' : answers'[t] = AllPieces(Len(answers'[t]))
  BY <1>1, <1>2, <1>5 DEF a
<1>8. QED
  BY <1>4, <1>5, <1>6, <1>7 DEF a

\* So does a whole body,
LEMMA BodyTypes ==
  ASSUME ChatType, NEW n \in 1..MaxPieces, NEW garbled \in BOOLEAN, Body(n, garbled)
  PROVE  ChatType' /\ StreamInv'
<1>1. /\ call.phase = "upstream" /\ answers' = [answers EXCEPT ![turn] = AllPieces(n)]
      /\ hurt' = IF garbled THEN hurt \cup {turn} ELSE hurt
      /\ call' = [call EXCEPT !.phase = "idle"]
      /\ wire' = wire /\ half' = half
  BY DEF Body, streamVars
<1>2. n \in Nat /\ n >= 1 /\ turn >= 1 /\ turn \in Nat
  BY <1>1, ExchangeAssumption DEF ChatType, turn
<1>3. /\ answers' \in Seq(Seq(Nat)) /\ turn' = turn
      /\ \A t \in 1..turn' : answers'[t] = AllPieces(Len(answers'[t]))
  BY <1>1, <1>2, Answered
<1>4. call'.phase = "idle" /\ call'.converts \in BOOLEAN
      /\ DOMAIN call' = {"phase", "stream", "converts", "keyed", "body"}
  BY <1>1 DEF ChatType
<1>5. chat' \in Seq(Message)
  <2>1. CASE garbled /\ ~call.converts
    <3>1. chat' = chat
      BY <2>1 DEF Body
    <3>2. QED
      BY <3>1 DEF ChatType
  <2>2. CASE ~(garbled /\ ~call.converts)
    <3> DEFINE T == reader'.texts
               m == Saying("assistant", turn, T)
    <3>1. T \in {<<>>, AllPieces(n)} /\ chat' = Append(chat, m)
      BY <2>2 DEF Body, Nothing, anthropic_to_openai_response
    <3>2. T \in Seq(Nat)
      <4> HIDE DEF T
      <4>1. AllPieces(n) \in Seq(Nat)
        BY <1>2, PiecesFacts
      <4>2. <<>> \in Seq(Nat)
        OBVIOUS
      <4>3. QED
        BY <3>1, <4>1, <4>2
    <3>3. m \in Message
      <4> HIDE DEF T
      <4> QED BY <1>2, <3>2 DEF Saying, Message
    <3> HIDE DEF m
    <3>4. QED
      BY <3>1, <3>3 DEF ChatType
  <2>3. QED
    BY <2>1, <2>2
<1>6. hurt' \subseteq 1..turn' /\ wire' = <<>> /\ half' = "none"
  BY <1>1, <1>2, <1>3 DEF ChatType
<1>7. ChatType'
  BY <1>3, <1>4, <1>5, <1>6 DEF ChatType
<1>8. StreamInv'
  BY <1>4 DEF StreamInv
<1>9. QED
  BY <1>7, <1>8

\* The events of a new stream.
NewEvents(n, error) ==
  <<Event("start", 0, 0)>> \o [k \in 1..n |-> Event("text", k, k)]
     \o <<Event(IF error THEN "error" ELSE "stop", 0, n + 1)>>
\* They are those of the whole stream.
LEMMA NewWire ==
  ASSUME NEW n \in Nat, NEW error \in BOOLEAN
  PROVE  OnWire(NewEvents(n, error), n, ~error) /\ Len(NewEvents(n, error)) = n + 2
<1> DEFINE E == Events(n)
           a == Event("start", 0, 0)
           z == Event(IF error THEN "error" ELSE "stop", 0, n + 1)
           A == <<a>>
           B == [k \in 1..n |-> Event("text", k, k)]
           C == <<z>>
           w == NewEvents(n, error)
<1>1. a \in E /\ a.at = 0 /\ a.is = "start"
  BY DEF Event, Events, Kind
<1>2. z \in E /\ z.at = n + 1 /\ z.is \in {"stop", "error"} /\ (~error => z.is = "stop")
  <2>1. n + 1 # 0 /\ ~(n + 1 <= n) /\ n + 1 \in 0..(n + 1)
    OBVIOUS
  <2>2. QED
    BY <2>1 DEF Event, Events, Kind
<1>3. \A k \in 1..n : B[k] \in E /\ B[k].at = k /\ B[k].is = "text"
  <2> TAKE k \in 1..n
  <2>1. k # 0 /\ k <= n /\ k \in 0..(n + 1) /\ k \in Nat
    OBVIOUS
  <2>2. QED
    BY <2>1 DEF Event, Events, Kind
<1>4. Len(B) = n /\ B \in Seq(E)
  <2>1. Len(B) = n
    OBVIOUS
  <2> HIDE DEF E
  <2>2. B = [k \in 1..n |-> B[k]]
    OBVIOUS
  <2>3. QED
    BY <1>3, <2>1
<1> HIDE DEF a, z, B, E
<1>5. w = (A \o B) \o C
  BY DEF a, z, B, NewEvents
<1> HIDE DEF w
<1>6. A \in Seq(E) /\ Len(A) = 1 /\ A[1] = a /\ C \in Seq(E) /\ Len(C) = 1 /\ C[1] = z
  BY <1>1, <1>2
<1> HIDE DEF A, C
<1> DEFINE D == A \o B
<1>7. D \in Seq(E) /\ Len(D) = n + 1
      /\ \A i \in 1..(n + 1) : D[i] = IF i = 1 THEN a ELSE B[i - 1]
  <2>1. D \in Seq(E) /\ Len(D) = n + 1
    <3>1. D \in Seq(E) /\ Len(D) = Len(A) + Len(B)
      BY <1>4, <1>6, ConcatProperties
    <3>2. QED
      BY <1>4, <1>6, <3>1
  <2>2. \A i \in 1..(n + 1) : D[i] = IF i <= 1 THEN A[i] ELSE B[i - 1]
    BY <1>4, <1>6, <2>1, ConcatProperties
  <2> HIDE DEF D
  <2>3. \A i \in 1..(n + 1) : i <= 1 <=> i = 1
    OBVIOUS
  <2>4. QED
    BY <1>6, <2>1, <2>2, <2>3
<1> HIDE DEF D
<1>8. w \in Seq(E) /\ Len(w) = n + 2
      /\ \A i \in 1..(n + 2) : w[i] = IF i = n + 2 THEN z ELSE D[i]
  <2>1. w = D \o C
    BY <1>5 DEF D
  <2>4. w \in Seq(E) /\ Len(w) = n + 2
    <3>1. w \in Seq(E) /\ Len(w) = Len(D) + Len(C)
      BY <1>6, <1>7, <2>1, ConcatProperties
    <3>2. QED
      BY <1>6, <1>7, <3>1
  <2>2. \A i \in 1..(n + 2) : w[i] = IF i <= n + 1 THEN D[i] ELSE C[i - (n + 1)]
    BY <1>6, <1>7, <2>1, <2>4, ConcatProperties
  <2>3. \A i \in 1..(n + 2) : (i <= n + 1 <=> i # n + 2) /\ (i = n + 2 => i - (n + 1) = 1)
    OBVIOUS
  <2>5. QED
    BY <1>6, <2>4, <2>2, <2>3
<1>9. \A i \in 1..(n + 2) : w[i].at = i - 1 /\ (~error => w[i].is # "error")
  <2> TAKE i \in 1..(n + 2)
  <2>1. CASE i = n + 2
    BY <1>2, <1>8, <2>1
  <2>2. CASE i = 1
    BY <1>1, <1>7, <1>8, <2>2
  <2>3. CASE i # 1 /\ i # n + 2
    <3>1. i \in 1..(n + 1) /\ i - 1 \in 1..n
      BY <2>3
    <3>2. w[i] = B[i - 1]
      BY <1>7, <1>8, <2>3, <3>1
    <3> DEFINE k == i - 1
    <3> HIDE DEF k
    <3>3. k \in 1..n /\ w[i] = B[k]
      BY <3>1, <3>2 DEF k
    <3>4. w[i].at = k /\ w[i].is = "text"
      BY <1>3, <3>3
    <3>5. QED
      BY <3>4 DEF k
  <2>4. QED
    BY <2>1, <2>2, <2>3
<1>10. \A i \in 1..Len(w) : i - 1 = n + 1 - Len(w) + i
  <2>1. \A i \in 1..(n + 2) : i - 1 = n + 1 - (n + 2) + i
    OBVIOUS
  <2>2. QED
    BY <1>8, <2>1
<1>11. QED
  BY <1>8, <1>9, <1>10 DEF OnWire, E, w

\* a new stream, of which nothing has been read,
LEMMA StartTypes ==
  ASSUME ChatType, NEW n \in 1..MaxPieces, NEW error \in BOOLEAN, StartStream(n, error)
  PROVE  ChatType' /\ StreamInv'
<1>1. /\ call.phase = "upstream" /\ answers' = [answers EXCEPT ![turn] = AllPieces(n)]
      /\ hurt' = IF error THEN hurt \cup {turn} ELSE hurt
      /\ call' = [call EXCEPT !.phase = "streaming"]
      /\ wire' = NewEvents(n, error) /\ half' = half /\ splits' = splits /\ reader' = reader
      /\ chat' = chat
  BY DEF StartStream, NewEvents
<1>2. n \in Nat /\ n >= 1 /\ turn >= 1 /\ turn \in Nat
  BY <1>1, ExchangeAssumption DEF ChatType, turn
<1>3. /\ answers' \in Seq(Seq(Nat)) /\ turn' = turn /\ pieces' = n
      /\ \A t \in 1..turn' : answers'[t] = AllPieces(Len(answers'[t]))
  BY <1>1, <1>2, Answered
<1>4. /\ call'.phase = "streaming" /\ call'.converts \in BOOLEAN
      /\ DOMAIN call' = {"phase", "stream", "converts", "keyed", "body"}
  BY <1>1 DEF ChatType
<1>5. /\ hurt' \subseteq 1..turn' /\ half' = "none" /\ reader' = Nothing /\ splits' = {}
      /\ (turn' \notin hurt' => ~error)
  BY <1>1, <1>2, <1>3 DEF ChatType
<1>6. ChatType'
  BY <1>1, <1>2, <1>3, <1>4, <1>5 DEF ChatType
<1>7. OnWire(wire', n, turn' \notin hurt') /\ Len(wire') = n + 2
  BY <1>1, <1>2, <1>5, NewWire DEF OnWire
<1>8. place' = 0
  BY <1>2, <1>3, <1>7 DEF place
<1>9. ReadInv(Nothing, n, 0, "none", {}, call'.converts, turn' \notin hurt')
  <2>1. Nothing \in Reader /\ Nothing.texts = <<>> /\ ~Nothing.open
    BY DEF Nothing, Reader
  <2>2. Range(<<>>) = {}
    BY DEF Range
  <2>3. AllPieces(0) = <<>> /\ Only(<<>>, {}) = <<>>
    BY PiecesFacts, OnlyEmpty
  <2>4. Before(n, 0) = 0 /\ 1..0 = {} /\ 0 # n + 2
    BY <1>2 DEF Before
  <2>5. TextInv(<<>>, n, 0, {}, call'.converts)
    BY <2>2, <2>3, <2>4 DEF TextInv
  <2>6. QED
    BY <2>1, <2>4, <2>5 DEF ReadInv
<1>10. StreamInv'
  BY <1>3, <1>5, <1>7, <1>8, <1>9 DEF StreamInv
<1>11. QED
  BY <1>6, <1>10

\* its end,
LEMMA EndTypes ==
  ASSUME ChatType, StreamInv, EndOfStream
  PROVE  ChatType' /\ StreamInv'
<1> DEFINE m == Saying("assistant", turn, reader.texts)
<1>1. /\ call.phase = "streaming"
      /\ chat' = IF reader.texts = <<>> THEN chat ELSE Append(chat, m)
      /\ call' = [call EXCEPT !.phase = "idle"]
      /\ hurt' = IF wire = <<>> THEN hurt ELSE hurt \cup {turn}
      /\ wire' = <<>> /\ half' = "none" /\ answers' = answers
  BY DEF EndOfStream
<1>2. turn \in Nat /\ turn >= 1 /\ turn' = turn
  BY <1>1 DEF ChatType, turn
<1>3. m \in Message
  <2>1. reader.texts \in Seq(Nat)
    BY <1>1 DEF StreamInv, ReadInv, Reader
  <2>2. QED
    BY <1>2, <2>1 DEF Saying, Message
<1> HIDE DEF m
<1>4. chat' \in Seq(Message)
  BY <1>1, <1>3 DEF ChatType
<1>5. /\ call'.phase = "idle" /\ call'.converts \in BOOLEAN
      /\ DOMAIN call' = {"phase", "stream", "converts", "keyed", "body"}
  BY <1>1 DEF ChatType
<1>6. hurt' \subseteq 1..turn'
  BY <1>1, <1>2 DEF ChatType
<1>7. ChatType'
  BY <1>1, <1>2, <1>4, <1>5, <1>6 DEF ChatType
<1>8. StreamInv'
  BY <1>5 DEF StreamInv
<1>9. QED
  BY <1>7, <1>8

\* an error,
LEMMA FailsTypes ==
  ASSUME ChatType, Fails
  PROVE  ChatType' /\ StreamInv'
<1>1. /\ call.phase = "upstream" /\ call' = [call EXCEPT !.phase = "idle"]
      /\ chat' = chat /\ answers' = answers /\ wire' = wire /\ half' = half
      /\ hurt' = hurt
  BY DEF Fails, streamVars
<1>2. /\ call'.phase = "idle" /\ call'.converts \in BOOLEAN
      /\ DOMAIN call' = {"phase", "stream", "converts", "keyed", "body"} /\ turn' = turn
  BY <1>1 DEF ChatType, turn
<1>3. ChatType'
  BY <1>1, <1>2 DEF ChatType
<1>4. StreamInv'
  BY <1>2 DEF StreamInv
<1>5. QED
  BY <1>3, <1>4

\* and a chunk.
LEMMA DeliverTypes ==
  ASSUME ChatType, StreamInv, NEW n \in 0..Len(wire), NEW cut \in {"none", "json", "early"},
         Deliver(n, cut)
  PROVE  ChatType'
<1>1. /\ call.phase = "streaming" /\ call' = call /\ chat' = chat /\ answers' = answers
      /\ half' = cut /\ turn' = turn /\ pieces' = pieces
      /\ hurt' = IF cut # "none" /\ call.converts THEN hurt \cup {turn} ELSE hurt
  BY DEF Deliver, turn, pieces
<1>2. turn \in Nat /\ turn >= 1
  BY <1>1 DEF ChatType, turn
<1>3. hurt' \subseteq 1..turn
  BY <1>1, <1>2 DEF ChatType
<1>4. QED
  BY <1>1, <1>2, <1>3 DEF ChatType

\* Every step keeps the facts on types and on the stream.
LEMMA ChatNextKeeps ==
  ASSUME ChatType, StreamInv, [ChatNext]_chatVars
  PROVE  ChatType' /\ StreamInv'
<1>1. CASE AskModel
  BY <1>1, AskTypes
<1>2. CASE Fails
  BY <1>2, FailsTypes
<1>3. CASE EndOfStream
  BY <1>3, EndTypes
<1>4. ASSUME NEW n \in 1..MaxPieces, NEW bad \in BOOLEAN, Body(n, bad) \/ StartStream(n, bad)
      PROVE  ChatType' /\ StreamInv'
  BY <1>4, BodyTypes, StartTypes
<1>5. ASSUME NEW n \in 0..Len(wire), NEW cut \in {"none", "json", "early"}, Deliver(n, cut)
      PROVE  ChatType' /\ StreamInv'
  BY <1>5, Delivered, DeliverTypes
<1>6. CASE UNCHANGED chatVars
  BY <1>6 DEF chatVars, ChatType, StreamInv, turn, pieces, place
<1>7. QED
  BY <1>1, <1>2, <1>3, <1>4, <1>5, <1>6 DEF ChatNext

\* What has arrived.
LEMMA ArrivedIs ==
  ASSUME ChatType, StreamInv, call.phase = "streaming"
  PROVE  Arrived = AllPieces(Before(pieces, place))
<1> DEFINE N == pieces
           p == place
           m == Len(wire)
           b == Before(N, p)
           s == AllPieces(N)
           K == {k \in Range(answers[turn]) : \A e \in Range(wire) : e.at > k}
<1>1. N \in Nat /\ answers[turn] = s
  <2>1. turn \in 1..turn /\ answers \in Seq(Seq(Nat))
    BY DEF ChatType, turn
  <2>2. answers[turn] = AllPieces(Len(answers[turn])) /\ answers[turn] \in Seq(Nat)
    BY <2>1 DEF ChatType, turn
  <2>3. QED
    BY <2>2 DEF pieces
<1>2. m \in Nat /\ m <= N + 2 /\ p = N + 2 - m /\ DOMAIN wire = 1..m
      /\ \A i \in 1..m : wire[i].at = N + 1 - m + i
  BY DEF StreamInv, OnWire, place
<1> HIDE DEF N, p, m
<1>3. s \in Seq(Nat) /\ Len(s) = N /\ (\A i \in 1..N : s[i] = i) /\ Range(s) = 1..N
  BY <1>1, PiecesFacts
<1>4. b \in 0..N /\ p \in 0..(N + 2)
  <2>1. p \in 0..(N + 2)
    BY <1>1, <1>2
  <2> HIDE DEF m
  <2>2. QED
    BY <1>1, <2>1 DEF Before
<1>5. \A k \in 1..N : k \in K <=> k <= b
  <2> TAKE k \in 1..N
  <2>1. k \in K <=> \A i \in 1..m : N + 1 - m + i > k
    <3>1. k \in Range(answers[turn])
      BY <1>1, <1>3
    <3>2. (\A e \in Range(wire) : e.at > k) <=> \A i \in 1..m : wire[i].at > k
      BY <1>2 DEF Range
    <3>3. k \in K <=> \A e \in Range(wire) : e.at > k
      BY <3>1
    <3> HIDE DEF K
    <3>4. QED
      BY <1>2, <3>2, <3>3
  <2>2. (\A i \in 1..m : N + 1 - m + i > k) <=> (m > 0 => p > k)
    <3>1. m > 0 => 1 \in 1..m /\ N + 1 - m + 1 = p
      BY <1>1, <1>2
    <3>2. \A i \in 1..m : p > k => N + 1 - m + i > k
      BY <1>1, <1>2
    <3>3. QED
      BY <1>2, <3>1, <3>2
  <2>3. (m > 0 => p > k) <=> k <= b
    <3>1. m > 0 <=> p < N + 2
      BY <1>1, <1>2
    <3>2. QED
      BY <1>1, <1>4, <3>1 DEF Before
  <2>4. QED
    BY <2>1, <2>2, <2>3
<1>6. Arrived = Only(s, K)
  BY <1>1 DEF Arrived
<1> HIDE DEF K, s, b
<1>7. Only(s, K) = SubSeq(s, 1, b)
  <2>1. \A k \in 1..Len(s) : s[k] \in K <=> k <= b
    BY <1>3, <1>5
  <2>2. b \in 0..Len(s)
    BY <1>3, <1>4
  <2>3. QED
    BY <1>3, <2>1, <2>2, OnlyTheStart
<1>8. SubSeq(s, 1, b) = AllPieces(b)
  <2> DEFINE t == SubSeq(s, 1, b)
             u == AllPieces(b)
  <2>1. t \in Seq(Nat) /\ Len(t) = b /\ \A i \in 1..b : t[i] = s[i]
    BY <1>1, <1>3, <1>4
  <2>2. u \in Seq(Nat) /\ Len(u) = b /\ \A i \in 1..b : u[i] = i
    BY <1>4, PiecesFacts
  <2> HIDE DEF t, u
  <2>3. \A i \in 1..b : i \in 1..N
    BY <1>1, <1>4
  <2>4. \A i \in 1..Len(t) : t[i] = u[i]
    BY <1>3, <2>1, <2>2, <2>3
  <2>5. t = u
    BY <2>1, <2>2, <2>4, SeqEqual
  <2>6. QED
    BY <2>5 DEF t, u
<1>9. QED
  BY <1>6, <1>7, <1>8 DEF b, N, p

\* What a client may have lost.
LEMMA LossFollows ==
  ASSUME ChatType, StreamInv
  PROVE  LossIsLocal
<1> SUFFICES ASSUME call.phase = "streaming"
             PROVE  /\ reader.texts = Only(Arrived, Range(reader.texts))
                    /\ \A k \in Range(Arrived) \ Range(reader.texts) :
                         call.converts /\ {k - 1, k} \cap splits # {}
                    /\ (wire = <<>> /\ turn \notin hurt) => reader.ended
  BY DEF LossIsLocal
<1> DEFINE b == Before(pieces, place)
<1>1. Arrived = AllPieces(b)
  BY ArrivedIs
<1>2. b \in Nat /\ pieces \in Nat
  <2>1. pieces \in Nat
    <3>1. turn \in 1..Len(answers) /\ answers \in Seq(Seq(Nat))
      BY DEF ChatType, turn
    <3>2. QED
      BY <3>1 DEF pieces
  <2>2. Len(wire) \in Nat /\ Len(wire) <= pieces + 2
    BY DEF StreamInv, OnWire
  <2>3. QED
    BY <2>1, <2>2 DEF Before, place
<1>3. ReadInv(reader, pieces, place, half, splits, call.converts, turn \notin hurt)
  BY DEF StreamInv
<1>4. /\ reader.texts = Only(AllPieces(b), Range(reader.texts))
      /\ \A k \in 1..b : k \notin Range(reader.texts) =>
           call.converts /\ {k - 1, k} \cap splits # {}
  BY <1>3 DEF ReadInv, TextInv
<1>5. Range(AllPieces(b)) = 1..b
  BY <1>2, PiecesFacts
<1>6. wire = <<>> /\ turn \notin hurt => reader.ended
  <2>1. wire = <<>> => place = pieces + 2
    BY <1>2 DEF place
  <2>2. QED
    BY <1>3, <2>1 DEF ReadInv
<1> HIDE DEF b
<1>7. QED
  BY <1>1, <1>4, <1>5, <1>6

\* A piece that has arrived and is not in what the client has read was lost at a
\* place where a chunk cut an event, its own or the one before it, and only in a
\* stream that is translated (convert_sse_anthropic_to_openai, chunk by chunk).
THEOREM LossStaysLocal == ChatSpec => []LossIsLocal
<1>1. ChatInit => ChatType /\ StreamInv
  BY ChatTypeInit
<1>2. ChatType /\ StreamInv /\ [ChatNext]_chatVars => ChatType' /\ StreamInv'
  BY ChatNextKeeps
<1>3. ChatType /\ StreamInv => LossIsLocal
  BY LossFollows
<1>4. QED
  BY <1>1, <1>2, <1>3, PTL DEF ChatSpec
-------------------------------------------------------------------------------
(* What the requests tell. *)

\* What a filter by role keeps: all of these roles, and only them.
LEMMA SaidByTyped ==
  ASSUME NEW ms \in Seq(Message), NEW roles
  PROVE  /\ SaidBy(ms, roles) \in Seq(Message)
         /\ \A i \in 1..Len(SaidBy(ms, roles)) : SaidBy(ms, roles)[i].role \in roles
         /\ \A i \in 1..Len(ms) : ms[i].role \in roles => ms[i] \in Range(SaidBy(ms, roles))
<1> DEFINE K == {m \in Range(ms) : m.role \in roles}
           o == Only(ms, K)
<1>1. o = SaidBy(ms, roles)
  BY DEF SaidBy
<1>2. \A i \in 1..Len(ms) : ms[i] \in K <=> ms[i].role \in roles
  BY DEF Range
<1>3. \A m \in K : m.role \in roles
  OBVIOUS
<1> HIDE DEF K
<1>4. o \in Seq(Message) /\ \E g : Embeds(g, o, ms, K, Len(ms))
  BY OnlyEmbeds
<1> HIDE DEF o
<1>5. PICK g : Embeds(g, o, ms, K, Len(ms))
  BY <1>4
<1>6. \A i \in 1..Len(o) : o[i] \in K
  BY <1>5 DEF Embeds
<1>7. \A i \in 1..Len(ms) : ms[i] \in K => ms[i] \in Range(o)
  <2> SUFFICES ASSUME NEW i \in 1..Len(ms), ms[i] \in K PROVE ms[i] \in Range(o)
    OBVIOUS
  <2>1. \E j \in 1..Len(o) : o[j] = ms[i]
    BY <1>5 DEF Embeds
  <2>2. DOMAIN o = 1..Len(o)
    BY <1>4
  <2>3. QED
    BY <2>1, <2>2 DEF Range
<1>8. QED
  BY <1>1, <1>2, <1>3, <1>4, <1>6, <1>7

\* A new message is kept or not.
LEMMA SaidByAppend ==
  ASSUME NEW ms \in Seq(Message), NEW x \in Message, NEW roles
  PROVE  SaidBy(Append(ms, x), roles) =
           IF x.role \in roles THEN Append(SaidBy(ms, roles), x) ELSE SaidBy(ms, roles)
<1> DEFINE u == Append(ms, x)
           K == {m \in Range(ms) : m.role \in roles}
           L == {m \in Range(u) : m.role \in roles}
<1>1. u \in Seq(Message) /\ Len(u) = Len(ms) + 1 /\ u[Len(ms) + 1] = x /\ Len(ms) \in Nat
      /\ (\A i \in 1..Len(ms) : u[i] = ms[i]) /\ DOMAIN u = 1..Len(u) /\ DOMAIN ms = 1..Len(ms)
  OBVIOUS
<1> HIDE DEF u
<1>2. x \in Range(u) /\ \A i \in 1..Len(ms) : ms[i] \in Range(u) /\ ms[i] \in Range(ms)
  BY <1>1 DEF Range
<1>3. (x \in L <=> x.role \in roles) /\ \A i \in 1..Len(ms) : ms[i] \in L <=> ms[i] \in K
  BY <1>2
<1>4. SaidBy(ms, roles) = Only(ms, K) /\ SaidBy(u, roles) = Only(u, L)
  BY DEF SaidBy
<1> HIDE DEF K, L
<1>5. Only(ms, L) = Only(ms, K)
  BY <1>3, OnlySame
<1>6. Only(Append(ms, x), L) = IF x \in L THEN Append(Only(ms, L), x) ELSE Only(ms, L)
  BY OnlyAppend
<1>7. QED
  BY <1>3, <1>4, <1>5, <1>6 DEF u

\* A list of these roles only stays.
LEMMA SaidByAll ==
  ASSUME NEW ms \in Seq(Message), NEW roles, \A i \in 1..Len(ms) : ms[i].role \in roles
  PROVE  SaidBy(ms, roles) = ms
<1> DEFINE K == {m \in Range(ms) : m.role \in roles}
<1>1. \A i \in 1..Len(ms) : ms[i] \in K
  BY DEF Range
<1>2. SaidBy(ms, roles) = Only(ms, K)
  BY DEF SaidBy
<1> HIDE DEF K
<1>3. QED
  BY <1>1, <1>2, OnlyAll

\* A new message, of any role.
LEMMA SpokenAppend ==
  ASSUME NEW ms \in Seq(Message), NEW x \in Message
  PROVE  /\ Spoken(ms) \in Seq(Message)
         /\ Asked(ms) \in Seq(Message)
         /\ x.role = "system" => /\ Spoken(Append(ms, x)) = Spoken(ms)
                                 /\ Asked(Append(ms, x)) = Asked(ms)
         /\ x.role = "user" => /\ Spoken(Append(ms, x)) = Append(Spoken(ms), x)
                               /\ Asked(Append(ms, x)) = Append(Asked(ms), x)
         /\ x.role = "assistant" => /\ Spoken(Append(ms, x)) = Append(Spoken(ms), x)
                                    /\ Asked(Append(ms, x)) = Asked(ms)
<1> DEFINE s == Spoken(ms)
           u == Append(ms, x)
<1>1. s \in Seq(Message)
  BY SaidByTyped DEF Spoken
<1>2. SaidBy(u, {"user", "assistant"}) =
        IF x.role \in {"user", "assistant"} THEN Append(SaidBy(ms, {"user", "assistant"}), x)
        ELSE SaidBy(ms, {"user", "assistant"})
  BY SaidByAppend
<1>3. Spoken(u) = IF x.role \in {"user", "assistant"} THEN Append(s, x) ELSE s
  BY <1>2 DEF Spoken
<1> HIDE DEF s, u
<1>4. SaidBy(Append(s, x), {"user"}) =
        IF x.role \in {"user"} THEN Append(SaidBy(s, {"user"}), x) ELSE SaidBy(s, {"user"})
  BY <1>1, SaidByAppend
<1>5. Asked(ms) = SaidBy(s, {"user"}) /\ Asked(u) = SaidBy(Spoken(u), {"user"})
  BY DEF Asked, s
<1>6. SaidBy(s, {"user"}) \in Seq(Message)
  BY <1>1, SaidByTyped
<1>7. CASE x.role = "system"
  BY <1>1, <1>3, <1>5, <1>6, <1>7 DEF s, u
<1>8. CASE x.role = "user"
  BY <1>1, <1>3, <1>4, <1>5, <1>6, <1>8 DEF s, u
<1>9. CASE x.role = "assistant"
  BY <1>1, <1>3, <1>4, <1>5, <1>6, <1>9 DEF s, u
<1>10. QED
  BY <1>1, <1>5, <1>6, <1>7, <1>8, <1>9 DEF s, u, Message

\* A question.
LEMMA FollowsAsk ==
  ASSUME NEW s \in Seq(Message), NEW ans, NEW ans2, NEW t \in Nat, NEW h,
         Follows(s, ans, t, "idle", h),
         NEW x \in Message, x.role = "user", x.turn = t + 1,
         \A k \in 1..t : ans2[k] = ans[k], ans2[t + 1] = <<>>
  PROVE  Follows(Append(s, x), ans2, t + 1, "upstream", h)
<1> DEFINE n == Len(s)
           u == Append(s, x)
<1>1. n \in Nat /\ Len(u) = n + 1 /\ u[n + 1] = x /\ \A i \in 1..n : u[i] = s[i]
  OBVIOUS
<1> HIDE DEF u
<1> SUFFICES ASSUME NEW i \in 1..(n + 1)
             PROVE  /\ u[i].turn \in 1..(t + 1)
                    /\ u[i].turn = t + 1 => i = Len(u)
                    /\ u[i].role = "assistant" => i > 1 /\ u[i - 1].turn = u[i].turn
                    /\ u[i].role = "user" /\ ans2[u[i].turn] # <<>> /\ u[i].turn \notin h =>
                         i < Len(u) /\ u[i + 1].texts = ans2[u[i].turn]
  BY <1>1 DEF Follows, u
<1>2. CASE i = n + 1
  BY <1>1, <1>2
<1>3. CASE i # n + 1
  <2>1. i \in 1..n /\ (i > 1 => i - 1 \in 1..n) /\ (i < n => i + 1 \in 1..n)
    BY <1>1, <1>3
  <2>2. /\ s[i].turn \in 1..t
        /\ s[i].role = "assistant" => i > 1 /\ s[i - 1].turn = s[i].turn
        /\ s[i].role = "user" /\ s[i].turn \notin h /\ ans[s[i].turn] # <<>> =>
             i < n /\ s[i + 1].texts = ans[s[i].turn]
    BY <2>1 DEF Follows
  <2>3. s[i].turn # t + 1 /\ s[i].turn \in 1..(t + 1) /\ ans2[s[i].turn] = ans[s[i].turn]
    BY <2>2
  <2>4. u[i] = s[i] /\ (i > 1 => u[i - 1] = s[i - 1]) /\ (i < n => u[i + 1] = s[i + 1])
    BY <1>1, <2>1
  <2>5. QED
    BY <1>1, <2>1, <2>2, <2>3, <2>4
<1>4. QED
  BY <1>2, <1>3

\* An answer.
LEMMA FollowsSaid ==
  ASSUME NEW s \in Seq(Message), NEW ans, NEW ans2, NEW t \in Nat, NEW h, NEW h2, NEW ph,
         Follows(s, ans, t, ph, h), ph # "idle", h \subseteq h2,
         Len(s) >= 1, s[Len(s)].turn = t,
         NEW x \in Message, x.role = "assistant", x.turn = t,
         \A k \in 1..t : k # t => ans2[k] = ans[k],
         t \notin h2 => x.texts = ans2[t]
  PROVE  Follows(Append(s, x), ans2, t, "idle", h2)
<1> DEFINE n == Len(s)
           u == Append(s, x)
<1>1. n \in Nat /\ n >= 1 /\ Len(u) = n + 1 /\ u[n + 1] = x /\ \A i \in 1..n : u[i] = s[i]
  OBVIOUS
<1> HIDE DEF u
<1> SUFFICES ASSUME NEW i \in 1..(n + 1)
             PROVE  /\ u[i].turn \in 1..t
                    /\ u[i].role = "assistant" => i > 1 /\ u[i - 1].turn = u[i].turn
                    /\ u[i].role = "user" /\ ans2[u[i].turn] # <<>> /\ u[i].turn \notin h2 =>
                         i < Len(u) /\ u[i + 1].texts = ans2[u[i].turn]
  BY <1>1 DEF Follows, u
<1>2. CASE i = n + 1
  <2>1. n \in 1..n /\ (n + 1) - 1 = n /\ n + 1 > 1
    BY <1>1
  <2>2. s[n].turn \in 1..t
    BY <2>1 DEF Follows
  <2>3. QED
    BY <1>1, <1>2, <2>1, <2>2
<1>3. CASE i # n + 1
  <2>1. i \in 1..n /\ (i > 1 => i - 1 \in 1..n) /\ (i < n => i + 1 \in 1..n) /\ (i = n => i + 1 = n + 1)
    BY <1>1, <1>3
  <2>2. /\ s[i].turn \in 1..t
        /\ s[i].turn = t => i = n
        /\ s[i].role = "assistant" => i > 1 /\ s[i - 1].turn = s[i].turn
        /\ s[i].role = "user" /\ s[i].turn \notin h /\ ans[s[i].turn] # <<>> =>
             \/ s[i].turn = t
             \/ i < n /\ s[i + 1].texts = ans[s[i].turn]
    BY <2>1 DEF Follows
  <2>3. u[i] = s[i] /\ (i > 1 => u[i - 1] = s[i - 1]) /\ (i < n => u[i + 1] = s[i + 1])
        /\ (i = n => u[i + 1] = x)
    BY <1>1, <2>1
  <2>4. CASE s[i].turn = t
    BY <1>1, <2>1, <2>2, <2>3, <2>4
  <2>5. CASE s[i].turn # t
    <3>1. ans2[s[i].turn] = ans[s[i].turn] /\ (s[i].turn \notin h2 => s[i].turn \notin h)
      BY <2>2, <2>5
    <3>2. QED
      BY <1>1, <2>1, <2>2, <2>3, <2>5, <3>1
  <2>6. QED
    BY <2>4, <2>5
<1>4. QED
  BY <1>2, <1>3

\* No message.
LEMMA FollowsSame ==
  ASSUME NEW s, NEW ans, NEW ans2, NEW t \in Nat, NEW h, NEW h2, NEW ph, NEW ph2,
         Follows(s, ans, t, ph, h), ph # "idle", h \subseteq h2,
         \A k \in 1..t : k # t => ans2[k] = ans[k],
         \/ t \in h2
         \/ ph2 = "streaming"
         \/ ans2[t] = ans[t] /\ ph # "streaming"
  PROVE  Follows(s, ans2, t, ph2, h2)
<1> SUFFICES ASSUME NEW i \in 1..Len(s)
             PROVE  /\ s[i].turn \in 1..t
                    /\ s[i].turn = t => i = Len(s)
                    /\ s[i].role = "assistant" => i > 1 /\ s[i - 1].turn = s[i].turn
                    /\ s[i].role = "user" /\ s[i].turn \notin h2 /\ ans2[s[i].turn] # <<>> =>
                         \/ ph2 = "streaming" /\ s[i].turn = t
                         \/ i < Len(s) /\ s[i + 1].texts = ans2[s[i].turn]
  BY DEF Follows
<1>1. /\ s[i].turn \in 1..t
      /\ s[i].turn = t => i = Len(s)
      /\ s[i].role = "assistant" => i > 1 /\ s[i - 1].turn = s[i].turn
      /\ s[i].role = "user" /\ s[i].turn \notin h /\ ans[s[i].turn] # <<>> =>
           \/ ph = "streaming" /\ s[i].turn = t
           \/ i < Len(s) /\ s[i + 1].texts = ans[s[i].turn]
  BY DEF Follows
<1>2. s[i].turn # t => ans2[s[i].turn] = ans[s[i].turn]
  BY <1>1
<1>3. QED
  BY <1>1, <1>2

\* At the start nothing has been said.
LEMMA ToldInit == ChatInit => ToldInv
<1> SUFFICES ASSUME ChatInit PROVE ToldInv
  OBVIOUS
<1>1. chat = <<>> /\ answers = <<>> /\ call.phase = "idle"
  BY DEF ChatInit, Idle
<1>2. Only(<<>>, {m \in Range(<<>>) : m.role \in {"user", "assistant"}}) = <<>>
      /\ Only(<<>>, {m \in Range(<<>>) : m.role \in {"user"}}) = <<>>
  BY OnlyEmpty
<1>3. Spoken(chat) = <<>> /\ Asked(chat) = <<>>
  BY <1>1, <1>2 DEF Spoken, Asked, SaidBy
<1>4. turn = 0 /\ AllPieces(0) = <<>>
  BY <1>1, PiecesFacts DEF turn
<1>5. Turns(<<>>) = <<>>
  BY DEF Turns
<1>6. Follows(<<>>, answers, turn, call.phase, hurt)
  BY DEF Follows
<1>7. QED
  BY <1>1, <1>3, <1>4, <1>5, <1>6 DEF ToldInv

\* One question more.
LEMMA OneTurnMore ==
  ASSUME NEW s \in Seq(Message), NEW t \in Nat, Turns(s) = AllPieces(t),
         NEW x \in Message, x.turn = t + 1
  PROVE  Turns(Append(s, x)) = AllPieces(t + 1)
<1> DEFINE u == Append(s, x)
<1>1. Len(s) \in Nat /\ Len(u) = Len(s) + 1 /\ u[Len(s) + 1] = x /\ \A i \in 1..Len(s) : u[i] = s[i]
  OBVIOUS
<1> HIDE DEF u
<1>2. Len(s) = t
  <2>1. Len(Turns(s)) = Len(s)
    BY <1>1 DEF Turns
  <2>2. QED
    BY <2>1, PiecesFacts
<1>3. \A i \in 1..t : s[i].turn = i
  <2>1. \A i \in 1..t : Turns(s)[i] = s[i].turn /\ AllPieces(t)[i] = i
    BY <1>2 DEF Turns, AllPieces
  <2>2. QED
    BY <2>1
<1>4. \A i \in 1..(t + 1) : u[i].turn = i
  <2>1. \A i \in 1..(t + 1) : i \in 1..t \/ i = t + 1
    OBVIOUS
  <2>2. QED
    BY <1>1, <1>2, <1>3, <2>1
<1>5. QED
  BY <1>1, <1>2, <1>4 DEF Turns, AllPieces, u

\* A new question.
LEMMA AskTells ==
  ASSUME ChatType, ToldInv, AskModel
  PROVE  ToldInv'
<1> DEFINE x == Saying("user", turn + 1, <<0>>)
           r == Saying("system", turn + 1, <<0>>)
<1>1. /\ call.phase = "idle" /\ hurt' = hurt
  BY DEF AskModel
<1>2. PICK stream, provider, credentials, configured, instruct :
        chat_completions(stream, provider, credentials, configured, instruct)
  BY DEF AskModel
<1>3. /\ chat' = chat \o (IF instruct THEN <<r, x>> ELSE <<x>>)
      /\ answers' = Append(answers, <<>>)
      /\ call'.phase = "upstream" /\ call'.converts = needs_conversion(provider)
      /\ call'.body = IF needs_conversion(provider) THEN openai_to_anthropic(chat')
                      ELSE unchanged_body(chat')
  BY <1>2 DEF chat_completions
<1>4. turn \in Nat /\ chat \in Seq(Message) /\ turn' = turn + 1
      /\ (\A k \in 1..turn : answers'[k] = answers[k]) /\ answers'[turn + 1] = <<>>
  BY <1>3 DEF ChatType, turn
<1>5. /\ x \in Message /\ x.role = "user" /\ x.turn = turn + 1
      /\ r \in Message /\ r.role = "system"
  <2>1. turn + 1 \in Nat /\ <<0>> \in Seq(Nat)
    BY <1>4
  <2>2. QED
    BY <2>1 DEF Saying, Message
<1> HIDE DEF x, r
<1>6. chat' = IF instruct THEN Append(Append(chat, r), x) ELSE Append(chat, x)
  <2>1. chat \o <<r, x>> = Append(Append(chat, r), x)
    BY <1>4, <1>5
  <2>2. chat \o <<x>> = Append(chat, x)
    BY <1>4, <1>5
  <2>3. QED
    BY <1>3, <2>1, <2>2
<1> DEFINE s == Spoken(chat)
           a == Asked(chat)
<1>7. s \in Seq(Message) /\ a \in Seq(Message) /\ Spoken(chat') = Append(s, x) /\ Asked(chat') = Append(a, x)
  <2>1. CASE ~instruct
    BY <1>4, <1>5, <1>6, <2>1, SpokenAppend
  <2>2. CASE instruct
    <3> DEFINE c == Append(chat, r)
    <3>1. c \in Seq(Message)
      BY <1>4, <1>5
    <3>2. s \in Seq(Message) /\ a \in Seq(Message) /\ Spoken(c) = s /\ Asked(c) = a
      BY <1>4, <1>5, SpokenAppend
    <3> HIDE DEF c, s, a
    <3>3. Spoken(Append(c, x)) = Append(Spoken(c), x) /\ Asked(Append(c, x)) = Append(Asked(c), x)
      BY <1>5, <3>1, SpokenAppend
    <3>4. QED
      BY <1>6, <2>2, <3>2, <3>3 DEF c
  <2>3. QED
    BY <2>1, <2>2
<1>8. Turns(a) = AllPieces(turn) /\ Follows(s, answers, turn, "idle", hurt)
  BY <1>1 DEF ToldInv
<1> HIDE DEF s, a
<1>9. Turns(Asked(chat')) = AllPieces(turn')
  BY <1>4, <1>5, <1>7, <1>8, OneTurnMore
<1>10. Follows(Spoken(chat'), answers', turn', call'.phase, hurt')
  BY <1>1, <1>3, <1>4, <1>5, <1>7, <1>8, FollowsAsk
<1>11. /\ Len(Spoken(chat')) >= 1
       /\ Spoken(chat')[Len(Spoken(chat'))].turn = turn'
       /\ Spoken(chat')[Len(Spoken(chat'))].role = "user"
  BY <1>4, <1>5, <1>7
<1>12. QED
  BY <1>3, <1>9, <1>10, <1>11 DEF ToldInv

\* Nothing said.
LEMMA SilenceTells ==
  ASSUME ChatType, ToldInv, chat' = chat, turn' = turn, call.phase # "idle", hurt \subseteq hurt',
         \A k \in 1..turn : k # turn => answers'[k] = answers[k],
         \/ turn \in hurt'
         \/ call'.phase = "streaming"
         \/ answers'[turn] = answers[turn] /\ call.phase # "streaming",
         call'.phase # "upstream"
  PROVE  ToldInv'
<1>1. turn \in Nat
  BY DEF ChatType, turn
<1>2. Follows(Spoken(chat), answers, turn, call.phase, hurt)
  BY DEF ToldInv
<1>3. Follows(Spoken(chat), answers', turn, call'.phase, hurt')
  BY <1>1, <1>2, FollowsSame
<1>4. Spoken(chat)' = Spoken(chat) /\ Asked(chat)' = Asked(chat)
  BY DEF Spoken, Asked, SaidBy
<1>5. QED
  BY <1>3, <1>4 DEF ToldInv

\* An answer said.
LEMMA AnswerTells ==
  ASSUME ChatType, ToldInv, NEW T \in Seq(Nat),
         chat' = Append(chat, Saying("assistant", turn, T)), turn' = turn,
         call.phase # "idle", hurt \subseteq hurt',
         \A k \in 1..turn : k # turn => answers'[k] = answers[k],
         turn \notin hurt' => T = answers'[turn],
         call'.phase = "idle"
  PROVE  ToldInv'
<1> DEFINE x == Saying("assistant", turn, T)
           s == Spoken(chat)
<1>1. turn \in Nat /\ chat \in Seq(Message)
  BY DEF ChatType, turn
<1>2. x \in Message /\ x.role = "assistant" /\ x.turn = turn /\ x.texts = T
  BY <1>1 DEF Saying, Message
<1>3. chat' = Append(chat, x)
  OBVIOUS
<1> HIDE DEF x
<1>4. s \in Seq(Message) /\ Spoken(chat') = Append(s, x) /\ Asked(chat') = Asked(chat)
  BY <1>1, <1>2, <1>3, SpokenAppend
<1>5. /\ Turns(Asked(chat)) = AllPieces(turn)
      /\ Follows(s, answers, turn, call.phase, hurt)
      /\ Len(s) >= 1 /\ s[Len(s)].turn = turn
  BY DEF ToldInv
<1> HIDE DEF s
<1>6. Follows(Append(s, x), answers', turn, "idle", hurt')
  BY <1>1, <1>2, <1>4, <1>5, FollowsSaid
<1>7. QED
  BY <1>4, <1>5, <1>6 DEF ToldInv

\* A whole body answers the question, unless it broke off;
LEMMA BodyTells ==
  ASSUME ChatType, ToldInv, NEW n \in 1..MaxPieces, NEW garbled \in BOOLEAN, Body(n, garbled)
  PROVE  ToldInv'
<1>1. /\ call.phase = "upstream" /\ answers' = [answers EXCEPT ![turn] = AllPieces(n)]
      /\ hurt' = IF garbled THEN hurt \cup {turn} ELSE hurt
      /\ call' = [call EXCEPT !.phase = "idle"]
  BY DEF Body
<1>2. n \in Nat /\ turn >= 1
  BY <1>1, ExchangeAssumption DEF ChatType
<1>3. /\ turn' = turn /\ answers'[turn] = AllPieces(n)
      /\ \A k \in 1..turn : k # turn => answers'[k] = answers[k]
  BY <1>1, <1>2, Answered
<1>4. call'.phase = "idle" /\ hurt \subseteq hurt'
  BY <1>1 DEF ChatType
<1>5. CASE garbled /\ ~call.converts
  <2>1. chat' = chat /\ turn \in hurt'
    BY <1>1, <1>5 DEF Body
  <2>2. QED
    BY <1>1, <1>3, <1>4, <2>1, SilenceTells
<1>6. CASE ~(garbled /\ ~call.converts)
  <2> DEFINE T == reader'.texts
  <2>1. /\ T \in {<<>>, AllPieces(n)} /\ (~garbled => T = AllPieces(n))
        /\ chat' = Append(chat, Saying("assistant", turn, T))
    BY <1>6 DEF Body, Nothing, anthropic_to_openai_response
  <2> HIDE DEF T
  <2>2. T \in Seq(Nat)
    BY <1>2, <2>1, PiecesFacts
  <2>3. turn \notin hurt' => T = answers'[turn]
    BY <1>1, <1>3, <2>1
  <2>4. QED
    BY <1>1, <1>3, <1>4, <2>1, <2>2, <2>3, AnswerTells
<1>7. QED
  BY <1>5, <1>6

\* a stream answers it when it has ended,
LEMMA StartTells ==
  ASSUME ChatType, ToldInv, NEW n \in 1..MaxPieces, NEW error \in BOOLEAN, StartStream(n, error)
  PROVE  ToldInv'
<1>1. /\ call.phase = "upstream" /\ answers' = [answers EXCEPT ![turn] = AllPieces(n)]
      /\ hurt' = IF error THEN hurt \cup {turn} ELSE hurt
      /\ call' = [call EXCEPT !.phase = "streaming"] /\ chat' = chat
  BY DEF StartStream
<1>2. n \in Nat /\ turn >= 1
  BY <1>1, ExchangeAssumption DEF ChatType
<1>3. turn' = turn /\ \A k \in 1..turn : k # turn => answers'[k] = answers[k]
  BY <1>1, <1>2, Answered
<1>4. call'.phase = "streaming" /\ hurt \subseteq hurt'
  BY <1>1 DEF ChatType
<1>5. QED
  BY <1>1, <1>3, <1>4, SilenceTells

\* A stream that nothing happened to is read whole.
LEMMA ReadWhole ==
  ASSUME ChatType, StreamInv, call.phase = "streaming", wire = <<>>, turn \notin hurt
  PROVE  reader.texts = answers[turn] /\ reader.texts # <<>>
<1> DEFINE N == pieces
           T == reader.texts
<1>1. N \in Nat /\ N >= 1 /\ answers[turn] = AllPieces(N)
  <2>1. turn \in 1..Len(answers) /\ answers \in Seq(Seq(Nat)) /\ turn \in 1..turn
    BY DEF ChatType, turn
  <2>2. answers[turn] = AllPieces(Len(answers[turn])) /\ answers[turn] \in Seq(Nat)
    BY <2>1 DEF ChatType
  <2>3. QED
    BY <2>2 DEF ChatType, pieces
<1>2. ReadInv(reader, N, place, half, splits, call.converts, TRUE)
  BY DEF StreamInv
<1>3. place = N + 2
  BY <1>1 DEF place
<1> HIDE DEF N
<1>4. Before(N, place) = N
  BY <1>1, <1>3 DEF Before
<1>5. /\ T = Only(AllPieces(N), Range(T))
      /\ \A k \in 1..N : k \in Range(T)
  BY <1>2, <1>4 DEF ReadInv, TextInv
<1> DEFINE K == Range(T)
           s == AllPieces(N)
<1>6. s \in Seq(Nat) /\ Len(s) = N /\ \A i \in 1..N : s[i] = i
  BY <1>1, PiecesFacts
<1>7. Only(s, K) = s
  <2>1. \A i \in 1..Len(s) : s[i] \in K
    BY <1>5, <1>6
  <2> HIDE DEF s, K
  <2>2. QED
    BY <1>6, <2>1, OnlyAll
<1>8. T = s
  BY <1>5, <1>7
<1> HIDE DEF s, T
<1>9. s # <<>>
  BY <1>1, <1>6
<1>10. QED
  BY <1>1, <1>8, <1>9 DEF s, T

\* with what was read of it, which is the whole if nothing happened to it.
LEMMA EndTells ==
  ASSUME ChatType, StreamInv, ToldInv, EndOfStream
  PROVE  ToldInv'
<1> DEFINE T == reader.texts
<1>1. /\ call.phase = "streaming" /\ answers' = answers
      /\ chat' = IF T = <<>> THEN chat ELSE Append(chat, Saying("assistant", turn, T))
      /\ call' = [call EXCEPT !.phase = "idle"]
      /\ hurt' = IF wire = <<>> THEN hurt ELSE hurt \cup {turn}
  BY DEF EndOfStream
<1>2. call'.phase = "idle" /\ turn' = turn /\ hurt \subseteq hurt'
  BY <1>1 DEF ChatType, turn
<1>3. T \in Seq(Nat)
  BY <1>1 DEF StreamInv, ReadInv, Reader
<1>4. turn \notin hurt' => T = answers[turn] /\ T # <<>>
  BY <1>1, ReadWhole
<1> HIDE DEF T
<1>5. CASE T = <<>>
  BY <1>1, <1>2, <1>4, <1>5, SilenceTells
<1>6. CASE T # <<>>
  <2>1. turn \notin hurt' => T = answers'[turn]
    BY <1>1, <1>4
  <2>2. chat' = Append(chat, Saying("assistant", turn, T))
    BY <1>1, <1>6
  <2>3. QED
    BY <1>1, <1>2, <1>3, <2>1, <2>2, AnswerTells
<1>7. QED
  BY <1>5, <1>6

\* Every step keeps what is said in order.
LEMMA ToldNext ==
  ASSUME ChatType, StreamInv, ToldInv, [ChatNext]_chatVars
  PROVE  ToldInv'
<1>1. CASE AskModel
  BY <1>1, AskTells
<1>2. CASE Fails
  <2>1. /\ call.phase = "upstream" /\ call' = [call EXCEPT !.phase = "idle"]
        /\ chat' = chat /\ answers' = answers /\ hurt' = hurt
    BY <1>2 DEF Fails
  <2>2. call'.phase = "idle" /\ turn' = turn /\ hurt \subseteq hurt'
    BY <2>1 DEF ChatType, turn
  <2>3. QED
    BY <2>1, <2>2, SilenceTells
<1>3. CASE EndOfStream
  BY <1>3, EndTells
<1>4. ASSUME NEW n \in 1..MaxPieces, NEW bad \in BOOLEAN, Body(n, bad) \/ StartStream(n, bad)
      PROVE  ToldInv'
  BY <1>4, BodyTells, StartTells
<1>5. ASSUME NEW n \in 0..Len(wire), NEW cut \in {"none", "json", "early"}, Deliver(n, cut)
      PROVE  ToldInv'
  <2>1. /\ call.phase = "streaming" /\ chat' = chat /\ answers' = answers /\ call' = call
        /\ hurt \subseteq hurt' /\ turn' = turn
    BY <1>5 DEF Deliver, turn
  <2>2. QED
    BY <2>1, SilenceTells
<1>6. CASE UNCHANGED chatVars
  BY <1>6 DEF chatVars, ToldInv, Spoken, Asked, SaidBy, turn
<1>7. QED
  BY <1>1, <1>2, <1>3, <1>4, <1>5, <1>6 DEF ChatNext

\* What a request tells follows.
LEMMA ToldFollows ==
  ASSUME ChatType, ToldInv
  PROVE  RequestsTellWhatWasSaid
<1> SUFFICES ASSUME call.phase = "upstream"
             PROVE  /\ [i \in 1..turn |-> i] =
                         LET asked == SaidBy(Told, {"user"}) IN [i \in DOMAIN asked |-> asked[i].turn]
                    /\ \A i \in DOMAIN Told : Told[i].role = "assistant" => Told[i - 1].turn = Told[i].turn
                    /\ \A i \in DOMAIN Told :
                         Told[i].role = "user" /\ Told[i].turn \notin hurt /\ answers[Told[i].turn] # <<>>
                           => Told[i + 1].texts = answers[Told[i].turn]
                    /\ \A m \in Range(chat) : m.role = "system" =>
                         m \in Range(call.body.system) \cup Range(call.body.messages)
  BY DEF RequestsTellWhatWasSaid
<1> DEFINE s == Spoken(chat)
<1>1. chat \in Seq(Message)
  BY DEF ChatType
<1>2. call.body = IF call.converts THEN openai_to_anthropic(chat) ELSE unchanged_body(chat)
  BY DEF ToldInv
<1>3. /\ s \in Seq(Message) /\ \A i \in 1..Len(s) : s[i].role \in {"user", "assistant"}
      /\ Asked(chat) \in Seq(Message)
  BY <1>1, SaidByTyped DEF Spoken, Asked
<1>4. Told = s
  <2>1. CASE call.converts
    <3>1. call.body.messages = s
      BY <1>2, <2>1 DEF openai_to_anthropic, Spoken
    <3> HIDE DEF s
    <3>2. SaidBy(s, {"user", "assistant"}) = s
      BY <1>3, SaidByAll
    <3>3. QED
      BY <3>1, <3>2 DEF Told
  <2>2. CASE ~call.converts
    BY <1>2, <2>2 DEF unchanged_body, Told, Spoken
  <2>3. QED
    BY <2>1, <2>2
<1>5. Follows(s, answers, turn, "upstream", hurt)
  BY DEF ToldInv
<1>6. DOMAIN Told = 1..Len(s)
  BY <1>3, <1>4
<1>7. [i \in 1..turn |-> i] =
        LET asked == SaidBy(Told, {"user"}) IN [i \in DOMAIN asked |-> asked[i].turn]
  <2>1. SaidBy(Told, {"user"}) = Asked(chat)
    BY <1>4 DEF Asked
  <2>2. DOMAIN Asked(chat) = 1..Len(Asked(chat))
    BY <1>3
  <2>3. Turns(Asked(chat)) = AllPieces(turn)
    BY DEF ToldInv
  <2>4. QED
    BY <2>1, <2>2, <2>3 DEF Turns, AllPieces
<1>8. \A m \in Range(chat) : m.role = "system" =>
        m \in Range(call.body.system) \cup Range(call.body.messages)
  <2> SUFFICES ASSUME NEW m \in Range(chat), m.role = "system"
               PROVE  m \in Range(call.body.system) \cup Range(call.body.messages)
    OBVIOUS
  <2>1. CASE call.converts
    <3>1. call.body.system = SaidBy(chat, {"system"})
      BY <1>2, <2>1 DEF openai_to_anthropic
    <3>2. PICK i \in 1..Len(chat) : chat[i] = m
      BY <1>1 DEF Range
    <3>3. chat[i] \in Range(SaidBy(chat, {"system"}))
      BY <1>1, <3>2, SaidByTyped
    <3>4. QED
      BY <3>1, <3>2, <3>3
  <2>2. CASE ~call.converts
    BY <1>2, <2>2 DEF unchanged_body
  <2>3. QED
    BY <2>1, <2>2
<1> HIDE DEF s
<1>9. QED
  BY <1>4, <1>5, <1>6, <1>7, <1>8 DEF Follows

\* A request has every question and every instruction of the conversation, and
\* after a question whose exchange came through undamaged the whole answer, also
\* when openai_to_anthropic translates it and the answer came translated.
THEOREM RequestsStayTrue == ChatSpec => []RequestsTellWhatWasSaid
<1>1. ChatInit => ChatType /\ StreamInv /\ ToldInv
  BY ChatTypeInit, ToldInit
<1>2. ChatType /\ StreamInv /\ ToldInv /\ [ChatNext]_chatVars => ChatType' /\ StreamInv' /\ ToldInv'
  BY ChatNextKeeps, ToldNext
<1>3. ChatType /\ ToldInv => RequestsTellWhatWasSaid
  BY ToldFollows
<1>4. QED
  BY <1>1, <1>2, <1>3, PTL DEF ChatSpec
===============================================================================
