------------------------ MODULE CompressionCacheProofs ------------------------
(***************************************************************************)
(* Theorems about CompressionCache, for every set of handlers, texts,      *)
(* settings and work lists, every capacity and every rule pipeline.        *)
(***************************************************************************)
EXTENDS CompressionCache, SequenceTheorems, FoldFacts

-------------------------------------------------------------------------------
(* The LRU list. *)

\* Any two elements of t, in order, are two elements of s in the same order.
Subsequence(t, s) ==
  \A i, j \in 1..Len(t) : i < j =>
    \E m, n \in 1..Len(s) : m < n /\ t[i] = s[m] /\ t[j] = s[n]

\* What is left of an injective list without one of its members: one element
\* less, all the others, none twice.
LEMMA WithoutFacts ==
  ASSUME NEW S, NEW s \in Seq(S), NEW k \in Range(s), IsInjective(s)
  PROVE  /\ Without(s, k) \in Seq(S)
         /\ Len(Without(s, k)) = Len(s) - 1
         /\ IsInjective(Without(s, k))
         /\ Range(Without(s, k)) = Range(s) \ {k}
         /\ Subsequence(Without(s, k), s)
<1> DEFINE i == CHOOSE j \in 1..Len(s) : s[j] = k
           t == Without(s, k)
<1>1. i \in 1..Len(s) /\ s[i] = k
  BY DEF Range
<1>0. t = SubSeq(s, 1, i - 1) \o SubSeq(s, i + 1, Len(s))
  BY DEF Without
<1> HIDE DEF i, t
<1>2. /\ t \in Seq(S)
      /\ Len(t) = Len(s) - 1
      /\ \A j \in 1..(Len(s) - 1) : t[j] = IF j < i THEN s[j] ELSE s[j + 1]
  <2> DEFINE p == SubSeq(s, 1, i - 1)
             q == SubSeq(s, i + 1, Len(s))
  <2>1. p \in Seq(S) /\ Len(p) = i - 1 /\ \A j \in 1..(i - 1) : p[j] = s[j]
    BY <1>1
  <2>2. q \in Seq(S) /\ Len(q) = Len(s) - i
        /\ \A j \in 1..(Len(s) - i) : q[j] = s[j + i]
    BY <1>1
  <2> HIDE DEF p, q
  <2>3. t = p \o q
    BY <1>0 DEF p, q
  <2>4. t \in Seq(S)
    BY <2>1, <2>2, <2>3
  <2>6. Len(t) = Len(s) - 1
    <3>1. Len(t) = Len(p) + Len(q)
      BY <2>1, <2>2, <2>3
    <3> QED  BY <3>1, <2>1, <2>2, <1>1
  <2>5. ASSUME NEW j \in 1..(Len(s) - 1)
        PROVE  t[j] = IF j < i THEN s[j] ELSE s[j + 1]
    BY <2>1, <2>2, <2>3, <1>1
  <2> QED  BY <2>4, <2>5, <2>6
<1>3. IsInjective(t)
  <2> SUFFICES ASSUME NEW x \in 1..Len(t), NEW y \in 1..Len(t), t[x] = t[y]
               PROVE  x = y
    BY <1>2 DEF IsInjective
  <2>1. \A x1, y1 \in 1..Len(s) : s[x1] = s[y1] => x1 = y1
    BY DEF IsInjective
  <2> QED  BY <2>1, <1>1, <1>2
<1>4. ASSUME NEW j \in 1..Len(t)
      PROVE  t[j] \in Range(s) \ {k}
  <2>1. \A x, y \in 1..Len(s) : s[x] = s[y] => x = y
    BY DEF IsInjective
  <2>2. PICK m \in 1..Len(s) : t[j] = s[m] /\ m # i
    BY <1>1, <1>2
  <2> QED  BY <2>1, <2>2, <1>1 DEF Range
<1>5. ASSUME NEW x \in Range(s), x # k
      PROVE  x \in Range(t)
  <2>1. PICK j \in 1..Len(s) : s[j] = x
    BY DEF Range
  <2>2. CASE j < i
    BY <2>1, <2>2, <1>1, <1>2 DEF Range
  <2>3. CASE j > i
    <3>1. j - 1 \in 1..Len(t) /\ t[j - 1] = x
      BY <2>1, <2>3, <1>1, <1>2
    <3> QED  BY <3>1, <1>2 DEF Range
  <2> QED  BY <2>1, <2>2, <2>3, <1>1, <1>5
<1>6. Range(t) \subseteq Range(s) \ {k}
  BY <1>4, <1>2, LenProperties DEF Range
<1>7. Range(s) \ {k} \subseteq Range(t)
  BY <1>5
<1>8. Subsequence(t, s)
  <2> SUFFICES ASSUME NEW x \in 1..Len(t), NEW y \in 1..Len(t), x < y
               PROVE  \E m, n \in 1..Len(s) : m < n /\ t[x] = s[m] /\ t[y] = s[n]
    BY DEF Subsequence
  <2> DEFINE at(j) == IF j < i THEN j ELSE j + 1
  <2>1. at(x) \in 1..Len(s) /\ at(y) \in 1..Len(s) /\ at(x) < at(y)
    BY <1>1, <1>2
  <2>2. t[x] = s[at(x)] /\ t[y] = s[at(y)]
    BY <1>1, <1>2
  <2> QED  BY <2>1, <2>2
<1> QED  BY <1>2, <1>3, <1>6, <1>7, <1>8 DEF t

\* Putting a new element in front of an injective list.
LEMMA ConsFacts ==
  ASSUME NEW S, NEW s \in Seq(S), IsInjective(s), NEW k \in S, k \notin Range(s)
  PROVE  /\ <<k>> \o s \in Seq(S)
         /\ Len(<<k>> \o s) = Len(s) + 1
         /\ IsInjective(<<k>> \o s)
         /\ Range(<<k>> \o s) = Range(s) \cup {k}
         /\ \A j \in 1..(Len(s) + 1) :
              (<<k>> \o s)[j] = IF j = 1 THEN k ELSE s[j - 1]
<1> DEFINE t == <<k>> \o s
<1>1. t \in Seq(S)
  OBVIOUS
<1>2. Len(t) = Len(s) + 1
  OBVIOUS
<1>3. \A j \in 1..(Len(s) + 1) : t[j] = IF j = 1 THEN k ELSE s[j - 1]
  OBVIOUS
<1> HIDE DEF t
<1>4. \A j \in 1..Len(s) : s[j] # k
  BY LenProperties DEF Range
<1>5. IsInjective(t)
  <2> SUFFICES ASSUME NEW x \in 1..Len(t), NEW y \in 1..Len(t), t[x] = t[y]
               PROVE  x = y
    BY <1>1, LenProperties DEF IsInjective
  <2>1. \A x1, y1 \in 1..Len(s) : s[x1] = s[y1] => x1 = y1
    BY LenProperties DEF IsInjective
  <2>2. \A n \in 1..Len(t) : n # 1 => n - 1 \in 1..Len(s) /\ t[n] = s[n - 1]
    BY <1>2, <1>3
  <2>3. t[1] = k
    BY <1>3
  <2>4. CASE x = 1
    BY <2>2, <2>3, <2>4, <1>4
  <2>5. CASE y = 1
    BY <2>2, <2>3, <2>5, <1>4
  <2>6. CASE x # 1 /\ y # 1
    <3>1. x - 1 = y - 1
      BY <2>1, <2>2, <2>6
    <3> QED  BY <3>1
  <2> QED  BY <2>4, <2>5, <2>6
<1>6. Range(t) \subseteq Range(s) \cup {k}
  <2> SUFFICES ASSUME NEW j \in 1..Len(t)  PROVE t[j] \in Range(s) \cup {k}
    BY <1>1, LenProperties DEF Range
  <2> QED  BY <1>2, <1>3, LenProperties DEF Range
<1>7. ASSUME NEW x \in Range(s) \cup {k}
      PROVE  x \in Range(t)
  <2>1. CASE x = k
    <3>1. 1 \in 1..Len(t) /\ t[1] = k
      BY <1>2, <1>3, LenProperties
    <3> QED  BY <3>1, <2>1, <1>1, LenProperties DEF Range
  <2>2. CASE x \in Range(s)
    <3>1. PICK j \in 1..Len(s) : s[j] = x
      BY <2>2, LenProperties DEF Range
    <3>2. j + 1 \in 1..Len(t) /\ t[j + 1] = x
      BY <3>1, <1>2, <1>3
    <3> QED  BY <3>2, <1>1, LenProperties DEF Range
  <2> QED  BY <2>1, <2>2
<1> QED  BY <1>1, <1>2, <1>3, <1>5, <1>6, <1>7 DEF t

\* What push keeps of the list leaves room for the key it puts in front.
LEMMA KeptFacts ==
  ASSUME TypeOK, LruConsistent, NEW k \in Key
  PROVE  /\ Kept(k) \in Seq(Key)
         /\ IsInjective(Kept(k))
         /\ Range(Kept(k)) \subseteq DOMAIN entry \ {k}
         /\ Len(Kept(k)) < Capacity
         /\ Subsequence(Kept(k), order)
<1>1. /\ order \in Seq(Key)
      /\ IsInjective(order) /\ Range(order) = DOMAIN entry
      /\ Len(order) <= Capacity /\ Len(order) \in Nat /\ Capacity \in Nat \ {0}
      /\ DOMAIN order = 1..Len(order)
  BY CapacityAssumption, LenProperties DEF TypeOK, LruConsistent
<1>2. CASE k \in DOMAIN entry
  <2>1. Kept(k) = Without(order, k)
    BY <1>2 DEF Kept
  <2>2. Len(Kept(k)) = Len(order) - 1
    BY <2>1, <1>1, <1>2, WithoutFacts
  <2> QED  BY <2>1, <2>2, <1>1, <1>2, WithoutFacts
<1>3. CASE k \notin DOMAIN entry /\ Len(order) = Capacity
  <2> DEFINE t == SubSeq(order, 1, Len(order) - 1)
  <2>1. t \in Seq(Key) /\ Len(t) = Len(order) - 1
        /\ \A j \in 1..(Len(order) - 1) : t[j] = order[j]
    BY <1>1, <1>3
  <2>2. Kept(k) = t
    BY <1>3 DEF Kept
  <2> HIDE DEF t
  <2>3. DOMAIN t = 1..(Len(order) - 1)
    BY <2>1, LenProperties
  <2>4. IsInjective(t)
    BY <2>1, <2>3, <1>1 DEF IsInjective
  <2>5. Range(t) \subseteq Range(order)
    BY <2>1, <2>3, <1>1 DEF Range
  <2>6. Subsequence(t, order)
    <3> SUFFICES ASSUME NEW i \in 1..Len(t), NEW j \in 1..Len(t), i < j
                 PROVE  \E m, n \in 1..Len(order) :
                          m < n /\ t[i] = order[m] /\ t[j] = order[n]
      BY DEF Subsequence
    <3>1. i \in 1..(Len(order) - 1) /\ j \in 1..(Len(order) - 1)
      BY <2>1
    <3>2. i \in 1..Len(order) /\ j \in 1..Len(order)
      BY <3>1, <1>1
    <3>3. t[i] = order[i] /\ t[j] = order[j]
      BY <3>1, <2>1
    <3> QED  BY <3>2, <3>3
  <2> QED  BY <2>1, <2>2, <2>4, <2>5, <2>6, <1>1, <1>3
<1>4. CASE k \notin DOMAIN entry /\ Len(order) # Capacity
  <2>1. Kept(k) = order
    BY <1>4 DEF Kept
  <2>2. Subsequence(order, order)
    BY DEF Subsequence
  <2>3. Len(order) < Capacity
    <3>1. \A m, n \in Nat : m <= n /\ m # n => m < n
      OBVIOUS
    <3> QED  BY <3>1, <1>1, <1>4
  <2> QED  BY <2>1, <2>2, <2>3, <1>1, <1>4
<1> QED  BY <1>2, <1>3, <1>4

\* A key put or promoted to the head of the list, with its time of use.
LEMMA TouchFacts ==
  ASSUME IInv, NEW k \in Key, NEW rest \in Seq(Key),
         IsInjective(rest), Range(rest) \subseteq DOMAIN entry \ {k},
         Len(rest) < Capacity, Subsequence(rest, order),
         order' = <<k>> \o rest, DOMAIN entry' = Range(order'), Touch(k),
         hits' \in Nat, stores' \in Nat, hits' + stores' = hits + stores + 1
  PROVE  /\ order' \in Seq(Key)
         /\ LruConsistent'
         /\ lastTouch' \in [DOMAIN entry' -> Nat]
         /\ RecencyOrder'
<1> USE CapacityAssumption
<1>1. /\ order' \in Seq(Key) /\ Len(order') = Len(rest) + 1 /\ IsInjective(order')
      /\ Range(order') = Range(rest) \cup {k}
      /\ \A j \in 1..(Len(rest) + 1) : order'[j] = IF j = 1 THEN k ELSE rest[j - 1]
  BY ConsFacts
<1>2. Len(rest) \in Nat /\ DOMAIN rest = 1..Len(rest)
  BY LenProperties
<1>3. LruConsistent'
  BY <1>1, <1>2 DEF LruConsistent
<1>4. \A x \in DOMAIN entry' :
        lastTouch'[x] = IF x = k THEN hits' + stores' ELSE lastTouch[x]
  BY DEF Touch
<1>5. \A x \in DOMAIN entry : lastTouch[x] \in Nat /\ lastTouch[x] <= hits + stores
  BY DEF IInv, TypeOK, RecencyOrder
<1>6. \A x \in DOMAIN entry' : x # k => x \in DOMAIN entry
  BY <1>1
<1>7. hits \in Nat /\ stores \in Nat
  BY DEF IInv, TypeOK
<1>8. hits' + stores' \in Nat
  <2>1. \A m, n \in Nat : m + n \in Nat
    OBVIOUS
  <2> QED  BY <2>1
<1>9. lastTouch' \in [DOMAIN entry' -> Nat]
  <2>1. ASSUME NEW x \in DOMAIN entry'
        PROVE  lastTouch'[x] \in Nat
    <3>1. CASE x = k
      <4>1. lastTouch'[x] = hits' + stores'
        BY <3>1, <1>4
      <4> QED  BY <4>1, <1>8
    <3>2. CASE x # k
      <4>1. lastTouch'[x] = lastTouch[x]
        BY <3>2, <1>4
      <4> QED  BY <4>1, <3>2, <1>5, <1>6
    <3> QED  BY <3>1, <3>2
  <2> QED  BY <2>1 DEF Touch
<1>10. SortedByLastUse(order)'
  <2> SUFFICES ASSUME NEW i \in 1..Len(order'), NEW j \in 1..Len(order'), i < j
               PROVE  lastTouch'[order'[i]] > lastTouch'[order'[j]]
    BY DEF SortedByLastUse
  <2>1. j - 1 \in 1..Len(rest) /\ order'[j] = rest[j - 1]
    BY <1>1, <1>2
  <2>2. rest[j - 1] \in DOMAIN entry /\ rest[j - 1] # k
    BY <2>1, <1>2 DEF Range
  <2>3. order'[j] \in DOMAIN entry' /\ order'[i] \in DOMAIN entry'
    <3>1. DOMAIN order' = 1..Len(order')
      BY <1>1, LenProperties
    <3> QED  BY <3>1 DEF Range
  <2>4. lastTouch'[order'[j]] = lastTouch[rest[j - 1]]
    BY <2>1, <2>2, <2>3, <1>4
  <2>5. CASE i = 1
    <3>1. lastTouch'[order'[i]] = hits' + stores'
      BY <2>5, <2>3, <1>1, <1>4
    <3> QED  BY <3>1, <2>2, <2>4, <1>5, <1>7
  <2>6. CASE i # 1
    <3>1. i - 1 \in 1..Len(rest) /\ order'[i] = rest[i - 1] /\ i - 1 < j - 1
      BY <2>6, <1>1, <1>2
    <3>2. rest[i - 1] # k
      BY <3>1, <1>2 DEF Range
    <3>3. lastTouch'[order'[i]] = lastTouch[rest[i - 1]]
      BY <3>1, <3>2, <2>3, <1>4
    <3>4. PICK m, n \in 1..Len(order) :
            m < n /\ rest[i - 1] = order[m] /\ rest[j - 1] = order[n]
      BY <3>1, <2>1 DEF Subsequence
    <3>5. lastTouch[order[m]] > lastTouch[order[n]]
      BY <3>4 DEF IInv, RecencyOrder, SortedByLastUse
    <3> QED  BY <3>3, <3>4, <3>5, <2>4
  <2> QED  BY <2>5, <2>6
<1>11. RecencyOrder'
  <2>1. ASSUME NEW x \in DOMAIN entry'
        PROVE  lastTouch'[x] <= hits' + stores'
    <3>1. CASE x = k
      <4>1. lastTouch'[x] = hits' + stores'
        BY <3>1, <1>4
      <4>2. \A n \in Nat : n <= n
        OBVIOUS
      <4> QED  BY <4>1, <4>2, <1>8
    <3>2. CASE x # k
      <4>1. lastTouch'[x] = lastTouch[x] /\ lastTouch[x] \in Nat
            /\ lastTouch[x] <= hits + stores
        BY <3>2, <1>4, <1>5, <1>6
      <4>2. \A m, n, h \in Nat : m <= n /\ h = n + 1 => m <= h
        OBVIOUS
      <4>3. hits + stores \in Nat
        BY <1>7
      <4>4. lastTouch[x] <= hits' + stores'
        BY <4>1, <4>2, <4>3, <1>8
      <4> QED  BY <4>1, <4>4
    <3> QED  BY <3>1, <3>2
  <2> QED  BY <2>1, <1>10 DEF RecencyOrder
<1> QED  BY <1>1, <1>3, <1>9, <1>11
-------------------------------------------------------------------------------
(* The inductive invariant. *)

\* The empty cache, with every engine at its first lookup.
LEMMA InitIInv == Init => IInv
<1> SUFFICES ASSUME Init  PROVE IInv
  OBVIOUS
<1>1. TypeOK
  <2>1. work \in [Requests -> Seq(Piece)]
    BY WorkAssumption DEF Init
  <2>2. entry \in [DOMAIN entry -> Entry] /\ lastTouch \in [DOMAIN entry -> Nat]
    BY DEF Init
  <2>3. total \in [Requests -> 0..MaxUsize]
    <3>1. 0 \in 0..MaxUsize
      BY UsizeAssumption
    <3> QED  BY <3>1 DEF Init
  <2>4. wrapped \in BOOLEAN
    BY DEF Init
  <2> QED  BY <2>1, <2>2, <2>3, <2>4 DEF Init, TypeOK
<1>2. LruConsistent
  BY CapacityAssumption DEF Init, LruConsistent, IsInjective, Range
<1>3. EntryFaithful /\ EngineAtWork /\ RecencyOrder
  BY DEF Init, EntryFaithful, EngineAtWork, RecencyOrder, SortedByLastUse
<1> QED  BY <1>1, <1>2, <1>3 DEF IInv

\* The piece at hand, its call and its key.
LEMMA CallTyped ==
  ASSUME TypeOK, NEW r \in Requests, HasWork(r)
  PROVE  /\ piece(r) \in Piece
         /\ call(r) \in Call
         /\ key(r) = call(r)
<1>1. work[r] \in Seq(Piece) /\ Len(output[r]) \in Nat /\ setting[r] \in Settings
  BY DEF TypeOK
<1>2. piece(r) \in Piece
  BY <1>1 DEF piece, HasWork
<1> QED  BY <1>1, <1>2 DEF call, key, make_key, Call, Piece

\* What is delivered to r becomes the last text of its output, and the other
\* handlers' pieces at hand stay what they were.
LEMMA DeliverFacts ==
  ASSUME TypeOK, NEW r \in Requests, NEW text \in Text, Deliver(r, text),
         UNCHANGED requestVars
  PROVE  /\ output' \in [Requests -> Seq(Text)]
         /\ \A q \in Requests \ {r} : HasWork(q)' = HasWork(q) /\ call(q)' = call(q)
<1>1. output' \in [Requests -> Seq(Text)]
  BY DEF TypeOK, Deliver
<1>2. \A q \in Requests \ {r} : output'[q] = output[q]
  BY DEF TypeOK, Deliver
<1> QED  BY <1>1, <1>2 DEF HasWork, call, piece, requestVars

\* A total stays a usize.
LEMMA AddHitsTyped ==
  ASSUME TypeOK, NEW r \in Requests, NEW n \in Nat, AddHits(r, n)
  PROVE  total' \in [Requests -> 0..MaxUsize] /\ wrapped' \in BOOLEAN
<1>1. \A m \in Nat : m % (MaxUsize + 1) \in 0..MaxUsize
  BY UsizeAssumption
<1>2. total[r] + n \in Nat
  BY UsizeAssumption DEF TypeOK
<1>3. total' \in [Requests -> 0..MaxUsize]
  BY <1>1, <1>2 DEF TypeOK, AddHits
<1>4. wrapped' \in BOOLEAN
  BY DEF AddHits
<1> QED  BY <1>3, <1>4

\* Steps that move no text: only pc and the counters of r and misses change.
LEMMA QuietStep ==
  ASSUME IInv, NEW r \in Requests, HasWork(r),
         UNCHANGED <<order, entry, hits, stores, evictions, lastTouch, work, setting, output>>,
         misses' \in Nat, total' \in [Requests -> 0..MaxUsize],
         counted' \in [Requests -> Nat], wrapped' \in BOOLEAN,
         NEW to \in {"pipeline", "store"}, pc' = [pc EXCEPT ![r] = to],
         to = "store" => call(r) \notin Growing
  PROVE  IInv'
<1>1. TypeOK'
  <2>1. pc' \in [Requests -> {"lookup", "pipeline", "store"}]
    BY DEF IInv, TypeOK
  <2> QED  BY <2>1 DEF IInv, TypeOK
<1>2. LruConsistent' /\ EntryFaithful' /\ RecencyOrder'
  BY DEF IInv, LruConsistent, EntryFaithful, RecencyOrder, SortedByLastUse
<1>3. EngineAtWork'
  <2> SUFFICES ASSUME NEW q \in Requests
               PROVE  /\ pc'[q] # "lookup" => HasWork(q)'
                      /\ pc'[q] = "store" => call(q)' \notin Growing
    BY DEF EngineAtWork
  <2>1. HasWork(q)' = HasWork(q) /\ call(q)' = call(q)
    BY DEF HasWork, call, piece
  <2>2. pc'[q] = IF q = r THEN to ELSE pc[q]
    BY DEF IInv, TypeOK
  <2> QED  BY <2>1, <2>2 DEF IInv, EngineAtWork
<1> QED  BY <1>1, <1>2, <1>3 DEF IInv

\* Steps that deliver a text to r and leave it at the lookup of its next piece.
LEMMA DeliveringStep ==
  ASSUME IInv, NEW r \in Requests, NEW text \in Text, Deliver(r, text),
         UNCHANGED requestVars,
         pc' \in [Requests -> {"lookup", "pipeline", "store"}], pc'[r] = "lookup",
         \A q \in Requests \ {r} : pc'[q] = pc[q]
  PROVE  EngineAtWork' /\ output' \in [Requests -> Seq(Text)]
<1>1. /\ output' \in [Requests -> Seq(Text)]
      /\ \A q \in Requests \ {r} : HasWork(q)' = HasWork(q) /\ call(q)' = call(q)
  BY DeliverFacts DEF IInv
<1>2. ASSUME NEW q \in Requests
      PROVE  /\ pc'[q] # "lookup" => HasWork(q)'
             /\ pc'[q] = "store" => call(q)' \notin Growing
  BY <1>1 DEF IInv, EngineAtWork
<1>3. EngineAtWork'
  BY <1>2 DEF EngineAtWork
<1> QED  BY <1>1, <1>3

\* CompressionCache::get that finds the key: the list is reordered, the map is not.
LEMMA CacheHitIInv ==
  ASSUME IInv, NEW r \in Requests, CacheHit(r)
  PROVE  IInv'
<1> DEFINE k == key(r)
           rest == Without(order, k)
<1>1. /\ HasWork(r) /\ k \in DOMAIN entry /\ pc[r] = "lookup"
      /\ UNCHANGED <<entry, misses, stores, evictions, work, setting, pc, counted>>
      /\ hits' = hits + 1 /\ order' = <<k>> \o rest /\ Touch(k)
      /\ Deliver(r, entry[k].compressed)
      /\ AddHits(r, CachedHits(k))
  BY DEF CacheHit, Promote
<1>2. TypeOK /\ LruConsistent
  BY DEF IInv
<1>3. k \in Key /\ entry[k] \in Entry
  BY <1>1, <1>2 DEF TypeOK
<1> HIDE DEF k
<1>4. k \in Range(order) /\ order \in Seq(Key) /\ IsInjective(order)
      /\ Range(order) = DOMAIN entry /\ Len(order) <= Capacity /\ Len(order) \in Nat
  BY <1>1, <1>2, LenProperties DEF TypeOK, LruConsistent
<1>5. /\ rest \in Seq(Key) /\ IsInjective(rest) /\ Len(rest) = Len(order) - 1
      /\ Range(rest) = DOMAIN entry \ {k} /\ Subsequence(rest, order)
  BY <1>4, WithoutFacts
<1> HIDE DEF rest
<1>6. Range(order') = DOMAIN entry'
  <2>1. Range(order') = Range(rest) \cup {k}
    BY <1>1, <1>3, <1>5, ConsFacts
  <2> QED  BY <2>1, <1>1, <1>5
<1>7. Len(rest) < Capacity
  BY <1>4, <1>5, CapacityAssumption
<1>8. hits' \in Nat /\ stores' \in Nat /\ hits' + stores' = hits + stores + 1
  <2>1. hits \in Nat /\ stores \in Nat
    BY <1>2 DEF TypeOK
  <2>2. QED
    BY <1>1, <2>1
<1>9. /\ order' \in Seq(Key) /\ LruConsistent' /\ RecencyOrder'
      /\ lastTouch' \in [DOMAIN entry' -> Nat]
  BY <1>1, <1>3, <1>5, <1>6, <1>7, <1>8, TouchFacts
<1>10. EngineAtWork' /\ output' \in [Requests -> Seq(Text)]
  <2>1. pc' \in [Requests -> {"lookup", "pipeline", "store"}]
    BY <1>1, <1>2 DEF TypeOK
  <2>2. entry[k].compressed \in Text
    BY <1>3 DEF Entry
  <2> QED  BY <1>1, <2>1, <2>2, DeliveringStep DEF requestVars
<1>11. TypeOK'
  <2>1. entry[k].hits \in Nat
    BY <1>3 DEF Entry
  <2>2. total' \in [Requests -> 0..MaxUsize] /\ wrapped' \in BOOLEAN
    BY <2>1, <1>1, <1>2, AddHitsTyped DEF CachedHits
  <2> QED  BY <1>1, <1>2, <1>8, <1>9, <1>10, <2>2 DEF TypeOK
<1>12. EntryFaithful'
  BY <1>1 DEF IInv, EntryFaithful
<1> QED  BY <1>9, <1>10, <1>11, <1>12 DEF IInv

\* CompressionCache::put: the list and the map change together, and the least
\* recently used key may go.
LEMMA StoreIInv ==
  ASSUME IInv, NEW r \in Requests, Store(r)
  PROVE  IInv'
<1> DEFINE k == key(r)
           rest == Kept(k)
           new == [compressed |-> Compressed(call(r)), hits |-> total[r]]
<1>1. /\ pc[r] = "store" /\ pc' = [pc EXCEPT ![r] = "lookup"]
      /\ is_cacheable(piece(r).text)
      /\ order' = <<k>> \o rest
      /\ entry' = [x \in Range(order') |-> IF x = k THEN new ELSE entry[x]]
      /\ stores' = stores + 1 /\ evictions' = evictions + Evictions(k)
      /\ UNCHANGED <<hits, misses, work, setting, total, counted, wrapped>>
      /\ Touch(k) /\ Deliver(r, Compressed(call(r)))
  BY DEF Store, Goto, requestVars
<1>2. TypeOK /\ LruConsistent
  BY DEF IInv
<1>3. HasWork(r) /\ call(r) \notin Growing
  BY <1>1 DEF IInv, EngineAtWork
<1>4. k = call(r) /\ k \in Key /\ is_cacheable(k[1])
  BY <1>1, <1>2, <1>3, CallTyped DEF Key, call
<1>5. new \in Entry /\ Compressed(call(r)) \in Text
  BY <1>2, <1>4 DEF TypeOK, Entry, Text, Key
<1> HIDE DEF k
<1>6. /\ rest \in Seq(Key) /\ IsInjective(rest) /\ Len(rest) < Capacity
      /\ Range(rest) \subseteq DOMAIN entry \ {k} /\ Subsequence(rest, order)
  BY <1>2, <1>4, KeptFacts
<1> HIDE DEF rest, new
<1>7. Range(order') = Range(rest) \cup {k}
  BY <1>1, <1>4, <1>6, ConsFacts
<1>8. hits' \in Nat /\ stores' \in Nat /\ hits' + stores' = hits + stores + 1
  <2>1. hits \in Nat /\ stores \in Nat /\ hits' = hits /\ stores' = stores + 1
    BY <1>1, <1>2 DEF TypeOK
  <2> QED  BY <2>1
<1>9. /\ order' \in Seq(Key) /\ LruConsistent' /\ RecencyOrder'
      /\ lastTouch' \in [DOMAIN entry' -> Nat]
  <2>1. DOMAIN entry' = Range(order')
    BY <1>1
  <2> QED  BY <2>1, <1>1, <1>4, <1>6, <1>8, TouchFacts
<1>10. EngineAtWork' /\ output' \in [Requests -> Seq(Text)]
  <2>1. /\ pc' \in [Requests -> {"lookup", "pipeline", "store"}]
        /\ pc'[r] = "lookup" /\ \A q \in Requests \ {r} : pc'[q] = pc[q]
    BY <1>1, <1>2 DEF TypeOK
  <2> QED  BY <1>1, <1>5, <2>1, DeliveringStep DEF requestVars
<1>11. entry' \in [DOMAIN entry' -> Entry] /\ DOMAIN entry' \subseteq Key
  <2>1. DOMAIN entry' = Range(rest) \cup {k}
    BY <1>1, <1>7
  <2>2. \A x \in DOMAIN entry' : x # k => x \in DOMAIN entry
    BY <2>1, <1>6
  <2>3. \A x \in DOMAIN entry' : entry'[x] \in Entry
    BY <2>2, <1>1, <1>2, <1>5 DEF TypeOK
  <2>4. DOMAIN entry' \subseteq Key
    BY <2>2, <1>2, <1>4 DEF TypeOK
  <2> QED  BY <2>3, <2>4, <1>1
<1>12. TypeOK'
  <2>1. evictions' \in Nat
    BY <1>1, <1>2 DEF TypeOK, Evictions
  <2>2. pc' \in [Requests -> {"lookup", "pipeline", "store"}]
    BY <1>1, <1>2 DEF TypeOK
  <2> QED  BY <1>1, <1>2, <1>8, <1>9, <1>10, <1>11, <2>1, <2>2 DEF TypeOK
<1>13. EntryFaithful'
  <2> SUFFICES ASSUME NEW x \in DOMAIN entry'
               PROVE  /\ entry'[x].compressed = Compressed(x)
                      /\ x \notin Growing /\ is_cacheable(x[1])
    BY DEF EntryFaithful, is_cacheable
  <2>1. CASE x = k
    BY <2>1, <1>1, <1>3, <1>4 DEF new
  <2>2. CASE x # k
    <3>1. x \in DOMAIN entry
      BY <2>2, <1>1, <1>6, <1>7
    <3> QED  BY <3>1, <2>2, <1>1 DEF IInv, EntryFaithful
  <2> QED  BY <2>1, <2>2
<1> QED  BY <1>9, <1>10, <1>12, <1>13 DEF IInv

\* Delivering without a store: the fail-closed return and an uncacheable text.
LEMMA BypassIInv ==
  ASSUME IInv, NEW r \in Requests, PipelineGrows(r) \/ StoreBypass(r)
  PROVE  IInv'
<1>1. /\ UNCHANGED cacheVars /\ UNCHANGED requestVars
      /\ pc[r] # "lookup" /\ pc' = [pc EXCEPT ![r] = "lookup"]
  BY DEF PipelineGrows, StoreBypass, Goto
<1>2. TypeOK /\ HasWork(r)
  BY <1>1 DEF IInv, EngineAtWork
<1>3. piece(r) \in Piece /\ call(r) \in Call
  BY <1>2, CallTyped
<1>4. PICK text \in Text : Deliver(r, text)
  <2>1. Original(piece(r).text) \in Text /\ Compressed(call(r)) \in Text
    BY <1>3 DEF Text, Piece
  <2> QED  BY <2>1 DEF PipelineGrows, StoreBypass
<1>5. /\ pc' \in [Requests -> {"lookup", "pipeline", "store"}]
      /\ pc'[r] = "lookup" /\ \A q \in Requests \ {r} : pc'[q] = pc[q]
  BY <1>1, <1>2 DEF TypeOK
<1>6. EngineAtWork' /\ output' \in [Requests -> Seq(Text)]
  BY <1>1, <1>4, <1>5, DeliveringStep
<1>7. /\ total' \in [Requests -> 0..MaxUsize] /\ counted' \in [Requests -> Nat]
      /\ wrapped' \in BOOLEAN
  <2>1. CASE PipelineGrows(r)
    <3>1. RuleHits[call(r)] \in Nat
      BY <1>3, RuleHitsAssumption
    <3>2. AddHits(r, RuleHits[call(r)])
      BY <2>1 DEF PipelineGrows
    <3>3. counted' \in [Requests -> Nat]
      BY <2>1, <3>1, <1>2 DEF PipelineGrows, TypeOK
    <3> QED  BY <3>1, <3>2, <3>3, <1>2, AddHitsTyped
  <2>2. CASE StoreBypass(r)
    BY <2>2, <1>2 DEF StoreBypass, TypeOK
  <2> QED  BY <2>1, <2>2
<1>8. TypeOK'
  BY <1>1, <1>2, <1>5, <1>6, <1>7 DEF TypeOK, cacheVars, requestVars
<1>9. LruConsistent' /\ EntryFaithful' /\ RecencyOrder'
  BY <1>1 DEF IInv, cacheVars, LruConsistent, EntryFaithful, RecencyOrder, SortedByLastUse
<1> QED  BY <1>6, <1>8, <1>9 DEF IInv

\* Every step of an engine keeps the inductive invariant.
LEMMA NextIInv == IInv /\ [Next]_vars => IInv'
<1> SUFFICES ASSUME IInv, [Next]_vars  PROVE IInv'
  OBVIOUS
<1>1. CASE UNCHANGED vars
  <2>1. TypeOK' /\ LruConsistent'
    BY <1>1 DEF IInv, vars, TypeOK, LruConsistent
  <2>2. EntryFaithful' /\ RecencyOrder'
    BY <1>1 DEF IInv, vars, EntryFaithful, RecencyOrder, SortedByLastUse
  <2>3. EngineAtWork'
    BY <1>1 DEF IInv, vars, EngineAtWork, HasWork, call, piece
  <2> QED  BY <2>1, <2>2, <2>3 DEF IInv
<1>2. ASSUME NEW r \in Requests, CacheHit(r)  PROVE IInv'
  BY <1>2, CacheHitIInv
<1>3. ASSUME NEW r \in Requests, CacheMiss(r) \/ LookupBypass(r)  PROVE IInv'
  <2>1. misses' \in Nat
    BY <1>3 DEF IInv, TypeOK, CacheMiss, LookupBypass, cacheVars
  <2>2. /\ UNCHANGED <<order, entry, hits, stores, evictions, lastTouch,
                       work, setting, output, total, counted, wrapped>>
        /\ HasWork(r) /\ pc' = [pc EXCEPT ![r] = "pipeline"]
    BY <1>3 DEF CacheMiss, LookupBypass, cacheVars, requestVars, Goto
  <2>3. /\ total' \in [Requests -> 0..MaxUsize] /\ counted' \in [Requests -> Nat]
        /\ wrapped' \in BOOLEAN
    BY <2>2 DEF IInv, TypeOK
  <2> QED  BY <2>1, <2>2, <2>3, QuietStep
<1>4. ASSUME NEW r \in Requests, PipelineShrinks(r)  PROVE IInv'
  <2>1. /\ UNCHANGED <<order, entry, hits, misses, stores, evictions, lastTouch,
                       work, setting, output>>
        /\ pc[r] = "pipeline" /\ pc' = [pc EXCEPT ![r] = "store"]
        /\ call(r) \notin Growing
    BY <1>4 DEF PipelineShrinks, Longer, cacheVars, requestVars, Goto
  <2>2. HasWork(r) /\ call(r) \in Call
    BY <2>1, CallTyped DEF IInv, EngineAtWork
  <2>3. misses' \in Nat
    BY <2>1 DEF IInv, TypeOK
  <2>4. RuleHits[call(r)] \in Nat /\ AddHits(r, RuleHits[call(r)])
    BY <1>4, <2>2, RuleHitsAssumption DEF PipelineShrinks
  <2>5. total' \in [Requests -> 0..MaxUsize] /\ wrapped' \in BOOLEAN
    BY <2>4, AddHitsTyped DEF IInv
  <2>6. counted' \in [Requests -> Nat]
    BY <1>4, <2>4 DEF PipelineShrinks, IInv, TypeOK
  <2> QED  BY <2>1, <2>2, <2>3, <2>5, <2>6, QuietStep
<1>5. ASSUME NEW r \in Requests, Store(r)  PROVE IInv'
  BY <1>5, StoreIInv
<1>6. ASSUME NEW r \in Requests, PipelineGrows(r) \/ StoreBypass(r)  PROVE IInv'
  BY <1>6, BypassIInv
<1> QED  BY <1>1, <1>2, <1>3, <1>4, <1>5, <1>6 DEF Next, Step

\* The inductive invariant holds in every reachable state, whatever the number
\* of handlers, texts and settings, the capacity and the rules are.
THEOREM Invariance == Spec => []IInv
  BY InitIInv, NextIInv, PTL DEF Spec

\* The cache, the counters and the engines stay within their types.
THEOREM TypeCorrect == Spec => []TypeOK
<1>1. IInv => TypeOK
  BY DEF IInv
<1> QED  BY <1>1, Invariance, PTL

\* The list and the map of the LRU cache agree, and never exceed the capacity.
THEOREM LruAlwaysConsistent == Spec => []LruConsistent
<1>1. IInv => LruConsistent
  BY DEF IInv
<1> QED  BY <1>1, Invariance, PTL

\* A cached text is the pipeline's result for the call its key stands for.
THEOREM EntriesAlwaysFaithful == Spec => []EntryFaithful
<1>1. IInv => EntryFaithful
  BY DEF IInv
<1> QED  BY <1>1, Invariance, PTL

\* A text reaches a handler as the abstract specification's reply to its call.
LEMMA DeliveryIsReply ==
  ASSUME TypeOK, NEW r \in Requests, HasWork(r), UNCHANGED <<work, setting>>,
         Deliver(r, IF call(r) \in Growing THEN Original(piece(r).text)
                                           ELSE Compressed(call(r)))
  PROVE  Pure!Reply(r)
<1>1. Pure!Compress(piece(r).text, piece(r).mode, setting[r])
        = IF call(r) \in Growing THEN Original(piece(r).text) ELSE Compressed(call(r))
  BY DEF Pure!Compress, call, Original, Compressed
<1>2. output' = [output EXCEPT ![r] = Append(@,
          Pure!Compress(piece(r).text, piece(r).mode, setting[r]))]
  BY <1>1 DEF Deliver
<1> QED  BY <1>2 DEF Pure!Reply, HasWork, piece

\* The cache is transparent: with hits, misses, evictions, overwrites and the
\* fail-closed return in any interleaving, every handler gets the texts that an
\* engine without a cache would have computed for it.
THEOREM Transparency == Spec => Transparent
<1>1. Init => Pure!Init
  BY DEF Init, Pure!Init
<1>2. IInv /\ [Next]_vars => [Pure!Next]_(Pure!vars)
  <2> SUFFICES ASSUME IInv, [Next]_vars  PROVE Pure!Next \/ UNCHANGED Pure!vars
    OBVIOUS
  <2>1. CASE UNCHANGED vars
    BY <2>1 DEF vars, Pure!vars
  <2>2. ASSUME NEW r \in Requests, CacheHit(r)  PROVE Pure!Reply(r)
    <3>1. HasWork(r) /\ key(r) \in DOMAIN entry /\ UNCHANGED <<work, setting>>
          /\ Deliver(r, entry[key(r)].compressed)
      BY <2>2 DEF CacheHit
    <3>2. key(r) = call(r)
      BY <3>1, CallTyped DEF IInv
    <3>3. entry[key(r)].compressed = Compressed(call(r)) /\ call(r) \notin Growing
      BY <3>1, <3>2 DEF IInv, EntryFaithful
    <3> QED  BY <3>1, <3>3, DeliveryIsReply DEF IInv
  <2>3. ASSUME NEW r \in Requests, Store(r) \/ StoreBypass(r)  PROVE Pure!Reply(r)
    <3>1. pc[r] = "store" /\ Deliver(r, Compressed(call(r))) /\ UNCHANGED <<work, setting>>
      BY <2>3 DEF Store, StoreBypass, Goto, requestVars
    <3>2. HasWork(r) /\ call(r) \notin Growing
      BY <3>1 DEF IInv, EngineAtWork
    <3> QED  BY <3>1, <3>2, DeliveryIsReply DEF IInv
  <2>4. ASSUME NEW r \in Requests, PipelineGrows(r)  PROVE Pure!Reply(r)
    <3>1. pc[r] = "pipeline" /\ call(r) \in Growing /\ UNCHANGED <<work, setting>>
          /\ Deliver(r, Original(piece(r).text))
      BY <2>4 DEF PipelineGrows, Goto, Longer, requestVars
    <3>2. HasWork(r)
      BY <3>1 DEF IInv, EngineAtWork
    <3> QED  BY <3>1, <3>2, DeliveryIsReply DEF IInv
  <2>5. ASSUME NEW r \in Requests, CacheMiss(r) \/ LookupBypass(r) \/ PipelineShrinks(r)
        PROVE  UNCHANGED Pure!vars
    BY <2>5 DEF CacheMiss, LookupBypass, PipelineShrinks, requestVars, Pure!vars
  <2> QED  BY <2>1, <2>2, <2>3, <2>4, <2>5 DEF Next, Step, Pure!Next
<1> QED  BY <1>1, <1>2, Invariance, PTL DEF Spec, Transparent, Pure!Spec

\* Eviction removes the key whose last lookup or store is the oldest.
THEOREM EvictionIsLru == Spec => EvictsLeastRecentlyUsed
<1> DEFINE Evicts == \A gone \in DOMAIN entry \ DOMAIN entry' :
                       \A kept \in DOMAIN entry' : lastTouch[gone] < lastTouch'[kept]
<1>1. IInv /\ [Next]_vars => [Evicts]_vars
  <2> SUFFICES ASSUME IInv, Next, NEW gone \in DOMAIN entry \ DOMAIN entry',
                      NEW kept \in DOMAIN entry'
               PROVE  lastTouch[gone] < lastTouch'[kept]
    BY DEF vars
  <2>1. PICK r \in Requests : Store(r)
    BY DEF Next, Step, CacheHit, CacheMiss, LookupBypass, PipelineShrinks,
           PipelineGrows, StoreBypass, cacheVars
  <2> DEFINE k == key(r)
             n == Len(order)
  <2>2. HasWork(r)
    BY <2>1 DEF IInv, EngineAtWork, Store, Goto
  <2>3. k \in Key
    BY <2>2, CallTyped DEF IInv, Key
  <2> HIDE DEF k
  <2>4. /\ order \in Seq(Key) /\ n \in Nat /\ DOMAIN order = 1..n
        /\ Range(order) = DOMAIN entry /\ \A x \in DOMAIN entry : lastTouch[x] \in Nat
        /\ hits \in Nat /\ stores \in Nat
    BY LenProperties DEF IInv, TypeOK, LruConsistent
  <2>5. /\ order' = <<k>> \o Kept(k) /\ DOMAIN entry' = Range(order')
        /\ Touch(k) /\ hits' = hits /\ stores' = stores + 1
    BY <2>1 DEF Store, k
  <2>6. /\ Kept(k) \in Seq(Key) /\ IsInjective(Kept(k))
        /\ Range(Kept(k)) \subseteq DOMAIN entry \ {k}
    BY <2>3, KeptFacts DEF IInv
  <2>7. Range(order') = Range(Kept(k)) \cup {k}
    BY <2>3, <2>5, <2>6, ConsFacts
  <2>8. k \notin DOMAIN entry
    <3>1. k \in DOMAIN entry => Kept(k) = Without(order, k)
      BY DEF Kept
    <3>2. k \in DOMAIN entry => Range(Kept(k)) = DOMAIN entry \ {k}
      BY <3>1, <2>4, WithoutFacts DEF IInv, LruConsistent
    <3> QED  BY <3>2, <2>5, <2>7
  <2>9. n = Capacity /\ Kept(k) = SubSeq(order, 1, n - 1)
    <3>1. n # Capacity => Kept(k) = order
      BY <2>8 DEF Kept
    <3> QED  BY <3>1, <2>4, <2>5, <2>7, <2>8 DEF Kept
  <2>10. /\ n >= 1 /\ Len(Kept(k)) = n - 1
         /\ \A j \in 1..(n - 1) : Kept(k)[j] = order[j]
    BY <2>4, <2>9, CapacityAssumption
  <2>11. gone = order[n]
    <3>1. PICK j \in 1..n : gone = order[j]
      BY <2>4 DEF Range
    <3>2. \A i \in 1..(n - 1) : order[i] \in Range(Kept(k))
      BY <2>6, <2>10, LenProperties DEF Range
    <3>3. gone \notin Range(Kept(k))
      BY <2>5, <2>7
    <3>4. j \notin 1..(n - 1)
      BY <3>1, <3>2, <3>3
    <3> QED  BY <3>1, <3>4, <2>4, <2>10
  <2>12. CASE kept = k
    <3>1. lastTouch'[kept] = hits + stores + 1
      BY <2>5, <2>12, <2>4 DEF Touch
    <3>2. lastTouch[gone] <= hits + stores
      BY DEF IInv, RecencyOrder
    <3> QED  BY <3>1, <3>2, <2>4
  <2>13. CASE kept # k
    <3>1. PICK j \in 1..(n - 1) : kept = order[j]
      BY <2>5, <2>6, <2>7, <2>10, <2>13, LenProperties DEF Range
    <3>2. lastTouch'[kept] = lastTouch[kept]
      BY <2>5, <2>13 DEF Touch
    <3>3. lastTouch[order[j]] > lastTouch[order[n]]
      BY <3>1, <2>4, <2>10 DEF IInv, RecencyOrder, SortedByLastUse
    <3>4. kept \in DOMAIN entry
      BY <3>1, <2>4, <2>10 DEF Range
    <3> QED  BY <3>1, <3>2, <3>3, <3>4, <2>4, <2>11
  <2> QED  BY <2>12, <2>13
<1> QED  BY <1>1, Invariance, PTL DEF Spec, EvictsLeastRecentlyUsed
-------------------------------------------------------------------------------
(* The counters. *)

\* The engines between a counted miss and their store.
Storing == {r \in Requests : pc[r] # "lookup" /\ is_cacheable(piece(r).text)}

\* The counters account for the cache, and only finitely many engines are between
\* a miss and a store, however many handlers there are.
AccountInv == IsFiniteSet(Storing) /\ CountersAccountForCache

\* Whether an engine is storing does not change for the handlers that stand still.
LEMMA StoringOthers ==
  ASSUME IInv, NEW r \in Requests, work' = work,
         \A q \in Requests \ {r} : output'[q] = output[q] /\ pc'[q] = pc[q]
  PROVE  \A q \in Requests \ {r} : q \in Storing' <=> q \in Storing
BY DEF Storing, piece, is_cacheable

\* A step of r that keeps the counters of stores and evictions.
LEMMA AccountStep ==
  ASSUME IInv, AccountInv, NEW r \in Requests, work' = work,
         \A q \in Requests \ {r} : output'[q] = output[q] /\ pc'[q] = pc[q],
         UNCHANGED <<stores, evictions>>, Len(order') = Len(order),
         \/ r \notin Storing' /\ misses' = misses
         \/ r \in Storing /\ misses' = misses
         \/ misses' = misses + 1
  PROVE  AccountInv'
<1>1. /\ stores \in Nat /\ misses \in Nat /\ evictions \in Nat
      /\ IsFiniteSet(Storing) /\ Cardinality(Storing) \in Nat
  BY FS_CardinalityType DEF IInv, TypeOK, AccountInv
<1>2. Storing' \subseteq Storing \cup {r} /\ Storing \subseteq Requests
  BY StoringOthers DEF Storing
<1>3. /\ IsFiniteSet(Storing \cup {r})
      /\ Cardinality(Storing \cup {r}) <= Cardinality(Storing) + 1
      /\ Cardinality(Storing \cup {r}) \in Nat
  <2> HIDE DEF Storing
  <2>1. /\ IsFiniteSet(Storing \cup {r})
        /\ Cardinality(Storing \cup {r}) =
             IF r \in Storing THEN Cardinality(Storing) ELSE Cardinality(Storing) + 1
    BY <1>1, FS_AddElement
  <2>2. QED
    BY <1>1, <2>1
<1>4. /\ IsFiniteSet(Storing') /\ Cardinality(Storing') \in Nat
      /\ Cardinality(Storing') <= Cardinality(Storing) + 1
  <2>1. IsFiniteSet(Storing') /\ Cardinality(Storing') <= Cardinality(Storing \cup {r})
    BY <1>2, <1>3, FS_Subset
  <2>2. Cardinality(Storing') \in Nat
    BY <2>1, FS_CardinalityType
  <2>3. QED
    BY <2>1, <2>2, <1>1, <1>3
<1>5. stores' + Cardinality(Storing') <= misses'
  <2>1. CASE misses' = misses + 1
    BY <2>1, <1>1, <1>4 DEF AccountInv, CountersAccountForCache, Storing
  <2>2. CASE misses' = misses /\ (r \notin Storing' \/ r \in Storing)
    <3>1. Storing' \subseteq Storing
      BY <1>2, <2>2
    <3>2. Cardinality(Storing') <= Cardinality(Storing)
      BY <3>1, <1>1, FS_Subset
    <3>3. QED
      BY <2>2, <3>2, <1>1, <1>4 DEF AccountInv, CountersAccountForCache, Storing
  <2>3. QED
    BY <2>1, <2>2
<1>6. /\ Len(order') + evictions' <= stores'
      /\ evictions' > 0 => Len(order') = Capacity
  BY DEF AccountInv, CountersAccountForCache
<1>7. QED
  BY <1>4, <1>5, <1>6 DEF AccountInv, CountersAccountForCache, Storing

\* A store takes the engine of r out of those between a miss and a store.
LEMMA AccountStore ==
  ASSUME IInv, AccountInv, NEW r \in Requests, Store(r)
  PROVE  AccountInv'
<1> DEFINE k == key(r)
<1>1. /\ pc[r] = "store" /\ pc' = [pc EXCEPT ![r] = "lookup"]
      /\ is_cacheable(piece(r).text)
      /\ order' = <<k>> \o Kept(k) /\ stores' = stores + 1
      /\ evictions' = evictions + Evictions(k)
      /\ misses' = misses /\ work' = work
      /\ Deliver(r, Compressed(call(r)))
  BY DEF Store, Goto, requestVars
<1>2. HasWork(r)
  BY <1>1 DEF IInv, EngineAtWork
<1>3. k \in Key
  BY <1>2, CallTyped DEF IInv, Key
<1>4. \A q \in Requests \ {r} : output'[q] = output[q] /\ pc'[q] = pc[q]
  BY <1>1 DEF IInv, TypeOK, Deliver
<1>5. r \in Storing /\ r \notin Storing'
  BY <1>1 DEF Storing, IInv, TypeOK
<1>6. /\ stores \in Nat /\ misses \in Nat /\ evictions \in Nat
      /\ IsFiniteSet(Storing) /\ Cardinality(Storing) \in Nat
  BY FS_CardinalityType DEF IInv, TypeOK, AccountInv
<1>7. Storing' = Storing \ {r}
  BY <1>1, <1>4, <1>5, StoringOthers DEF Storing
<1>8. IsFiniteSet(Storing') /\ Cardinality(Storing') = Cardinality(Storing) - 1
  BY <1>5, <1>6, <1>7, FS_RemoveElement
<1>9. stores' + Cardinality(Storing') <= misses'
  BY <1>1, <1>6, <1>8 DEF AccountInv, CountersAccountForCache, Storing
<1>10. /\ Len(order') + evictions' <= stores'
       /\ evictions' > 0 => Len(order') = Capacity
  <2> HIDE DEF k
  <2>1. /\ order \in Seq(Key) /\ Len(order) \in Nat /\ Len(order) <= Capacity
        /\ IsInjective(order) /\ Range(order) = DOMAIN entry
        /\ Capacity \in Nat \ {0}
    BY CapacityAssumption, LenProperties DEF IInv, TypeOK, LruConsistent
  <2>2. Kept(k) \in Seq(Key) /\ Len(Kept(k)) \in Nat
    BY <1>3, KeptFacts, LenProperties DEF IInv
  <2>3. Len(order') = Len(Kept(k)) + 1
    BY <1>1, <1>3, <2>2
  <2>4. Len(order) + evictions <= stores /\ (evictions > 0 => Len(order) = Capacity)
    BY DEF AccountInv, CountersAccountForCache
  <2>5. CASE k \in DOMAIN entry
    <3>1. Len(Kept(k)) = Len(order) - 1 /\ Evictions(k) = 0
      BY <2>1, <2>5, WithoutFacts DEF Kept, Evictions
    <3>2. QED
      BY <3>1, <2>1, <2>3, <2>4, <1>1, <1>6
  <2>6. CASE k \notin DOMAIN entry /\ Len(order) = Capacity
    <3>1. Evictions(k) = 1 /\ Kept(k) = SubSeq(order, 1, Len(order) - 1)
      BY <2>6 DEF Kept, Evictions
    <3>2. Len(Kept(k)) = Len(order) - 1
      BY <3>1, <2>1, <2>6
    <3>3. QED
      BY <3>1, <3>2, <2>1, <2>3, <2>4, <2>6, <1>1, <1>6
  <2>7. CASE k \notin DOMAIN entry /\ Len(order) # Capacity
    <3>1. Kept(k) = order /\ Evictions(k) = 0
      BY <2>7 DEF Kept, Evictions
    <3>2. QED
      BY <3>1, <2>1, <2>3, <2>4, <2>7, <1>1, <1>6
  <2>8. QED
    BY <2>5, <2>6, <2>7
<1>11. QED
  BY <1>8, <1>9, <1>10 DEF AccountInv, CountersAccountForCache, Storing

\* Every step of an engine keeps the account.
LEMMA NextAccount == IInv /\ AccountInv /\ [Next]_vars => AccountInv'
<1> SUFFICES ASSUME IInv, AccountInv, [Next]_vars PROVE AccountInv'
  OBVIOUS
<1>t. /\ pc \in [Requests -> {"lookup", "pipeline", "store"}]
      /\ output \in [Requests -> Seq(Text)]
  BY DEF IInv, TypeOK
<1>1. CASE UNCHANGED vars
  BY <1>1 DEF vars, AccountInv, CountersAccountForCache, Storing, piece, is_cacheable
<1>2. ASSUME NEW r \in Requests, CacheHit(r) PROVE AccountInv'
  <2>1. /\ order' = <<key(r)>> \o Without(order, key(r))
        /\ key(r) \in DOMAIN entry /\ HasWork(r) /\ pc[r] = "lookup"
        /\ UNCHANGED <<misses, stores, evictions, work, pc>>
        /\ Deliver(r, entry[key(r)].compressed)
    BY <1>2 DEF CacheHit, Promote
  <2>2. /\ order \in Seq(Key) /\ IsInjective(order) /\ Range(order) = DOMAIN entry
        /\ Len(order) \in Nat
    BY LenProperties DEF IInv, TypeOK, LruConsistent
  <2>3. key(r) \in Range(order) /\ key(r) \in Key
    BY <2>1, <2>2 DEF IInv, TypeOK
  <2>4. /\ Without(order, key(r)) \in Seq(Key)
        /\ Len(Without(order, key(r))) = Len(order) - 1
    BY <2>2, <2>3, WithoutFacts
  <2>5. Len(order') = Len(order)
    BY <2>1, <2>2, <2>3, <2>4
  <2>6. \A q \in Requests \ {r} : output'[q] = output[q] /\ pc'[q] = pc[q]
    BY <1>t, <2>1 DEF Deliver
  <2>7. r \notin Storing'
    BY <2>1 DEF Storing
  <2>8. QED
    BY <2>1, <2>5, <2>6, <2>7, AccountStep
<1>3. ASSUME NEW r \in Requests, CacheMiss(r) PROVE AccountInv'
  <2>1. /\ UNCHANGED <<order, stores, evictions, work, output>>
        /\ misses' = misses + 1 /\ pc' = [pc EXCEPT ![r] = "pipeline"]
    BY <1>3 DEF CacheMiss, Goto
  <2>2. QED
    BY <1>t, <2>1, AccountStep
<1>4. ASSUME NEW r \in Requests, LookupBypass(r) PROVE AccountInv'
  <2>1. /\ UNCHANGED <<order, misses, stores, evictions, work, output>>
        /\ pc' = [pc EXCEPT ![r] = "pipeline"] /\ ~is_cacheable(piece(r).text)
    BY <1>4 DEF LookupBypass, Goto, cacheVars, requestVars
  <2>2. r \notin Storing'
    BY <2>1 DEF Storing, piece, is_cacheable
  <2>3. QED
    BY <1>t, <2>1, <2>2, AccountStep
<1>5. ASSUME NEW r \in Requests, PipelineShrinks(r) PROVE AccountInv'
  <2>1. /\ UNCHANGED <<order, misses, stores, evictions, work, output>>
        /\ pc[r] = "pipeline" /\ pc' = [pc EXCEPT ![r] = "store"]
    BY <1>5 DEF PipelineShrinks, Goto, cacheVars, requestVars
  <2>2. r \notin Storing' \/ r \in Storing
    BY <2>1 DEF Storing, piece, is_cacheable
  <2>3. QED
    BY <1>t, <2>1, <2>2, AccountStep
<1>6. ASSUME NEW r \in Requests, PipelineGrows(r) \/ StoreBypass(r) PROVE AccountInv'
  <2>1. /\ UNCHANGED <<order, misses, stores, evictions, work>>
        /\ pc' = [pc EXCEPT ![r] = "lookup"]
        /\ \E text : Deliver(r, text)
    BY <1>6 DEF PipelineGrows, StoreBypass, Goto, cacheVars, requestVars
  <2>2. \A q \in Requests \ {r} : output'[q] = output[q] /\ pc'[q] = pc[q]
    BY <1>t, <2>1 DEF Deliver
  <2>3. r \notin Storing'
    BY <1>t, <2>1 DEF Storing
  <2>4. QED
    BY <2>1, <2>2, <2>3, AccountStep
<1>7. ASSUME NEW r \in Requests, Store(r) PROVE AccountInv'
  BY <1>7, AccountStore
<1>8. QED
  BY <1>1, <1>2, <1>3, <1>4, <1>5, <1>6, <1>7 DEF Next, Step

\* The counters of /analytics account for the cache: a store was a counted miss
\* before, and what was stored is there, was evicted or was replaced, whatever
\* the number of handlers that miss on one key and store it.
THEOREM CountersAlwaysAccount == Spec => []CountersAccountForCache
<1>1. Init => AccountInv
  <2> SUFFICES ASSUME Init PROVE AccountInv
    OBVIOUS
  <2>1. Storing = {}
    BY DEF Init, Storing
  <2>2. IsFiniteSet(Storing) /\ Cardinality(Storing) = 0
    BY <2>1, FS_EmptySet
  <2>3. CountersAccountForCache
    BY <2>2 DEF Init, CountersAccountForCache, Storing
  <2>4. QED
    BY <2>2, <2>3 DEF AccountInv
<1>2. AccountInv => CountersAccountForCache
  BY DEF AccountInv
<1>3. QED
  BY <1>1, <1>2, InitIInv, NextIInv, NextAccount, PTL DEF Spec
-------------------------------------------------------------------------------
(* The rule hits a request reports. *)

\* The hits of the pieces of a work list under a setting, and their sum over the
\* pieces r has got back.
HitsOf(w, s) == [n \in 1..Len(w) |-> RuleHits[<<w[n].text, w[n].mode, s>>]]
WorthSum(r) == SumUpTo(HitsOf(work[r], setting[r]), Len(output[r]))

\* What the total of r holds beyond the texts it has got back: the hits of the
\* piece it is about to store.
Due(r) == IF pc[r] = "store" THEN RuleHits[call(r)] ELSE 0

NeverMoreThanWork == \A r \in Requests : Len(output[r]) <= Len(work[r])
TotalsCover ==
  \A r \in Requests : total[r] >= counted[r] /\ total[r] >= WorthSum(r) + Due(r)
EntriesCover == \A k \in DOMAIN entry : entry[k].hits >= RuleHits[k]

\* The totals cover the texts because the stored counts do, and the stored
\* counts because they are totals.
StatsInv == NeverMoreThanWork /\ (wrapped \/ (TotalsCover /\ EntriesCover))

\* The hits of a work list are natural numbers.
LEMMA HitsTyped ==
  ASSUME NEW w \in Seq(Piece), NEW s \in Settings
  PROVE  \A n \in 1..Len(w) : /\ HitsOf(w, s)[n] = RuleHits[<<w[n].text, w[n].mode, s>>]
                              /\ HitsOf(w, s)[n] \in Nat
<1> TAKE n \in 1..Len(w)
<1>1. w[n] \in Piece
  OBVIOUS
<1>2. <<w[n].text, w[n].mode, s>> \in Call
  BY <1>1 DEF Piece, Call
<1>3. QED
  BY <1>2, RuleHitsAssumption DEF HitsOf

\* Worth, as the module computes it, is that sum.
LEMMA WorthIsSum ==
  ASSUME TypeOK, NEW r \in Requests, Len(output[r]) <= Len(work[r])
  PROVE  Worth(r) = WorthSum(r)
<1> DEFINE n == Len(output[r])
           w == HitsOf(work[r], setting[r])
           Rec(f) == f = [i \in 0..n |->
                            IF i = 0 THEN 0
                            ELSE f[i - 1]
                                 + RuleHits[<<work[r][i].text, work[r][i].mode, setting[r]>>]]
<1>0. /\ work[r] \in Seq(Piece) /\ setting[r] \in Settings
      /\ n \in Nat /\ n <= Len(work[r]) /\ Len(work[r]) \in Nat
  BY DEF TypeOK
<1>1. Worth(r) = (CHOOSE f : Rec(f))[n]
  BY DEF Worth
<1>2. \A i \in 1..n :
         /\ w[i] = RuleHits[<<work[r][i].text, work[r][i].mode, setting[r]>>]
         /\ w[i] \in Int
  <2> HIDE DEF n, w
  <2>1. \A i \in 1..n : i \in 1..Len(work[r])
    BY <1>0
  <2>2. QED
    BY <1>0, <2>1, HitsTyped DEF w
<1>3. \A f : Rec(f) <=> IsSumUpTo(f, w, n)
  <2> TAKE f
  <2> HIDE DEF n, w
  <2>1. [i \in 0..n |->
           IF i = 0 THEN 0
           ELSE f[i - 1] + RuleHits[<<work[r][i].text, work[r][i].mode, setting[r]>>]]
          = [i \in 0..n |-> IF i = 0 THEN 0 ELSE f[i - 1] + w[i]]
    BY <1>0, <1>2
  <2>2. QED
    BY <2>1 DEF IsSumUpTo
<1> HIDE DEF n, w, Rec
<1>4. \E f : IsSumUpTo(f, w, n)
  BY <1>0, <1>2, SumUpToExists
<1> DEFINE g == CHOOSE f : Rec(f)
<1>5. Rec(g)
  BY <1>3, <1>4
<1>6. Worth(r) = g[n]
  BY <1>1
<1> HIDE DEF g
<1>7. g[n] = SumUpTo(w, n)
  <2>1. IsSumUpTo(g, w, n)
    BY <1>3, <1>5
  <2>2. n \in Nat /\ n \in 0..n /\ \A i \in 1..n : w[i] \in Int
    <3>1. n \in Nat
      BY <1>0
    <3>2. n \in 0..n
      BY <3>1
    <3>3. \A i \in 1..n : w[i] \in Int
      BY <1>2
    <3>4. QED
      BY <3>1, <3>2, <3>3
  <2>3. \A m \in 0..n : SumUpTo(w, m) = g[m]
    BY <2>1, <2>2, SumUpToIsRecursive
  <2>4. QED
    BY <2>2, <2>3
<1>8. QED
  BY <1>6, <1>7 DEF WorthSum, n, w

\* What is delivered to r is worth its hits.
LEMMA WorthGrows ==
  ASSUME TypeOK, NeverMoreThanWork, NEW r \in Requests, HasWork(r),
         NEW text \in Text, Deliver(r, text), UNCHANGED requestVars
  PROVE  /\ NeverMoreThanWork'
         /\ WorthSum(r)' = WorthSum(r) + RuleHits[call(r)]
         /\ WorthSum(r) \in Nat /\ RuleHits[call(r)] \in Nat
         /\ \A q \in Requests \ {r} : WorthSum(q)' = WorthSum(q)
<1> DEFINE n == Len(output[r])
           w == HitsOf(work[r], setting[r])
<1>0. /\ work[r] \in Seq(Piece) /\ setting[r] \in Settings
      /\ n \in Nat /\ n < Len(work[r]) /\ Len(work[r]) \in Nat
  BY DEF TypeOK, HasWork
<1>1. /\ output'[r] = Append(output[r], text) /\ work' = work /\ setting' = setting
      /\ \A q \in Requests \ {r} : output'[q] = output[q]
      /\ Len(output'[r]) = n + 1
  BY DEF TypeOK, Deliver, requestVars
<1>2. n + 1 \in 1..Len(work[r])
  BY <1>0
<1>3. w[n + 1] = RuleHits[call(r)]
  <2>1. \A i \in 1..Len(work[r]) :
           w[i] = RuleHits[<<work[r][i].text, work[r][i].mode, setting[r]>>]
    BY <1>0, HitsTyped
  <2> HIDE DEF w
  <2>2. w[n + 1] = RuleHits[<<work[r][n + 1].text, work[r][n + 1].mode, setting[r]>>]
    <3> HIDE DEF n
    <3> QED BY <1>2, <2>1
  <2>3. QED
    BY <2>2 DEF call, piece
<1>4. \A i \in 1..Len(work[r]) : w[i] \in Nat
  BY <1>0, HitsTyped
<1>5. /\ SumUpTo(w, n) \in Nat /\ w[n + 1] \in Nat
      /\ SumUpTo(w, n + 1) = SumUpTo(w, n) + w[n + 1]
  <2> HIDE DEF n, w
  <2>1. n \in 0..Len(work[r]) /\ (n + 1) - 1 = n
    BY <1>0
  <2>2. QED
    BY <1>0, <1>2, <1>4, <2>1, SumUpToFacts
<1>6. WorthSum(r) = SumUpTo(w, n) /\ WorthSum(r)' = SumUpTo(w, n + 1)
  BY <1>1 DEF WorthSum
<1>7. \A q \in Requests \ {r} : WorthSum(q)' = WorthSum(q)
  BY <1>1 DEF WorthSum
<1>8. NeverMoreThanWork'
  BY <1>0, <1>1 DEF NeverMoreThanWork
<1>9. QED
  BY <1>3, <1>5, <1>6, <1>7, <1>8

\* A total that does not overflow is the sum.
LEMMA AddHitsFacts ==
  ASSUME TypeOK, NEW r \in Requests, NEW n \in Nat, AddHits(r, n), ~wrapped'
  PROVE  /\ ~wrapped /\ total'[r] = total[r] + n /\ total[r] \in Nat
         /\ \A q \in Requests \ {r} : total'[q] = total[q]
<1>1. total[r] \in Nat /\ total[r] + n <= MaxUsize /\ ~wrapped
  <2>1. ~wrapped /\ ~(total[r] + n > MaxUsize)
    BY Zenon DEF AddHits
  <2>2. QED
    BY <2>1, UsizeAssumption DEF TypeOK
<1>2. (total[r] + n) % (MaxUsize + 1) = total[r] + n
  BY <1>1, UsizeAssumption
<1>3. QED
  BY <1>1, <1>2 DEF AddHits, TypeOK

\* Every step of an engine keeps StatsInv.
LEMMA NextStats == IInv /\ StatsInv /\ [Next]_vars => StatsInv'
<1> SUFFICES ASSUME IInv, StatsInv, [Next]_vars PROVE StatsInv'
  OBVIOUS
<1>t. /\ TypeOK
      /\ pc \in [Requests -> {"lookup", "pipeline", "store"}]
      /\ total \in [Requests -> 0..MaxUsize] /\ counted \in [Requests -> Nat]
      /\ \A q \in Requests : total[q] \in Nat
  BY UsizeAssumption DEF IInv, TypeOK
<1>1. CASE UNCHANGED vars
  <2>1. \A q \in Requests : Due(q)' = Due(q) /\ WorthSum(q)' = WorthSum(q)
    BY <1>1 DEF vars, Due, call, piece, WorthSum
  <2>2. UNCHANGED <<entry, work, output, total, counted, wrapped>>
    BY <1>1 DEF vars
  <2>3. QED
    BY <2>1, <2>2 DEF StatsInv, NeverMoreThanWork, TotalsCover, EntriesCover
<1>2. ASSUME NEW r \in Requests, CacheMiss(r) \/ LookupBypass(r) PROVE StatsInv'
  <2>1. /\ UNCHANGED <<entry, work, setting, output, total, counted, wrapped>>
        /\ pc[r] = "lookup" /\ pc' = [pc EXCEPT ![r] = "pipeline"]
    BY <1>2 DEF CacheMiss, LookupBypass, Goto, cacheVars, requestVars
  <2>2. \A q \in Requests : Due(q)' = Due(q) /\ WorthSum(q)' = WorthSum(q)
    BY <1>t, <2>1 DEF Due, call, piece, WorthSum
  <2>3. QED
    BY <2>1, <2>2 DEF StatsInv, NeverMoreThanWork, TotalsCover, EntriesCover
<1>3. ASSUME NEW r \in Requests, PipelineShrinks(r) PROVE StatsInv'
  <2>1. /\ UNCHANGED <<entry, work, setting, output>>
        /\ pc[r] = "pipeline" /\ pc' = [pc EXCEPT ![r] = "store"]
        /\ AddHits(r, RuleHits[call(r)])
        /\ counted' = [counted EXCEPT ![r] = @ + RuleHits[call(r)]]
    BY <1>3 DEF PipelineShrinks, Goto, cacheVars, requestVars
  <2>2. RuleHits[call(r)] \in Nat
    BY <2>1, CallTyped, RuleHitsAssumption DEF IInv, EngineAtWork
  <2>3. \A q \in Requests : WorthSum(q)' = WorthSum(q) /\ call(q)' = call(q)
    BY <2>1 DEF WorthSum, call, piece
  <2>4. Due(r) = 0 /\ Due(r)' = RuleHits[call(r)]
        /\ \A q \in Requests \ {r} : Due(q)' = Due(q)
    BY <1>t, <2>1, <2>3 DEF Due
  <2>5. ASSUME ~wrapped' PROVE TotalsCover' /\ EntriesCover'
    <3>1. /\ ~wrapped /\ total'[r] = total[r] + RuleHits[call(r)]
          /\ \A q \in Requests \ {r} : total'[q] = total[q]
      BY <2>1, <2>2, <2>5, <1>t, AddHitsFacts
    <3>2. TotalsCover /\ EntriesCover
      BY <3>1 DEF StatsInv
    <3>3. WorthSum(r) \in Int
      <4>1. /\ Len(output[r]) \in 0..Len(work[r]) /\ Len(work[r]) \in Nat
            /\ work[r] \in Seq(Piece) /\ setting[r] \in Settings
        BY DEF StatsInv, NeverMoreThanWork, IInv, TypeOK
      <4>2. \A n \in 1..Len(work[r]) : HitsOf(work[r], setting[r])[n] \in Nat
        BY <4>1, HitsTyped
      <4>3. \A m \in 0..Len(work[r]) : SumUpTo(HitsOf(work[r], setting[r]), m) \in Nat
        BY <4>1, <4>2, SumUpToFacts
      <4>4. QED
        BY <4>1, <4>3 DEF WorthSum
    <3>4. total'[r] >= counted'[r] /\ total'[r] >= WorthSum(r)' + Due(r)'
      BY <1>t, <2>1, <2>2, <2>3, <2>4, <3>1, <3>2, <3>3 DEF TotalsCover
    <3>5. \A q \in Requests \ {r} :
             total'[q] >= counted'[q] /\ total'[q] >= WorthSum(q)' + Due(q)'
      BY <1>t, <2>1, <2>3, <2>4, <3>1, <3>2 DEF TotalsCover
    <3>6. QED
      BY <3>2, <3>4, <3>5, <2>1 DEF TotalsCover, EntriesCover
  <2>6. QED
    BY <2>1, <2>5 DEF StatsInv, NeverMoreThanWork
<1>4. ASSUME NEW r \in Requests, NEW text \in Text, NEW n \in Nat,
             HasWork(r), Deliver(r, text), UNCHANGED requestVars, pc'[r] # "store",
             \A q \in Requests \ {r} : pc'[q] = pc[q] /\ counted'[q] = counted[q],
             \/ /\ ~wrapped' /\ ~wrapped /\ total'[r] = total[r] + n
                /\ \A q \in Requests \ {r} : total'[q] = total[q]
             \/ wrapped',
             ~wrapped' => /\ Due(r) + n >= RuleHits[call(r)]
                          /\ total'[r] >= counted'[r]
                          /\ EntriesCover'
      PROVE  StatsInv'
  <2>1. /\ NeverMoreThanWork'
        /\ WorthSum(r)' = WorthSum(r) + RuleHits[call(r)]
        /\ WorthSum(r) \in Nat /\ RuleHits[call(r)] \in Nat
        /\ \A q \in Requests \ {r} : WorthSum(q)' = WorthSum(q)
    BY <1>4, <1>t, WorthGrows DEF StatsInv
  <2>2. \A q \in Requests \ {r} : Due(q)' = Due(q)
    BY <1>4, <1>t, DeliverFacts DEF Due
  <2>3. Due(r)' = 0 /\ Due(r) \in Nat
    BY <1>4, <2>1 DEF Due
  <2>4. ASSUME ~wrapped' PROVE TotalsCover'
    <3>1. /\ total'[r] = total[r] + n /\ TotalsCover
          /\ \A q \in Requests \ {r} : total'[q] = total[q]
      BY <1>4, <2>4 DEF StatsInv
    <3>2. total'[r] >= WorthSum(r)' + Due(r)'
      BY <1>4, <1>t, <2>1, <2>3, <2>4, <3>1 DEF TotalsCover
    <3>3. QED
      BY <1>4, <1>t, <2>1, <2>2, <2>4, <3>1, <3>2 DEF TotalsCover
  <2>5. QED
    BY <1>4, <2>1, <2>4 DEF StatsInv
<1>5. ASSUME NEW r \in Requests, CacheHit(r) PROVE StatsInv'
  <2> DEFINE k == key(r)
  <2>1. /\ pc[r] = "lookup" /\ HasWork(r) /\ k \in DOMAIN entry
        /\ UNCHANGED <<entry, work, setting, pc, counted>>
        /\ AddHits(r, entry[k].hits) /\ Deliver(r, entry[k].compressed)
    BY <1>5 DEF CacheHit, CachedHits
  <2>2. k = call(r) /\ entry[k].compressed \in Text /\ entry[k].hits \in Nat
    <3>1. entry[k] \in Entry
      BY <2>1, <1>t DEF TypeOK
    <3>2. QED
      BY <2>1, <1>t, <3>1, CallTyped DEF Entry
  <2>3. ~wrapped' => /\ ~wrapped /\ total'[r] = total[r] + entry[k].hits
                     /\ \A q \in Requests \ {r} : total'[q] = total[q]
    BY <2>1, <2>2, <1>t, AddHitsFacts
  <2>4. ~wrapped' => /\ Due(r) + entry[k].hits >= RuleHits[call(r)]
                     /\ total'[r] >= counted'[r]
                     /\ EntriesCover'
    <3> SUFFICES ASSUME ~wrapped'
                 PROVE  /\ Due(r) + entry[k].hits >= RuleHits[call(r)]
                        /\ total'[r] >= counted'[r]
                        /\ EntriesCover'
      OBVIOUS
    <3>1. TotalsCover /\ EntriesCover /\ total'[r] = total[r] + entry[k].hits
      BY <2>3 DEF StatsInv
    <3>2. Due(r) = 0
      BY <2>1 DEF Due
    <3>3. entry[k].hits >= RuleHits[call(r)]
      BY <2>1, <2>2, <3>1 DEF EntriesCover
    <3>4. total'[r] >= counted'[r]
      BY <2>1, <2>2, <3>1, <1>t DEF TotalsCover
    <3>5. EntriesCover'
      BY <2>1, <3>1 DEF EntriesCover
    <3>6. QED
      BY <2>2, <3>2, <3>3, <3>4, <3>5
  <2> HIDE DEF k
  <2>5. UNCHANGED requestVars /\ wrapped' \in BOOLEAN
    BY <2>1, <2>2, <1>t, AddHitsTyped DEF requestVars
  <2>6. QED
    BY <2>1, <2>2, <2>3, <2>4, <2>5, <1>4
<1>6. ASSUME NEW r \in Requests, PipelineGrows(r) PROVE StatsInv'
  <2>1. /\ pc[r] = "pipeline" /\ pc' = [pc EXCEPT ![r] = "lookup"]
        /\ UNCHANGED <<entry, work, setting>>
        /\ AddHits(r, RuleHits[call(r)])
        /\ counted' = [counted EXCEPT ![r] = @ + RuleHits[call(r)]]
        /\ Deliver(r, Original(piece(r).text))
    BY <1>6 DEF PipelineGrows, Goto, cacheVars, requestVars
  <2>2. HasWork(r)
    BY <2>1 DEF IInv, EngineAtWork
  <2>3. RuleHits[call(r)] \in Nat /\ Original(piece(r).text) \in Text
    BY <2>2, <1>t, CallTyped, RuleHitsAssumption DEF Text, Piece
  <2>4. ~wrapped' => /\ ~wrapped /\ total'[r] = total[r] + RuleHits[call(r)]
                     /\ \A q \in Requests \ {r} : total'[q] = total[q]
    BY <2>1, <2>3, <1>t, AddHitsFacts
  <2>5. ~wrapped' => /\ Due(r) + RuleHits[call(r)] >= RuleHits[call(r)]
                     /\ total'[r] >= counted'[r]
                     /\ EntriesCover'
    <3>1. Due(r) = 0
      BY <2>1 DEF Due
    <3>2. ~wrapped' => TotalsCover /\ EntriesCover
      BY <2>4 DEF StatsInv
    <3>3. QED
      BY <2>1, <2>3, <2>4, <3>1, <3>2, <1>t DEF TotalsCover, EntriesCover
  <2>6. /\ pc'[r] # "store" /\ UNCHANGED requestVars /\ wrapped' \in BOOLEAN
        /\ \A q \in Requests \ {r} : pc'[q] = pc[q] /\ counted'[q] = counted[q]
    BY <2>1, <2>3, <1>t, AddHitsTyped DEF requestVars
  <2>7. QED
    BY <2>1, <2>2, <2>3, <2>4, <2>5, <2>6, <1>4
<1>7. ASSUME NEW r \in Requests, Store(r) \/ StoreBypass(r) PROVE StatsInv'
  <2>1. /\ pc[r] = "store" /\ pc' = [pc EXCEPT ![r] = "lookup"]
        /\ UNCHANGED <<work, setting, total, counted, wrapped>>
        /\ Deliver(r, Compressed(call(r)))
    BY <1>7 DEF Store, StoreBypass, Goto, cacheVars, requestVars
  <2>2. HasWork(r)
    BY <2>1 DEF IInv, EngineAtWork
  <2>3. /\ key(r) = call(r) /\ call(r) \in Call /\ RuleHits[call(r)] \in Nat
        /\ Compressed(call(r)) \in Text
    BY <2>2, <1>t, CallTyped, RuleHitsAssumption DEF Text
  <2>4. Due(r) = RuleHits[call(r)]
    BY <2>1 DEF Due
  <2>5. ASSUME ~wrapped' PROVE total'[r] >= counted'[r] /\ EntriesCover'
    <3>1. TotalsCover /\ EntriesCover
      BY <2>1, <2>5 DEF StatsInv
    <3>2. CASE StoreBypass(r)
      BY <2>1, <3>1, <3>2 DEF StoreBypass, cacheVars, TotalsCover, EntriesCover
    <3>3. CASE Store(r)
      <4>1. /\ DOMAIN entry' = Range(order')
            /\ \A x \in DOMAIN entry' :
                 entry'[x].hits = IF x = key(r) THEN total[r] ELSE entry[x].hits
        BY <3>3 DEF Store
      <4>2. \A x \in DOMAIN entry' : x # key(r) => x \in DOMAIN entry
        <5>1. order' = <<key(r)>> \o Kept(key(r))
          BY <3>3 DEF Store
        <5>2. /\ Kept(key(r)) \in Seq(Key) /\ IsInjective(Kept(key(r)))
              /\ Range(Kept(key(r))) \subseteq DOMAIN entry \ {key(r)}
              /\ key(r) \in Key
          BY <2>3, KeptFacts DEF IInv, Key
        <5>3. Range(order') = Range(Kept(key(r))) \cup {key(r)}
          BY <5>1, <5>2, ConsFacts
        <5>4. QED
          BY <4>1, <5>2, <5>3
      <4>3. total[r] >= RuleHits[call(r)]
        <5>1. WorthSum(r) \in Nat
          BY <1>t, <2>1, <2>2, <2>3, WorthGrows DEF StatsInv, requestVars
        <5>2. QED
          BY <1>t, <2>3, <2>4, <3>1, <5>1 DEF TotalsCover
      <4>4. EntriesCover'
        BY <2>3, <3>1, <4>1, <4>2, <4>3 DEF EntriesCover
      <4>5. QED
        BY <2>1, <3>1, <4>4 DEF TotalsCover
    <3>4. QED
      BY <1>7, <3>2, <3>3
  <2>6. /\ pc'[r] # "store" /\ UNCHANGED requestVars /\ wrapped' \in BOOLEAN
        /\ total'[r] = total[r] + 0
        /\ \A q \in Requests \ {r} : pc'[q] = pc[q] /\ counted'[q] = counted[q]
                                     /\ total'[q] = total[q]
    BY <2>1, <1>t DEF requestVars, TypeOK
  <2>7. Due(r) + 0 >= RuleHits[call(r)]
    BY <2>3, <2>4
  <2>8. QED
    BY <2>1, <2>2, <2>3, <2>5, <2>6, <2>7, <1>4
<1>8. QED
  BY <1>1, <1>2, <1>3, <1>5, <1>6, <1>7 DEF Next, Step

\* However hits, misses and stores of any number of requests interleave: until a
\* total overflows, no request reports fewer rule hits than its texts are worth,
\* nor fewer than its own category counters.
THEOREM StatsAlwaysCover == Spec => []StatsNeverUndercount
<1>1. Init => StatsInv
  <2> SUFFICES ASSUME Init PROVE StatsInv
    OBVIOUS
  <2>1. \A r \in Requests : work[r] \in Seq(Piece) /\ setting[r] \in Settings
    BY WorkAssumption DEF Init
  <2>2. \A r \in Requests : WorthSum(r) = 0 /\ Due(r) = 0 /\ Len(work[r]) \in Nat
    <3> TAKE r \in Requests
    <3>1. \A n \in 1..Len(work[r]) : HitsOf(work[r], setting[r])[n] \in Nat
      BY <2>1, HitsTyped
    <3>2. Len(work[r]) \in Nat /\ Len(output[r]) = 0
      BY <2>1 DEF Init
    <3>3. WorthSum(r) = 0
      BY <3>1, <3>2, SumUpToFacts DEF WorthSum
    <3>4. QED
      BY <3>2, <3>3 DEF Init, Due
  <2>3. QED
    BY <2>2 DEF Init, StatsInv, NeverMoreThanWork, TotalsCover, EntriesCover
<1>2. IInv /\ StatsInv => StatsNeverUndercount
  <2> SUFFICES ASSUME IInv, StatsInv, ~wrapped, NEW r \in Requests
               PROVE  total[r] >= Worth(r) /\ total[r] >= counted[r]
    BY DEF StatsNeverUndercount
  <2>1. Worth(r) = WorthSum(r)
    BY WorthIsSum DEF StatsInv, NeverMoreThanWork, IInv
  <2>2. Due(r) \in Nat /\ WorthSum(r) \in Nat /\ total[r] \in Nat
    <3>1. Due(r) \in Nat
      BY CallTyped, RuleHitsAssumption DEF Due, IInv, EngineAtWork
    <3>2. /\ Len(output[r]) \in 0..Len(work[r]) /\ Len(work[r]) \in Nat
          /\ work[r] \in Seq(Piece) /\ setting[r] \in Settings
      BY DEF StatsInv, NeverMoreThanWork, IInv, TypeOK
    <3>3. WorthSum(r) \in Nat
      BY <3>2, HitsTyped, SumUpToFacts DEF WorthSum
    <3>4. total[r] \in Nat
      BY UsizeAssumption DEF IInv, TypeOK
    <3>5. QED
      BY <3>1, <3>3, <3>4
  <2>3. QED
    BY <2>1, <2>2 DEF StatsInv, TotalsCover
<1>3. QED
  BY <1>1, <1>2, InitIInv, NextIInv, NextStats, PTL DEF Spec
===============================================================================
