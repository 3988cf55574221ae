-------------------------- MODULE SemanticStageProofs --------------------------
(***************************************************************************)
(* Theorems about SemanticStage, for every set of handlers, every cache    *)
(* size above zero and all texts: the lock, the cache and what it serves.  *)
(***************************************************************************)
EXTENDS SemanticStage, SequenceTheorems, FiniteSetTheorems, TLAPS

-------------------------------------------------------------------------------
(* The cache. *)

\* The key tells the part and the scope it was made for.
LEMMA KeyTells ==
  ASSUME NEW st1 \in Stage, NEW st2 \in Stage, NEW x1, NEW x2, NEW sc1, NEW sc2,
         cache_key(st1, x1, sc1) = cache_key(st2, x2, sc2)
  PROVE  st1 = st2 /\ sc1 = sc2
BY DEF cache_key, Stage

\* Once the expired entries and, if need be, the oldest are gone there is room.
LEMMA RetainedFacts ==
  ASSUME TypeOK, CacheBounded
  PROVE  /\ Retained \in Seq(Entry)
         /\ Len(Retained) < MaxEntries
         /\ \E off \in expired..Len(cache) :
              /\ Len(Retained) = Len(cache) - off
              /\ \A i \in 1..Len(Retained) : Retained[i] = cache[off + i]
<1>1. /\ cache \in Seq(Entry) /\ expired \in 0..Len(cache) /\ Len(cache) \in Nat
      /\ Len(cache) <= MaxEntries /\ MaxEntries \in Nat \ {0}
  BY MaxEntriesAssumption DEF TypeOK, CacheBounded
<1>2. /\ Live \in Seq(Entry) /\ Len(Live) = Len(cache) - expired
      /\ \A i \in 1..Len(Live) : Live[i] = cache[expired + i]
  BY <1>1 DEF Live
<1>3. CASE Len(Live) < MaxEntries
  <2>1. Retained = Live
    BY <1>1, <1>2, <1>3 DEF Retained
  <2>2. expired \in expired..Len(cache)
    BY <1>1
  <2>3. \E off \in expired..Len(cache) :
          /\ Len(Retained) = Len(cache) - off
          /\ \A i \in 1..Len(Retained) : Retained[i] = cache[off + i]
    BY <2>1, <2>2, <1>2
  <2> QED  BY <2>1, <2>3, <1>2, <1>3
<1>4. CASE Len(Live) >= MaxEntries
  <2>1. Retained = Tail(Live) /\ Live # <<>>
    BY <1>1, <1>2, <1>4 DEF Retained
  <2>2. /\ Tail(Live) \in Seq(Entry) /\ Len(Tail(Live)) = Len(Live) - 1
        /\ \A i \in 1..Len(Tail(Live)) : Tail(Live)[i] = Live[i + 1]
    BY <2>1, <1>2, HeadTailProperties
  <2>3. expired + 1 \in expired..Len(cache) /\ Len(Retained) = Len(cache) - (expired + 1)
    BY <2>1, <2>2, <1>1, <1>2, <1>4
  <2>4. \A i \in 1..Len(Retained) : Retained[i] = cache[(expired + 1) + i]
    BY <2>1, <2>2, <1>1, <1>2
  <2>5. \E off \in expired..Len(cache) :
          /\ Len(Retained) = Len(cache) - off
          /\ \A i \in 1..Len(Retained) : Retained[i] = cache[off + i]
    BY <2>3, <2>4
  <2>6. Len(Retained) < MaxEntries
    BY <2>3, <1>1
  <2> QED  BY <2>1, <2>2, <2>5, <2>6
<1> QED  BY <1>1, <1>2, <1>3, <1>4

\* A condensation whose key is filed under expired entries only is appended to
\* what is retained.
LEMMA InsertFacts ==
  ASSUME TypeOK, CacheBounded, NEW e \in Entry,
         \A i \in Cached(e.key) : ~Fresh(i)
  PROVE  /\ Insert(e) \in Seq(Entry)
         /\ Len(Insert(e)) <= MaxEntries /\ Len(Insert(e)) \in Nat
         /\ \A i \in 1..Len(Insert(e)) :
              Insert(e)[i] = e \/ \E j \in 1..Len(cache) : Insert(e)[i] = cache[j]
         /\ \A i, j \in 1..Len(Insert(e)) : Insert(e)[i].key = Insert(e)[j].key => i = j
<1>1. Retained \in Seq(Entry) /\ Len(Retained) \in Nat /\ Len(Retained) < MaxEntries
  BY RetainedFacts, LenProperties
<1>2. PICK off \in expired..Len(cache) :
        /\ Len(Retained) = Len(cache) - off
        /\ \A i \in 1..Len(Retained) : Retained[i] = cache[off + i]
  BY RetainedFacts
<1>3. cache \in Seq(Entry) /\ expired \in 0..Len(cache) /\ Len(cache) \in Nat
  BY DEF TypeOK
<1>4. \A i \in 1..Len(Retained) : off + i \in 1..Len(cache) /\ off + i > expired
  BY <1>1, <1>2, <1>3
<1>5. \A i \in 1..Len(Retained) : Retained[i].key # e.key
  BY <1>2, <1>4 DEF Cached, At, Fresh
<1>6. Insert(e) = Append(Retained, e)
  BY <1>5 DEF Insert, Replacing, At
<1>7. /\ Append(Retained, e) \in Seq(Entry)
      /\ Len(Append(Retained, e)) = Len(Retained) + 1
      /\ \A i \in 1..Len(Retained) : Append(Retained, e)[i] = Retained[i]
      /\ Append(Retained, e)[Len(Retained) + 1] = e
  BY <1>1, AppendProperties
<1>8. Len(Insert(e)) <= MaxEntries /\ Len(Insert(e)) \in Nat
  BY <1>1, <1>6, <1>7, MaxEntriesAssumption
<1>9. ASSUME NEW i \in 1..Len(Insert(e))
      PROVE  Insert(e)[i] = e \/ \E j \in 1..Len(cache) : Insert(e)[i] = cache[j]
  BY <1>1, <1>2, <1>4, <1>6, <1>7
<1>10. ASSUME NEW i \in 1..Len(Insert(e)), NEW j \in 1..Len(Insert(e)),
              Insert(e)[i].key = Insert(e)[j].key
       PROVE  i = j
  <2>1. \A m, n \in 1..Len(cache) : cache[m].key = cache[n].key => m = n
    BY DEF CacheBounded
  <2>2. \A n \in 1..Len(Insert(e)) :
          n = Len(Retained) + 1 \/ (n \in 1..Len(Retained) /\ Insert(e)[n] = Retained[n])
    BY <1>1, <1>6, <1>7
  <2>3. Insert(e)[Len(Retained) + 1] = e
    BY <1>6, <1>7
  <2>4. CASE i \in 1..Len(Retained) /\ j \in 1..Len(Retained)
    <3>1. Insert(e)[i] = Retained[i] /\ Insert(e)[j] = Retained[j]
      BY <2>2, <2>4, <1>1
    <3>2. Retained[i] = cache[off + i] /\ Retained[j] = cache[off + j]
      BY <2>4, <1>2
    <3>3. off + i \in 1..Len(cache) /\ off + j \in 1..Len(cache)
      BY <2>4, <1>4
    <3>4. off + i = off + j
      BY <3>1, <3>2, <3>3, <2>1, <1>10
    <3>5. off \in Nat
      BY <1>2, <1>3
    <3>6. i \in Nat /\ j \in Nat
      BY <2>4, <1>1
    <3> QED  BY <3>4, <3>5, <3>6
  <2>5. CASE i = Len(Retained) + 1 /\ j \in 1..Len(Retained)
    BY <2>2, <2>3, <2>5, <1>1, <1>5, <1>10
  <2>6. CASE j = Len(Retained) + 1 /\ i \in 1..Len(Retained)
    BY <2>2, <2>3, <2>6, <1>1, <1>5, <1>10
  <2> QED  BY <2>2, <2>4, <2>5, <2>6
<1> QED  BY <1>6, <1>7, <1>8, <1>9, <1>10

\* Taking one element out of a sequence.
LEMMA RemoveAtTyped ==
  ASSUME NEW S, NEW s \in Seq(S), NEW i \in 1..Len(s)
  PROVE  RemoveAt(s, i) \in Seq(S)
<1>1. SubSeq(s, 1, i - 1) \in Seq(S) /\ SubSeq(s, i + 1, Len(s)) \in Seq(S)
  OBVIOUS
<1> QED  BY <1>1 DEF RemoveAt
-------------------------------------------------------------------------------
(* The lock. *)

Inside(r) == pc[r] \in {"system", "system_call", "history", "history_call"}

\* Nobody calls the model but the holder of the lock.
LEMMA OnlyHolderCalls ==
  ASSUME TypeOK, LockFollowsHolder, NEW r \in Requests, Inside(r)
  PROVE  /\ holder = r /\ Calling \subseteq {r}
         /\ pc[r] \in {"system_call", "history_call"} <=> Calling = {r}
         /\ pc[r] \notin {"system_call", "history_call"} <=> Calling = {}
<1>1. holder = r
  BY DEF LockFollowsHolder, Inside
<1>2. \A q \in Calling : q = r
  BY <1>1 DEF Calling, LockFollowsHolder
<1> QED  BY <1>1, <1>2 DEF Calling

\* A handler that moves from a place where it does not call the model to another
\* such place changes nothing for those who do.
LEMMA QuietMove ==
  ASSUME TypeOK, NEW r \in Requests, NEW v \in PC,
         pc' = [pc EXCEPT ![r] = v],
         pc[r] \notin {"system_call", "history_call"},
         v \notin {"system_call", "history_call"}
  PROVE  Calling' = Calling
BY DEF Calling, TypeOK

\* From one part to the next, or out of the stage: the guard goes with the last.
LEMMA GoOnFacts ==
  ASSUME TypeOK, LockFollowsHolder, NEW r \in Requests, Inside(r), GoOn(r)
  PROVE  /\ pc' \in [Requests -> PC] /\ holder' \in Requests \cup {None}
         /\ LockFollowsHolder'
         /\ Calling' = {}
<1>1. holder = r /\ None \notin Requests /\ pc \in [Requests -> PC]
  BY JobsAssumption DEF LockFollowsHolder, Inside, TypeOK
<1>2. \A q \in Requests : q # r => ~Inside(q)
  BY <1>1 DEF LockFollowsHolder, Inside
<1>3. CASE stageOf(r) = "system"
  <2>1. pc' = [pc EXCEPT ![r] = "history"] /\ holder' = holder
    BY <1>3 DEF GoOn
  <2>2. \A q \in Requests : pc'[q] = IF q = r THEN "history" ELSE pc[q]
    BY <2>1, <1>1
  <2>3. LockFollowsHolder'
    BY <2>1, <2>2, <1>1, <1>2 DEF LockFollowsHolder, Inside
  <2>4. Calling' = {}
    BY <2>2, <1>2 DEF Calling, Inside
  <2> QED  BY <2>1, <2>3, <2>4, <1>1 DEF PC
<1>4. CASE stageOf(r) # "system"
  <2>1. pc' = [pc EXCEPT ![r] = "done"] /\ holder' = None
    BY <1>4 DEF GoOn, Unlock
  <2>2. \A q \in Requests : pc'[q] = IF q = r THEN "done" ELSE pc[q]
    BY <2>1, <1>1
  <2>3. LockFollowsHolder'
    BY <2>1, <2>2, <1>1, <1>2 DEF LockFollowsHolder, Inside
  <2>4. Calling' = {}
    BY <2>2, <1>2 DEF Calling, Inside
  <2> QED  BY <2>1, <2>3, <2>4, <1>1 DEF PC
<1> QED  BY <1>3, <1>4

\* What a step leaves of the invariant when it touches neither the cache nor
\* what was served.
LEMMA SameCache ==
  ASSUME SInv, UNCHANGED <<cache, job>>
  PROVE  CacheBounded' /\ CacheFaithful'
BY DEF SInv, CacheBounded, CacheFaithful

LEMMA SameServed ==
  ASSUME SInv, UNCHANGED <<got, job>>
  PROVE  ServedUnderOwnKey'
BY DEF SInv, ServedUnderOwnKey

\* The statistics when nobody, or the one who did, calls the model.
LEMMA NobodyCalls == Calling = {} => Cardinality(Calling) = 0
BY FS_EmptySet

LEMMA OneCalls == ASSUME NEW r \in Requests, Calling = {r}  PROVE Cardinality(Calling) = 1
BY FS_Singleton
-------------------------------------------------------------------------------
(* The actions.                                                              *)

LEMMA InitSInv == Init => SInv
<1> SUFFICES ASSUME Init  PROVE SInv
  OBVIOUS
<1>1. TypeOK
  BY DEF Init, TypeOK, PC, Counter, Stage
<1>2. LockFollowsHolder
  BY JobsAssumption DEF Init, LockFollowsHolder
<1>3. CacheBounded /\ CacheFaithful
  BY MaxEntriesAssumption DEF Init, CacheBounded, CacheFaithful
<1>4. Calling = {}
  BY DEF Init, Calling
<1>5. ServedUnderOwnKey
  BY DEF Init, ServedUnderOwnKey, Stage
<1>6. StatsAccountForCalls
  BY <1>4, NobodyCalls DEF Init, StatsAccountForCalls, Counter
<1> QED  BY <1>1, <1>2, <1>3, <1>4, <1>5, <1>6 DEF SInv, CallersMissed

\* A step that changes neither the cache, nor the statistics, nor who calls the
\* model, nor what was served.
LEMMA QuietStep ==
  ASSUME SInv, TypeOK', LockFollowsHolder', UNCHANGED <<cache, stats, job, got>>,
         expired' >= expired, Calling' = Calling, \A r \in Calling : pc'[r] = pc[r]
  PROVE  SInv'
<1>1. CacheBounded' /\ CacheFaithful'
  BY SameCache
<1>2. ServedUnderOwnKey'
  BY SameServed
<1>3. StatsAccountForCalls'
  BY DEF SInv, StatsAccountForCalls
<1>4. CallersMissed'
  <2> SUFFICES ASSUME NEW r \in Calling
               PROVE  input(r)' # None /\ \A i \in Cached(key(r))' : ~Fresh(i)'
    BY DEF CallersMissed
  <2>1. stageOf(r)' = stageOf(r) /\ job' = job /\ cache' = cache
    BY DEF stageOf
  <2>2. input(r)' = input(r) /\ key(r)' = key(r)
    BY <2>1 DEF input, key
  <2>3. Cached(key(r))' = Cached(key(r))
    BY <2>1, <2>2 DEF Cached
  <2>4. input(r) # None /\ \A i \in Cached(key(r)) : ~(i > expired)
    BY DEF SInv, CallersMissed, Fresh
  <2>5. \A i \in Cached(key(r)) : i \in Nat
    BY DEF Cached, At
  <2>6. expired \in Nat /\ expired' \in Nat
    BY DEF SInv, TypeOK
  <2> QED  BY <2>2, <2>3, <2>4, <2>5, <2>6 DEF Fresh
<1> QED  BY <1>1, <1>2, <1>3, <1>4 DEF SInv

LEMMA EnqueueSInv ==
  ASSUME SInv, NEW r \in Requests, Enqueue(r)
  PROVE  SInv'
<1> USE DEF Enqueue
<1>1. TypeOK /\ LockFollowsHolder
  BY DEF SInv
<1>2. TypeOK'
  BY <1>1 DEF TypeOK, PC
<1>3. \A q \in Requests : pc'[q] = IF q = r THEN "queued" ELSE pc[q]
  BY <1>1 DEF TypeOK
<1>4. LockFollowsHolder'
  BY <1>1, <1>3 DEF LockFollowsHolder
<1>5. Calling' = Calling
  BY <1>3 DEF Calling
<1>6. \A q \in Calling : pc'[q] = pc[q]
  BY <1>3 DEF Calling
<1>7. expired' >= expired
  BY <1>1 DEF TypeOK
<1> QED  BY <1>2, <1>4, <1>5, <1>6, <1>7, QuietStep

LEMMA AcquireSInv ==
  ASSUME SInv, NEW r \in Requests, Acquire(r)
  PROVE  SInv'
<1> USE DEF Acquire, MutexFree
<1>1. TypeOK /\ LockFollowsHolder /\ None \notin Requests
  BY JobsAssumption DEF SInv
<1>2. queue' \in Seq(Requests)
  BY <1>1, HeadTailProperties DEF TypeOK
<1>3. PICK v \in {"system", "done"} :
        /\ pc' = [pc EXCEPT ![r] = v]
        /\ holder' = IF v = "system" THEN r ELSE holder
  OBVIOUS
<1>4. TypeOK'
  BY <1>1, <1>2, <1>3 DEF TypeOK, PC
<1>5. \A q \in Requests : pc'[q] = IF q = r THEN v ELSE pc[q]
  BY <1>1, <1>3 DEF TypeOK
<1>6. \A q \in Requests : ~Inside(q)
  BY <1>1 DEF LockFollowsHolder, Inside
<1>7. LockFollowsHolder'
  BY <1>1, <1>3, <1>5, <1>6 DEF LockFollowsHolder, Inside
<1>8. Calling' = Calling /\ Calling = {}
  BY <1>5, <1>6 DEF Calling, Inside
<1>9. expired' >= expired
  BY <1>1 DEF TypeOK
<1> QED  BY <1>4, <1>7, <1>8, <1>9, QuietStep

LEMMA SkipSInv ==
  ASSUME SInv, NEW r \in Requests, Skip(r)
  PROVE  SInv'
<1> USE DEF Skip
<1>1. TypeOK /\ LockFollowsHolder
  BY DEF SInv
<1>2. Inside(r) /\ pc[r] \notin {"system_call", "history_call"}
  BY DEF Inside, Stage
<1>3. /\ pc' \in [Requests -> PC] /\ holder' \in Requests \cup {None}
      /\ LockFollowsHolder' /\ Calling' = {} /\ Calling = {}
  BY <1>1, <1>2, GoOnFacts, OnlyHolderCalls
<1>4. TypeOK'
  BY <1>1, <1>3 DEF TypeOK
<1>5. expired' >= expired
  BY <1>1 DEF TypeOK
<1> QED  BY <1>3, <1>4, <1>5, QuietStep

\* A handler leaves the part at hand, or the whole stage, and what it was given,
\* if anything, was made for it.
LEMMA LeavingStep ==
  ASSUME SInv, TypeOK', LockFollowsHolder', Calling' = {},
         CacheBounded', CacheFaithful', ServedUnderOwnKey',
         stats'["call_count"]
           = stats'["system_condensations"] + stats'["history_condensations"],
         stats'["call_count"] <= stats'["cache_misses"]
  PROVE  SInv'
<1>1. Cardinality(Calling)' = 0
  BY FS_EmptySet
<1>2. stats'["call_count"] \in Nat /\ stats'["cache_misses"] \in Nat
  BY DEF TypeOK, Counter
<1>3. StatsAccountForCalls'
  BY <1>1, <1>2 DEF StatsAccountForCalls
<1> QED  BY <1>3 DEF SInv, CallersMissed

\* The counters before such a step.
LEMMA CountersBefore ==
  ASSUME SInv
  PROVE  /\ \A c \in Counter : stats[c] \in Nat
         /\ stats["call_count"]
              = stats["system_condensations"] + stats["history_condensations"]
         /\ stats["call_count"] <= stats["cache_misses"]
         /\ \A r \in Requests : pc[r] \in {"system_call", "history_call"}
              => stats["call_count"] + 1 <= stats["cache_misses"]
<1>1. TypeOK /\ LockFollowsHolder /\ StatsAccountForCalls
  BY DEF SInv
<1>2. \A c \in Counter : stats[c] \in Nat
  BY <1>1 DEF TypeOK
<1>3. stats["call_count"] \in Nat /\ stats["cache_misses"] \in Nat
  BY <1>2 DEF Counter
<1>4. CASE Calling = {}
  <2>1. Cardinality(Calling) = 0
    BY <1>4, NobodyCalls
  <2> QED  BY <2>1, <1>1, <1>2, <1>3, <1>4 DEF StatsAccountForCalls, Calling
<1>5. ASSUME NEW r \in Requests, pc[r] \in {"system_call", "history_call"}
      PROVE  stats["call_count"] + 1 <= stats["cache_misses"]
  <2>1. Calling = {r}
    BY <1>1, <1>5, OnlyHolderCalls DEF Inside
  <2>2. Cardinality(Calling) = 1
    BY <2>1, OneCalls
  <2> QED  BY <2>2, <1>1 DEF StatsAccountForCalls
<1>6. CASE Calling # {}
  <2>1. PICK r \in Requests : pc[r] \in {"system_call", "history_call"}
    BY <1>6 DEF Calling
  <2>2. stats["call_count"] + 1 <= stats["cache_misses"]
    BY <2>1, <1>5
  <2> QED  BY <2>2, <1>1, <1>2, <1>3, <1>5 DEF StatsAccountForCalls
<1> QED  BY <1>4, <1>6

LEMMA CountTyped ==
  ASSUME SInv, NEW S \in SUBSET Counter, Count(S)
  PROVE  /\ stats' \in [Counter -> Nat]
         /\ \A c \in Counter : stats'[c] = IF c \in S THEN stats[c] + 1 ELSE stats[c]
<1>1. \A c \in Counter : stats[c] \in Nat
  BY CountersBefore
<1>2. stats' = [c \in Counter |-> IF c \in S THEN stats[c] + 1 ELSE stats[c]]
  BY DEF Count
<1> QED  BY <1>1, <1>2

\* What is served from the cache was filed under the key of the part at hand.
LEMMA CacheHitSInv ==
  ASSUME SInv, NEW r \in Requests, CacheHit(r)
  PROVE  SInv'
<1> DEFINE st == stageOf(r)
<1>1. TypeOK /\ LockFollowsHolder /\ Inside(r) /\ st \in Stage
      /\ pc[r] \notin {"system_call", "history_call"}
  BY DEF SInv, CacheHit, Inside, Stage, stageOf
<1>2. PICK i \in Cached(key(r)) : got' = [got EXCEPT ![r][st] = cache[i].result]
  BY DEF CacheHit
<1>3. /\ pc' \in [Requests -> PC] /\ holder' \in Requests \cup {None}
      /\ LockFollowsHolder' /\ Calling' = {}
  BY <1>1, GoOnFacts DEF CacheHit
<1>4. cache[i].result \in Condensation /\ i \in 1..Len(cache) /\ cache[i].key = key(r)
  <2>1. i \in 1..Len(cache) /\ cache[i].key = key(r)
    BY DEF Cached, At
  <2>2. cache \in Seq(Entry)
    BY <1>1 DEF TypeOK
  <2>3. cache[i] \in Entry
    BY <2>1, <2>2, ElementOfSeq
  <2> QED  BY <2>1, <2>3 DEF Entry
<1>5. got' \in [Requests -> [Stage -> Condensation \cup {None}]]
  BY <1>1, <1>2, <1>4 DEF TypeOK
<1>6. {"cache_hits"} \in SUBSET Counter
  BY DEF Counter
<1>7. stats' \in [Counter -> Nat] /\ \A c \in Counter \ {"cache_hits"} : stats'[c] = stats[c]
  BY <1>6, CountTyped DEF CacheHit
<1>8. TypeOK'
  BY <1>1, <1>3, <1>5, <1>7 DEF TypeOK, CacheHit
<1>9. CacheBounded' /\ CacheFaithful'
  BY SameCache DEF CacheHit
<1>10. ServedUnderOwnKey'
  <2> DEFINE res == cache[i].result
  <2>1. PICK fs \in Stage : key(r) = cache_key(fs, res.of, res.scope)
    BY <1>4 DEF SInv, CacheFaithful, Stage
  <2>2. key(r) = cache_key(st, input(r), job[r].scope)
    BY DEF key
  <2>3. st \in Stage
    BY <1>1
  <2>4. fs = st /\ res.scope = job[r].scope
    <3> HIDE DEF st, res
    <3>1. cache_key(fs, res.of, res.scope) = cache_key(st, input(r), job[r].scope)
      BY <2>1, <2>2
    <3> QED  BY <2>3, <3>1, KeyTells
  <2>5. input(r) = job[r][st]
    BY DEF input
  <2>6. \A q \in Requests : \A stage \in Stage :
          got'[q][stage] = IF q = r /\ stage = st THEN res ELSE got[q][stage]
    BY <1>1, <1>2 DEF TypeOK
  <2>7. job' = job
    BY DEF CacheHit
  <2> HIDE DEF st, res
  <2> SUFFICES ASSUME NEW q \in Requests, NEW stage \in Stage, got'[q][stage] # None
               PROVE  /\ got'[q][stage].scope = job[q].scope
                      /\ cache_key(stage, got'[q][stage].of, job[q].scope)
                           = cache_key(stage, job[q][stage], job[q].scope)
    BY <2>7 DEF ServedUnderOwnKey
  <2>8. CASE q = r /\ stage = st
    BY <2>1, <2>2, <2>4, <2>5, <2>6, <2>8
  <2>9. CASE ~(q = r /\ stage = st)
    BY <2>6, <2>9 DEF SInv, ServedUnderOwnKey
  <2> QED  BY <2>8, <2>9
<1>11. /\ stats'["call_count"]
            = stats'["system_condensations"] + stats'["history_condensations"]
       /\ stats'["call_count"] <= stats'["cache_misses"]
  BY <1>7, CountersBefore DEF Counter
<1> QED  BY <1>3, <1>8, <1>9, <1>10, <1>11, LeavingStep

\* The handler has found nothing that is good, and the model is called for the
\* key it has just looked up.
LEMMA CacheMissSInv ==
  ASSUME SInv, NEW r \in Requests, CacheMiss(r)
  PROVE  SInv'
<1>1. TypeOK /\ LockFollowsHolder /\ Inside(r) /\ pc[r] \in Stage
      /\ pc[r] \notin {"system_call", "history_call"}
  BY DEF SInv, CacheMiss, Inside, Stage
<1>2. holder = r /\ Calling = {}
  BY <1>1, OnlyHolderCalls
<1>3. \A q \in Requests : pc'[q] = IF q = r THEN callOf(pc[r]) ELSE pc[q]
  BY <1>1 DEF CacheMiss, TypeOK
<1>4. callOf(pc[r]) \in {"system_call", "history_call"}
  BY DEF callOf
<1>5. {"cache_misses"} \in SUBSET Counter
  BY DEF Counter
<1>6. /\ stats' \in [Counter -> Nat]
      /\ \A c \in Counter : stats'[c] = IF c = "cache_misses" THEN stats[c] + 1 ELSE stats[c]
  BY <1>5, CountTyped DEF CacheMiss
<1>7. TypeOK'
  BY <1>1, <1>4, <1>6 DEF TypeOK, CacheMiss, PC
<1>8. LockFollowsHolder'
  BY <1>1, <1>2, <1>3, <1>4 DEF LockFollowsHolder, CacheMiss, Inside
<1>9. Calling' = {r}
  BY <1>2, <1>3, <1>4 DEF Calling
<1>10. stageOf(r)' = stageOf(r)
  BY <1>1, <1>3 DEF stageOf, callOf, Stage
<1>11. input(r)' = input(r) /\ key(r)' = key(r)
  BY <1>10 DEF input, key, CacheMiss
<1>12. CallersMissed'
  <2> SUFFICES input(r)' # None /\ \A i \in Cached(key(r))' : ~Fresh(i)'
    BY <1>9 DEF CallersMissed
  <2>1. Cached(key(r))' = Cached(key(r))
    BY <1>11 DEF Cached, CacheMiss
  <2> QED  BY <2>1, <1>11 DEF CacheMiss, Fresh
<1>13. CacheBounded' /\ CacheFaithful' /\ ServedUnderOwnKey'
  BY SameCache, SameServed DEF CacheMiss
<1>14. StatsAccountForCalls'
  <2>1. Cardinality(Calling)' = 1
    BY <1>9, FS_Singleton
  <2>2. \A m, n \in Nat : m <= n => m + 1 <= n + 1
    OBVIOUS
  <2>3. stats'["call_count"] + 1 <= stats'["cache_misses"]
    BY <2>2, <1>6, CountersBefore DEF Counter
  <2> QED  BY <2>1, <2>3, <1>6, CountersBefore DEF StatsAccountForCalls, Counter
<1> QED  BY <1>7, <1>8, <1>12, <1>13, <1>14 DEF SInv

\* The result of the call is stored under the key that was looked up: the lock
\* was held all along.
LEMMA CallSucceedsSInv ==
  ASSUME SInv, NEW r \in Requests, CallSucceeds(r)
  PROVE  SInv'
<1> DEFINE st == stageOf(r)
           res == [of |-> input(r), scope |-> job[r].scope]
           e == [key |-> key(r), result |-> res]
<1>1. TypeOK /\ LockFollowsHolder /\ Inside(r) /\ st \in Stage /\ r \in Calling
      /\ pc[r] \in {"system_call", "history_call"}
  BY DEF SInv, CallSucceeds, Inside, Stage, stageOf, Calling
<1>2. /\ pc' \in [Requests -> PC] /\ holder' \in Requests \cup {None}
      /\ LockFollowsHolder' /\ Calling' = {}
  BY <1>1, GoOnFacts DEF CallSucceeds
<1>3. input(r) # None /\ \A i \in Cached(key(r)) : ~Fresh(i)
  BY <1>1 DEF SInv, CallersMissed
<1>4. /\ job[r].scope \in Scopes
      /\ st = "system" => input(r) \in Systems
      /\ st = "history" => input(r) \in Histories
  <2>1. job[r] \in [scope : Scopes, system : Systems \cup {None},
                    history : Histories \cup {None}]
    BY <1>1, JobsAssumption DEF TypeOK
  <2>2. input(r) = job[r][st]
    BY DEF input
  <2> QED  BY <2>1, <2>2, <1>3
<1>5. key(r) = cache_key(st, input(r), job[r].scope)
  BY DEF key
<1>6. e \in Entry
  <2>1. key(r) \in Key
    BY <1>1, <1>4, <1>5 DEF Key, Stage
  <2>2. res \in Condensation
    BY <1>1, <1>4 DEF Condensation, Input, Stage
  <2> QED  BY <2>1, <2>2 DEF Entry
<1>7. cache' = Insert(e) /\ got' = [got EXCEPT ![r][st] = res] /\ job' = job
      /\ expired' = 0
  BY DEF CallSucceeds, ExpiredAfterInsert
<1>8. /\ cache' \in Seq(Entry)
      /\ Len(cache') <= MaxEntries /\ Len(cache') \in Nat
      /\ \A i \in 1..Len(cache') :
           cache'[i] = e \/ \E j \in 1..Len(cache) : cache'[i] = cache[j]
      /\ \A i, j \in 1..Len(cache') : cache'[i].key = cache'[j].key => i = j
  <2>1. \A i \in Cached(e.key) : ~Fresh(i)
    BY <1>3
  <2>2. CacheBounded
    BY DEF SInv
  <2> HIDE DEF e
  <2> QED  BY <2>1, <2>2, <1>1, <1>6, <1>7, InsertFacts
<1>9. CacheBounded'
  BY <1>8 DEF CacheBounded
<1>10. CacheFaithful'
  <2> SUFFICES ASSUME NEW i \in 1..Len(cache')
               PROVE  LET of == cache'[i].result.of
                          scope == cache'[i].result.scope
                      IN  \/ of \in Systems /\ cache'[i].key = cache_key("system", of, scope)
                          \/ of \in Histories /\ cache'[i].key = cache_key("history", of, scope)
    BY DEF CacheFaithful
  <2>1. CASE cache'[i] = e
    BY <2>1, <1>1, <1>4, <1>5 DEF Stage
  <2>2. CASE \E j \in 1..Len(cache) : cache'[i] = cache[j]
    BY <2>2 DEF SInv, CacheFaithful
  <2> QED  BY <2>1, <2>2, <1>8
<1>11. got' \in [Requests -> [Stage -> Condensation \cup {None}]]
  <2>1. res \in Condensation
    BY <1>6 DEF Entry
  <2> QED  BY <2>1, <1>1, <1>7 DEF TypeOK
<1>12. Condensed(st) \in SUBSET Counter
  BY DEF Condensed, Counter
<1>13. /\ stats' \in [Counter -> Nat]
       /\ \A c \in Counter :
            stats'[c] = IF c \in Condensed(st) THEN stats[c] + 1 ELSE stats[c]
  BY <1>12, CountTyped DEF CallSucceeds
<1>14. TypeOK'
  BY <1>1, <1>2, <1>7, <1>8, <1>11, <1>13 DEF TypeOK, CallSucceeds
<1>15. ServedUnderOwnKey'
  <2>1. \A q \in Requests : \A stage \in Stage :
          got'[q][stage] = IF q = r /\ stage = st THEN res ELSE got[q][stage]
    BY <1>1, <1>7 DEF TypeOK
  <2> SUFFICES ASSUME NEW q \in Requests, NEW stage \in Stage, got'[q][stage] # None
               PROVE  /\ got'[q][stage].scope = job[q].scope
                      /\ cache_key(stage, got'[q][stage].of, job[q].scope)
                           = cache_key(stage, job[q][stage], job[q].scope)
    BY <1>7 DEF ServedUnderOwnKey
  <2>2. CASE q = r /\ stage = st
    BY <2>1, <2>2 DEF input
  <2>3. CASE ~(q = r /\ stage = st)
    BY <2>1, <2>3 DEF SInv, ServedUnderOwnKey
  <2> QED  BY <2>2, <2>3
<1>16. /\ stats'["call_count"]
            = stats'["system_condensations"] + stats'["history_condensations"]
       /\ stats'["call_count"] <= stats'["cache_misses"]
  <2>1. /\ stats'["call_count"] = stats["call_count"] + 1
        /\ stats'["cache_misses"] = stats["cache_misses"]
        /\ \/ /\ stats'["system_condensations"] = stats["system_condensations"] + 1
              /\ stats'["history_condensations"] = stats["history_condensations"]
           \/ /\ stats'["system_condensations"] = stats["system_condensations"]
              /\ stats'["history_condensations"] = stats["history_condensations"] + 1
    BY <1>13 DEF Condensed, Counter
  <2> QED  BY <2>1, <1>1, CountersBefore DEF Counter
<1> QED  BY <1>2, <1>9, <1>10, <1>14, <1>15, <1>16, LeavingStep

\* A call that fails, or whose handler is dropped, leaves no trace but the miss.
LEMMA CallEndsSInv ==
  ASSUME SInv, NEW r \in Requests, CallFails(r) \/ LeaveCall(r)
  PROVE  SInv'
<1>1. TypeOK /\ LockFollowsHolder /\ Inside(r) /\ holder = r /\ None \notin Requests
  BY OnlyHolderCalls, JobsAssumption DEF SInv, CallFails, LeaveCall, Inside
<1>2. /\ pc' \in [Requests -> PC] /\ holder' \in Requests \cup {None}
      /\ LockFollowsHolder' /\ Calling' = {}
  <2>1. CASE CallFails(r)
    BY <2>1, <1>1, GoOnFacts DEF CallFails
  <2>2. CASE LeaveCall(r)
    <3>1. \A q \in Requests : pc'[q] = IF q = r THEN "dropped" ELSE pc[q]
      BY <2>2, <1>1 DEF LeaveCall, TypeOK
    <3>2. \A q \in Requests : q # r => ~Inside(q)
      BY <1>1 DEF LockFollowsHolder, Inside
    <3>3. holder' = None
      BY <2>2 DEF LeaveCall, Unlock
    <3>4. pc' \in [Requests -> PC]
      BY <2>2, <1>1 DEF LeaveCall, TypeOK, PC
    <3>5. LockFollowsHolder' /\ Calling' = {}
      BY <3>1, <3>2, <3>3, <1>1 DEF LockFollowsHolder, Inside, Calling
    <3> QED  BY <3>3, <3>4, <3>5
  <2> QED  BY <2>1, <2>2
<1>3. UNCHANGED <<available, queue, cache, expired, stats, job, got>>
  BY DEF CallFails, LeaveCall
<1>4. TypeOK'
  BY <1>1, <1>2, <1>3 DEF TypeOK
<1>5. CacheBounded' /\ CacheFaithful' /\ ServedUnderOwnKey'
  BY <1>3, SameCache, SameServed
<1> QED  BY <1>2, <1>3, <1>4, <1>5, CountersBefore, LeavingStep

LEMMA LeaveQueueSInv ==
  ASSUME SInv, NEW r \in Requests, LeaveQueue(r)
  PROVE  SInv'
<1> USE DEF LeaveQueue
<1>1. TypeOK /\ LockFollowsHolder
  BY DEF SInv
<1>2. queue' \in Seq(Requests)
  BY <1>1, RemoveAtTyped DEF TypeOK
<1>3. TypeOK'
  BY <1>1, <1>2 DEF TypeOK, PC
<1>4. \A q \in Requests : pc'[q] = IF q = r THEN "dropped" ELSE pc[q]
  BY <1>1 DEF TypeOK
<1>5. LockFollowsHolder'
  BY <1>1, <1>4 DEF LockFollowsHolder
<1>6. Calling' = Calling /\ \A q \in Calling : pc'[q] = pc[q]
  BY <1>4 DEF Calling
<1>7. expired' >= expired
  BY <1>1 DEF TypeOK
<1> QED  BY <1>3, <1>5, <1>6, <1>7, QuietStep

LEMMA ExpireSInv ==
  ASSUME SInv, Expire
  PROVE  SInv'
<1> USE DEF Expire
<1>1. TypeOK /\ LockFollowsHolder /\ Len(cache) \in Nat
  BY DEF SInv, TypeOK
<1>2. expired' \in 0..Len(cache) /\ expired' >= expired
  BY <1>1 DEF TypeOK
<1>3. TypeOK'
  BY <1>1, <1>2 DEF TypeOK
<1>4. LockFollowsHolder' /\ Calling' = Calling
  BY <1>1 DEF LockFollowsHolder, Calling
<1> QED  BY <1>2, <1>3, <1>4, QuietStep

LEMMA StutterSInv ==
  ASSUME SInv, UNCHANGED vars
  PROVE  SInv'
<1> USE DEF vars
<1>1. TypeOK' /\ LockFollowsHolder' /\ Calling' = Calling
  BY DEF SInv, TypeOK, LockFollowsHolder, Calling
<1>2. expired' >= expired
  BY DEF SInv, TypeOK
<1> QED  BY <1>1, <1>2, QuietStep

LEMMA NextSInv == SInv /\ [Next]_vars => SInv'
<1> SUFFICES ASSUME SInv, [Next]_vars  PROVE SInv'
  OBVIOUS
<1>1. CASE Expire
  BY <1>1, ExpireSInv
<1>2. ASSUME NEW r \in Requests, Enqueue(r) \/ Proceed(r) \/ Disconnect(r)
      PROVE  SInv'
  <2>1. CASE Enqueue(r)
    BY <2>1, EnqueueSInv
  <2>2. CASE Acquire(r)
    BY <2>2, AcquireSInv
  <2>3. CASE Skip(r)
    BY <2>3, SkipSInv
  <2>4. CASE CacheHit(r)
    BY <2>4, CacheHitSInv
  <2>5. CASE CacheMiss(r)
    BY <2>5, CacheMissSInv
  <2>6. CASE CallSucceeds(r)
    BY <2>6, CallSucceedsSInv
  <2>7. CASE CallFails(r) \/ LeaveCall(r)
    BY <2>7, CallEndsSInv
  <2>8. CASE LeaveQueue(r)
    BY <2>8, LeaveQueueSInv
  <2> QED  BY <1>2, <2>1, <2>2, <2>3, <2>4, <2>5, <2>6, <2>7, <2>8 DEF Proceed, Disconnect
<1>3. CASE UNCHANGED vars
  BY <1>3, StutterSInv
<1> QED  BY <1>1, <1>2, <1>3 DEF Next
-------------------------------------------------------------------------------
(* The theorems.                                                             *)

\* The inductive invariant holds whatever the handlers, the clients, the model
\* and the clock do.
THEOREM StageInvariance == Spec => []SInv
BY InitSInv, NextSInv, PTL DEF Spec

\* The queue, the lock, the cache and its counters keep their types.
THEOREM StageTypeCorrect == Spec => []TypeOK
<1>1. SInv => TypeOK
  BY DEF SInv
<1> QED  BY <1>1, StageInvariance, PTL

\* The guard is held exactly by the handler inside the stage, for any number of
\* handlers that fail, time out or are dropped: the lock is never lost.
THEOREM LockNeverLost == Spec => []LockFollowsHolder
<1>1. SInv => LockFollowsHolder
  BY DEF SInv
<1> QED  BY <1>1, StageInvariance, PTL

\* No workspace or user is served a condensation made for another one, and none
\* is served for a part it was not made from, up to what the key shows of it.
THEOREM ScopesIsolated == Spec => []ServedUnderOwnKey
<1>1. SInv => ServedUnderOwnKey
  BY DEF SInv
<1> QED  BY <1>1, StageInvariance, PTL

\* The cache of condensations stays within CACHE_MAX_ENTRIES, one entry a key.
THEOREM CacheAlwaysBounded == Spec => []CacheBounded
<1>1. SInv => CacheBounded
  BY DEF SInv
<1> QED  BY <1>1, StageInvariance, PTL

\* Every counted call is the condensation of a part whose miss was counted.
THEOREM StatsAlwaysAccount == Spec => []StatsAccountForCalls
<1>1. SInv => StatsAccountForCalls
  BY DEF SInv
<1> QED  BY <1>1, StageInvariance, PTL

\* No call of the model returns a condensation the cache still has.
THEOREM NeverPaidTwice == Spec => NeverCondensedTwice
<1>1. SInv => \A r \in Requests : CallSucceeds(r) => \A i \in Cached(key(r)) : ~Fresh(i)
  BY DEF SInv, CallersMissed, CallSucceeds, Calling
<1> QED  BY <1>1, StageInvariance, PTL DEF NeverCondensedTwice
================================================================================
