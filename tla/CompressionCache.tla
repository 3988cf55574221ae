--------------------------- MODULE CompressionCache ---------------------------
(***************************************************************************)
(* The per-message compression cache (src/compression/cache.rs) together   *)
(* with the engine that reads and fills it (compress_text and              *)
(* compress_response_text of src/compression/engine.rs).                   *)
(*                                                                         *)
(* Every request handler owns one engine; all of them share GLOBAL_CACHE.  *)
(* A lookup and a store each run under the cache's mutex and are one step; *)
(* the rule pipeline runs between them with the mutex free, so that two    *)
(* handlers can miss on one key and both store it.                         *)
(*                                                                         *)
(* A text is a model value.  A setting stands for a (profile, level) pair  *)
(* with level > 0: compress_request builds no engine at level 0.  A call   *)
(* is the triple that determines what the pipeline returns.                *)
(***************************************************************************)
EXTENDS Integers, Sequences, FiniteSets, Functions

CONSTANTS
  Requests,     \* the handlers that compress a request
  Texts,        \* the texts found in message contents
  Settings,     \* the (profile, level) pairs a request is compressed under
  WorkLists,    \* the sequences of pieces a request may hand to the engine
  Capacity,     \* NYQUEST_CACHE_CAPACITY
  RuleHits,     \* RuleHits[c]: rule hits of the pipeline on the call c
  Growing,      \* the calls on which the pipeline returns a longer text
  Uncacheable,  \* texts that are empty or above NYQUEST_CACHE_MAX_ENTRY_SIZE
  MaxUsize      \* the largest usize

Mode == {"request", "response"}
Piece == [text : Texts, mode : Mode]
Call == Texts \X Mode \X Settings
Key == Call

ASSUME CapacityAssumption == Capacity \in Nat \ {0}
ASSUME WorkAssumption == WorkLists \subseteq Seq(Piece)
ASSUME RuleHitsAssumption == RuleHits \in [Call -> Nat]
ASSUME UsizeAssumption == MaxUsize \in Nat

VARIABLES
  order,      \* the linked list of LruCache: keys, most recently used first
  entry,      \* the map of LruCache: key -> [compressed, hits]
  hits, misses, stores, evictions,   \* the atomic counters
  work,       \* work[r]: the pieces request r compresses, in order
  setting,    \* setting[r]: profile and level of the engine of request r
  output,     \* output[r]: the texts the engine has returned so far
  pc,         \* pc[r]: where the engine is with the piece at hand
  total,      \* total[r]: stats.total_rule_hits
  counted,    \* counted[r]: the sum of the category counters of stats
  lastTouch,  \* history variable: when each cached key was last used
  wrapped     \* history variable: some total_rule_hits has overflowed

cacheVars == <<order, entry, hits, misses, stores, evictions, lastTouch>>
requestVars == <<work, setting>>
vars == <<order, entry, hits, misses, stores, evictions, lastTouch,
          work, setting, output, pc, total, counted, wrapped>>

Original(text) == <<"original", text>>
Compressed(c) == <<"compressed", c>>
Text == {Original(t) : t \in Texts} \cup {Compressed(c) : c \in Call}
Entry == [compressed : Text, hits : Nat]
-------------------------------------------------------------------------------
(* The piece at hand. *)

HasWork(r) == Len(output[r]) < Len(work[r])
piece(r) == work[r][Len(output[r]) + 1]
call(r) == <<piece(r).text, piece(r).mode, setting[r]>>

\* The digest of content, mode byte, profile name and level.  No profile name
\* has a mode byte followed by another profile name as its end, so the
\* concatenation is unambiguous; the digest is taken to have no collision.
make_key_without_setting(text, mode, s) == <<text, mode>>
make_key_without_mode(text, mode, s) == <<text, "request", s>>
make_key(text, mode, s) == <<text, mode, s>>

key(r) == make_key(piece(r).text, piece(r).mode, setting[r])

is_cacheable(text) == text \notin Uncacheable

Deliver(r, text) == output' = [output EXCEPT ![r] = Append(@, text)]
Goto(r, from, to) == pc[r] = from /\ pc' = [pc EXCEPT ![r] = to]
-------------------------------------------------------------------------------
(* The LRU list. *)

Without(s, k) ==
  LET i == CHOOSE j \in 1..Len(s) : s[j] = k
  IN  SubSeq(s, 1, i - 1) \o SubSeq(s, i + 1, Len(s))

\* LruCache::get moves the entry to the head of the list.
PromoteNothing(s, k) == s
Promote(s, k) == <<k>> \o Without(s, k)

\* What LruCache::push keeps beside the key it puts at the head.
KeepAll(k) == IF k \in DOMAIN entry THEN Without(order, k) ELSE order
Kept(k) ==
  IF k \in DOMAIN entry THEN Without(order, k)
  ELSE IF Len(order) = Capacity THEN SubSeq(order, 1, Len(order) - 1)
  ELSE order

\* push returns the displaced pair; only another key's pair is an eviction.
EvictionsOrOverwrites(k) == IF Len(Kept(k)) < Len(order) THEN 1 ELSE 0
Evictions(k) ==
  IF k \notin DOMAIN entry /\ Len(order) = Capacity THEN 1 ELSE 0

\* The hit count a lookup returns with the text.
NoHits(k) == 0
CachedHits(k) == entry[k].hits

\* stats.total_rule_hits += n, in the wrapping arithmetic of a release build.
AddHits(r, n) ==
  /\ total' = [total EXCEPT ![r] = (@ + n) % (MaxUsize + 1)]
  /\ wrapped' = (wrapped \/ total[r] + n > MaxUsize)

\* result.len() > text.len()
NeverLonger(c) == FALSE
Longer(c) == c \in Growing

Touch(k) ==
  lastTouch' = [x \in DOMAIN entry' |-> IF x = k THEN hits' + stores'
                                                 ELSE lastTouch[x]]
-------------------------------------------------------------------------------
Init ==
  /\ order = <<>>
  /\ entry = [k \in {} |-> [compressed |-> {}, hits |-> 0]]
  /\ hits = 0 /\ misses = 0 /\ stores = 0 /\ evictions = 0
  /\ lastTouch = [k \in {} |-> 0]
  /\ work \in [Requests -> WorkLists]
  /\ setting \in [Requests -> Settings]
  /\ output = [r \in Requests |-> <<>>]
  /\ pc = [r \in Requests |-> "lookup"]
  /\ total = [r \in Requests |-> 0]
  /\ counted = [r \in Requests |-> 0]
  /\ wrapped = FALSE

\* CompressionCache::get finds the key: the engine takes the stored text and
\* adds the stored hit count to the total, and to no category.
CacheHit(r) ==
  /\ pc[r] = "lookup" /\ HasWork(r) /\ is_cacheable(piece(r).text)
  /\ key(r) \in DOMAIN entry
  /\ hits' = hits + 1
  /\ order' = Promote(order, key(r))
  /\ AddHits(r, CachedHits(key(r)))
  /\ Deliver(r, entry[key(r)].compressed)
  /\ UNCHANGED <<entry, misses, stores, evictions, work, setting, pc, counted>>
  /\ Touch(key(r))

\* CompressionCache::get does not find the key.
CacheMiss(r) ==
  /\ Goto(r, "lookup", "pipeline") /\ HasWork(r) /\ is_cacheable(piece(r).text)
  /\ key(r) \notin DOMAIN entry
  /\ misses' = misses + 1
  /\ UNCHANGED <<order, entry, hits, stores, evictions, lastTouch,
                 work, setting, output, total, counted, wrapped>>

\* CompressionCache::get on a text that is not cacheable counts nothing.
LookupBypass(r) ==
  /\ Goto(r, "lookup", "pipeline") /\ HasWork(r) /\ ~is_cacheable(piece(r).text)
  /\ UNCHANGED <<cacheVars, requestVars, output, total, counted, wrapped>>

\* The rule pipeline counts its hits per category and in the total, and goes
\* on to the store unless its result is longer than the text.
PipelineShrinks(r) ==
  /\ Goto(r, "pipeline", "store")
  /\ ~Longer(call(r))
  /\ AddHits(r, RuleHits[call(r)])
  /\ counted' = [counted EXCEPT ![r] = @ + RuleHits[call(r)]]
  /\ UNCHANGED <<cacheVars, requestVars, output>>

\* Fail-closed: a longer result is thrown away, the text itself is returned and
\* nothing is stored; the hits stay counted.
PipelineGrows(r) ==
  /\ Goto(r, "pipeline", "lookup")
  /\ Longer(call(r))
  /\ AddHits(r, RuleHits[call(r)])
  /\ counted' = [counted EXCEPT ![r] = @ + RuleHits[call(r)]]
  /\ Deliver(r, Original(piece(r).text))
  /\ UNCHANGED <<cacheVars, requestVars>>

\* CompressionCache::put.  The hit count handed over is the running total of
\* the request, stats.total_rule_hits (engine.rs:341 and 412).
Store(r) ==
  /\ Goto(r, "store", "lookup") /\ is_cacheable(piece(r).text)
  /\ LET k == key(r)
         new == [compressed |-> Compressed(call(r)), hits |-> total[r]] IN
     /\ order' = <<k>> \o Kept(k)
     /\ entry' = [x \in Range(order') |-> IF x = k THEN new ELSE entry[x]]
     /\ stores' = stores + 1
     /\ evictions' = evictions + Evictions(k)
     /\ UNCHANGED hits
     /\ Touch(k)
  /\ Deliver(r, Compressed(call(r)))
  /\ UNCHANGED <<misses, requestVars, total, counted, wrapped>>

\* CompressionCache::put on a text that is not cacheable does nothing.
StoreBypass(r) ==
  /\ Goto(r, "store", "lookup") /\ ~is_cacheable(piece(r).text)
  /\ Deliver(r, Compressed(call(r)))
  /\ UNCHANGED <<cacheVars, requestVars, total, counted, wrapped>>

Step(r) ==
  \/ CacheHit(r) \/ CacheMiss(r) \/ LookupBypass(r)
  \/ PipelineShrinks(r) \/ PipelineGrows(r)
  \/ Store(r) \/ StoreBypass(r)

Next == \E r \in Requests : Step(r)

Spec == Init /\ [][Next]_vars
-------------------------------------------------------------------------------
TypeOK ==
  /\ order \in Seq(Key)
  /\ DOMAIN entry \subseteq Key /\ entry \in [DOMAIN entry -> Entry]
  /\ hits \in Nat /\ misses \in Nat /\ stores \in Nat /\ evictions \in Nat
  /\ lastTouch \in [DOMAIN entry -> Nat]
  /\ work \in [Requests -> Seq(Piece)]
  /\ setting \in [Requests -> Settings]
  /\ output \in [Requests -> Seq(Text)]
  /\ pc \in [Requests -> {"lookup", "pipeline", "store"}]
  /\ total \in [Requests -> 0..MaxUsize] /\ counted \in [Requests -> Nat]
  /\ wrapped \in BOOLEAN

\* The list and the map of the LRU cache agree after any interleaving of
\* lookups and stores, no key is listed twice, and the capacity holds.
LruConsistent ==
  /\ IsInjective(order)
  /\ Range(order) = DOMAIN entry
  /\ Len(order) <= Capacity

\* An entry is what the pipeline returns for the call its key stands for, and
\* is the entry of a call whose result the fail-closed test let through.
EntryFaithful ==
  \A k \in DOMAIN entry :
    /\ entry[k].compressed = Compressed(k)
    /\ k \notin Growing
    /\ is_cacheable(k[1])

\* The counters of /analytics account for the cache: every store was preceded
\* by a counted miss of the same handler, and what was stored is either still
\* there, or was evicted, or replaced by a second store of its key.
CountersAccountForCache ==
  /\ Len(order) + evictions <= stores
  /\ stores + Cardinality({r \in Requests : pc[r] # "lookup"
                                            /\ is_cacheable(piece(r).text)}) <= misses
  /\ evictions > 0 => Len(order) = Capacity

\* Whatever eviction removes has been out of use for longer than all it keeps.
EvictsLeastRecentlyUsed ==
  [][\A gone \in DOMAIN entry \ DOMAIN entry' :
       \A kept \in DOMAIN entry' : lastTouch[gone] < lastTouch'[kept]]_vars

\* The hits of the pieces request r has got back, each one counted once.
Worth(r) ==
  LET worth[n \in 0..Len(output[r])] ==
        IF n = 0 THEN 0
        ELSE worth[n - 1]
             + RuleHits[<<work[r][n].text, work[r][n].mode, setting[r]>>]
  IN  worth[Len(output[r])]

\* However hits and misses interleave between requests, no request reports
\* fewer rule hits than its own texts are worth, and its total never falls
\* behind its own category counters, until a total overflows.  An overflow is
\* not far away: a text that is compressed for the first time is stored with the
\* hits of all the texts before it, the hits stored with those included, so the
\* stored counts of a conversation double from message to message.
StatsNeverUndercount ==
  \/ wrapped
  \/ \A r \in Requests : total[r] >= Worth(r) /\ total[r] >= counted[r]

\* "This cache stores (compressed_text, hits) keyed by hash(content) + level +
\* profile + mode" (cache.rs:4): the hits stored with a text are the text's.
EntryHitsAreTheTexts == \A k \in DOMAIN entry : entry[k].hits = RuleHits[k]

\* The inductive invariant: beside the above, an engine that left the lookup has
\* a piece at hand, what it is about to store passed the fail-closed test, and
\* the list is sorted by last use.
EngineAtWork ==
  \A r \in Requests :
    /\ pc[r] # "lookup" => HasWork(r)
    /\ pc[r] = "store" => call(r) \notin Growing

SortedByLastUse(s) ==
  \A i, j \in 1..Len(s) : i < j => lastTouch[s[i]] > lastTouch[s[j]]

RecencyOrder ==
  /\ SortedByLastUse(order)
  /\ \A k \in DOMAIN entry : lastTouch[k] <= hits + stores

IInv == TypeOK /\ LruConsistent /\ EntryFaithful /\ EngineAtWork /\ RecencyOrder

\* The cache is transparent: what the handlers get back is what an engine
\* without any cache would have computed.
Pure ==
  INSTANCE CompressionSpec WITH work <- work, setting <- setting, output <- output
Transparent == Pure!Spec
===============================================================================
