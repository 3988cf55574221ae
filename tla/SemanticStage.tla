----------------------------- MODULE SemanticStage -----------------------------
(***************************************************************************)
(* The semantic stage of run_pipeline (src/server.rs:300-422) with the     *)
(* engine it drives (src/semantic.rs).                                     *)
(*                                                                         *)
(* All handlers share one SemanticEngine behind a tokio mutex, held from   *)
(* the lock() to the end of the stage, across up to two calls of the       *)
(* model.  The engine keeps a process-wide cache of condensations: at most *)
(* MaxEntries of them, each good for CACHE_TTL_SECS.  A handler that waits *)
(* for the mutex or for the model is dropped when its client disconnects.  *)
(*                                                                         *)
(* Texts are abstract: Spelling stands for a text, Norm for the text in    *)
(* lower case with its white space collapsed.  A history is a sequence of  *)
(* messages whose content is either one string or an array of blocks (tool *)
(* calls, tool results).                                                   *)
(***************************************************************************)
EXTENDS Integers, SequencesExt, FiniteSets

CONSTANTS
  Requests,    \* the handlers inside run_pipeline
  Scopes,      \* the (workspace id, user id) pairs of the request headers
  Systems,     \* system prompts at or above semantic_system_threshold
  Histories,   \* what is condensed of histories above the threshold
  Norm,        \* Norm[w]: the spelling w as the cache keys see it
  Jobs,        \* the [scope, system, history] a handler may come with
  MaxEntries,  \* CACHE_MAX_ENTRIES, 64 in the code
  None

Input == Systems \cup Histories
Stage == {"system", "history"}

ASSUME MaxEntriesAssumption == MaxEntries \in Nat \ {0}
ASSUME JobsAssumption ==
  /\ Jobs \subseteq [scope : Scopes, system : Systems \cup {None},
                     history : Histories \cup {None}]
  /\ None \notin Input /\ None \notin Requests

VARIABLES
  available,  \* SemanticEngine.available, set by the health check at startup
  holder,     \* the handler that holds AppState.semantic, or None
  queue,      \* the handlers waiting for it, first come first served
  cache,      \* the condensations, oldest first
  expired,    \* how many of them, from the oldest on, are past their TTL
  stats,      \* SemanticStats
  job,        \* job[r]: what handler r brings to the stage
  pc,         \* pc[r]: where handler r is
  got         \* got[r]: the condensation that replaced each part, or None

vars == <<available, holder, queue, cache, expired, stats, job, pc, got>>

Condensation == [of : Input, scope : Scopes]
PC == {"arriving", "queued", "system", "system_call", "history", "history_call",
       "done", "dropped"}
Counter == {"cache_hits", "cache_misses", "system_condensations",
            "history_condensations", "call_count"}
-------------------------------------------------------------------------------
(* The two parts of the stage, in the order they run. *)

stageOf(r) == IF pc[r] \in {"system", "system_call"} THEN "system" ELSE "history"
callOf(stage) == IF stage = "system" THEN "system_call" ELSE "history_call"
input(r) == job[r][stageOf(r)]

\* cache_key: what a history shows of itself is the string contents; a content
\* that is an array of blocks adds nothing.
strings(h) ==
  LET texts == SelectSeq(h, LAMBDA m : m.kind = "string")
  IN  [i \in 1..Len(texts) |-> Norm[texts[i].words]]

key_without_scope(stage, x, scope) ==
  IF stage = "system" THEN <<"sys", Norm[x]>> ELSE <<"hist", strings(x)>>
cache_key(stage, x, scope) ==
  IF stage = "system" THEN <<"sys", Norm[x], scope>>
                      ELSE <<"hist", strings(x), scope>>

key(r) == cache_key(stageOf(r), input(r), job[r].scope)

Count(counters) ==
  stats' = [c \in Counter |-> IF c \in counters THEN stats[c] + 1 ELSE stats[c]]
CondensedOncePerStage(stage) ==
  IF stage = "system" THEN {"call_count", "system_condensations"}
                      ELSE {"history_condensations"}
Condensed(stage) ==
  {"call_count", IF stage = "system" THEN "system_condensations"
                                     ELSE "history_condensations"}

\* cache.get(&cache_key): the map holds one entry per key.
At(s, k) == {i \in 1..Len(s) : s[i].key = k}
Cached(k) == At(cache, k)
Fresh(i) == i > expired
-------------------------------------------------------------------------------
(* The mutex: tokio hands it to the handlers in the order they asked. *)

\* The guard is dropped at the end of the stage, whatever its parts returned.
KeepLocked(r) == UNCHANGED holder
Unlock(r) == holder' = None

Enqueue(r) ==
  /\ pc[r] = "arriving"
  /\ pc' = [pc EXCEPT ![r] = "queued"]
  /\ queue' = Append(queue, r)
  /\ UNCHANGED <<available, holder, cache, expired, stats, job, got>>

\* is_available() is read once the lock is held; it is never checked again
\* after startup.
MutexFreeOrNot == TRUE
MutexFree == holder = None

Acquire(r) ==
  /\ queue # <<>> /\ Head(queue) = r /\ MutexFree
  /\ queue' = Tail(queue)
  /\ IF available
     THEN holder' = r /\ pc' = [pc EXCEPT ![r] = "system"]
     ELSE UNCHANGED holder /\ pc' = [pc EXCEPT ![r] = "done"]
  /\ UNCHANGED <<available, cache, expired, stats, job, got>>

\* From the system part to the history part, from there to the rest of
\* run_pipeline, which drops the guard.
GoOn(r) ==
  IF stageOf(r) = "system"
  THEN pc' = [pc EXCEPT ![r] = "history"] /\ UNCHANGED holder
  ELSE pc' = [pc EXCEPT ![r] = "done"] /\ Unlock(r)
-------------------------------------------------------------------------------
(* condense_system and condense_history. *)

\* The part is absent or below its threshold.
Skip(r) ==
  /\ pc[r] \in Stage /\ input(r) = None
  /\ GoOn(r)
  /\ UNCHANGED <<available, queue, cache, expired, stats, job, got>>

CacheHit(r) ==
  /\ pc[r] \in Stage /\ input(r) # None
  /\ \E i \in Cached(key(r)) :
       /\ Fresh(i)
       /\ got' = [got EXCEPT ![r][stageOf(r)] = cache[i].result]
  /\ Count({"cache_hits"})
  /\ GoOn(r)
  /\ UNCHANGED <<available, queue, cache, expired, job>>

CacheMiss(r) ==
  /\ pc[r] \in Stage /\ input(r) # None
  /\ \A i \in Cached(key(r)) : ~Fresh(i)
  /\ pc' = [pc EXCEPT ![r] = callOf(@)]
  /\ Count({"cache_misses"})
  /\ UNCHANGED <<available, holder, queue, cache, expired, job, got>>

\* update_cache: drop what is past its TTL, then the oldest entry if the map is
\* still full, then insert, which replaces an entry of the same key.
Live == SubSeq(cache, expired + 1, Len(cache))
Retained == IF Len(Live) >= MaxEntries THEN Tail(Live) ELSE Live
Replacing(s, e) ==
  Append(IF At(s, e.key) = {} THEN s ELSE RemoveAt(s, CHOOSE i \in At(s, e.key) : TRUE), e)

InsertUnbounded(e) == Replacing(Live, e)
Insert(e) == Replacing(Retained, e)

\* retain has left nothing that is past its TTL.
NothingRetained == expired
ExpiredAfterInsert == 0

CallSucceeds(r) ==
  /\ pc[r] \in {"system_call", "history_call"}
  /\ LET result == [of |-> input(r), scope |-> job[r].scope]
     IN  /\ got' = [got EXCEPT ![r][stageOf(r)] = result]
         /\ cache' = Insert([key |-> key(r), result |-> result])
  /\ expired' = ExpiredAfterInsert
  /\ Count(Condensed(stageOf(r)))
  /\ GoOn(r)
  /\ UNCHANGED <<available, queue, job>>

\* Timeout, HTTP error, error status, unusable or empty answer, or an answer not
\* shorter than the input (OutputLonger): the error is logged and the part stays
\* as it was.  The client's own timeout covers the body of the answer, so a call
\* does end.
CallFails(r) ==
  /\ pc[r] \in {"system_call", "history_call"}
  /\ GoOn(r)
  /\ UNCHANGED <<available, queue, cache, expired, stats, job, got>>

\* The client leaves: the future of the handler is dropped at an await, and with
\* it its place in the queue or the guard.
LeaveQueue(r) ==
  /\ pc[r] = "queued"
  /\ pc' = [pc EXCEPT ![r] = "dropped"]
  /\ \E i \in 1..Len(queue) : queue[i] = r /\ queue' = RemoveAt(queue, i)
  /\ UNCHANGED <<available, holder, cache, expired, stats, job, got>>

LeaveCall(r) ==
  /\ pc[r] \in {"system_call", "history_call"}
  /\ pc' = [pc EXCEPT ![r] = "dropped"]
  /\ Unlock(r)
  /\ UNCHANGED <<available, queue, cache, expired, stats, job, got>>

Disconnect(r) == LeaveQueue(r) \/ LeaveCall(r)

\* CACHE_TTL_SECS pass for the oldest entry that was still good.
Expire ==
  /\ expired < Len(cache)
  /\ expired' = expired + 1
  /\ UNCHANGED <<available, holder, queue, cache, stats, job, pc, got>>
-------------------------------------------------------------------------------
Init ==
  /\ available \in BOOLEAN
  /\ holder = None /\ queue = <<>>
  /\ cache = <<>> /\ expired = 0
  /\ stats = [c \in Counter |-> 0]
  /\ job \in [Requests -> Jobs]
  /\ pc = [r \in Requests |-> "arriving"]
  /\ got = [r \in Requests |-> [system |-> None, history |-> None]]

\* What a handler does by itself once it has asked for the mutex.
Proceed(r) ==
  Acquire(r) \/ Skip(r) \/ CacheHit(r) \/ CacheMiss(r) \/ CallSucceeds(r) \/ CallFails(r)

Next == Expire \/ \E r \in Requests : Enqueue(r) \/ Proceed(r) \/ Disconnect(r)

\* The runtime polls a ready handler again, and a call of the model ends by its
\* timeout at the latest.  Requests need not arrive, clients need not leave.
Fairness == \A r \in Requests : WF_vars(Proceed(r))

Spec == Init /\ [][Next]_vars /\ Fairness
-------------------------------------------------------------------------------
Key == {cache_key("system", x, s) : x \in Systems, s \in Scopes}
       \cup {cache_key("history", x, s) : x \in Histories, s \in Scopes}
Entry == [key : Key, result : Condensation]

TypeOK ==
  /\ available \in BOOLEAN
  /\ holder \in Requests \cup {None}
  /\ queue \in Seq(Requests)
  /\ cache \in Seq(Entry) /\ expired \in 0..Len(cache)
  /\ stats \in [Counter -> Nat]
  /\ job \in [Requests -> Jobs]
  /\ pc \in [Requests -> PC]
  /\ got \in [Requests -> [Stage -> Condensation \cup {None}]]

\* "Two users (or two workspaces) can no longer share each other's
\* semantic-stage condensations" (CHANGELOG, 3.2.6), and a condensation goes
\* only to a part of the kind and with the strings it was made from.
ServedUnderOwnKey ==
  \A r \in Requests : \A stage \in Stage :
    got[r][stage] # None =>
      /\ got[r][stage].scope = job[r].scope
      /\ cache_key(stage, got[r][stage].of, job[r].scope)
           = cache_key(stage, job[r][stage], job[r].scope)

\* The map never holds more than CACHE_MAX_ENTRIES, nor two entries of a key.
CacheBounded ==
  /\ Len(cache) <= MaxEntries
  /\ \A i, j \in 1..Len(cache) : cache[i].key = cache[j].key => i = j

\* A condensation that is still good is never paid for again: because the lock
\* is held from the lookup to the store, no two handlers call the model for the
\* same key at the same time.
NeverCondensedTwice ==
  [][\A r \in Requests : CallSucceeds(r) =>
       \A i \in Cached(key(r)) : ~Fresh(i)]_vars

\* Each condensation was preceded by a miss of its own.
Calling == {r \in Requests : pc[r] \in {"system_call", "history_call"}}
StatsAccountForCalls ==
  /\ stats["call_count"]
       = stats["system_condensations"] + stats["history_condensations"]
  /\ stats["call_count"] + Cardinality(Calling) <= stats["cache_misses"]

\* The lock is held exactly while its holder is inside the stage: neither an
\* error nor a disconnect in the middle of a call leaves it taken.
LockFollowsHolder ==
  \A r \in Requests :
    holder = r <=> pc[r] \in {"system", "system_call", "history", "history_call"}

\* The inductive invariant: beside the above, an entry is filed under the key of
\* what it condenses, and who calls the model has found nothing that is good.
CacheFaithful ==
  \A i \in 1..Len(cache) :
    LET of == cache[i].result.of
        scope == cache[i].result.scope
    IN  \/ of \in Systems /\ cache[i].key = cache_key("system", of, scope)
        \/ of \in Histories /\ cache[i].key = cache_key("history", of, scope)

CallersMissed ==
  \A r \in Calling : input(r) # None /\ \A i \in Cached(key(r)) : ~Fresh(i)

SInv ==
  /\ TypeOK /\ LockFollowsHolder
  /\ CacheBounded /\ CacheFaithful /\ CallersMissed
  /\ ServedUnderOwnKey /\ StatsAccountForCalls

\* A handler that waits for the stage leaves it, whatever happens to the model
\* and to the handlers before it.
EveryWaitEnds ==
  \A r \in Requests : pc[r] = "queued" ~> pc[r] \in {"done", "dropped"}

\* Finding.

\* A summary stands for the messages it replaces: up to case and white space it
\* was made from the same messages.
Seen(h) == [i \in 1..Len(h) |-> [kind |-> h[i].kind, words |-> Norm[h[i].words]]]
SummaryCoversHistory ==
  \A r \in Requests :
    got[r].history # None => Seen(got[r].history.of) = Seen(job[r].history)
================================================================================
