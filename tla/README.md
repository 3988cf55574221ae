# Nyquest: a TLA+ model of the compression proxy

Nyquest is an HTTP proxy between LLM clients and providers. It shortens the
requests that pass through it, forwards them and records what it saved. The
proxy holds little state of its own, but what it holds is shared by every
handler: a cache of compressed texts, a semantic engine behind a mutex with a
cache of summaries, a set of counters and a log. Around it, the client resends
its whole conversation on every request, and several stages cut and rewrite that
conversation independently of each other. Beside it, commands write the
configuration, a vault holds keys, and a browser extension keeps totals of its
own. These are the parts modelled here.

Paths are relative to the repository; line numbers are in `PROJECT.json`.

## 1. Inventory

| component | state | operations | interacts with | hard part | correct when |
|---|---|---|---|---|---|
| compression cache, `compression/cache.rs` | LRU list and map, four counters, process-wide | `get`, `put`, `snapshot` | engines of all handlers | lookup and store are separate critical sections; eviction; keys | nobody can tell there is a cache; LRU order; counters add up |
| compression engine, `compression/engine.rs` | statistics of one request | `compress_text`, `compress_response_text`, `compress_request` | cache, rules, profiles | fail-closed paths, age cutoff, hits of cached texts | output is a function of the text; tool calls untouched; newest turns intact |
| rules, `compression/{rules,minify,format,telegraph}.rs` | hit counters of rules | `apply_category_counted`, scanners, sentence merging | engine | prefilter, text inside strings and code | same result as without prefilter; code and JSON keep their meaning |
| semantic stage, `server.rs` 300-422 and `semantic.rs` | availability, statistics, cache with TTL | `condense_system`, `condense_history`, `update_cache`, `health_check` | handlers, local model over HTTP | mutex held across awaits, timeouts, disconnects, stale entries | scopes isolated, cache bounded, lock never lost, everybody gets through |
| context optimizer, `context.rs` | none | `optimize`, `repair_tool_pairs` | first stage of the pipeline | cut between a tool call and its result | pairs kept, order kept, newest turns kept |
| OpenClaw optimizer, `openclaw.rs` | statistics of one request | seven strategies | second stage | what is cut depends on the distance from the end; placeholders point at other texts | newest turns kept; what is cut stays cut; placeholders point at something |
| prefix reorder, `cache_reorder.rs` | none | `reorder_for_cache` | third stage, after the markers of OpenClaw | the agent names its tools in any order; two formats of tools | same prefix from request to request |
| normalizer, `normalizer.rs` | none | `normalize_request` | engine | conflicting instructions | instructions kept |
| handlers, `server.rs` | none of their own | `/v1/messages`, `/v1/chat/completions`, `/v2/compress`, `/metrics`, `/analytics`, `/dashboard` | everything | dropped at any await; upstream failure; streams | each request counted and logged once |
| analytics, `analytics.rs` | atomic counters | `record_request`, `record_response_compression`, `snapshot` | handlers | two dozen relaxed additions | totals of whole requests |
| metrics log, `tokens.rs` | a JSONL file | `log`, `get_summary` | handlers, dashboard | several writers, crash between writes | a line per request |
| providers, `providers/mod.rs` | none | conversions between two APIs, headers | handlers | tools, streams | same conversation |
| stability validator, `stability.rs` | level adjustments, log | `get_adjusted_level`, `validate` | not called by the server | concurrent adjustments | level within bounds |
| key vault, `security.rs` | encrypted file, key file, salt file | `new`, `store`, `retrieve`, `remove` | processes that open it | load-change-save without a lock, failing reads and writes, torn files, crash | what it reported it holds, while nothing has failed or overlapped since |
| configuration, `config.rs`, `cli/` | YAML and `.env` files, metadata | `load_config`, `config set`, `install`, `configure` | startup of the server | an unreadable file is an empty one; wizards hold what they loaded; kills between writes | what is reported as set reaches the server; files load |
| extension, `extension/` | state in memory and storage | messages of content scripts, proxy checks | proxy, pages | worker restarts, loads and checks in between | totals and settings kept |
| profiles, dashboard, benchmark, scripts | constants | - | - | - | - |

A request runs through `run_pipeline`: context optimizer, OpenClaw, reorder,
semantic stage, `compress_request`. The handler then counts compressed answers,
sends the request upstream, and on an answer counts and logs the request. The
only await inside the pipeline is in the semantic stage.

## 2. Modules

| module | models | composes |
|---|---|---|
| `CompressionSpec` | what the engine promises: text by text, a function of text, mode and setting | abstract specification |
| `CompressionCache` | cache and the engines that share it | implements `CompressionSpec` |
| `CompressionCacheProofs` | theorems about `CompressionCache` | |
| `SemanticStage` | mutex, engine, cache of condensations, model calls, disconnects | handlers + engine + model |
| `SemanticStageProofs` | theorems about `SemanticStage` | |
| `MessageHistory` | the client's conversation and the stages that cut it | client + three stages + upstream |
| `RequestCompression` | `compress_request` on what those stages leave | extends `MessageHistory` |
| `AgentMode` | context optimizer, OpenClaw strategies and reordering, on the texts of an agent's growing conversation | agent + both optimizers + reorder |
| `RuleCategories` | a category of rules with its prefilter | |
| `ChatExchange` | provider detection, credentials, conversion of requests, answers and streams | OpenAI client + proxy + provider |
| `Levels` | the level of a request, header and scaling | |
| `RequestTelemetry` | counters and log of the handlers, crash, `GET /metrics` | handlers + log + reader |
| `ExtensionWorker` | the service worker of the browser extension | worker + storage + browser |
| `SetupTables` | fields, defaults and sections of the wizard; what a prompt does to a YAML value | |
| `Setup` | commands, files, kills and the server that loads them | extends `SetupTables` |
| `KeyVault` | the vault under several processes | |
| `Lists` | `Only`, the filter of a list as a recursive function | used by three modules |
| `FoldFacts` | induction over finite sets and numbers; folds, filters, concatenations | used by the proofs |
| `MessageHistoryProofs` | theorems about `MessageHistory` and `RequestCompression` | |
| `PipelineProofs` | theorems about `RuleCategories`, `Levels` and `AgentMode` | |
| `ChatExchangeProofs` | theorems about `ChatExchange` | |
| `RequestTelemetryProofs` | theorems about `RequestTelemetry` and `ExtensionWorker` | |
| `SetupProofs` | theorems about `Setup` and `KeyVault` | |
| `MC...` | instances for TLC | |

`CompressionCache` is shown to implement `CompressionSpec`: `Pure` is its
`INSTANCE CompressionSpec WITH` the refinement mapping, and `Transparent` is
`Pure!Spec`, a property of the run and a theorem.

`MCRequestPipeline`, `MCRequestTelemetry` and `MCSetup` instantiate several
modules as scenes: `scene` is chosen in the initial state and only the actions
of that module are taken, the others standing still in one state each. The
state space is the sum of the scenes', not their product, and every property
quantifies over one scene's variables only.

### CompressionCache

`order` and `entry` are the list and the map of `LruCache`; `hits`, `misses`,
`stores`, `evictions` are its atomics. A handler is at `lookup`, in the
`pipeline` or at the `store`; a lookup and a store run under the cache's mutex
and are one step each, the pipeline between them is not. `CacheHit`,
`CacheMiss` and `LookupBypass` are the outcomes of `get`; `PipelineShrinks` and
`PipelineGrows` are the rule pipeline with its fail-closed test; `Store` and
`StoreBypass` are `put`. The pipeline itself is a constant: a call is text, mode
and setting, `RuleHits` and `Growing` say how many hits it makes and whether its
result is longer. A setting is a profile and a level above zero (no engine runs
at level 0). A disabled cache is `Uncacheable = Texts`. The key is a SHA-256
digest, taken to be free of collisions. The three LRU operations are those of
the `lru` crate as `cache.rs` uses it.

`total` is `stats.total_rule_hits`, the only statistic a hit adds to. The count
stored with a text is this running total (see the finding below), so the counts
stored along one conversation double from text to text, and a 64-bit total
overflows after about sixty texts. `MaxUsize` bounds it, `AddHits` wraps as a release
build does, and `wrapped` remembers that it happened; the run reaches it.

### SemanticStage

One action per piece of code between two awaits. `Enqueue` and `Acquire` are
`lock().await` (first come, first served); `Skip`, `CacheHit`, `CacheMiss` start
`condense_system` or `condense_history`; `CallSucceeds` and `CallFails` end the
model call, the first with `update_cache` and the statistics; `GoOn` leads to
the next part and drops the guard after the last. `Disconnect` drops the future of a handler at any
of its awaits. `Expire` lets the TTL of the oldest fresh entry pass: entries
are kept in order of creation, so the expired ones are a prefix. `available` is
chosen once, at startup. The lookup's `RwLock` is not a wait of its own: it is
only ever taken with the mutex held.

### MessageHistory and RequestCompression

The client's conversation is a sequence of messages in the format of one of the
two APIs, with tool calls and results; `UserAsks`, `ToolsAnswer`, `ModelAnswers`
and `ClientForgets` are the environment. Each request goes through
`ContextOptimize`, `SlidingWindow`, `CondenseHistory` and `CompressRequest`, or
passes a stage. Whether a stage's token threshold is reached is left open, so
every combination of cuts is explored. `repair_tool_pairs` is modelled in full, including
the arbitrary order in which a `HashSet` yields the recovered messages. What
the stages write themselves has turn 0. The normalizer, the reorder stage and
OpenClaw's other strategies rewrite texts and tools but never add, drop or move
a message, so they are no steps here; `AgentMode` has them.

`CompressRequest` records for each part of each message which rules it went
through. The cutoff is computed in wrapping arithmetic of `Width` bits.

### RequestTelemetry

Each `fetch_add` of a handler is a step; they are relaxed, so the additions of
one handler become visible in any order. `writeln!` is two writes. `Disconnect`
is possible where the handlers await, `Crash` kills the process at any point
and leaves only the file. `/v2/compress` is a handler outside `Compresses` whose upstream never
fails; having no await between the pipeline and the log it only has fewer
behaviours. A failing write to the log is not modelled. `GET /metrics` is two
steps, file before counters.

### AgentMode

`talk` is the conversation the agent holds, `request` what left for the model
last. `Ask`, `Optimize` and `Reply` alternate; `Optimize` may be repeated, as a
client that retries does. A text is a sequence of segments: a traceback, a
long or short thought (longer or shorter than the placeholder), something that
condensing strips, or anything else; sizes are classes around the thresholds of
the code. Regular expressions are not modelled; what they find is the segment's kind.

One operator per stage and strategy, composed in `optimize` in the order of
`run_pipeline`: the context optimizer, which cuts every conversation from
`contextAt` messages on (its tokens only grow); window, pruning, thoughts,
deduplication and condensing; then schemas, cache markers and `reorder_for_cache`
with its stability scores. `dedup_errors` replaces, for every traceback of a message
that was seen before, the first one left in it; that is as many of the first ones as
are repeated (`Repeats`, `Replaced`).

Both stages that drop messages put a `Summary` in their place, and
`dedup_errors` reads it as it reads any message. The window quotes the first 100
characters of each of up to six dropped messages: a traceback in front is there whole,
or as an excerpt of itself, which may look like that of another (`Quotings`).
Whom the context optimizer quotes depends on words, and is a free choice (`told`). With nothing
to quote the window leaves the recent messages alone.

The two formats differ in more than the roles. The calls of an OpenAI agent are
outside of its content, so `schema_seen` does not see them; its tools have their
names under `function`, so that they are neither minimized nor sorted (`nested`); and
its system prompt is one of its messages, which the scene leaves out.

What the model shows beside its properties:

* With OpenAI's tools `reorder_for_cache` keeps the order of the agent, although
  its comment promises "same order = same cache prefix" (`cache_reorder.rs:5-10`).
* Behind the context optimizer a request may have no block of a tool left:
  then the schemas go out whole again.
* With what `server.rs` sets, the window has no effect on what the context
  optimizer has cut: at most 11 messages are left, and it drops nothing below 15.
* The optimizer marks the last block of a system prompt, often the one with today's
  date, and the marked block is then sorted to the front, ahead of the stable ones.
* Condensing a tool result that is an array puts all its texts into the first one and
  leaves the others where they are (`openclaw.rs:485-494`).
* A request of one message gets no marker, so the prefix of the first request and the
  second differ.

### RuleCategories

A category is any sequence of rules up to `MaxRules`, each a function on the
texts that may not match, standard or with lookaround. `Skip`, `Try` and
`GiveUp` are the cases of the loop of `apply_category_counted`; a rule
with lookaround may give up on any text. The rules themselves
are arbitrary, so the result is about any table.

### ChatExchange

`chat` is what the client holds, `call` the exchange in progress, `wire` the
events of the stream that have not arrived. `Ask` chooses model, headers,
credentials and whether an answer is streamed; `Fails`, `Body`, `StartStream`,
`Deliver` and `EndOfStream` are the environment's choices with what the code
does about them. A chunk takes any number of events and may cut one, inside its
JSON or before it. What the client reads goes into its next request. Not in the
properties, but visible here: an `error` event in the middle of a stream is dropped;
every finished answer has `finish_reason` "stop"; an `Authorization` that is not
a bearer token hides the key of the configuration.

### Levels

`effective_level` and `auto_scale_level` in thousandths, without fractions
otherwise. A header "NaN" parses as a number in Rust and passes every
comparison; it is not among the levels.

### ExtensionWorker

`state` is the worker's memory, `stored` the storage. `BrowserStarts`,
`StorageAnswers` and `Loaded` are the load with its callback, `CheckBegins` and
`CheckEnds` the proxy check with its awaits, `Set`, `Count`, `Reset` the
messages, `WorkerStops` the browser. The nested object of the
statistics, which `{ ...DEFAULTS }` shares, is `defaults`. `truth` is what the
user has set and sent, for the property only.

### SetupTables and Setup

`SetupTables` holds the fields of `NyquestConfig` by type with their defaults,
the eleven sections of the wizard with their prompts and conditions, and
`handle_prompt`: what Enter and a typed answer store. A value is its YAML type
and a class (default, first choice, new, ...).

In `Setup` a command loads (`ConfigSet`, `InstallHeadless`, `Install`,
`Configure`), perhaps asks (`AskSections`, `Interrupt`, `OfferService`), and
writes: `OpenConfig` truncates `nyquest.yaml`, `FinishConfig` writes it,
`WriteEnv` and `WriteMetadata` follow. `Kill` may come anywhere, `FailConfig` is
a failing write, and leaves a cut file that may or may not parse. `Serve`
starts a server with what it finds. `acked` is what commands reported as set and
nothing has excused the loss of.

### KeyVault

`secret` holds the key and the salt file, `vault` the cipher it was written
under and its map. `UseSecret` and `MakeSecret` are `init_cipher`, with two
processes that both find no file; `store` and `remove` load and change,
`Truncate` and `Save` write. A load can fail, which gives an empty vault
(`Loaded`). A write can fail at the open, or after the truncation (`FailSave`):
`save_vault` logs it and returns, and `store` reports the key all the same
(`security.rs:183-198`). `DieMakingSecret` and `Exit` leave torn files.

`reported` is what `store` and `remove` have reported of each provider, whether it
was written or not, and `lapsed` the providers whose report no longer binds: their own
write failed, or a later save was cut, failed midway, overlapped another or was made by a
process that could not read the vault. So a process that is alone can lose every
key; what `ReportedKeysStay` shows is that nothing else loses one.

## 3. Runs

| run | question | states |
|---|---|---|
| `compression_cache` | is the shared cache consistent and invisible? | 44,921 |
| `cache_hit_counts` | are stored hits those of the text? No | |
| `semantic_stage` | are scopes isolated, the lock kept, waits finite? | 164,491 |
| `semantic_summary` | does a summary cover the history it replaces? No | |
| `request_pipeline` | what does a request keep of its conversation? | 1,135,339 |
| `system_message` | does the semantic stage keep the system message? No | |
| `agent_traces` | does every placeholder stand for a traceback that is there? No | |
| `output_unchanged` | is an answer the client takes for complete complete? No | |
| `request_telemetry` | do counters, log and storage agree with what happened? | 80,863 |
| `log_lines` | is a line the JSON of one request? No | |
| `setup` | do settings and keys survive commands, kills and each other? | 248,529 |
| `enter_keeps` | does Enter keep the current values? No | |

`compression_cache`. Two handlers, two settings, four texts (plain, empty of
hits, lengthened by the pipeline, too large), a cache of two entries: enough for
two misses on one key, for eviction between a miss and its store, for eviction
of what another handler is about to look up, and for totals to overflow at
`MaxUsize = 7`. Three pieces per handler suffice to see a text twice with
another between. Handlers end, so deadlock is not checked.

`semantic_stage`. Three handlers, two scopes, a prompt in two spellings, two
histories, a cache of two: enough for a full queue behind a holder that calls
the model, for eviction, expiry during a call, and hits across handlers.
Liveness is checked here, without symmetry.

`request_pipeline`. Five scenes.

* stages: conversations of up to 7 messages with `preserve_recent_turns` 2, a
  window of 2 turns, slack 1, and a semantic stage keeping 3 of more than 4:
  each threshold of the code scaled down so that all three stages can cut one
  request, with room for a call whose two results are separated from it. Ages 1
  and 2 are below the length; 8 doubles to 16, which wraps to 0 in 4 bits.
* agent: conversations of up to 5 messages, prune ages of one turn and a window
  of two that starts above 4 messages, so that each strategy meets messages
  another one has already cut; two tracebacks, both sizes of results above the
  thresholds. The context optimizer keeps one turn and cuts from 3 messages on, from 5
  (the same request of 3 is uncut, of 5 cut), or never (9), and then the window drops one
  message. A summary quotes two messages; one excerpt is enough for two tracebacks to
  be taken for the same. `PlaceholdersPoint` is for one traceback per message
  and per summary; with two it fails, which `agent_traces` shows. `CutStaysCut`
  compares each request with the one before it, `PrefixStays` the tools and
  the system prompt of Anthropic's format. The other scenes start with one value of
  `format`, `tools` and `contextAt`.
* rules: every category of up to 3 rules on two texts. Three rules are what a
  missed chain needs: one that mutates, one the filter excluded, one that
  counts.
* exchange: a model with a slash and "claude" in its name and one of OpenAI, two exchanges,
  up to three pieces, two cut events. Two cuts can hit neighbouring events.
* level: two base levels between those where the code turns, and three outside,
  with sizes on both sides of every threshold.

`request_telemetry`. Three requests and one crash: two handlers that write while
a third is counted and a poll is between its reads. The log may be inherited.
In the second scene the extension's worker lives through a handful of loads, checks, messages and
stops.

`setup`. Two shells, one fault, one server: overlap of commands at every step,
or one after the other, each killed or failing anywhere, over a missing file and
the one the repository ships (`src/nyquest.yaml`). A first scene has two commands
of any kind, a second three that are all `config set`: one may load the
file that another is writing and save it when the other has ended, which is what
the flag `alone` must notice. All sections and the semantic one are configured; the port
is typed as well as accepted. In a third scene two processes and two owners
share a vault for four operations, enough for a torn key file, two ciphers, an
overlap, and a write that fails between two that do not.

Properties that hold only within a limit say so in their comment, and the limit is
where the code stops keeping them: `NewestTurnsIntactIfAlternating` (the cutoff
counts two messages per turn, so an agent's turn with tool messages is
compressed too early: `engine.rs:634`), `LevelNeverFalls` (base levels from 0.236
to 0.9), `WizardFileLoads` (ports of 16 bits), `StorageKeepsUp` (until a worker
restarts), `OnlyOverlapsLose` (until commands overlap), `ReportedKeysStay` (until a
write of the vault fails or overlaps), `PlaceholdersPoint` (texts with one
traceback) and `PrefixStays` (tools whose name is where the code looks for it).

The seven violations are disagreements between code and documents:

* `engine.rs:341` stores the request's total as a text's hits;
* `semantic.rs:515` leaves block contents out of the key of a summary, so an
  agent's conversation that grew by tool messages gets an old summary;
* `server.rs:401` drops a system message made of blocks;
* `openclaw.rs:383` puts the placeholder of a repeated traceback over the first
  one of the message (a window's summary that quotes several tracebacks is such a
  message too);
* `server.rs:979` answers a body it cannot parse as an empty answer that
  finished, and `server.rs:932` loses events split over chunks;
* `tokens.rs:187` writes a line in two writes;
* `install.rs:687` stores true, a first choice or zero when Enter is pressed at
  a field the file leaves out.

## 4. Fairness

Only `SemanticStage` has liveness. `WF_vars(Proceed(r))` per handler: the tokio
runtime polls a woken task again, the mutex wakes its first waiter, and a call of
the model ends because the client is built with a timeout of
`timeout_ms + 500` ms that covers the whole answer (`semantic.rs:174`). No
fairness is assumed for arrivals, disconnects or expiry.

## 5. Proofs

Each theorem is about the specification of its component, for every value of its
constants that satisfies the named `ASSUME`s; TLC evaluates these on the runs,
and TLC checked every property, most inductive invariants too, before they were
proved. Every safety property and action property of the passing runs is stated by a
theorem.

`CompressionCacheProofs`: any number of handlers, texts, settings, any work
lists, any capacity above 0.

* That `Store` keeps entries faithful needs that a handler at the store passed
  the fail-closed test (`EngineAtWork`); that the evicted key, the last of the
  list, is the one longest unused needs that the list is sorted by last use
  (`RecencyOrder`); that needs the list to be free of duplicates and to match the
  map (`LruConsistent`). `IInv` is the conjunction, `Invariance` proves it action
  by action.
* `EvictionIsLru` follows from `IInv`: only `Store` shrinks the map, and what it
  drops is the last of a list sorted by use.
* `Transparency`: the refinement maps `work`, `setting` and `output` to
  themselves; steps that deliver a text are `Reply` steps, all others stutter.
  For `CacheHit` this needs `EntryFaithful`.
* `CountersAccountForCache` counts the handlers that have missed and not stored
  (`Storing`); `AccountInv` adds that they are finitely many. `StatsInv` says of
  each running total that it covers the texts so far (`TotalsCover`), which a hit
  keeps because the stored counts cover their own text (`EntriesCover`), which a
  store keeps because what it stores is such a total.

`SemanticStageProofs`: any number of handlers, any texts and scopes, any
capacity above 0.

* The inductive invariant `SInv` is `TypeOK`, `LockFollowsHolder`,
  `CacheBounded`, `CacheFaithful`, `CallersMissed`, `ServedUnderOwnKey` and
  `StatsAccountForCalls`. `CacheFaithful` and `CallersMissed` are there for the
  proof only.
* Only the holder is inside the stage, so at most one handler calls the model
  (`OnlyHolderCalls`). Nobody else can store meanwhile, and time only makes
  entries expire: a miss stays a miss until its own store (`CallersMissed`). This
  is `NeverCondensedTwice`, and it makes `Insert` an `Append` to what
  `update_cache` retains (`InsertFacts`), from which `CacheBounded` follows.
* An entry is filed under the key of the text and scope it was made from
  (`CacheFaithful`), and a key tells part and scope (`KeyTells`): what a lookup
  serves is of the caller's own scope, `ServedUnderOwnKey`.

`MessageHistoryProofs`: conversations of any length, either API, any settings of
the three stages.

* The properties of the messages behind a stage need two things that hold
  before: what a client may hold (`HistoryInv`; `WellTold` is that no call is
  made before an earlier one is answered, and that over the API of Anthropic one
  message answers all calls of another), and what the stages so far have left
  of it (`WorkingInv`; `Carried` relates the request to the conversation).
* Two shapes of cut cover the stages. `CutShort` puts something harmless in front
  of a tail of the request: window, semantic stage, and the context optimizer
  without blocks. `ContextCut` is the context optimizer over blocks; the lemma
  behind it is that a cut of a well-formed conversation separates at most one
  call from its answer, so that the arbitrary order of the `HashSet` never shows.
* `Only`, the filter every cut is written with, is a recursive function;
  `OnlyEmbeds` and `OnlyTheEnd` are proved by induction over its length.
* `compress_request` (`PipelineInv`): `UncutInv` says what a request is while no
  stage cuts, `EngineInv` relates what was sent to what is sent next through
  `Remembered`. A client that forgets drops messages at the front, so a message only
  comes closer to it; what was before the cutoff stays before it.

`PipelineProofs`: any category of rules; any model, size and base level from 0.236 to
0.9; agent's conversations of any length in either format, with any ages, window and
sizes, as long as the context optimizer keeps no more turns than the window purges.

* `CategoryInv`: while no rule has matched, the text is the one the filter saw,
  and the filter is believed only then. `UnfilteredIsFold` gives the fold that
  the property compares with a last step.
* `LevelGrows` compares the pieces of the step function and its ramp in pairs.
* `TalkType` says what the two sides have said: which parts and segments a message can
  have, that message `t` is turn `t`, and that results come right behind their call
  (`Answered`): the message the context optimizer recovers is the one before its cut.
  Each strategy is a map or a filter of the messages, with a lemma for each of what it
  keeps.
* `PrefixHolds`. Tools with names leave sorted (`ToolsSorted`), the system prompt is the
  same for every request with more than one message, so that a prefix depends on
  whether schemas are sent in full only. `PrefixInv` adds that the last request's is that
  of some tool order, and that whole schemas come back only behind a cut
  (`Before`): what a conversation has seen it never un-sees.
* `PlaceholdersHold`. Before deduplication every message of the conversation is
  `Calm`: one traceback at most, no placeholder. A summary may have several, in one
  string (`Quiet`; `WindowedQuiet`, `CutQuiet`); but deduplication turns tracebacks of
  a string into placeholders and drops none (`MarksLeft`), so that a summary that leaves
  with one of either had one traceback, and was `Calm` as well. Then a repeated traceback
  was in an earlier message of the same list, and the earliest that has it keeps it
  (`FirstToHave`). `DedupedSegments` and `CondensedSegments` carry both through the last
  two strategies. Pruning after deduplication would take the kept one away; this is the
  mutant.
* `CutHolds`. A message of a request is that of its turn in the conversation, each part
  cut or not cut (`Reflects`, `Left`), and whether it is cut is a formula of the
  turn, the part and the length of the conversation alone (`Lost`). Behind the context
  optimizer a message has another place but the same distance from the end, and
  is too young for what the window would have purged (`KeptIsYoung`): this is where
  `RecentTurns` must not exceed the two ages of the window. `RequestInv` says
  of which length the last request was made. `FullInList` turns the property's "in
  full" into `Lost`, and `LostLonger` is the heart: every clause of `Lost` is an
  age that only grows, and a size threshold that only falls with age.

`RequestTelemetryProofs`: any finite set of requests, any amounts, any number of
crashes.

* `IInv` is `CountInv` (each counter is the sum of what handlers have added;
  what is left to add is none of it), `LineInv` (the lines of the file are those
  of the handlers behind their newline) and `PollInv` (what a poll has read is
  still there). The sums are folds over a set; `FoldFacts` has what a sum does
  when one request changes.
* `WorkerInv`: while the worker lives that loaded undisturbed (`whole`), memory
  agrees with `truth`, and so does the storage once it was written.

`SetupProofs`: any shells, number of commands, faults and starts, any answers and
overrides.

* `SetupType` types every job, and says what an interactive wizard holds before it
  has asked (`Fresh`), that what it is about to save loads (`Fits`), and that what it
  showed it kept (`Kept`). The lemmas go through prompt, section and wizard.
* `AckedSafe`: what was reported is in the file while nobody writes
  (`AckedInFile`) and in the hand of every command nobody overlapped, but for
  what it edits (`AckedInHand`). The property is about a save; what is saved was loaded.

And, of the vault: any processes, owners and keys. `VaultInv` says that a vault
that is not torn holds what was reported, but for the lapsed reports (`KeysInVault`),
and so does the map of a process that read it and was alone since, but for its own
change (`KeysInHand`). That a torn vault has overtaken every report
(`TornExcuses`) needs to know whose cut it is (`TornWhileSaving`).
`ReportedKeysAlwaysStay` follows from these.

`ChatExchangeProofs`: any number of exchanges, of pieces in an answer and of cut
events, any chunks, models and credentials.

* `ReadAllSteps` gives the client's reading of a chunk, a fold over its lines, a last
  step; `WholeStep` and `CutStep` say what one event, or half of one, does to what
  has been read, `ChunkRead` what a chunk does.
* `StreamInv`: the events on the wire are the last ones of the stream, in order, and
  what the client has read is a list of pieces before them, in order and once each,
  in which one is missing only beside a cut; a line left open belongs to the event
  before the place. `LossIsLocal` and that an undamaged stream is read whole
  (`ReadWhole`) follow.
* `ToldInv`: what the client holds, instructions aside, are questions and, behind each
  whose exchange came through, the whole answer; a request in flight is made of
  that. The translation takes instructions out and leaves the rest in order, so that
  both forms of a request tell the same (`ToldFollows`).

### Assumptions

All are about constants. Of the code: `CapacityAssumption`, `MaxEntriesAssumption`,
`UsizeAssumption`, `PreserveAssumption` (the settings as the code clamps or
defaults them), `AgesAssumption` (an age fits its width), `LevelsAssumption`
(levels are integers, in thousandths), `RuleHitsAssumption`, `AmountAssumption` (a request counts as one). Of what is
there: `WorkAssumption`, `JobsAssumption`, `RequestsAssumption` (finitely many),
`InputsAssumption` (values that YAML has), `WorkerAssumption`, `BoundAssumption`. Of
the marks a model uses for "none": `NewlineAssumption`, `VaultAssumption` (no cipher is
one of the marks), `MarksAssumption`. Of the scenes' bounds, and that sizes and ages are
natural numbers: `AgentAssumption`, `ExchangeAssumption`. `AgentAssumption` also says of
the settings that the context optimizer cuts no conversation of less than 3 messages (6
in the code) and keeps no more turns (4) than the window purges (10 and 5).

### What proving found

* `Setup`: `Begin` set `alone` to true even where another command was writing
  the file, so that a command that had loaded a cut file counted as overlapping
  with nobody. `OnlyOverlapsLose` is not inductive then, and TLC finds it violated
  with three commands. `Begin` now sets it only if nobody writes.
* `EnterKeepsWhatIsThere` held of what the wizard writes, but its hypothesis `Shown`
  had to say, per prompt, that the value has the type the prompt shows it in.
* A formula of `MessageHistory` with `UNION` before `\` was read differently by
  the model checker and the prover; it is parenthesised now.

* `AgentMode` had the window's summary as a plain note, sorted and minimized the tools of
  either format and left the context optimizer out; `KeyVault` had no failing
  write. `PlaceholdersPoint` and `PrefixStays` hold of less than they had seemed to, and
  that no key is lost to a process alone does not hold: `ReportedKeysStay` is what does.

### Only model-checked

* `EveryWaitEnds`: liveness, as is anything with `ENABLED`, is out of the prover's
  reach.

Theorems that take the property as an operator cannot be used by
the installed provers. Induction is possible all the same with
the property as the set of what has it: `SetInduction` and `NatInductionSet` of
`FoldFacts` go by a minimal counterexample. Folds of the community modules
and recursive functions are within reach that way. `RECURSIVE` operators,
`SelectSeq`, `SetToSortSeq`, `@@` and `:>` are not.

## 6. Not modelled, and the plan

Not modelled, with the reason:

* what single rules do to a text, `minify.rs`, `format.rs`, `telegraph.rs` and
  the normalizer: functions of one text without state, whose correctness is
  about wording;
* the JavaScript engine, content scripts and popup of the extension: the same,
  and wrappers of `fetch` that report to the worker;
* counting of tokens, profiles, HTML of the dashboard: arithmetic and tables;
* `stability.rs`: no handler calls it;
* `doctor`, `preflight`, `status`: they probe the machine and print;
* benchmark and shell scripts: tools around the program.

What the scenes leave out of their composition: `run_pipeline` between the two
conversions of `ChatExchange`, since both work on messages of one role and text
each; tools on that path, which the conversion drops; the token thresholds
between stages, which are free choices; the system message of an OpenAI agent, which
would be one more message that no strategy changes; the separator that `cache_key` puts between the
messages of a history, whose boundaries `SemanticStage` keeps.

Left to do: the liveness of the semantic stage has no proof, for the reason above. A
proof that `PlaceholdersAlwaysPoint` fails only where a message or a summary has two
tracebacks is there (`PlaceholdersHold`); that the other documented disagreements have no further
cause is not.
