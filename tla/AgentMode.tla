-------------------------------- MODULE AgentMode --------------------------------
(***************************************************************************)
(* OpenClawOptimizer::optimize (src/openclaw.rs), with the context         *)
(* optimizer in front of it (src/context.rs) and the reordering for the    *)
(* prompt cache behind it (src/cache_reorder.rs): what an agent that sends *)
(* its whole conversation with every request has left of it.  None of them *)
(* keeps anything between two requests; what they do to a message depends  *)
(* on how far the message is from the end.                                 *)
(*                                                                         *)
(* A text is a sequence of segments: a traceback, a long or a short        *)
(* thought, something condensing strips, or anything else.  Sizes are      *)
(* classes: below 100, up to 200, up to 2000 and above.                    *)
(***************************************************************************)
EXTENDS Naturals, FiniteSets, SequencesExt, Lists

CONSTANTS
  Traces,               \* distinct tracebacks
  Excerpts,             \* what the first characters of one may be taken for
  ToolTurns,            \* tool_prune_after_turns, 2
  ThoughtTurns,         \* thought_prune_after_turns, 3
  SlidingTurns,         \* sliding_window_preserve_turns, 5
  WindowToolTurns,      \* sliding_window_tool_prune_age, 10
  WindowThoughtTurns,   \* sliding_window_thought_prune_age, 5
  Slack,                \* the window drops nothing below preserve + 4 messages
  SummaryOf,            \* how many of the dropped messages it quotes, 6
  WindowAt,             \* the length above which a conversation exceeds the threshold
  RecentTurns,          \* preserve_recent_turns of the context optimizer, 4
  ContextLengths,       \* lengths from which on it may cut a conversation
  MaxAgentMessages,     \* bound on the length of a conversation
  MaxTraces,            \* bound on the tracebacks in one message
  ResultSizes,          \* the sizes of tool results
  None                  \* no traceback

ASSUME AgentAssumption ==
  /\ {ToolTurns, ThoughtTurns, SlidingTurns, WindowToolTurns, WindowThoughtTurns,
      Slack, SummaryOf, WindowAt, RecentTurns, MaxAgentMessages, MaxTraces} \subseteq Nat
  /\ ResultSizes \subseteq Nat /\ ContextLengths \subseteq Nat \ 0..2
  /\ RecentTurns <= WindowToolTurns /\ RecentTurns <= WindowThoughtTurns

VARIABLES
  format,    \* whose format the agent speaks
  talk,      \* the conversation, as the agent holds it
  tools,     \* its tools: names in the order it sends them
  system,    \* its system prompt, in blocks
  contextAt, \* the length from which on the context optimizer cuts what it sends
  request    \* the request that left for the model last

agentVars == <<format, talk, tools, system, contextAt, request>>

\* A segment: a note, a long or a short thought, waste, what a placeholder has
\* cut; or a traceback, or the placeholder for one that is the same.
Plainly(is) == [is |-> is, trace |-> None]
Trace(t) == [is |-> "trace", trace |-> t]
Same(t) == [is |-> "same", trace |-> t]
Note == Plainly("note")

\* A part is a block, or the whole of a content that is a string.  The content
\* of a tool_result may itself be an array of texts.
Part(type, size, texts) == [type |-> type, size |-> size, array |-> FALSE, texts |-> texts]
MessageOf(role, content, parts) ==
  [role |-> role, content |-> content, parts |-> parts, turn |-> 0]
Pruned == <<<<Plainly("cut")>>>>

PartsOf(m, change(_)) == [m EXCEPT !.parts = [j \in DOMAIN m.parts |-> change(m.parts[j])]]
IsResult(m, p) == p.type = "tool_result" \/ (m.content = "string" /\ m.role = "tool")
Older(messages, turns) == {i \in DOMAIN messages : i + 2 * turns <= Len(messages)}
-------------------------------------------------------------------------------
(* The agent.                                                              *)

Said(text) == MessageOf("user", "string", <<Part("text", 1, <<text>>)>>)
Thinks(thought) ==
  MessageOf("assistant", "string", <<Part("text", 1, <<<<Plainly(thought), Note>>>>)>>)
\* A call is a block of the content; in OpenAI's format it is outside of it.
Calls ==
  LET thought == Part("text", 1, <<<<Plainly("long")>>>>) IN
    IF format = "openai" THEN MessageOf("assistant", "string", <<thought>>)
    ELSE MessageOf("assistant", "blocks", <<thought, Part("tool_use", 0, <<>>)>>)
ToolSays(size, texts) == MessageOf("tool", "string", <<Part("text", size, texts)>>)
Results(size, texts) ==
  MessageOf("user", "blocks", <<[Part("tool_result", size, texts) EXCEPT !.array = Len(texts) > 1],
                              Part("text", 1, <<<<Note>>>>)>>)

Errors == {<<Trace(t)>> : t \in Traces} \cup {<<Trace(t), Trace(u)>> : t, u \in Traces}
Outputs == {<<Note, Plainly("waste")>>} \cup Errors
Answers == {Thinks("long"), Thinks("short"), Calls}
\* A call is answered by the next message.
CallIsOpen == talk # <<>> /\ talk[Len(talk)].parts = Calls.parts
Questions ==
  IF ~CallIsOpen THEN {Said(text) : text \in {<<Note>>} \cup Errors}
  ELSE IF format = "openai"
  THEN {ToolSays(size, <<text>>) : size \in ResultSizes, text \in Outputs}
  ELSE {Results(size, <<text>>) : size \in ResultSizes, text \in Outputs}
         \cup {Results(2, <<text, <<Note>>>>) : text \in Outputs}

\* The places of a message, where its tracebacks are, and which they are.
Places(m) ==
  UNION {UNION {{<<j, k, l>> : l \in DOMAIN m.parts[j].texts[k]} : k \in DOMAIN m.parts[j].texts}
         : j \in DOMAIN m.parts}
At(m, place) == m.parts[place[1]].texts[place[2]][place[3]]
TracesAt(m) == {place \in Places(m) : At(m, place).is = "trace"}
TracesIn(m) == {At(m, place).trace : place \in TracesAt(m)}

Speak(m) ==
  /\ Len(talk) < MaxAgentMessages
  /\ Cardinality(TracesAt(m)) <= MaxTraces
  /\ talk' = Append(talk, [m EXCEPT !.turn = Len(talk) + 1])
-------------------------------------------------------------------------------
(* The strategies, each on the list of messages. *)

\* extract_text_from_value, and what a summary quotes of a message: the first
\* characters of its text.  A traceback there is itself or an excerpt, which
\* dedup_errors takes for a traceback too.
TextOf(m) == FlattenSeq([j \in DOMAIN m.parts |-> FlattenSeq(m.parts[j].texts)])
Tracebacks == Traces \cup Excerpts
Quotings == {q \in [Tracebacks -> Tracebacks] : \A t \in Tracebacks : q[t] \in {t} \cup Excerpts}
Quote(m, quoted) ==
  LET text == TextOf(m) IN
    IF text # <<>> /\ text[1].is = "trace" THEN <<Trace(quoted[text[1].trace])>> ELSE <<>>
Summary(messages, told, quoted) ==
  LET quotes == FlattenSeq([i \in DOMAIN messages |-> IF i \in told THEN Quote(messages[i], quoted)
                                                      ELSE <<>>])
  IN  <<Said(<<Note>> \o quotes), MessageOf("assistant", "string", <<Part("text", 0, <<<<Note>>>>)>>)>>

\* ContextOptimizer::optimize: the latest turns, behind a summary of the others
\* that quotes some of them.  The call that the first message kept answers is
\* recovered: it is the message before (MessageHistory has the general case).
Split(messages) ==
  IF Len(messages) - 2 < 2 * RecentTurns THEN 2 ELSE Len(messages) - 2 * RecentTurns
Answering(m) == m.content = "blocks" /\ \E p \in Range(m.parts) : p.type = "tool_result"
context_optimize(messages, told, quoted) ==
  LET split == Split(messages)
      from == IF split < Len(messages) /\ Answering(messages[split + 1]) THEN split ELSE split + 1
  IN  Summary(messages, told \cap 1..split, quoted) \o SubSeq(messages, from, Len(messages))

\* THOUGHT_RE.replace_all
Unthought(text, placeholder) ==
  FlattenSeq([k \in DOMAIN text |->
                IF text[k].is \in {"long", "short"} THEN placeholder ELSE <<text[k]>>])
IsThought(s) == s.is \in {"long", "short"}

\* apply_sliding_window: old tool results are purged, thoughts removed (from
\* strings only), and the messages before the window replaced by a summary.
Purged(messages) ==
  [i \in DOMAIN messages |->
     LET m == messages[i]
         results == IF i \in Older(messages, WindowToolTurns)
                    THEN PartsOf(m, LAMBDA p : IF IsResult(m, p) THEN Part(p.type, 0, Pruned) ELSE p)
                    ELSE m
     IN  IF /\ i \in Older(messages, WindowThoughtTurns)
            /\ m.role = "assistant" /\ m.content = "string"
         THEN PartsOf(results, LAMBDA p : [p EXCEPT !.texts = <<Unthought(@[1], <<>>)>>])
         ELSE results]
apply_sliding_window(messages, quoted) ==
  LET kept == 2 * SlidingTurns
      purged == Purged(messages)
      recent == SubSeq(purged, Len(messages) - kept + 1, Len(messages))
      told == {i \in DOMAIN messages : /\ i + kept <= Len(messages)
                                       /\ i + kept + SummaryOf > Len(messages)}
  IN  IF Len(messages) <= kept + Slack THEN purged
      ELSE IF \A i \in told : TextOf(purged[i]) = <<>> THEN recent
      ELSE Summary(purged, told, quoted) \o recent

\* prune_tool_results: above 200 bytes in the old zone, above 2000 elsewhere.
threshold_swapped(old) == IF old THEN 2 ELSE 1
size_threshold(old) == IF old THEN 1 ELSE 2
prune_tool_results(messages) ==
  [i \in DOMAIN messages |->
     LET m == messages[i]
         threshold == size_threshold(i \in Older(messages, ToolTurns))
     IN  PartsOf(m, LAMBDA p : IF IsResult(m, p) /\ p.size > threshold
                               THEN Part(p.type, 0, Pruned) ELSE p)]

\* prune_thought_blocks: where the placeholder makes the text shorter.
Shrinks(text) ==
  Cardinality({k \in DOMAIN text : text[k].is = "long"})
    > Cardinality({k \in DOMAIN text : text[k].is = "short"})
prune_thought_blocks(messages) ==
  [i \in DOMAIN messages |->
     LET m == messages[i] IN
       IF i \in Older(messages, ThoughtTurns) /\ m.role = "assistant"
       THEN PartsOf(m, LAMBDA p : IF p.type = "text" /\ Shrinks(p.texts[1])
                                  THEN [p EXCEPT !.texts[1] = Unthought(@, <<Plainly("cut")>>)] ELSE p)
       ELSE m]

\* dedup_errors.  For every traceback of a message that was seen before, in an
\* earlier message or in this one, the placeholder is put over the first
\* traceback that is left, whichever it is: of its string, or of each of its
\* text blocks.
Replaced(text, n) ==
  [k \in DOMAIN text |->
     IF text[k].is = "trace" /\ Cardinality({l \in 1..k : text[l].is = "trace"}) <= n
     THEN Same(text[k].trace) ELSE text[k]]
Seen(messages, i) == UNION {TracesIn(messages[j]) : j \in 1..(i - 1)}
\* All of them but the first of each that is new.
Repeats(m, seen) == Cardinality(TracesAt(m)) - Cardinality(TracesIn(m) \ seen)
dedup_errors(messages) ==
  [i \in DOMAIN messages |->
     LET n == Repeats(messages[i], Seen(messages, i)) IN
     PartsOf(messages[i], LAMBDA p : IF p.type = "text"
                                     THEN [p EXCEPT !.texts[1] = Replaced(@, n)] ELSE p)]

\* condense_file_views: of a result of 100 bytes or more; all its texts, put
\* together and stripped, go into the first one, and the others stay.
Stripped(text) == Only(text, {s \in Range(text) : s.is # "waste"})
condensed(p) ==
  LET text == FlattenSeq(p.texts) IN
    IF p.type = "tool_result" /\ p.size > 0 /\ Stripped(text) # text
    THEN [p EXCEPT !.texts[1] = Stripped(text)] ELSE p
condense_file_views(messages) ==
  [i \in DOMAIN messages |-> IF messages[i].content = "blocks"
                             THEN PartsOf(messages[i], condensed) ELSE messages[i]]

\* The order of optimize.
dedup_then_prune(messages) == prune_tool_results(dedup_errors(prune_thought_blocks(messages)))
prune_then_dedup(messages) == dedup_errors(prune_thought_blocks(prune_tool_results(messages)))
windowed(messages, quoted) ==
  IF Len(messages) > WindowAt THEN apply_sliding_window(messages, quoted) ELSE messages
strategies(messages) == condense_file_views(prune_then_dedup(messages))
-------------------------------------------------------------------------------
(* Schemas, the system prompt and the order of both. *)

schema_seen(messages) ==
  \E m \in Range(messages) :
    m.content = "blocks" /\ \E p \in Range(m.parts) : p.type \in {"tool_use", "tool_result"}

\* The tools of OpenAI's format have name, description and parameters one level
\* down, under "function", where nothing of them is found.
nested == format = "openai"
minimize_schemas(names, seen) ==
  [i \in DOMAIN names |-> [name |-> names[i], full |-> nested \/ ~seen]]

\* A string becomes a block; of blocks the last one is marked.
Block(role, markers, long, id) ==
  [role |-> role, markers |-> markers, long |-> long, id |-> id, marked |-> FALSE]
inject_cache_headers(blocks) ==
  IF blocks = <<>> THEN blocks
  ELSE [blocks EXCEPT ![Len(blocks)].marked = TRUE]

block_stability_score(b) ==
  LET cached == 50 + (IF b.marked THEN 100 ELSE 0)
      dynamic == IF cached < 20 * b.markers THEN 0 ELSE cached - 20 * b.markers
  IN  dynamic + (IF b.role THEN 30 ELSE 0) + 10 * b.long

\* sort_by is stable: what comes before x has a smaller key, or the same and
\* came before x.
SortedBy(seq, key(_)) ==
  LET before(i) == {j \in DOMAIN seq : \/ key(seq[j]) < key(seq[i])
                                       \/ key(seq[j]) = key(seq[i]) /\ j < i}
  IN  [n \in DOMAIN seq |-> seq[CHOOSE i \in DOMAIN seq : Cardinality(before(i)) = n - 1]]
as_they_came(sent, blocks) == [tools |-> sent, system |-> blocks]
reorder_for_cache(sent, blocks) ==
  [tools |-> SortedBy(sent, LAMBDA tool : IF nested THEN 0 ELSE tool.name),
   system |-> SortedBy(blocks, LAMBDA b : 1000 - block_stability_score(b))]

\* A request of one message is not optimized, only put in order.  A list that the
\* context optimizer has cut, of 11 messages at most with what server.rs sets, is
\* too short for the window to change: that drops nothing below 15, and purges
\* in 11 the first message alone, of its thoughts, which is the summary and has
\* none.
IsCut == Len(talk) >= contextAt
optimize(told, quoted) ==
  LET sent == IF IsCut THEN context_optimize(talk, told, quoted) ELSE talk
      seen == minimize_schemas(tools, schema_seen(sent))
  IN  IF Len(talk) < 2
      THEN [messages |-> talk, prefix |-> reorder_for_cache(minimize_schemas(tools, FALSE), system)]
      ELSE [messages |-> strategies(IF IsCut THEN sent ELSE windowed(sent, quoted)),
            prefix |-> reorder_for_cache(seen, inject_cache_headers(system))]
-------------------------------------------------------------------------------
Role == Block(TRUE, 0, 0, 1)
Today == Block(FALSE, 1, 0, 2)
Guidance == Block(FALSE, 0, 1, 3)
Orders == {<<1, 2>>, <<2, 1>>}

\* OpenAI's format has the system prompt among the messages.
AgentInit ==
  /\ format \in {"openai", "anthropic"} /\ contextAt \in ContextLengths
  /\ talk = <<>> /\ tools \in Orders
  /\ system = IF format = "openai" THEN <<>> ELSE <<Guidance, Role, Today>>
  /\ request = [messages |-> <<>>, prefix |-> as_they_came(<<>>, <<>>)]

\* The agent holds its tools in a map: their order may differ each time.
Ask ==
  /\ Len(talk) % 2 = 0
  /\ \E m \in Questions : Speak(m)
  /\ tools' \in Orders
  /\ UNCHANGED <<format, system, contextAt, request>>
Reply ==
  /\ Len(talk) % 2 = 1 /\ Len(request.messages) > 0
  /\ \E m \in Answers : Speak(m)
  /\ UNCHANGED <<format, tools, system, contextAt, request>>
Optimize ==
  /\ Len(talk) % 2 = 1
  /\ \E told \in SUBSET {i \in DOMAIN talk : IsCut /\ TracesAt(talk[i]) # {}}, quoted \in Quotings :
       request' = optimize(told, quoted)
  /\ UNCHANGED <<format, talk, tools, system, contextAt>>

AgentNext == Ask \/ Optimize \/ Reply
AgentSpec == AgentInit /\ [][AgentNext]_agentVars
-------------------------------------------------------------------------------
Holds(messages, i, t) ==
  \E p \in Range(messages[i].parts) : \E text \in Range(p.texts) : Trace(t) \in Range(text)

\* "identical error trace as previous attempt": the placeholder stands for a
\* traceback that the request still has, there or earlier, wherever the other
\* strategies have pruned, purged, dropped and quoted its copies; provided that
\* neither a message nor a summary (which has no turn) has two tracebacks.
Points(messages) ==
  \A i \in DOMAIN messages :
    \A p \in Range(messages[i].parts) : \A text \in Range(p.texts) : \A s \in Range(text) :
      s.is = "same" => \E j \in 1..i : Holds(messages, j, s.trace)
Marks(m) == {place \in Places(m) : At(m, place).is \in {"trace", "same"}}
PlaceholdersPoint ==
  /\ \A m \in Range(talk) : Cardinality(TracesAt(m)) <= 1
  /\ \A m \in Range(request.messages) : m.turn = 0 => Cardinality(Marks(m)) <= 1
  => Points(request.messages)

\* A tool result or a thought that one request has left out is not sent again
\* with a later one: what is behind the cached prefix only ever gets shorter.
Thoughts(m, j) == Cardinality({place \in Places(m) : place[1] = j /\ IsThought(At(m, place))})
PartsIn(messages) ==
  UNION {{<<m.turn, j>> : j \in DOMAIN m.parts} : m \in {x \in Range(messages) : x.turn > 0}}
InFull(messages) ==
  {part \in PartsIn(messages) :
     \E m \in Range(messages) :
       /\ m.turn = part[1]
       /\ m.parts[part[2]].texts # Pruned
       /\ Thoughts(m, part[2]) = Thoughts(talk[part[1]], part[2])}
CutStaysCut ==
  [][PartsIn(request.messages) \cap InFull(request.messages)' \subseteq InFull(request.messages)]_agentVars

\* "same order = same cache prefix", for tools that have a name: from the second
\* request on the system prompt and the order of the tools leave as they did
\* before, in whatever order the agent names them; and the tools change only
\* when the first call has been seen, or when the context optimizer has cut
\* the conversation, and the calls with it.
Names(prefix) == [i \in DOMAIN prefix.tools |-> prefix.tools[i].name]
AllFull(prefix, full) == \A tool \in Range(prefix.tools) : tool.full = full
PrefixStays ==
  [][format = "anthropic" /\ Len(request.messages) > 1 =>
       /\ request'.prefix.system = request.prefix.system
       /\ Names(request'.prefix) = Names(request.prefix)
       /\ \/ request'.prefix = request.prefix
          \/ AllFull(request.prefix, TRUE) /\ AllFull(request'.prefix, FALSE)
          \/ IsCut]_agentVars

\* Finding.

\* The same as PlaceholdersPoint, however many tracebacks a message has.
PlaceholdersAlwaysPoint == Points(request.messages)
================================================================================
