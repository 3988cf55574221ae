----------------------------- MODULE MessageHistory -----------------------------
(***************************************************************************)
(* What run_pipeline does to the list of messages of a request: the        *)
(* context optimizer (src/context.rs), the sliding window of OpenClaw      *)
(* (src/openclaw.rs) and the semantic stage (src/server.rs:356-419) each   *)
(* may replace the older messages by a summary.  The proxy keeps nothing   *)
(* between two requests; the client sends its whole conversation again.    *)
(*                                                                         *)
(* A message is known by its turn in the conversation, 0 for what the      *)
(* proxy writes itself.  Its content is a string or an array of blocks.    *)
(* Clients of the Anthropic API put tool_use and tool_result in blocks;    *)
(* those of the OpenAI API in tool_calls and in messages of role "tool",   *)
(* beside a content that is a string.                                      *)
(***************************************************************************)
EXTENDS Integers, SequencesExt, Lists

CONSTANTS
  PreserveTurns,   \* preserve_recent_turns, 4
  MinTurns,        \* min_turns_for_summary, 6
  WindowTurns,     \* sliding_window_preserve_turns, 5
  WindowSlack,     \* the window drops nothing below preserve + 4 messages
  SemanticKeep,    \* the semantic stage keeps the last 4 messages ...
  SemanticMin,     \* ... of more than 6
  MaxMessages      \* bound on the length of a conversation

ASSUME PreserveAssumption ==
  /\ PreserveTurns \in Nat \ {0} /\ MinTurns \in Nat /\ MinTurns >= 3
  /\ WindowTurns \in Nat \ {0} /\ WindowSlack \in Nat
  /\ SemanticKeep \in Nat \ {0} /\ SemanticMin \in Nat /\ SemanticMin >= SemanticKeep
ASSUME BoundAssumption == MaxMessages \in Nat /\ MaxMessages >= 2

VARIABLES
  api,       \* whose format the client speaks
  history,   \* the messages of the conversation, as the client holds them
  turns,     \* how many messages the conversation has had
  stage,     \* what comes next: the client, or a stage of run_pipeline
  working,   \* the messages of the request on their way through the stages
  cuts       \* the stages that replaced older messages of this request

vars == <<api, history, turns, stage, working, cuts>>

Stage == {"context", "openclaw", "semantic"}
ToolId == (1..MaxMessages) \X {1, 2}
Content == {"string", "blocks"}
Message == [role : {"system", "user", "assistant", "tool"}, content : Content,
            text : BOOLEAN, uses : SUBSET ToolId, results : SUBSET ToolId,
            turn : 0..MaxMessages]

Says(role, content, turn) == [role |-> role, content |-> content, text |-> TRUE,
                              uses |-> {}, results |-> {}, turn |-> turn]

Ending(s, n) == SubSeq(s, Len(s) - n + 1, Len(s))
AtMost(m, n) == IF m < n THEN m ELSE n
-------------------------------------------------------------------------------
(* The client. *)

Room(n) == turns + n <= MaxMessages
Say(messages) ==
  /\ Room(Len(messages))
  /\ turns' = turns + Len(messages)
  /\ history' = history \o messages

Open(m) == m.uses # {} /\ m.turn = turns

\* The user asks; only after a message that left no call open.
UserAsks ==
  /\ stage = "client" /\ turns > 0
  /\ history = <<>> \/ ~Open(Last(history))
  /\ Say(<<Says("user", "string", turns + 1)>>)
  /\ stage' = "context" /\ working' = history' /\ cuts' = {}
  /\ UNCHANGED api

Answer(ids, text) ==
  IF api = "anthropic"
  THEN <<[Says("user", "blocks", turns + 1) EXCEPT !.results = ids, !.text = text]>>
  ELSE LET seq == SetToSeq(ids) IN
       [i \in 1..Len(seq) |-> [Says("tool", "string", turns + i)
                                 EXCEPT !.results = {seq[i]}]]

\* The agent answers every call of the last message, perhaps with a remark.
ToolsAnswer ==
  /\ stage = "client" /\ history # <<>> /\ Open(Last(history))
  /\ \E text \in BOOLEAN : Say(Answer(Last(history).uses, text))
  /\ stage' = "context" /\ working' = history' /\ cuts' = {}
  /\ UNCHANGED api

\* The answer of the model: a text, or one or two calls of tools.
ModelAnswers ==
  /\ stage = "upstream"
  /\ \E calls \in {{}, {1}, {1, 2}} :
       LET uses == {turns + 1} \X calls
           content == IF api = "anthropic" THEN "blocks" ELSE "string"
       IN  Say(<<[Says("assistant", content, turns + 1) EXCEPT !.uses = uses]>>)
  /\ stage' = "client" /\ working' = <<>> /\ cuts' = {}
  /\ UNCHANGED api

\* A client with a memory of its own may forget any message but the last.
ClientForgets ==
  /\ stage = "client"
  /\ \E i \in 1..Len(history) - 1 : history' = RemoveAt(history, i)
  /\ UNCHANGED <<api, turns, stage, working, cuts>>
-------------------------------------------------------------------------------
(* ContextOptimizer::repair_tool_pairs. *)

tool_uses(m) == IF m.content = "blocks" THEN m.uses ELSE {}
tool_results(m) == IF m.content = "blocks" THEN m.results ELSE {}

Orphaned(recent) ==
  (UNION {tool_results(m) : m \in Range(recent)})
    \ (UNION {tool_uses(m) : m \in Range(recent)})

owners(older, ids) ==
  {m \in Range(older) : m.role = "assistant" /\ tool_uses(m) \cap ids # {}}

still_orphaned(older, recent) ==
  Orphaned(recent) \ (UNION {tool_uses(m) : m \in owners(older, Orphaned(recent))})

\* A message is recovered once, however many of its calls are answered; the
\* order comes from iterating a HashSet.
RecoveredPerCall(older, ids) ==
  {[i \in 1..Len(seq) |-> CHOOSE m \in owners(older, {seq[i]}) : TRUE] :
     seq \in SetToSeqs({id \in ids : owners(older, {id}) # {}})}
Recovered(older, ids) == SetToSeqs(owners(older, ids))

NeverEmpty(m) == FALSE
IsEmpty(m) == ~m.text /\ m.uses = {} /\ m.results = {}

\* Blocks whose use is nowhere are dropped, then messages left without blocks.
NoneDropped(older, recent) == recent
Without(recent, ids) ==
  [i \in 1..Len(recent) |->
     IF recent[i].content = "blocks" THEN [recent[i] EXCEPT !.results = @ \ ids] ELSE recent[i]]
NotEmptied(messages) ==
  Only(messages, {m \in Range(messages) : m.content = "string" \/ ~IsEmpty(m)})
AllDropped(older, recent) == NotEmptied(Without(recent, Orphaned(recent)))
RepairedRecent(older, recent) == NotEmptied(Without(recent, still_orphaned(older, recent)))

RecoveredBehind(recovered, recent) == recent \o recovered
RecoveredInFront(recovered, recent) == recovered \o recent
-------------------------------------------------------------------------------
(* The stages.  Whether a request is above a stage's token threshold, and    *)
(* whether there is anything to summarise, is left open.                     *)

SummaryAndAck == <<Says("user", "string", 0), Says("assistant", "string", 0)>>

Goto(from, to) == stage = from /\ stage' = to

\* A disabled or idle stage, and one whose summary is empty or fails.
Pass(from, to) == Goto(from, to) /\ UNCHANGED <<api, history, turns, working, cuts>>

Cut(from, messages) ==
  /\ working' = messages
  /\ cuts' = cuts \cup {from}
  /\ UNCHANGED <<api, history, turns>>

PreserveOneLess(total) == AtMost(2 * PreserveTurns, total - 2) - 1
PreserveCount(total) == AtMost(2 * PreserveTurns, total - 2)

ContextOptimize ==
  /\ Goto("context", "openclaw")
  /\ Len(working) >= MinTurns
  /\ LET split == Len(working) - PreserveCount(Len(working))
         older == SubSeq(working, 1, split)
         recent == SubSeq(working, split + 1, Len(working))
     IN \E recovered \in Recovered(older, Orphaned(recent)) :
          Cut("context", SummaryAndAck \o
                         RecoveredInFront(recovered, RepairedRecent(older, recent)))

\* The window looks at positions alone, and drops the older messages without a
\* word when their texts are empty; of what it keeps it only rewrites the text
\* of tool results and thoughts.
SlidingWindow ==
  /\ Goto("openclaw", "semantic")
  /\ Len(working) > 2 * WindowTurns + WindowSlack
  /\ \E summary \in {SummaryAndAck, <<>>} :
       Cut("openclaw", summary \o Ending(working, 2 * WindowTurns))

NonSystem(messages) == Only(messages, {m \in Range(messages) : m.role # "system"})

\* The first system message, if its content is a string.
SystemInMessages(messages) ==
  LET system == Only(messages, {m \in Range(messages) : m.role = "system"})
  IN  IF system # <<>> /\ system[1].content = "string" THEN <<system[1]>> ELSE <<>>

PreservedWithoutCalls(messages) ==
  LET kept == Ending(NonSystem(messages), SemanticKeep)
  IN  Only(kept, {m \in Range(kept) : m.uses = {}})
Preserved(messages) == Ending(NonSystem(messages), SemanticKeep)

CondenseHistory ==
  /\ Goto("semantic", "engine")
  /\ Len(NonSystem(working)) > SemanticMin
  /\ Cut("semantic", SystemInMessages(working) \o SummaryAndAck \o Preserved(working))
-------------------------------------------------------------------------------
Init ==
  /\ api \in {"anthropic", "openai"}
  /\ \E system \in {"absent"} \cup (IF api = "openai" THEN Content ELSE {}) :
       LET first == IF system = "absent" THEN <<>> ELSE <<Says("system", system, 1)>>
       IN  history = first \o <<Says("user", "string", Len(first) + 1)>>
  /\ turns = Len(history)
  /\ stage = "context" /\ working = history /\ cuts = {}

Pipeline ==
  \/ ContextOptimize \/ Pass("context", "openclaw")
  \/ SlidingWindow   \/ Pass("openclaw", "semantic")
  \/ CondenseHistory \/ Pass("semantic", "engine")

Client == UserAsks \/ ToolsAnswer \/ ModelAnswers \/ ClientForgets

\* compress_request rewrites messages one by one (see RequestCompression).
Engine == Pass("engine", "upstream")

Next == Pipeline \/ Engine \/ Client

Spec == Init /\ [][Next]_vars
-------------------------------------------------------------------------------
TypeOK ==
  /\ api \in {"anthropic", "openai"}
  /\ history \in Seq(Message) /\ working \in Seq(Message)
  /\ \A m \in Range(history) \cup Range(working) :
       m.text \/ m.uses \cup m.results # {}
  /\ turns \in 1..MaxMessages
  /\ stage \in Stage \cup {"client", "engine", "upstream"}
  /\ cuts \subseteq Stage

Carries(m) == m.results # {}

\* The result is one of the messages that directly follow its call.
Owned(messages, i, id) ==
  \E j \in 1..i - 1 :
    /\ id \in messages[j].uses
    /\ \A k \in j + 1..i : Carries(messages[k])

\* Every call is answered by the messages that directly follow it.
Answered(messages) ==
  \A j \in 1..Len(messages) : \A id \in messages[j].uses :
    \E i \in j + 1..Len(messages) :
      id \in messages[i].results /\ Owned(messages, i, id)

Paired(messages) ==
  /\ Answered(messages)
  /\ \A i \in 1..Len(messages) : \A id \in messages[i].results : Owned(messages, i, id)

\* "Ensure every tool_result in recent has a matching tool_use"
\* (context.rs:181): after the context optimizer has cut, every tool_result
\* block has its tool_use in an earlier message, even if the client itself had
\* lost it before.
ResultsHaveUses ==
  stage = "openclaw" /\ "context" \in cuts =>
    \A i \in 1..Len(working) : \A id \in tool_results(working[i]) :
      \E j \in 1..i - 1 : id \in tool_uses(working[j])

\* A well-formed conversation with tool blocks stays well-formed when the
\* context optimizer cuts between a call and its results: both APIs want the
\* results right behind the call, and all of them.
ContextKeepsPairs ==
  stage = "openclaw" /\ api = "anthropic" /\ Paired(history) => Paired(working)

\* No sequence of cuts leaves a call without its results, in either format.
CallsStayAnswered == stage # "client" /\ Answered(history) => Answered(working)

\* The window and the semantic stage repair nothing, and for messages of role
\* "tool" nothing does.  What a cut can break in a well-formed conversation is
\* confined to the results right behind it: only there is the call missing.
OrphansOnlyAtTheCut ==
  Paired(history) =>
    \A i \in 1..Len(working) : \A id \in working[i].results :
      \/ Owned(working, i, id)
      \/ \A k \in 1..i : Carries(working[k]) \/ working[k].turn = 0
                                             \/ working[k].role = "system"

\* Whatever is cut, recovered and moved, the conversation reaches the model in
\* order and no message twice.
InOrderOnce ==
  \A i, j \in 1..Len(working) :
    i < j /\ working[i].turn # 0 => \/ working[j].turn > working[i].turn
                                    \/ working[j].turn = 0 /\ working[i].role = "system"

\* The latest messages reach the model as they are, as many as the narrowest
\* of the stages that cut promises to keep.
Promised(total) ==
  [context |-> AtMost(2 * PreserveTurns, total - 2), openclaw |-> 2 * WindowTurns,
   semantic |-> SemanticKeep]
LatestTurnsSurvive ==
  stage # "client" /\ Paired(history) =>
    \E n \in {Len(history)} \cup {Promised(Len(history))[c] : c \in cuts} :
      /\ \A c \in cuts : n <= Promised(Len(history))[c]
      /\ Ending(working, n) = Ending(history, n)

\* Findings.

HasSystem(messages) == \E m \in Range(messages) : m.role = "system"

\* "Keep any system message at the front" (server.rs:400).
SemanticKeepsSystem ==
  [][stage = "semantic" /\ HasSystem(working) => HasSystem(working')]_vars
===============================================================================
