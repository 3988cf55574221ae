------------------------------ MODULE ChatExchange ------------------------------
(***************************************************************************)
(* One client of POST /v1/chat/completions (src/server.rs) and the         *)
(* translation between the formats of OpenAI and Anthropic                 *)
(* (src/providers/mod.rs): which provider a request goes to, what it says  *)
(* there, and what comes back, as one body or as a stream of events that   *)
(* the network hands over in chunks of its own choosing.  The client puts  *)
(* what it has read into its next request.                                 *)
(*                                                                         *)
(* run_pipeline, between the translation and the provider, is the subject  *)
(* of other modules and left out.  A request of this path never has tools: *)
(* openai_to_anthropic does not copy them.                                 *)
(***************************************************************************)
EXTENDS Naturals, FiniteSets, SequencesExt, Lists

CONSTANTS
  Models,      \* model names, each the set of what detect_provider finds in it
  MaxPieces,   \* bound on the pieces of an answer
  MaxAsked,    \* bound on the exchanges
  MaxSplits    \* bound on the events of a stream that chunks cut in two

ASSUME ExchangeAssumption == MaxPieces \in Nat

VARIABLES
  chat,      \* the messages the client holds
  answers,   \* answers[t]: the pieces of what the model said in exchange t
  call,      \* the exchange in progress
  wire,      \* the events of the stream that have not arrived yet
  half,      \* how much of the first of them has
  splits,    \* the places of the events that were cut in two
  reader,    \* what the client has read of this exchange
  hurt       \* exchanges in which something was cut, broken off or garbled

chatVars == <<chat, answers, call, wire, half, splits, reader, hurt>>

Saying(role, turn, texts) == [role |-> role, turn |-> turn, texts |-> texts]
SaidBy(messages, roles) == Only(messages, {m \in Range(messages) : m.role \in roles})
-------------------------------------------------------------------------------
(* Where a request goes. *)

Providers == {"anthropic", "openai", "gemini", "openrouter", "hpc", "xai", "local"}

\* The first of these that is in the name decides, unless a header names one.
Hints ==
  <<<<"azure_ai/", "hpc">>, <<"grok", "xai">>, <<"claude", "anthropic">>, <<"gemini", "gemini">>,
    <<"gpt-", "openai">>, <<"/", "openrouter">>>>
detect_provider(name, header) ==
  LET found == SelectSeq(Hints, LAMBDA f : f[1] \in name)
  IN  IF header \in Providers THEN header
      ELSE IF found = <<>> THEN "openai" ELSE found[1][2]

needs_conversion(provider) == provider = "anthropic"
auth_style(provider) ==
  CASE provider = "anthropic" -> "x-api-key" [] provider = "local" -> "none" [] OTHER -> "bearer"

\* Whether the provider gets a key it can use.  For Anthropic an Authorization
\* that is not a bearer token hides the key of the configuration.
Credentials == {c \in SUBSET {"x-api-key", "bearer", "basic"} : ~{"bearer", "basic"} \subseteq c}
build_upstream_headers(style, credentials, configured) ==
  CASE style = "x-api-key" -> \/ {"x-api-key", "bearer"} \cap credentials # {}
                              \/ configured /\ credentials = {}
    [] style = "bearer"    -> \/ "bearer" \in credentials
                              \/ "basic" \notin credentials /\ (configured \/ "x-api-key" \in credentials)
    [] OTHER               -> TRUE
-------------------------------------------------------------------------------
(* The two translations. *)

openai_to_anthropic(messages) ==
  [system   |-> SaidBy(messages, {"system"}),
   messages |-> SaidBy(messages, {"user", "assistant"})]
unchanged_body(messages) == [system |-> <<>>, messages |-> messages]

\* The text blocks of a response, joined.  A body that is not JSON has none.
first_block(blocks) == IF blocks = <<>> THEN blocks ELSE <<blocks[1]>>
anthropic_to_openai_response(blocks) == blocks

\* What a client makes of the lines it receives.  An event that is cut inside
\* its JSON is two lines the translation does not know and passes on: the first
\* one still begins with "data: " and has no empty line after it, so the client
\* takes it and the next event for one and can read neither.  Cut inside
\* "data: ", both lines are ones a client ignores.
Out(is, text) == [is |-> is, text |-> text]
Event(is, text, at) == [is |-> is, text |-> text, at |-> at]
Translated(e) ==
  CASE e.is = "text"  -> <<Out("text", e.text)>>
    [] e.is = "stop"  -> <<Out("stop", 0), Out("done", 0)>>
    [] OTHER          -> <<>>
unknown_passed_on(chunk) ==
  FlattenSeq([i \in DOMAIN chunk |->
    CASE chunk[i].part = "whole" ->
           IF chunk[i].event.is \in {"start", "error"} THEN <<Out("open", 0)>> ELSE Translated(chunk[i].event)
      [] chunk[i].part = "json"  -> <<Out("open", 0)>>
      [] OTHER                   -> <<>>])
convert_sse_anthropic_to_openai(chunk) ==
  FlattenSeq([i \in DOMAIN chunk |->
    CASE chunk[i].part = "whole" -> Translated(chunk[i].event)
      [] chunk[i].part = "json"  -> <<Out("open", 0)>>
      [] OTHER                   -> <<>>])

\* The stream of a provider that speaks OpenAI's format is not touched: the
\* client puts the halves together.
pass_through(chunk) ==
  FlattenSeq([i \in DOMAIN chunk |->
    IF chunk[i].part \in {"whole", "rest"} THEN Translated(chunk[i].event) ELSE <<>>])

\* The client skips what it cannot read.
Nothing == [texts |-> <<>>, open |-> FALSE, stopped |-> FALSE, ended |-> FALSE]
Read(r, out) ==
  IF r.open /\ out.is # "open" THEN [r EXCEPT !.open = FALSE]
  ELSE CASE out.is = "text" -> [r EXCEPT !.texts = Append(@, out.text)]
         [] out.is = "stop" -> [r EXCEPT !.stopped = TRUE]
         [] out.is = "done" -> [r EXCEPT !.ended = TRUE]
         [] out.is = "open" -> [r EXCEPT !.open = TRUE]
ReadAll(r, lines) == FoldLeft(Read, r, lines)
-------------------------------------------------------------------------------
Idle == [phase |-> "idle", stream |-> FALSE, converts |-> FALSE, keyed |-> FALSE,
         body |-> unchanged_body(<<>>)]

ChatInit ==
  /\ chat = <<>> /\ answers = <<>> /\ hurt = {}
  /\ call = Idle /\ wire = <<>> /\ half = "none" /\ splits = {} /\ reader = Nothing

turn == Len(answers)
AllPieces(n) == [k \in 1..n |-> k]
streamVars == <<wire, half, splits>>

\* The client asks, with an instruction or without one.
chat_completions(stream, provider, credentials, configured, instruct) ==
  LET asked == Saying("user", turn + 1, <<0>>)
      grown == chat \o (IF instruct THEN <<Saying("system", turn + 1, <<0>>), asked>> ELSE <<asked>>)
      converts == needs_conversion(provider)
  IN  /\ chat' = grown
      /\ answers' = Append(answers, <<>>)
      /\ call' = [phase |-> "upstream", stream |-> stream, converts |-> converts,
                  keyed |-> build_upstream_headers(auth_style(provider), credentials, configured),
                  body |-> IF converts THEN openai_to_anthropic(grown) ELSE unchanged_body(grown)]
AskModel ==
  /\ call.phase = "idle" /\ turn < MaxAsked
  /\ \E name \in Models, header \in {"anthropic", "none"}, stream \in BOOLEAN, instruct \in BOOLEAN,
        credentials \in Credentials, configured \in BOOLEAN :
       chat_completions(stream, detect_provider(name, header), credentials, configured, instruct)
  /\ reader' = Nothing /\ splits' = {}
  /\ UNCHANGED <<wire, half, hurt>>

\* A transport error is answered with 502, an error of the provider is passed
\* on: the client keeps its question.
Fails ==
  /\ call.phase = "upstream"
  /\ call' = [call EXCEPT !.phase = "idle"]
  /\ UNCHANGED <<chat, answers, streamVars, reader, hurt>>

\* A whole body.  One that broke off is not JSON, and translated to an answer
\* without text, with status 200; untranslated, the client cannot read it.
Body(n, garbled) ==
  /\ call.phase = "upstream" /\ call.keyed /\ ~call.stream
  /\ answers' = [answers EXCEPT ![turn] = AllPieces(n)]
  /\ hurt' = IF garbled THEN hurt \cup {turn} ELSE hurt
  /\ IF garbled /\ ~call.converts THEN UNCHANGED <<reader, chat>>
     ELSE /\ reader' = [Nothing EXCEPT
                          !.texts = CASE garbled       -> anthropic_to_openai_response(<<>>)
                                      [] call.converts -> anthropic_to_openai_response(AllPieces(n))
                                      [] OTHER         -> AllPieces(n),
                          !.stopped = TRUE, !.ended = TRUE]
          /\ chat' = Append(chat, Saying("assistant", turn, reader'.texts))
  /\ call' = [call EXCEPT !.phase = "idle"]
  /\ UNCHANGED streamVars

\* A stream: after its last piece it ends, or with an error.
StartStream(n, error) ==
  /\ call.phase = "upstream" /\ call.keyed /\ call.stream
  /\ answers' = [answers EXCEPT ![turn] = AllPieces(n)]
  /\ wire' = <<Event("start", 0, 0)>> \o [k \in 1..n |-> Event("text", k, k)]
               \o <<Event(IF error THEN "error" ELSE "stop", 0, n + 1)>>
  /\ call' = [call EXCEPT !.phase = "streaming"]
  /\ hurt' = IF error THEN hurt \cup {turn} ELSE hurt
  /\ UNCHANGED <<chat, half, splits, reader>>

\* A chunk: the rest of an event that was cut, whole events, and the first part
\* of the next one, cut inside its JSON or before it.
Chunk(n, cut) ==
  [i \in 1..n |-> [event |-> wire[i], part |-> IF i = 1 /\ half # "none" THEN "rest" ELSE "whole"]]
    \o (IF cut = "none" THEN <<>> ELSE <<[event |-> wire[n + 1], part |-> cut]>>)
Deliver(n, cut) ==
  /\ call.phase = "streaming"
  /\ n > 0 \/ (half = "none" /\ cut # "none")
  /\ cut # "none" => n < Len(wire) /\ Cardinality(splits) < MaxSplits
  /\ LET chunk == Chunk(n, cut)
         lines == IF call.converts THEN convert_sse_anthropic_to_openai(chunk) ELSE pass_through(chunk)
     IN  reader' = ReadAll(reader, lines)
  /\ wire' = SubSeq(wire, n + 1, Len(wire))
  /\ half' = cut
  /\ splits' = IF cut = "none" THEN splits ELSE splits \cup {wire[n + 1].at}
  /\ hurt' = IF cut # "none" /\ call.converts THEN hurt \cup {turn} ELSE hurt
  /\ UNCHANGED <<chat, answers, call>>

\* The stream is over, or breaks off: the client keeps what it has read.
EndOfStream ==
  /\ call.phase = "streaming"
  /\ chat' = IF reader.texts = <<>> THEN chat
             ELSE Append(chat, Saying("assistant", turn, reader.texts))
  /\ call' = [call EXCEPT !.phase = "idle"]
  /\ hurt' = IF wire = <<>> THEN hurt ELSE hurt \cup {turn}
  /\ wire' = <<>> /\ half' = "none"
  /\ UNCHANGED <<answers, splits, reader>>

ChatNext ==
  \/ AskModel \/ Fails \/ EndOfStream
  \/ \E n \in 1..MaxPieces : \E bad \in BOOLEAN : Body(n, bad) \/ StartStream(n, bad)
  \/ \E n \in 0..Len(wire), cut \in {"none", "json", "early"} : Deliver(n, cut)
ChatSpec == ChatInit /\ [][ChatNext]_chatVars
-------------------------------------------------------------------------------
\* A piece of a streamed answer is missing, of what has arrived, only if its own
\* event was cut in two or the one before it; what is there is in order and
\* there once; a stream whose end came whole is seen to end.  A stream that
\* needs no translation loses nothing.
Arrived ==
  Only(answers[turn], {k \in Range(answers[turn]) : \A e \in Range(wire) : e.at > k})
LossIsLocal ==
  call.phase = "streaming" =>
    /\ reader.texts = Only(Arrived, Range(reader.texts))
    /\ \A k \in Range(Arrived) \ Range(reader.texts) :
         call.converts /\ {k - 1, k} \cap splits # {}
    /\ (wire = <<>> /\ turn \notin hurt) => reader.ended

\* What a request tells the model of the conversation: every question once and
\* in order, every instruction, and after the question of an exchange that came
\* through undamaged the whole of what the model then said, whichever provider
\* that was and whichever this request goes to.
Told == SaidBy(call.body.messages, {"user", "assistant"})
RequestsTellWhatWasSaid ==
  call.phase = "upstream" =>
    /\ [i \in 1..turn |-> i] =
         LET asked == SaidBy(Told, {"user"}) IN [i \in DOMAIN asked |-> asked[i].turn]
    /\ \A i \in DOMAIN Told : Told[i].role = "assistant" => Told[i - 1].turn = Told[i].turn
    /\ \A i \in DOMAIN Told :
         Told[i].role = "user" /\ Told[i].turn \notin hurt /\ answers[Told[i].turn] # <<>>
           => Told[i + 1].texts = answers[Told[i].turn]
    /\ \A m \in Range(chat) : m.role = "system" =>
         m \in Range(call.body.system) \cup Range(call.body.messages)

\* Finding.

\* "Output is relayed unchanged" (README.md:19): a client that has been told
\* that the answer is finished has the whole of it.
OutputUnchanged ==
  reader.stopped /\ reader.ended => reader.texts = answers[turn]
================================================================================
