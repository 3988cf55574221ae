------------------------------ MODULE SetupProofs ------------------------------
(***************************************************************************)
(* Proofs about the command line: what the wizard is about to save can be  *)
(* loaded, Enter keeps what is shown, and settings that were reported as   *)
(* set reach the server, for any commands in any number of shells.         *)
(*                                                                         *)
(* The parts, in order: the prompts of all sections are well formed        *)
(* (PromptsGood); what Enter or an answer gives is a value of the type of  *)
(* its prompt; what a round, the wizard and a list of overrides change     *)
(* (SectionsChange, OverridesChange); which files load; what Enter keeps   *)
(* (SectionsExtend).  SetupType then says of every job that it is typed,   *)
(* that an interactive wizard holds what it loaded until it has asked      *)
(* (Fresh), and what its value is worth afterwards (Fits, Kept).           *)
(*                                                                         *)
(* AckedSafe is about what was reported: AckedInFile has it in the file    *)
(* while nobody writes, AckedInHand in the hand of every command that      *)
(* nobody has overlapped with, but for the keys it edits.                  *)
(*                                                                         *)
(* The last part is about the key vault, where the reports that no failure *)
(* and no race has overtaken hold while nobody writes.  KeysInVault says so *)
(* of every vault that is not torn.  KeysInHand carries it to the map of a *)
(* process that could read the vault and that nobody overlapped, until it  *)
(* is written back.  TornWhileSaving excludes the other outcome of such a  *)
(* save, a vault torn by two: it is still the file this process has cut.   *)
(* A torn vault that nobody writes leaves no report (TornExcuses).         *)
(***************************************************************************)
EXTENDS Setup, KeyVault, FoldFacts

\* The keys NyquestConfig knows; those of them that hold a text or a provider's
\* setting; and the prompts as sections() makes them: of a type that fits the key,
\* the optional ones for providers only.
Known == Fields \cup ApiKeys \cup BaseUrls
PlainFields == TextFields \cup ApiKeys \cup BaseUrls
Good ==
  {q \in [key : Known, type : {"Bool", "Int", "Float", "Select", "Text", "Secret"},
          required : BOOLEAN, needs : SUBSET BoolFields] :
     /\ q.type = "Bool" => q.key \in BoolFields
     /\ q.type = "Int" => q.key \in PortFields \cup CountFields
     /\ q.type = "Float" => q.key \in FloatFields
     /\ q.type = "Select" => q.key \in TextFields
     /\ q.type = "Text" => q.key \in TextFields \cup BaseUrls
     /\ q.type = "Secret" => q.key \in ApiKeys
     /\ q.type = "Text" /\ ~q.required => q.key \in BaseUrls
     /\ ~q.required => q.key \in ApiKeys \cup BaseUrls}

\* Ask and Offer make such prompts.
LEMMA AskGood ==
  /\ \A k \in BoolFields : Ask(k, "Bool") \in Good
  /\ \A k \in PortFields \cup CountFields : Ask(k, "Int") \in Good
  /\ \A k \in FloatFields : Ask(k, "Float") \in Good
  /\ \A k \in TextFields : Ask(k, "Select") \in Good
  /\ \A k \in TextFields \cup BaseUrls : Ask(k, "Text") \in Good
  /\ \A k \in BaseUrls : Offer(k, "Text") \in Good
  /\ \A k \in ApiKeys : Offer(k, "Secret") \in Good
<1>1. \A k \in BoolFields : Ask(k, "Bool") \in Good
  BY DEF Ask, Good, Known, Fields
<1>2. \A k \in PortFields \cup CountFields : Ask(k, "Int") \in Good
  BY DEF Ask, Good, Known, Fields
<1>3. \A k \in FloatFields : Ask(k, "Float") \in Good
  BY DEF Ask, Good, Known, Fields
<1>4. \A k \in TextFields : Ask(k, "Select") \in Good
  BY DEF Ask, Good, Known, Fields
<1>5. \A k \in TextFields \cup BaseUrls : Ask(k, "Text") \in Good
  BY DEF Ask, Good, Known, Fields
<1>6. \A k \in BaseUrls : Offer(k, "Text") \in Good
  BY DEF Ask, Offer, Good, Known
<1>7. \A k \in ApiKeys : Offer(k, "Secret") \in Good
  BY DEF Ask, Offer, Good, Known
<1>8. QED
  BY <1>1, <1>2, <1>3, <1>4, <1>5, <1>6, <1>7

\* A condition on switches leaves prompts well formed.
LEMMA IfGood ==
  ASSUME NEW s \in Seq(Good), NEW switches \in SUBSET BoolFields
  PROVE  If(switches, s) \in Seq(Good)
<1>1. \A q \in Good : [q EXCEPT !.needs = switches] \in Good
  BY DEF Good
<1>2. s \in [1..Len(s) -> Good] /\ Len(s) \in Nat /\ DOMAIN s = 1..Len(s)
  OBVIOUS
<1>3. If(switches, s) \in [1..Len(s) -> Good]
  BY <1>1, <1>2 DEF If
<1>4. QED
  BY <1>2, <1>3

\* So does joining two lists of them.
LEMMA JoinGood ==
  ASSUME NEW s \in Seq(Good), NEW t \in Seq(Good)
  PROVE  s \o t \in Seq(Good)
OBVIOUS

\* The sections, one by one: server.
LEMMA ServerGood == ServerSection \in Seq(Good)
<1>1. "host" \in TextFields /\ "port" \in PortFields /\ "request_timeout" \in CountFields
  BY DEF TextFields, PortFields, CountFields
<1>2. QED
  BY <1>1, AskGood DEF ServerSection

\* The keys of the providers are among ApiKeys and BaseUrls.
LEMMA ApiKeysOf ==
  /\ \A p \in {"anthropic", "openai", "gemini", "xai", "openrouter"} :
       ApiKey[p] \in ApiKeys /\ BaseUrl[p] \in BaseUrls
  /\ BaseUrl["local"] \in BaseUrls
BY DEF ApiKeys, BaseUrls, ApiKey, BaseUrl, Range

\* providers.
LEMMA ProviderGood == ProviderSection \in Seq(Good)
<1> DEFINE both(p) == <<Offer(ApiKey[p], "Secret"), Ask(BaseUrl[p], "Text")>>
<1>1. \A p \in {"anthropic", "openai", "gemini", "xai", "openrouter"} : both(p) \in Seq(Good)
  BY AskGood, ApiKeysOf
<1>2. <<Offer(BaseUrl["local"], "Text")>> \in Seq(Good)
  BY AskGood, ApiKeysOf
<1>3. ProviderSection = both("anthropic") \o both("openai") \o both("gemini") \o both("xai")
        \o both("openrouter") \o <<Offer(BaseUrl["local"], "Text")>>
  BY DEF ProviderSection
<1> HIDE DEF both
<1>4. QED
  BY <1>1, <1>2, <1>3, JoinGood

\* compression.
LEMMA CompressionGood == CompressionSection \in Seq(Good)
<1>1. /\ {"compression_level"} \subseteq FloatFields
      /\ {"adaptive_mode", "allow_header_override"} \subseteq BoolFields
  BY DEF FloatFields, BoolFields
<1>2. <<Ask("compression_level", "Float"), Ask("adaptive_mode", "Bool"),
         Ask("allow_header_override", "Bool")>> \in Seq(Good)
  BY <1>1, AskGood
<1>3. QED
  BY <1>2 DEF CompressionSection

\* normalization.
LEMMA NormalizationGood == NormalizationSection \in Seq(Good)
<1>1. /\ {"normalize", "inject_boundaries"} \subseteq BoolFields
  BY DEF BoolFields
<1>2. <<Ask("normalize", "Bool"), Ask("inject_boundaries", "Bool")>> \in Seq(Good)
  BY <1>1, AskGood
<1>3. QED
  BY <1>2 DEF NormalizationSection

\* context optimization, behind its switch.
LEMMA ContextGood == ContextSection \in Seq(Good)
<1>1. /\ {"context_optimization"} \subseteq BoolFields
      /\ {"context_max_input_tokens", "context_preserve_recent_turns",
         "context_min_turns"} \subseteq CountFields
  BY DEF BoolFields, CountFields
<1>2. <<Ask("context_optimization", "Bool")>> \in Seq(Good)
  BY <1>1, AskGood
<1>3. <<Ask("context_max_input_tokens", "Int"),
         Ask("context_preserve_recent_turns", "Int"), Ask("context_min_turns",
         "Int")>> \in Seq(Good)
  BY <1>1, AskGood
<1>4. If({"context_optimization"},
         <<Ask("context_max_input_tokens", "Int"),
         Ask("context_preserve_recent_turns", "Int"), Ask("context_min_turns",
         "Int")>>) \in Seq(Good)
  BY <1>1, <1>3, IfGood
<1>5. QED
  BY <1>2, <1>4, JoinGood DEF ContextSection

\* agent mode, behind one switch or two.
LEMMA OpenClawGood == OpenClawSection \in Seq(Good)
<1>1. /\ {"openclaw_mode", "openclaw_schema_minimize", "openclaw_dedup_errors",
         "openclaw_condense_views", "openclaw_cache_control",
         "openclaw_sliding_window"} \subseteq BoolFields
      /\ {"openclaw_tool_prune_turns", "openclaw_thought_prune_turns",
         "openclaw_sliding_window_max_tokens",
         "openclaw_sliding_window_preserve"} \subseteq CountFields
      /\ {"openclaw_sliding_window_threshold"} \subseteq FloatFields
  BY DEF BoolFields, CountFields, FloatFields
<1>2. <<Ask("openclaw_mode", "Bool")>> \in Seq(Good)
  BY <1>1, AskGood
<1>3. <<Ask("openclaw_tool_prune_turns", "Int"),
         Ask("openclaw_thought_prune_turns", "Int"),
         Ask("openclaw_schema_minimize", "Bool"), Ask("openclaw_dedup_errors",
         "Bool"), Ask("openclaw_condense_views", "Bool"),
         Ask("openclaw_cache_control", "Bool"), Ask("openclaw_sliding_window",
         "Bool")>> \in Seq(Good)
  BY <1>1, AskGood
<1>4. If({"openclaw_mode"},
         <<Ask("openclaw_tool_prune_turns", "Int"),
         Ask("openclaw_thought_prune_turns", "Int"),
         Ask("openclaw_schema_minimize", "Bool"), Ask("openclaw_dedup_errors",
         "Bool"), Ask("openclaw_condense_views", "Bool"),
         Ask("openclaw_cache_control", "Bool"), Ask("openclaw_sliding_window",
         "Bool")>>) \in Seq(Good)
  BY <1>1, <1>3, IfGood
<1>5. <<Ask("openclaw_sliding_window_threshold", "Float"),
         Ask("openclaw_sliding_window_max_tokens", "Int"),
         Ask("openclaw_sliding_window_preserve", "Int")>> \in Seq(Good)
  BY <1>1, AskGood
<1>6. If({"openclaw_mode", "openclaw_sliding_window"},
         <<Ask("openclaw_sliding_window_threshold", "Float"),
         Ask("openclaw_sliding_window_max_tokens", "Int"),
         Ask("openclaw_sliding_window_preserve", "Int")>>) \in Seq(Good)
  BY <1>1, <1>5, IfGood
<1>7. QED
  BY <1>2, <1>4, <1>6, JoinGood DEF OpenClawSection

\* response compression.
LEMMA ResponseGood == ResponseSection \in Seq(Good)
<1>1. /\ {"compress_responses"} \subseteq BoolFields
      /\ {"response_compression_age"} \subseteq CountFields
  BY DEF BoolFields, CountFields
<1>2. <<Ask("compress_responses", "Bool")>> \in Seq(Good)
  BY <1>1, AskGood
<1>3. <<Ask("response_compression_age", "Int")>> \in Seq(Good)
  BY <1>1, AskGood
<1>4. If({"compress_responses"},
         <<Ask("response_compression_age", "Int")>>) \in Seq(Good)
  BY <1>1, <1>3, IfGood
<1>5. QED
  BY <1>2, <1>4, JoinGood DEF ResponseSection

\* privacy and the key vault.
LEMMA SecurityGood == SecuritySection \in Seq(Good)
<1>1. /\ {"privacy_mode", "encrypt_keys"} \subseteq BoolFields
      /\ {"vault_path"} \subseteq TextFields
  BY DEF BoolFields, TextFields
<1>2. <<Ask("privacy_mode", "Bool"), Ask("encrypt_keys", "Bool")>> \in Seq(Good)
  BY <1>1, AskGood
<1>3. <<Ask("vault_path", "Text")>> \in Seq(Good)
  BY <1>1, AskGood
<1>4. If({"encrypt_keys"},
         <<Ask("vault_path", "Text")>>) \in Seq(Good)
  BY <1>1, <1>3, IfGood
<1>5. QED
  BY <1>2, <1>4, JoinGood DEF SecuritySection

\* logging.
LEMMA LoggingGood == LoggingSection \in Seq(Good)
<1>1. /\ {"log_metrics"} \subseteq BoolFields
      /\ {"log_file", "log_level"} \subseteq TextFields
  BY DEF BoolFields, TextFields
<1>2. <<Ask("log_metrics", "Bool")>> \in Seq(Good)
  BY <1>1, AskGood
<1>3. <<Ask("log_file", "Text")>> \in Seq(Good)
  BY <1>1, AskGood
<1>4. If({"log_metrics"},
         <<Ask("log_file", "Text")>>) \in Seq(Good)
  BY <1>1, <1>3, IfGood
<1>5. <<Ask("log_level", "Select")>> \in Seq(Good)
  BY <1>1, AskGood
<1>6. QED
  BY <1>2, <1>4, <1>5, JoinGood DEF LoggingSection

\* the semantic stage.
LEMMA SemanticGood == SemanticSection \in Seq(Good)
<1>1. /\ {"semantic_enabled"} \subseteq BoolFields
      /\ {"semantic_endpoint", "semantic_model", "semantic_fallback"} \subseteq
         TextFields
      /\ {"semantic_timeout_ms", "semantic_system_threshold",
         "semantic_history_threshold"} \subseteq CountFields
  BY DEF BoolFields, TextFields, CountFields
<1>2. <<Ask("semantic_enabled", "Bool")>> \in Seq(Good)
  BY <1>1, AskGood
<1>3. <<Ask("semantic_endpoint", "Text"), Ask("semantic_model", "Text"),
         Ask("semantic_timeout_ms", "Int"), Ask("semantic_system_threshold",
         "Int"), Ask("semantic_history_threshold", "Int"),
         Ask("semantic_fallback", "Select")>> \in Seq(Good)
  BY <1>1, AskGood
<1>4. If({"semantic_enabled"},
         <<Ask("semantic_endpoint", "Text"), Ask("semantic_model", "Text"),
         Ask("semantic_timeout_ms", "Int"), Ask("semantic_system_threshold",
         "Int"), Ask("semantic_history_threshold", "Int"),
         Ask("semantic_fallback", "Select")>>) \in Seq(Good)
  BY <1>1, <1>3, IfGood
<1>5. QED
  BY <1>2, <1>4, JoinGood DEF SemanticSection

\* stability.
LEMMA StabilityGood == StabilitySection \in Seq(Good)
<1>1. /\ {"stability_mode"} \subseteq BoolFields
      /\ {"semantic_threshold"} \subseteq FloatFields
  BY DEF BoolFields, FloatFields
<1>2. <<Ask("stability_mode", "Bool")>> \in Seq(Good)
  BY <1>1, AskGood
<1>3. <<Ask("semantic_threshold", "Float")>> \in Seq(Good)
  BY <1>1, AskGood
<1>4. If({"stability_mode"},
         <<Ask("semantic_threshold", "Float")>>) \in Seq(Good)
  BY <1>1, <1>3, IfGood
<1>5. QED
  BY <1>2, <1>4, JoinGood DEF StabilitySection

\* All of sections(), and how many there are.
LEMMA SectionsGood ==
  /\ DOMAIN sections = 1..Len(sections) /\ Len(sections) \in Nat
  /\ \A i \in 1..Len(sections) : sections[i] \in Seq(Good)
<1>1. Len(sections) = 11 /\ DOMAIN sections = 1..11
  BY DEF sections
<1>s1. sections[1] = ServerSection
  BY DEF sections
<1>s2. sections[2] = ProviderSection
  BY DEF sections
<1>s3. sections[3] = CompressionSection
  BY DEF sections
<1>s4. sections[4] = NormalizationSection
  BY DEF sections
<1>s5. sections[5] = ContextSection
  BY DEF sections
<1>s6. sections[6] = OpenClawSection
  BY DEF sections
<1>s7. sections[7] = ResponseSection
  BY DEF sections
<1>s8. sections[8] = SecuritySection
  BY DEF sections
<1>s9. sections[9] = LoggingSection
  BY DEF sections
<1>s10. sections[10] = SemanticSection
  BY DEF sections
<1>s11. sections[11] = StabilitySection
  BY DEF sections
<1>2. \A i \in 1..11 :
      \/ i = 1
      \/ i = 2
      \/ i = 3
      \/ i = 4
      \/ i = 5
      \/ i = 6
      \/ i = 7
      \/ i = 8
      \/ i = 9
      \/ i = 10
      \/ i = 11
  OBVIOUS
<1>3. \A i \in 1..11 : sections[i] \in Seq(Good)
  BY <1>s1, <1>s2, <1>s3, <1>s4, <1>s5, <1>s6, <1>s7, <1>s8, <1>s9, <1>s10, <1>s11, <1>2,
     ServerGood, ProviderGood, CompressionGood, NormalizationGood, ContextGood, OpenClawGood,
     ResponseGood, SecurityGood, LoggingGood, SemanticGood, StabilityGood
<1>4. QED
  BY <1>1, <1>3

\* The prompts of a section, or of all.
LEMMA PromptsGood ==
  ASSUME NEW only \in SectionNumbers
  PROVE  Prompts(only) \subseteq Good
<1>1. \A s \in Seq(Good) : Range(s) \subseteq Good
  BY DEF Range
<1>2. QED
  BY <1>1, SectionsGood DEF Prompts, SectionNumbers
-------------------------------------------------------------------------------
\* What a lookup or a prompt may yield.
Answers == Values \cup {Unset}
\* A port that exceeds 16 bits is let pass.
FitsPrompt(k, v) == FitsField(k, v) \/ (k \in PortFields /\ v.type = "int")

\* Every field has one type.
LEMMA FieldsDisjoint ==
  /\ BoolFields \cap FloatFields = {} /\ BoolFields \cap CountFields = {}
  /\ BoolFields \cap PortFields = {} /\ BoolFields \cap PlainFields = {}
  /\ FloatFields \cap CountFields = {} /\ FloatFields \cap PortFields = {}
  /\ FloatFields \cap PlainFields = {} /\ CountFields \cap PortFields = {}
  /\ CountFields \cap PlainFields = {} /\ PortFields \cap PlainFields = {}
<1>1. PlainFields \cap {"port"} = {}
  BY DEF PlainFields, TextFields, ApiKeys, BaseUrls, ApiKey, BaseUrl, Range
<1>2. BoolFields \cap PlainFields = {}
  BY DEF BoolFields, PlainFields, TextFields, ApiKeys, BaseUrls, ApiKey, BaseUrl, Range
<1>3. FloatFields \cap PlainFields = {}
  BY DEF FloatFields, PlainFields, TextFields, ApiKeys, BaseUrls, ApiKey, BaseUrl, Range
<1>4. CountFields \cap PlainFields = {}
  BY DEF CountFields, PlainFields, TextFields, ApiKeys, BaseUrls, ApiKey, BaseUrl, Range
<1>5. BoolFields \cap FloatFields = {}
  BY DEF BoolFields, FloatFields
<1>6. BoolFields \cap CountFields = {}
  BY DEF BoolFields, CountFields
<1>7. FloatFields \cap CountFields = {}
  BY DEF FloatFields, CountFields
<1>8. "port" \notin BoolFields /\ "port" \notin FloatFields /\ "port" \notin CountFields
  BY DEF BoolFields, FloatFields, CountFields
<1>9. QED
  BY <1>1, <1>2, <1>3, <1>4, <1>5, <1>6, <1>7, <1>8 DEF PortFields

\* What FitsField asks of a key of each kind.
LEMMA FitsFacts ==
  ASSUME NEW k, NEW v
  PROVE  /\ k \in BoolFields => (FitsField(k, v) <=> v.type = "bool")
         /\ k \in FloatFields => (FitsField(k, v) <=> v.type \in {"int", "float"})
         /\ k \in CountFields => (FitsField(k, v) <=> v.type = "int")
         /\ k \in PortFields => (FitsField(k, v) <=> v.type = "int" /\ v.is # "big")
         /\ k \in PlainFields => FitsField(k, v)
<1>1. CASE k \in BoolFields
  BY <1>1, FieldsDisjoint DEF FitsField
<1>2. CASE k \in FloatFields
  BY <1>2, FieldsDisjoint DEF FitsField
<1>3. CASE k \in CountFields
  BY <1>3, FieldsDisjoint DEF FitsField
<1>4. CASE k \in PortFields
  BY <1>4, FieldsDisjoint DEF FitsField
<1>5. CASE k \in PlainFields
  BY <1>5, FieldsDisjoint DEF FitsField
<1>6. QED
  BY <1>1, <1>2, <1>3, <1>4, <1>5

\* The values a scalar may have.
Words == {"default", "zero", "empty", "big", "first", "other", "new"}
\* Which scalars are values; Unset is none.
LEMMA ValuesAre ==
  /\ True \in Values /\ False \in Values /\ True.type = "bool" /\ False.type = "bool"
  /\ \A t \in {"int", "float", "text"}, w \in Words :
       Scalar(t, w) \in Values /\ Scalar(t, w).type = t /\ Scalar(t, w).is = w
  /\ \A v \in Values : v.type \in {"bool", "int", "float", "text"}
  /\ \A v \in Values : v.type \in {"int", "float", "text"} => v.is \in Words
  /\ Unset \notin Values /\ Unset.type = "none"
BY DEF True, False, Values, Scalar, Bool, Unset, Words

\* Enter gives a value of the type of its prompt, or leaves the key alone.
LEMMA EnterAnswers ==
  ASSUME NEW q \in Good, NEW v \in Answers
  PROVE  /\ Enter(q, v) \in Answers
         /\ Enter(q, v) # Unset => FitsPrompt(q.key, Enter(q, v))
<1>1. v \in Values \/ v = Unset
  BY DEF Answers
<1>2. CASE q.type = "Bool"
  <2>1. Enter(q, v) = IF v.type = "bool" THEN v ELSE True
    BY <1>2 DEF Enter
  <2>2. Enter(q, v) \in Values /\ Enter(q, v).type = "bool"
    BY <1>1, <2>1, ValuesAre
  <2>3. QED
    BY <1>2, <2>2, FitsFacts DEF Answers, FitsPrompt, Good
<1>3. CASE q.type = "Select"
  <2>1. Enter(q, v) = IF v.type = "text" /\ v.is \in {"first", "other"}
                      THEN v ELSE Scalar("text", "first")
    BY <1>3 DEF Enter
  <2>2. Enter(q, v) \in Answers
    BY <1>1, <2>1, ValuesAre DEF Answers, Words
  <2>3. q.key \in PlainFields
    BY <1>3 DEF Good, PlainFields
  <2>4. QED
    BY <2>2, <2>3, FitsFacts DEF FitsPrompt
<1>4. CASE q.type = "Secret"
  BY <1>4 DEF Enter, Answers
<1>5. CASE q.type = "Text"
  <2>1. Enter(q, v) = IF v.type = "text" /\ v.is # "empty" THEN v
                      ELSE IF q.required THEN Scalar("text", "empty") ELSE Unset
    BY <1>5 DEF Enter
  <2>2. Enter(q, v) \in Answers
    BY <1>1, <2>1, ValuesAre DEF Answers, Words
  <2>3. q.key \in PlainFields
    BY <1>5 DEF Good, PlainFields
  <2>4. QED
    BY <2>2, <2>3, FitsFacts DEF FitsPrompt
<1>6. CASE q.type = "Int"
  <2>1. Enter(q, v) = IF v.type = "int" THEN v ELSE Scalar("int", "zero")
    BY <1>6 DEF Enter
  <2>2. Enter(q, v) \in Values /\ Enter(q, v).type = "int"
    BY <1>1, <2>1, ValuesAre DEF Words
  <2>3. q.key \in PortFields \cup CountFields
    BY <1>6 DEF Good
  <2>4. QED
    BY <2>2, <2>3, FitsFacts DEF Answers, FitsPrompt
<1>7. CASE q.type = "Float"
  <2>1. Enter(q, v) = IF v.type \in {"int", "float"}
                      THEN Scalar("float", v.is) ELSE Scalar("float", "zero")
    BY <1>7 DEF Enter
  <2>2. Enter(q, v) \in Values /\ Enter(q, v).type = "float"
    BY <1>1, <2>1, ValuesAre DEF Words
  <2>3. q.key \in FloatFields
    BY <1>7 DEF Good
  <2>4. QED
    BY <2>2, <2>3, FitsFacts DEF Answers, FitsPrompt
<1>8. QED
  BY <1>2, <1>3, <1>4, <1>5, <1>6, <1>7 DEF Good

\* So does what may be typed or chosen, a port beyond 16 bits included.
LEMMA TypedAnswers ==
  ASSUME NEW q \in Good, NEW v \in Typed(q)
  PROVE  /\ v \in Answers
         /\ v # Unset => FitsPrompt(q.key, v)
<1>1. CASE q.type = "Bool"
  <2>1. v \in {True, False, Unset}
    BY <1>1 DEF Typed
  <2>2. QED
    BY <1>1, <2>1, ValuesAre, FitsFacts DEF Answers, FitsPrompt, Good
<1>2. CASE q.type \in {"Select", "Secret", "Text"}
  <2>1. v \in {Scalar("text", "first"), Scalar("text", "other"), Scalar("text", "new"), Unset}
    BY <1>2 DEF Typed
  <2>2. v \in Answers
    BY <2>1, ValuesAre DEF Answers, Words
  <2>3. q.key \in PlainFields
    BY <1>2 DEF Good, PlainFields
  <2>4. QED
    BY <2>2, <2>3, FitsFacts DEF FitsPrompt
<1>3. CASE q.type = "Int"
  <2>1. v \in {Scalar("int", "new"), Scalar("int", "big"), Unset}
    BY <1>3 DEF Typed
  <2>2. v \in Answers /\ (v # Unset => v.type = "int")
    BY <2>1, ValuesAre DEF Answers, Words
  <2>3. q.key \in PortFields \cup CountFields
    BY <1>3 DEF Good
  <2>4. QED
    BY <2>2, <2>3, FitsFacts DEF FitsPrompt
<1>4. CASE q.type = "Float"
  <2>1. v \in {Scalar("float", "new"), Unset}
    BY <1>4 DEF Typed
  <2>2. v \in Answers /\ (v # Unset => v.type = "float")
    BY <2>1, ValuesAre DEF Answers, Words
  <2>3. q.key \in FloatFields
    BY <1>4 DEF Good
  <2>4. QED
    BY <2>2, <2>3, FitsFacts DEF FitsPrompt
<1>5. QED
  BY <1>1, <1>2, <1>3, <1>4 DEF Good

\* Enter leaves alone only the keys of providers: nothing else is ever skipped.
LEMMA EnterNothing ==
  ASSUME NEW q \in Good, NEW v \in Answers, Enter(q, v) = Unset
  PROVE  q.type \in {"Secret", "Text"} /\ q.key \in ApiKeys \cup BaseUrls
<1>1. v \in Values \/ v = Unset
  BY DEF Answers
<1>2. CASE q.type = "Bool"
  BY <1>1, <1>2, ValuesAre DEF Enter
<1>3. CASE q.type = "Select"
  BY <1>1, <1>3, ValuesAre DEF Enter, Words
<1>4. CASE q.type = "Int"
  BY <1>1, <1>4, ValuesAre DEF Enter, Words
<1>5. CASE q.type = "Float"
  BY <1>1, <1>5, ValuesAre DEF Enter, Words
<1>6. CASE q.type = "Secret"
  BY <1>6 DEF Good
<1>7. CASE q.type = "Text"
  <2>1. Enter(q, v) = IF v.type = "text" /\ v.is # "empty" THEN v
                      ELSE IF q.required THEN Scalar("text", "empty") ELSE Unset
    BY <1>7 DEF Enter
  <2>2. Scalar("text", "empty") # Unset
    BY ValuesAre DEF Words
  <2>3. ~q.required
    BY <1>1, <2>1, <2>2, ValuesAre
  <2>4. QED
    BY <1>7, <2>3 DEF Good
<1>8. QED
  BY <1>2, <1>3, <1>4, <1>5, <1>6, <1>7 DEF Good
-------------------------------------------------------------------------------
\* z is y but for the pairs in New.
Changed(y, z, New) ==
  /\ DOMAIN y \subseteq DOMAIN z
  /\ \A k \in DOMAIN z : (k \in DOMAIN y /\ z[k] = y[k]) \/ <<k, z[k]>> \in New
\* Every key of y has a value; y is a function; the keys of prompts.
HoldsValues(y) == \A k \in DOMAIN y : y[k] \in Values
IsMap(y) == y = [k \in DOMAIN y |-> y[k]]
KeysOf(prompts) == {q.key : q \in prompts}
\* The pairs that prompts may set.
Settable(prompts) == {kv \in KeysOf(prompts) \X Values : FitsPrompt(kv[1], kv[2])}
\* What was typed is of the type of its prompt.
AnswersWell(typed) ==
  \A q \in Good : q.key \in DOMAIN typed =>
    /\ typed[q.key] \in Answers
    /\ typed[q.key] # Unset => FitsPrompt(q.key, typed[q.key])

\* Two changes are one.
LEMMA ChangedOnwards ==
  ASSUME NEW y, NEW z, NEW u, NEW M, NEW N, NEW New, M \subseteq New, N \subseteq New,
         Changed(y, z, M), Changed(z, u, N)
  PROVE  Changed(y, u, New)
BY DEF Changed

\* What handle_prompt gives, by Enter or by an answer.
LEMMA PromptAnswers ==
  ASSUME NEW q \in Good, NEW yaml, HoldsValues(yaml), NEW typed, AnswersWell(typed)
  PROVE  /\ yaml_get(yaml, q.key) \in Answers
         /\ handle_prompt(q, yaml, typed) \in Answers
         /\ handle_prompt(q, yaml, typed) # Unset =>
              FitsPrompt(q.key, handle_prompt(q, yaml, typed))
<1>1. yaml_get(yaml, q.key) \in Answers
  BY DEF yaml_get, HoldsValues, Answers
<1>2. QED
  BY <1>1, EnterAnswers DEF handle_prompt, AnswersWell

\* A round changes only keys of its prompts, to values of their types, and reports
\* as skipped only keys of providers.
LEMMA RoundChanges ==
  ASSUME NEW w, HoldsValues(w.yaml), NEW prompts \in SUBSET Good,
         NEW typed, AnswersWell(typed)
  PROVE  /\ Changed(w.yaml, Round(w, prompts, typed).yaml, Settable(prompts))
         /\ HoldsValues(Round(w, prompts, typed).yaml) /\ IsMap(Round(w, prompts, typed).yaml)
         /\ Round(w, prompts, typed).skipped \subseteq w.skipped \cup ApiKeys \cup BaseUrls
<1> DEFINE asked == {p \in prompts : Asked(p, w.yaml)}
           set == {p \in asked : handle_prompt(p, w.yaml, typed) # Unset}
           first(k) == CHOOSE p \in set : p.key = k
           new == [k \in {p.key : p \in set} |-> handle_prompt(first(k), w.yaml, typed)]
           after == Round(w, prompts, typed)
<1>1. after.yaml = Overlaid(new, w.yaml)
  BY DEF Round
<1>2. /\ DOMAIN new = {p.key : p \in set}
      /\ \A k \in DOMAIN new : new[k] \in Values /\ <<k, new[k]>> \in Settable(prompts)
  <2>1. DOMAIN new = {p.key : p \in set}
    OBVIOUS
  <2>2. ASSUME NEW k \in {p.key : p \in set}
        PROVE  new[k] \in Values /\ <<k, new[k]>> \in Settable(prompts)
    <3>1. first(k) \in set /\ first(k).key = k
      OBVIOUS
    <3>2. first(k) \in prompts /\ first(k) \in Good
          /\ handle_prompt(first(k), w.yaml, typed) # Unset
      BY <3>1
    <3>3. new[k] = handle_prompt(first(k), w.yaml, typed)
      OBVIOUS
    <3> HIDE DEF new, first
    <3>4. new[k] \in Answers /\ FitsPrompt(k, new[k]) /\ new[k] # Unset
      BY <3>1, <3>2, <3>3, PromptAnswers
    <3>5. QED
      BY <3>1, <3>2, <3>4 DEF Answers, Settable, KeysOf
  <2>3. QED
    BY <2>1, <2>2
<1> HIDE DEF new
<1>3. DOMAIN after.yaml = DOMAIN new \cup DOMAIN w.yaml
      /\ \A k \in DOMAIN after.yaml :
           after.yaml[k] = IF k \in DOMAIN new THEN new[k] ELSE w.yaml[k]
  BY <1>1 DEF Overlaid
<1>4. after.skipped = w.skipped \cup {p.key : p \in {q \in asked :
                     q.key \notin DOMAIN typed /\ Skips(q, w.yaml)}}
  BY DEF Round
<1>5. \A q \in asked : Skips(q, w.yaml) => q.key \in ApiKeys \cup BaseUrls
  BY PromptAnswers, EnterNothing DEF Skips
<1> HIDE DEF asked, after
<1>6. after.skipped \subseteq w.skipped \cup ApiKeys \cup BaseUrls
  BY <1>4, <1>5
<1>m. IsMap(after.yaml)
  BY <1>1 DEF Overlaid, IsMap
<1>7. HoldsValues(after.yaml) /\ Changed(w.yaml, after.yaml, Settable(prompts))
  BY <1>2, <1>3 DEF HoldsValues, Changed
<1>8. QED
  BY <1>6, <1>7, <1>m DEF after

\* So does the whole wizard.
LEMMA SectionsChange ==
  ASSUME NEW w, HoldsValues(w.yaml), NEW prompts \in SUBSET Good,
         NEW typed, AnswersWell(typed)
  PROVE  /\ Changed(w.yaml, run_sections(w, prompts, typed).yaml, Settable(prompts))
         /\ HoldsValues(run_sections(w, prompts, typed).yaml)
         /\ IsMap(run_sections(w, prompts, typed).yaml)
         /\ run_sections(w, prompts, typed).skipped
              \subseteq w.skipped \cup ApiKeys \cup BaseUrls
<1> DEFINE one == Round(w, Under(0, prompts), typed)
           two == Round(one, Under(1, prompts), typed)
           three == Round(two, Under(2, prompts), typed)
<1>1. \A n : /\ Under(n, prompts) \in SUBSET Good
             /\ Settable(Under(n, prompts)) \subseteq Settable(prompts)
  BY DEF Under, Settable, KeysOf
<1>2. run_sections(w, prompts, typed) = three
  BY DEF run_sections
<1>3. /\ Changed(w.yaml, one.yaml, Settable(Under(0, prompts))) /\ HoldsValues(one.yaml)
      /\ one.skipped \subseteq w.skipped \cup ApiKeys \cup BaseUrls
  BY <1>1, RoundChanges
<1> HIDE DEF one
<1>4. /\ Changed(one.yaml, two.yaml, Settable(Under(1, prompts))) /\ HoldsValues(two.yaml)
      /\ two.skipped \subseteq one.skipped \cup ApiKeys \cup BaseUrls
  BY <1>1, <1>3, RoundChanges
<1> HIDE DEF two
<1>5. /\ Changed(two.yaml, three.yaml, Settable(Under(2, prompts))) /\ HoldsValues(three.yaml)
      /\ IsMap(three.yaml)
      /\ three.skipped \subseteq two.skipped \cup ApiKeys \cup BaseUrls
  BY <1>1, <1>4, RoundChanges
<1> HIDE DEF three
<1>6. Changed(w.yaml, two.yaml, Settable(prompts))
  BY <1>1, <1>3, <1>4, ChangedOnwards
<1>7. Changed(w.yaml, three.yaml, Settable(prompts))
  BY <1>1, <1>5, <1>6, ChangedOnwards
<1>8. QED
  BY <1>2, <1>3, <1>4, <1>5, <1>7
-------------------------------------------------------------------------------
\* The set R is closed under the overrides of l.
ClosedUnder(R, l) == \A z \in R, i \in 1..Len(l) : yaml_set(z, l[i][1], l[i][2]) \in R

\* What overrides that keep to R make of a value is in R.
LEMMA OverridesStay ==
  ASSUME NEW S, NEW l \in Seq(S), NEW y, NEW R, y \in R, ClosedUnder(R, l)
  PROVE  apply_overrides(y, l) \in R
<1> DEFINE n == Len(l)
           h == [x \in (1..n) \X R |-> yaml_set(x[2], l[x[1]][1], l[x[1]][2])]
           Set(z, i) == yaml_set(z, l[i][1], l[i][2])
           Rec(f) == f = [s \in SUBSET DOMAIN l |->
                            IF s = {} THEN y
                            ELSE Set(f[s \ {Largest(s)}], Largest(s))]
<1>1. apply_overrides(y, l) = (CHOOSE f : Rec(f))[DOMAIN l]
  BY DEF apply_overrides, FoldLeft, MapThenFoldSet, Max, Largest
<1>2. n \in Nat /\ DOMAIN l = 1..n
  OBVIOUS
<1>3. \A s \in SUBSET (1..n) : s # {} => Largest(s) \in 1..n
  <2> TAKE s \in SUBSET (1..n)
  <2> HAVE s # {}
  <2>1. Largest(s) \in s
    <3> HIDE DEF n
    <3> QED BY <1>2, LargestFacts
  <2>2. QED
    BY <2>1
<1>4. \A i \in 1..n, z \in R : Set(z, i) \in R /\ h[<<i, z>>] = Set(z, i)
  BY DEF ClosedUnder
<1> HIDE DEF n, h, Set
<1>5. ASSUME NEW f, Rec(f)
      PROVE  \A s \in SUBSET (1..n) : f[s] \in R
  <2>1. f[{}] \in R
    BY <1>2, <1>5
  <2>2. \A s \in SUBSET (1..n) : s # {} /\ f[s \ {Largest(s)}] \in R => f[s] \in R
    BY <1>2, <1>3, <1>4, <1>5
  <2>3. QED
    BY <1>2, <2>1, <2>2, FoldValuesTyped
<1>6. ASSUME NEW f, IsFold(f, h, y, n)
      PROVE  Rec(f)
  <2>0. \A s \in SUBSET (1..n) : s # {} => f[s] = h[<<Largest(s), f[s \ {Largest(s)}]>>]
    BY <1>6 DEF IsFold
  <2>1. \A s \in SUBSET (1..n) : f[s] \in R
    <3>1. f[{}] \in R
      BY <1>2, <1>6 DEF IsFold
    <3>2. \A i \in 1..n, z \in R : h[<<i, z>>] \in R
      BY <1>4
    <3>3. \A s \in SUBSET (1..n) : s # {} /\ f[s \ {Largest(s)}] \in R => f[s] \in R
      BY <1>3, <2>0, <3>2
    <3>4. QED
      BY <1>2, <3>1, <3>3, FoldValuesTyped
  <2>2. \A s \in SUBSET (1..n) :
          s # {} => Set(f[s \ {Largest(s)}], Largest(s)) = h[<<Largest(s), f[s \ {Largest(s)}]>>]
    BY <1>3, <1>4, <2>1
  <2>3. [s \in SUBSET (1..n) |-> IF s = {} THEN y ELSE Set(f[s \ {Largest(s)}], Largest(s))]
        = [s \in SUBSET (1..n) |->
             IF s = {} THEN y ELSE h[<<Largest(s), f[s \ {Largest(s)}]>>]]
    BY <2>2
  <2>4. QED
    BY <1>2, <1>6, <2>3 DEF IsFold
<1>7. \E f : Rec(f)
  <2> HIDE DEF Rec
  <2>1. PICK f : IsFold(f, h, y, n)
    BY <1>2, FoldExists
  <2>2. QED
    BY <1>6, <2>1
<1>8. QED
  <2> HIDE DEF Rec
  <2>1. Rec(CHOOSE f : Rec(f))
    BY <1>7
  <2>2. 1..n \in SUBSET (1..n)
    OBVIOUS
  <2>3. QED
    BY <1>1, <1>2, <1>5, <2>1, <2>2

\* The pairs that overrides set, and the files they can make of y.
PairsOf(l) == {<<o[1], o[2]>> : o \in Range(l)}
YamlsFrom(y, l) ==
  LET K == DOMAIN y \cup {o[1] : o \in Range(l)}
      V == {y[k] : k \in DOMAIN y} \cup {o[2] : o \in Range(l)}
  IN  {y} \cup UNION {[D -> V] : D \in SUBSET K}

\* Overrides set what they say and leave the rest.
LEMMA OverridesChange ==
  ASSUME NEW S, NEW l \in Seq(S), NEW y
  PROVE  /\ Changed(y, apply_overrides(y, l), PairsOf(l))
         /\ l = <<>> => apply_overrides(y, l) = y
<1> DEFINE R == {z \in YamlsFrom(y, l) : Changed(y, z, PairsOf(l))}
<1>1. y \in R
  BY DEF YamlsFrom, Changed
<1>2. ASSUME NEW z \in R, NEW i \in 1..Len(l)
      PROVE  yaml_set(z, l[i][1], l[i][2]) \in R
  <2> DEFINE o == l[i]
             u == yaml_set(z, o[1], o[2])
  <2>1. o \in Range(l)
    BY DEF Range
  <2>2. u = [k \in {o[1]} \cup DOMAIN z |-> IF k \in {o[1]} THEN o[2] ELSE z[k]]
    BY DEF yaml_set, Overlaid
  <2>3. /\ DOMAIN z \subseteq DOMAIN y \cup {x[1] : x \in Range(l)}
        /\ \A k \in DOMAIN z : z[k] \in {y[j] : j \in DOMAIN y} \cup {x[2] : x \in Range(l)}
    BY DEF YamlsFrom
  <2> HIDE DEF o
  <2>4. u \in YamlsFrom(y, l)
    <3>1. {o[1]} \cup DOMAIN z \subseteq DOMAIN y \cup {x[1] : x \in Range(l)}
      BY <2>1, <2>3
    <3>2. \A k \in {o[1]} \cup DOMAIN z :
            (IF k \in {o[1]} THEN o[2] ELSE z[k])
              \in {y[j] : j \in DOMAIN y} \cup {x[2] : x \in Range(l)}
      BY <2>1, <2>3
    <3> DEFINE K == DOMAIN y \cup {x[1] : x \in Range(l)}
               V == {y[j] : j \in DOMAIN y} \cup {x[2] : x \in Range(l)}
               D == {o[1]} \cup DOMAIN z
    <3>3. D \in SUBSET K /\ u \in [D -> V]
      BY <2>2, <3>1, <3>2
    <3>4. YamlsFrom(y, l) = {y} \cup UNION {[E -> V] : E \in SUBSET K}
      BY DEF YamlsFrom
    <3> HIDE DEF K, V, D, u
    <3>5. QED
      BY <3>3, <3>4
  <2>5. Changed(y, u, PairsOf(l))
    <3>1. Changed(y, z, PairsOf(l)) /\ <<o[1], o[2]>> \in PairsOf(l)
      BY <2>1 DEF PairsOf
    <3>2. QED
      BY <2>2, <3>1 DEF Changed
  <2>6. QED
    BY <2>4, <2>5 DEF o
<1>3. apply_overrides(y, l) \in R
  <2> HIDE DEF R
  <2>1. ClosedUnder(R, l)
    BY <1>2 DEF ClosedUnder
  <2>2. QED
    BY <1>1, <2>1, OverridesStay
<1>4. ASSUME l = <<>> PROVE apply_overrides(y, l) \in {y}
  <2>1. ClosedUnder({y}, l)
    BY <1>4 DEF ClosedUnder
  <2>2. QED
    BY <2>1, OverridesStay
<1>5. QED
  BY <1>3, <1>4
-------------------------------------------------------------------------------
\* The YAML values, and what nyquest.yaml may be.
Yamls == UNION {[D -> Values] : D \in SUBSET AllKeys}
ConfigFiles == Yamls \cup {Missing, Garbled}

\* They are those of the type invariant, and none is one of the two marks.
LEMMA YamlsAre ==
  ASSUME NEW y
  PROVE  /\ IsYaml(y) <=> y \in Yamls
         /\ y \in Yamls => HoldsValues(y) /\ DOMAIN y \subseteq AllKeys
         /\ HoldsValues(y) /\ IsMap(y) /\ DOMAIN y \subseteq AllKeys => y \in Yamls
         /\ y \in Yamls => y \notin {Missing, Garbled}
<1>1. IsYaml(y) => y \in Yamls
  BY DEF IsYaml, Yamls
<1>2. ASSUME y \in Yamls
      PROVE  IsYaml(y) /\ HoldsValues(y) /\ DOMAIN y \subseteq AllKeys
  <2>1. PICK D \in SUBSET AllKeys : y \in [D -> Values]
    BY <1>2 DEF Yamls
  <2>2. QED
    BY <2>1 DEF IsYaml, HoldsValues
<1>3. ASSUME HoldsValues(y), IsMap(y), DOMAIN y \subseteq AllKeys
      PROVE  y \in Yamls
  <2>1. y \in [DOMAIN y -> Values]
    BY <1>3 DEF HoldsValues, IsMap
  <2>2. QED
    BY <1>3, <2>1 DEF Yamls
<1>4. y \in Yamls => y \notin {Missing, Garbled}
  BY <1>2, MarksAssumption
<1>5. QED
  BY <1>1, <1>2, <1>3, <1>4

\* A file without keys is one of them.
LEMMA NothingIsYaml ==
  Nothing \in Yamls /\ DOMAIN Nothing = {} /\ Nothing \notin {Missing, Garbled}
<1>1. DOMAIN Nothing = {} /\ Nothing \in [{} -> Values]
  BY DEF Nothing
<1>2. Nothing \in Yamls
  BY <1>1 DEF Yamls
<1>3. QED
  BY <1>1, <1>2, YamlsAre

\* The default file is one, too.
LEMMA DefaultsAreValues == DefaultFile \in Yamls
<1>1. \A k \in Fields : Default(k) \in Values
  <2> TAKE k \in Fields
  <2> DEFINE zeros == {"stability_min_level", "semantic_temperature"}
  <2>1. /\ Bool(k \in OnByDefault) \in Values
        /\ \A t \in {"int", "float", "text"}, w \in {"zero", "default", "first", "other", "empty"} :
             Scalar(t, w) \in Values
    BY ValuesAre DEF Bool, True, False, Words
  <2>2. CASE k \in BoolFields
    BY <2>1, <2>2 DEF Default
  <2>3. CASE k \notin BoolFields /\ k \in zeros
    BY <2>1, <2>3 DEF Default
  <2>4. CASE k \notin BoolFields /\ k \notin zeros
    BY <2>1, <2>4 DEF Default
  <2>5. QED
    BY <2>2, <2>3, <2>4
<1>2. DefaultFile \in [Fields -> Values] /\ Fields \in SUBSET AllKeys
  BY <1>1 DEF DefaultFile, AllKeys
<1>3. QED
  BY <1>2 DEF Yamls

\* load_yaml yields one, whatever the file is.
LEMMA LoadedTyped ==
  ASSUME NEW file \in ConfigFiles
  PROVE  load_yaml(file) \in Yamls /\ Parsed(file) \in Yamls
BY DefaultsAreValues, NothingIsYaml DEF ConfigFiles, load_yaml, Parsed

\* yaml_set sets one key.
LEMMA SetTyped ==
  ASSUME NEW y \in Yamls, NEW k \in AllKeys, NEW v \in Values
  PROVE  yaml_set(y, k, v) \in Yamls /\ Changed(y, yaml_set(y, k, v), {<<k, v>>})
<1>1. HoldsValues(y) /\ DOMAIN y \subseteq AllKeys
  BY YamlsAre
<1>2. yaml_set(y, k, v) = [x \in {k} \cup DOMAIN y |-> IF x \in {k} THEN v ELSE y[x]]
  BY DEF yaml_set, Overlaid
<1>3. yaml_set(y, k, v) \in [{k} \cup DOMAIN y -> Values]
  BY <1>1, <1>2 DEF HoldsValues
<1>4. {k} \cup DOMAIN y \in SUBSET AllKeys
  BY <1>1
<1>5. yaml_set(y, k, v) \in Yamls
  BY <1>3, <1>4 DEF Yamls
<1>6. QED
  BY <1>2, <1>5 DEF Changed

\* Lists of --set options, the empty one included.
OverrideSets == OverrideLists \cup {<<>>}
\* Overrides keep a file typed and change what they name; no overrides, nothing.
LEMMA OverridesTyped ==
  ASSUME NEW y \in Yamls, NEW l \in OverrideSets
  PROVE  /\ apply_overrides(y, l) \in Yamls
         /\ Changed(y, apply_overrides(y, l), PairsOf(l))
         /\ {o[1] : o \in Range(l)} \subseteq AllKeys
         /\ l = <<>> => apply_overrides(y, l) = y /\ Range(l) = {}
<1>1. l \in Seq(Range(l)) /\ \A o \in Range(l) : o[2] \in Values
  <2>1. CASE l \in OverrideLists
    BY <2>1, InputsAssumption
  <2>2. CASE l = <<>>
    <3>1. Range(l) = {}
      BY <2>2 DEF Range
    <3>2. <<>> \in Seq(Range(l))
      OBVIOUS
    <3>3. QED
      BY <2>2, <3>1, <3>2
  <2>3. QED
    BY <2>1, <2>2 DEF OverrideSets
<1>2. {o[1] : o \in Range(l)} \subseteq AllKeys
  <2>1. CASE l \in OverrideLists
    BY <2>1 DEF AllKeys
  <2>2. CASE l = <<>>
    BY <2>2 DEF Range
  <2>3. QED
    BY <2>1, <2>2 DEF OverrideSets
<1>3. ClosedUnder(Yamls, l)
  <2>1. \A i \in 1..Len(l) : l[i] \in Range(l)
    BY <1>1 DEF Range
  <2>2. \A i \in 1..Len(l) : l[i][1] \in AllKeys /\ l[i][2] \in Values
    BY <1>1, <1>2, <2>1
  <2>3. QED
    BY <2>2, SetTyped DEF ClosedUnder
<1>4. apply_overrides(y, l) \in Yamls
  BY <1>1, <1>3, OverridesStay
<1>5. Changed(y, apply_overrides(y, l), PairsOf(l)) /\ (l = <<>> => apply_overrides(y, l) = y)
  BY <1>1, OverridesChange
<1>6. l = <<>> => Range(l) = {}
  BY DEF Range
<1>7. QED
  BY <1>2, <1>4, <1>5, <1>6
-------------------------------------------------------------------------------
\* The server loads it unless its port exceeds 16 bits.
LoadsButPort(y) == \A k \in DOMAIN y : k \in Known /\ FitsPrompt(k, y[k])

\* That is what the server asks of a file, up to the width of the port.
LEMMA DeserializesLoads ==
  ASSUME NEW y
  PROVE  /\ Deserializes(y) => LoadsButPort(y)
         /\ LoadsButPort(y) /\ ("port" \in DOMAIN y => y.port.is # "big") => Deserializes(y)
<1>1. Deserializes(y) => LoadsButPort(y)
  BY DEF Deserializes, LoadsButPort, FitsPrompt, Known
<1>2. ASSUME LoadsButPort(y), "port" \in DOMAIN y => y["port"].is # "big"
      PROVE  Deserializes(y)
  <2>1. ASSUME NEW k \in DOMAIN y PROVE k \in Known /\ FitsField(k, y[k])
    <3>1. k \in Known /\ FitsPrompt(k, y[k])
      BY <1>2, <2>1 DEF LoadsButPort
    <3>2. CASE k \in PortFields /\ y[k].type = "int"
      <4>1. k = "port"
        BY <3>2 DEF PortFields
      <4>2. QED
        BY <1>2, <2>1, <3>1, <3>2, <4>1, FitsFacts
    <3>3. QED
      BY <3>1, <3>2 DEF FitsPrompt
  <2>2. QED
    BY <2>1 DEF Deserializes, Known
<1>3. QED
  BY <1>1, <1>2

\* The wizard makes no file unloadable but by the width of a port.
LEMMA SectionsLoad ==
  ASSUME NEW w, HoldsValues(w.yaml), NEW prompts \in SUBSET Good,
         NEW typed, AnswersWell(typed), LoadsButPort(w.yaml)
  PROVE  LoadsButPort(run_sections(w, prompts, typed).yaml)
<1> DEFINE z == run_sections(w, prompts, typed).yaml
<1>1. Changed(w.yaml, z, Settable(prompts))
  BY SectionsChange
<1>2. KeysOf(prompts) \subseteq Known
  BY DEF KeysOf, Good
<1> HIDE DEF z
<1>3. LoadsButPort(z)
  BY <1>1, <1>2 DEF Changed, Settable, LoadsButPort
<1>4. QED
  BY <1>3 DEF z
-------------------------------------------------------------------------------
\* z is y with base URLs left empty.
Extends(y, z) ==
  /\ DOMAIN y \subseteq DOMAIN z
  /\ \A k \in DOMAIN y : z[k] = y[k]
  /\ \A k \in DOMAIN z \ DOMAIN y : k \in BaseUrls /\ z[k] = Scalar("text", "empty")
\* y has a value of the prompt's type for every field that is asked about.
ShowsAll(y, prompts) ==
  \A q \in prompts :
    /\ q.key \in Fields => q.key \in DOMAIN y
    /\ q.key \in DOMAIN y => ShownAs(q, y[q.key]) /\ FitsField(q.key, y[q.key])

\* Fields and keys of providers are different keys.
LEMMA FieldsAndUrls ==
  /\ Fields \cap BaseUrls = {} /\ TextFields \cap BaseUrls = {} /\ Fields \cap ApiKeys = {}
  /\ ApiKeys \cap BaseUrls = {}
<1>1. TextFields \cap BaseUrls = {} /\ TextFields \cap ApiKeys = {}
  BY DEF TextFields, BaseUrls, BaseUrl, ApiKeys, ApiKey, Range
<1>2. BaseUrls \subseteq PlainFields /\ ApiKeys \subseteq PlainFields
  BY DEF PlainFields
<1>3. ApiKeys \cap BaseUrls = {}
  BY DEF BaseUrls, BaseUrl, ApiKeys, ApiKey, Range
<1>4. QED
  BY <1>1, <1>2, <1>3, FieldsDisjoint DEF Fields

\* Enter keeps a value that is shown, and invents none but an empty base URL.
LEMMA EnterKeepsShown ==
  ASSUME NEW q \in Good, NEW v \in Answers,
         q.key \in Fields => v # Unset,
         v # Unset => ShownAs(q, v) /\ FitsField(q.key, v)
  PROVE  /\ v # Unset => Enter(q, v) \in {v, Unset}
         /\ v = Unset /\ Enter(q, v) # Unset =>
              q.key \in BaseUrls /\ Enter(q, v) = Scalar("text", "empty")
<1>1. v \in Values \/ v = Unset
  BY DEF Answers
<1>2. CASE q.type = "Bool"
  <2>1. q.key \in BoolFields /\ q.key \in Fields
    BY <1>2 DEF Good, Fields
  <2>2. v.type = "bool"
    BY <2>1, FitsFacts
  <2>3. QED
    BY <1>2, <2>1, <2>2 DEF Enter
<1>3. CASE q.type = "Select"
  <2>1. q.key \in Fields
    BY <1>3 DEF Good, Fields
  <2>2. v.type = "text" /\ v.is \in {"first", "other"}
    BY <1>3, <2>1 DEF ShownAs
  <2>3. QED
    BY <1>3, <2>1, <2>2 DEF Enter
<1>4. CASE q.type = "Secret"
  BY <1>4 DEF Enter
<1>5. CASE q.type = "Text"
  <2>1. Enter(q, v) = IF v.type = "text" /\ v.is # "empty" THEN v
                      ELSE IF q.required THEN Scalar("text", "empty") ELSE Unset
    BY <1>5 DEF Enter
  <2>2. CASE v # Unset
    <3>1. v.type = "text" /\ v \in Values
      BY <1>1, <1>5, <2>2 DEF ShownAs
    <3>2. v = Scalar("text", v.is)
      BY <3>1 DEF Values, Scalar, True, False, Bool
    <3>3. QED
      BY <2>1, <2>2, <3>1, <3>2
  <2>3. CASE v = Unset
    <3>1. q.key \in BaseUrls
      BY <1>5, <2>3 DEF Good, Fields
    <3>2. QED
      BY <2>1, <2>3, <3>1, ValuesAre
  <2>4. QED
    BY <2>2, <2>3
<1>6. CASE q.type = "Int"
  <2>1. q.key \in PortFields \cup CountFields /\ q.key \in Fields
    BY <1>6 DEF Good, Fields
  <2>2. v.type = "int"
    BY <2>1, FitsFacts
  <2>3. QED
    BY <1>6, <2>1, <2>2 DEF Enter
<1>7. CASE q.type = "Float"
  <2>1. q.key \in Fields
    BY <1>7 DEF Good, Fields
  <2>2. v.type = "float" /\ v \in Values
    BY <1>1, <1>7, <2>1 DEF ShownAs
  <2>3. v = Scalar("float", v.is)
    BY <2>2 DEF Values, Scalar, True, False, Bool
  <2>4. Enter(q, v) = Scalar("float", v.is)
    BY <1>7, <2>2 DEF Enter
  <2>5. QED
    BY <2>1, <2>3, <2>4
<1>8. QED
  BY <1>2, <1>3, <1>4, <1>5, <1>6, <1>7 DEF Good

\* Nothing typed is well typed.
LEMMA NothingTyped == AnswersWell(Nothing)
BY NothingIsYaml DEF AnswersWell

\* A round of prompts answered by Enter.
LEMMA RoundExtends ==
  ASSUME NEW w, HoldsValues(w.yaml), NEW prompts \in SUBSET Good, ShowsAll(w.yaml, prompts)
  PROVE  Extends(w.yaml, Round(w, prompts, Nothing).yaml)
<1> DEFINE asked == {p \in prompts : Asked(p, w.yaml)}
           set == {p \in asked : handle_prompt(p, w.yaml, Nothing) # Unset}
           first(k) == CHOOSE p \in set : p.key = k
           new == [k \in {p.key : p \in set} |-> handle_prompt(first(k), w.yaml, Nothing)]
           after == Round(w, prompts, Nothing)
<1>1. after.yaml = Overlaid(new, w.yaml)
  BY DEF Round
<1>2. ASSUME NEW k \in DOMAIN new
      PROVE  /\ k \in DOMAIN w.yaml => new[k] = w.yaml[k]
             /\ k \notin DOMAIN w.yaml => k \in BaseUrls /\ new[k] = Scalar("text", "empty")
  <2> DEFINE q == first(k)
             v == yaml_get(w.yaml, k)
  <2>1. q \in set /\ q.key = k /\ new[k] = handle_prompt(q, w.yaml, Nothing)
    OBVIOUS
  <2>2. q \in prompts /\ q \in Good
    BY <2>1
  <2>3. handle_prompt(q, w.yaml, Nothing) # Unset
    BY <2>1
  <2> HIDE DEF q, new
  <2>4. handle_prompt(q, w.yaml, Nothing) = Enter(q, v)
    BY <2>1, NothingIsYaml DEF handle_prompt
  <2>5. v \in Answers /\ (k \in DOMAIN w.yaml => v = w.yaml[k] /\ v # Unset)
        /\ (k \notin DOMAIN w.yaml => v = Unset)
    BY ValuesAre DEF yaml_get, Answers, HoldsValues
  <2>6. /\ q.key \in Fields => v # Unset
        /\ v # Unset => ShownAs(q, v) /\ FitsField(q.key, v)
    BY <2>1, <2>2, <2>5 DEF ShowsAll
  <2> HIDE DEF v
  <2>7. /\ v # Unset => Enter(q, v) \in {v, Unset}
        /\ v = Unset /\ Enter(q, v) # Unset =>
             q.key \in BaseUrls /\ Enter(q, v) = Scalar("text", "empty")
    BY <2>2, <2>5, <2>6, EnterKeepsShown
  <2>8. QED
    BY <2>1, <2>3, <2>4, <2>5, <2>7
<1> HIDE DEF new, after
<1>3. DOMAIN after.yaml = DOMAIN new \cup DOMAIN w.yaml
      /\ \A k \in DOMAIN after.yaml :
           after.yaml[k] = IF k \in DOMAIN new THEN new[k] ELSE w.yaml[k]
  BY <1>1 DEF Overlaid
<1>4. Extends(w.yaml, after.yaml)
  BY <1>2, <1>3 DEF Extends
<1>5. QED
  BY <1>4 DEF after

\* What was shown still is after a round of Enter.
LEMMA StillShown ==
  ASSUME NEW y, NEW z, Extends(y, z), NEW prompts \in SUBSET Good, ShowsAll(y, prompts)
  PROVE  ShowsAll(z, prompts)
<1> SUFFICES ASSUME NEW q \in prompts
             PROVE  /\ q.key \in Fields => q.key \in DOMAIN z
                    /\ q.key \in DOMAIN z => ShownAs(q, z[q.key]) /\ FitsField(q.key, z[q.key])
  BY DEF ShowsAll
<1>1. q \in Good
  OBVIOUS
<1>2. q.key \in Fields => q.key \in DOMAIN z
  BY DEF ShowsAll, Extends
<1>3. CASE q.key \in DOMAIN y
  <2>1. z[q.key] = y[q.key] /\ q.key \in DOMAIN z
    BY <1>3 DEF Extends
  <2>2. QED
    BY <1>3, <2>1 DEF ShowsAll
<1>4. CASE q.key \in DOMAIN z \ DOMAIN y
  <2>1. q.key \in BaseUrls /\ z[q.key].type = "text"
    BY <1>4, ValuesAre DEF Extends, Words
  <2>2. q.key \in PlainFields /\ q.key \notin Fields /\ q.key \notin ApiKeys
    BY <2>1, FieldsAndUrls DEF PlainFields
  <2>3. FitsField(q.key, z[q.key])
    BY <2>2, FitsFacts
  <2>4. q.type \notin {"Select", "Float"}
    BY <1>1, <2>2 DEF Good, Fields
  <2>5. ShownAs(q, z[q.key])
    BY <1>1, <2>1, <2>4 DEF ShownAs, Good
  <2>6. QED
    BY <1>2, <2>3, <2>5
<1>5. QED
  BY <1>2, <1>3, <1>4

\* Two extensions are one.
LEMMA ExtendsOnwards ==
  ASSUME NEW y, NEW z, NEW u, Extends(y, z), Extends(z, u)
  PROVE  Extends(y, u)
BY DEF Extends

\* The whole wizard answered by Enter adds nothing but empty base URLs ...
LEMMA SectionsExtend ==
  ASSUME NEW w, HoldsValues(w.yaml), NEW prompts \in SUBSET Good, ShowsAll(w.yaml, prompts)
  PROVE  Extends(w.yaml, run_sections(w, prompts, Nothing).yaml)
<1> DEFINE one == Round(w, Under(0, prompts), Nothing)
           two == Round(one, Under(1, prompts), Nothing)
           three == Round(two, Under(2, prompts), Nothing)
<1>1. \A n : Under(n, prompts) \in SUBSET Good
             /\ \A y : ShowsAll(y, prompts) => ShowsAll(y, Under(n, prompts))
  BY DEF Under, ShowsAll
<1>2. run_sections(w, prompts, Nothing) = three
  BY DEF run_sections
<1>3. HoldsValues(one.yaml) /\ Extends(w.yaml, one.yaml)
  BY <1>1, NothingTyped, RoundChanges, RoundExtends
<1> HIDE DEF one
<1>4. ShowsAll(one.yaml, prompts)
  BY <1>3, StillShown
<1>5. HoldsValues(two.yaml) /\ Extends(one.yaml, two.yaml)
  BY <1>1, <1>3, <1>4, NothingTyped, RoundChanges, RoundExtends
<1> HIDE DEF two
<1>6. ShowsAll(two.yaml, prompts)
  BY <1>4, <1>5, StillShown
<1>7. Extends(two.yaml, three.yaml)
  BY <1>1, <1>5, <1>6, RoundExtends
<1> HIDE DEF three
<1>8. Extends(w.yaml, two.yaml)
  BY <1>3, <1>5, ExtendsOnwards
<1>9. Extends(w.yaml, three.yaml)
  BY <1>7, <1>8, ExtendsOnwards
<1>10. QED
  BY <1>2, <1>9

\* ... which the server reads as none: the settings are the same.
LEMMA SameSettings ==
  ASSUME NEW y, NEW z, Extends(y, z)
  PROVE  Settings(z) = Settings(y)
<1>1. ASSUME NEW k \in Fields \cup ApiKeys \cup BaseUrls
      PROVE  (IF k \in DOMAIN z THEN Meaning(k, z[k])
              ELSE IF k \in Fields THEN Default(k) ELSE Unset)
             = (IF k \in DOMAIN y THEN Meaning(k, y[k])
                ELSE IF k \in Fields THEN Default(k) ELSE Unset)
  <2>1. CASE k \in DOMAIN y
    BY <2>1 DEF Extends
  <2>2. CASE k \in DOMAIN z \ DOMAIN y
    <3>1. k \in BaseUrls /\ z[k] = Scalar("text", "empty") /\ k \notin Fields
      BY <2>2, FieldsAndUrls DEF Extends
    <3>2. Meaning(k, z[k]) = Unset
      BY <3>1 DEF Meaning, Scalar
    <3>3. QED
      BY <2>2, <3>1, <3>2
  <2>3. CASE k \notin DOMAIN z
    BY <2>3 DEF Extends
  <2>4. QED
    BY <2>1, <2>2, <2>3
<1>2. QED
  BY <1>1 DEF Settings
-------------------------------------------------------------------------------
\* The types of a job.
Commands == {"none", "set", "install", "configure"}
Wizards == [yaml : Yamls, skipped : SUBSET (ApiKeys \cup BaseUrls)]
Jobs ==
  [step : Steps, command : Commands, wizard : Wizards, only : SectionNumbers,
   overrides : OverrideSets, edits : SUBSET AllKeys, base : ConfigFiles,
   alone : BOOLEAN, typed : BOOLEAN]

\* Shown, of a job; and a wizard that has been answered, overrides aside.
ShownIn(j) ==
  \A q \in Prompts(j.only) :
    LET v == yaml_get(j.base, q.key) IN
      /\ q.key \in Fields => v # Unset
      /\ v # Unset => ShownAs(q, v)
WizardRan(j) == j.step \in {"service", "save"} /\ j.command # "set" /\ j.overrides = <<>>

\* Before the wizard has asked, it holds what it has loaded.
Fresh(j) ==
  j.step = "ask" => j.command # "set" /\ j.wizard.yaml = load_yaml(j.base) /\ j.edits = {}
\* After it, its file loads if the one it began with did, but for the port.
Fits(j) == WizardRan(j) /\ Deserializes(load_yaml(j.base)) => LoadsButPort(j.wizard.yaml)
\* Answered by Enter throughout, it has kept the settings that were shown.
Kept(j) ==
  WizardRan(j) /\ ~j.typed /\ j.base \notin {Missing, Garbled} /\ Deserializes(j.base)
    /\ ShownIn(j) => Settings(j.wizard.yaml) = Settings(j.base)
\* The jobs there can be.
GoodJobs == {j \in Jobs : Fresh(j) /\ Fits(j) /\ Kept(j)}

\* Jobs that are neither at the wizard nor before their save.
LEMMA PastJobs ==
  ASSUME NEW j \in Jobs, j.step \notin {"ask", "service", "save"}
  PROVE  j \in GoodJobs
BY DEF GoodJobs, Fresh, Fits, Kept, WizardRan

\* Nor is anything asked of config set.
LEMMA SetJobs ==
  ASSUME NEW j \in Jobs, j.command = "set", j.step # "ask"
  PROVE  j \in GoodJobs
BY DEF GoodJobs, Fresh, Fits, Kept, WizardRan

\* An idle shell has such a job.
LEMMA IdleTyped == Idle \in Jobs /\ Idle \in GoodJobs
<1>1. <<>> \in OverrideSets /\ 0 \in SectionNumbers
  BY SectionsGood DEF OverrideSets, SectionNumbers
<1>2. [yaml |-> Nothing, skipped |-> {}] \in Wizards
  BY NothingIsYaml DEF Wizards
<1>3. Nothing \in ConfigFiles /\ "idle" \in Steps /\ "none" \in Commands
  BY NothingIsYaml DEF ConfigFiles, Steps, Commands
<1>4. Idle \in Jobs
  BY <1>1, <1>2, <1>3 DEF Idle, Jobs
<1>5. Idle.step = "idle"
  BY DEF Idle
<1>6. QED
  BY <1>4, <1>5, PastJobs

\* Losing its being alone, or going on to a later step, changes nothing of this.
LEMMA JobGoesOn ==
  ASSUME NEW j \in GoodJobs, NEW b \in BOOLEAN
  PROVE  [j EXCEPT !.alone = b] \in GoodJobs
<1> DEFINE i == [j EXCEPT !.alone = b]
<1>1. j \in Jobs /\ Fresh(j) /\ Fits(j) /\ Kept(j)
  BY DEF GoodJobs
<1>2. /\ i \in Jobs
      /\ i.step = j.step /\ i.command = j.command /\ i.wizard = j.wizard /\ i.only = j.only
      /\ i.overrides = j.overrides /\ i.base = j.base /\ i.typed = j.typed
      /\ i.edits = j.edits
  BY <1>1 DEF Jobs
<1> HIDE DEF i
<1>3. Fresh(i) /\ Fits(i) /\ Kept(i)
  BY <1>1, <1>2 DEF Fresh, Fits, Kept, WizardRan, ShownIn
<1>4. QED
  BY <1>2, <1>3 DEF GoodJobs, i

\* So does going on to writing the files.
LEMMA JobMoves ==
  ASSUME NEW j \in GoodJobs, NEW s \in Steps \ {"ask", "service", "save"}
  PROVE  [j EXCEPT !.step = s] \in GoodJobs
<1>1. [j EXCEPT !.step = s] \in Jobs /\ [j EXCEPT !.step = s].step = s
  BY DEF GoodJobs, Jobs
<1>2. QED
  BY <1>1, PastJobs
-------------------------------------------------------------------------------
\* The type invariant, strengthened by what every job promises.
FilesTyped ==
  /\ config \in ConfigFiles
  /\ env \in {Missing} \cup {y \in Yamls : DOMAIN y \subseteq ApiKeys}
  /\ meta \in {NotWritten} \cup SUBSET (ApiKeys \cup BaseUrls)
  /\ server \in {Down, Refused} \/ DOMAIN server = Known
  /\ acked \in Yamls
SetupType == FilesTyped /\ job \in [Shells -> GoodJobs]

\* It holds at the start.
LEMMA SetupStartsTyped == Init => SetupType
<1> SUFFICES ASSUME Init PROVE SetupType
  OBVIOUS
<1>1. config \in ConfigFiles
  BY InputsAssumption, YamlsAre DEF Init, IsFile, ConfigFiles
<1>2. FilesTyped
  BY <1>1, NothingIsYaml DEF Init, FilesTyped
<1>3. QED
  BY <1>2, IdleTyped DEF Init, SetupType

\* A command begins.
LEMMA BeginTyped ==
  ASSUME SetupType, NEW p \in Shells, NEW j, Begin(p, j),
         [j EXCEPT !.base = config, !.alone = NobodyWrites] \in GoodJobs
  PROVE  SetupType'
<1>1. job' = [job EXCEPT ![p] = [j EXCEPT !.base = config, !.alone = NobodyWrites]]
      /\ UNCHANGED <<config, env, meta, server, acked>>
  BY DEF Begin
<1>2. job' \in [Shells -> GoodJobs]
  BY <1>1 DEF SetupType
<1>3. QED
  BY <1>1, <1>2 DEF SetupType, FilesTyped

\* Each action keeps it: config set,
LEMMA ConfigSetTyped ==
  ASSUME SetupType, NEW p \in Shells, ConfigSet(p)
  PROVE  SetupType'
<1>1. PICK a \in Assignments :
        Begin(p, [Idle EXCEPT !.step = "save", !.command = "set", !.edits = {a[1]},
                    !.wizard.yaml = yaml_set(Parsed(config), a[1], a[2])])
  BY DEF ConfigSet
<1> DEFINE y == yaml_set(Parsed(config), a[1], a[2])
           j == [Idle EXCEPT !.step = "save", !.command = "set", !.edits = {a[1]},
                    !.wizard.yaml = y]
           i == [j EXCEPT !.base = config, !.alone = NobodyWrites]
<1>2. config \in ConfigFiles /\ a[1] \in AllKeys /\ a[2] \in Values
  BY InputsAssumption DEF SetupType, FilesTyped, AllKeys
<1>3. y \in Yamls
  BY <1>2, LoadedTyped, SetTyped
<1>4. NobodyWrites \in BOOLEAN
  BY DEF NobodyWrites
<1> HIDE DEF y
<1>5. i \in Jobs /\ i.command = "set" /\ i.step = "save"
  BY <1>2, <1>3, <1>4, IdleTyped DEF Jobs, Wizards, Steps, Commands
<1>6. i \in GoodJobs
  BY <1>5, SetJobs
<1>7. QED
  <2>1. Begin(p, j)
    BY <1>1 DEF y
  <2> HIDE DEF j
  <2>2. QED
    BY <1>6, <2>1, BeginTyped
\* install --defaults, whose value is the file's unless there are overrides,
LEMMA InstallHeadlessTyped ==
  ASSUME SetupType, NEW p \in Shells, InstallHeadless(p)
  PROVE  SetupType'
<1> DEFINE yaml == load_yaml(config)
<1>1. PICK l \in OverrideLists :
        Begin(p, [Idle EXCEPT !.step = "save", !.command = "install",
                    !.wizard = [yaml |-> apply_overrides(yaml, l),
                                skipped |-> headless_skipped(yaml)],
                    !.overrides = l, !.edits = {o[1] : o \in Range(l)}])
  BY DEF InstallHeadless
<1> DEFINE y == apply_overrides(yaml, l)
           skipped == headless_skipped(yaml)
           edits == {o[1] : o \in Range(l)}
           j == [Idle EXCEPT !.step = "save", !.command = "install",
                   !.wizard = [yaml |-> y, skipped |-> skipped],
                   !.overrides = l, !.edits = edits]
           i == [j EXCEPT !.base = config, !.alone = NobodyWrites]
<1>2. config \in ConfigFiles /\ yaml \in Yamls /\ l \in OverrideSets
  BY LoadedTyped DEF SetupType, FilesTyped, OverrideSets
<1>3. y \in Yamls /\ edits \in SUBSET AllKeys /\ (l = <<>> => y = yaml)
  BY <1>2, OverridesTyped
<1>4. skipped \in SUBSET (ApiKeys \cup BaseUrls)
  <2>1. 0 \in SectionNumbers
    BY SectionsGood DEF SectionNumbers
  <2>2. QED
    BY <2>1, PromptsGood DEF headless_skipped, Good
<1>5. NobodyWrites \in BOOLEAN
  BY DEF NobodyWrites
<1>b. Begin(p, j)
  BY <1>1
<1> HIDE DEF y, skipped, edits
<1>6. /\ i \in Jobs /\ i.step = "save" /\ i.base = config
      /\ i.wizard.yaml = y /\ i.overrides = l
  BY <1>2, <1>3, <1>4, <1>5, IdleTyped DEF Jobs, Wizards, Steps, Commands
<1> HIDE DEF i, j, yaml
<1>7. Fresh(i)
  BY <1>6 DEF Fresh
<1>8. Fits(i)
  BY <1>3, <1>6, DeserializesLoads DEF Fits, WizardRan, yaml
<1>9. Kept(i)
  BY <1>3, <1>6 DEF Kept, WizardRan, yaml, load_yaml, Parsed
<1>10. i \in GoodJobs
  BY <1>6, <1>7, <1>8, <1>9 DEF GoodJobs
<1>11. QED
  BY <1>b, <1>10, BeginTyped DEF i

\* The wizard starts from the file.
LEMMA WizardTyped ==
  ASSUME SetupType, NEW p \in Shells,
         NEW j \in Jobs, Begin(p, j), j.step = "ask", j.command # "set",
         j.wizard.yaml = load_yaml(config), j.edits = {}
  PROVE  SetupType'
<1> DEFINE i == [j EXCEPT !.base = config, !.alone = NobodyWrites]
<1>1. config \in ConfigFiles /\ NobodyWrites \in BOOLEAN
  BY DEF SetupType, FilesTyped, NobodyWrites
<1>2. /\ i \in Jobs /\ i.step = "ask" /\ i.base = config /\ i.command # "set"
      /\ i.wizard.yaml = load_yaml(config) /\ i.edits = {}
  BY <1>1 DEF Jobs
<1> HIDE DEF i
<1>3. Fresh(i) /\ Fits(i) /\ Kept(i)
  BY <1>2 DEF Fresh, Fits, Kept, WizardRan
<1>4. i \in GoodJobs
  BY <1>2, <1>3 DEF GoodJobs
<1>5. QED
  BY <1>4, BeginTyped DEF i

\* install with its wizard,
LEMMA InstallTyped ==
  ASSUME SetupType, NEW p \in Shells, Install(p)
  PROVE  SetupType'
<1> DEFINE yaml == load_yaml(config)
<1>1. PICK l \in OverrideLists :
        Begin(p, [Idle EXCEPT !.step = "ask", !.command = "install",
                    !.wizard.yaml = yaml, !.overrides = l])
  BY DEF Install
<1> DEFINE j == [Idle EXCEPT !.step = "ask", !.command = "install",
                   !.wizard.yaml = yaml, !.overrides = l]
<1>2. yaml \in Yamls /\ l \in OverrideSets
  BY LoadedTyped DEF SetupType, FilesTyped, OverrideSets
<1>b. Begin(p, j)
  BY <1>1
<1> HIDE DEF yaml
<1>3. /\ j \in Jobs /\ j.step = "ask" /\ j.command # "set" /\ j.wizard.yaml = yaml
      /\ j.edits = {}
  <2>1. j \in Jobs /\ j.step = "ask" /\ j.command # "set" /\ j.wizard.yaml = yaml
    BY <1>2, IdleTyped DEF Jobs, Wizards, Steps, Commands
  <2>2. j.edits = {}
    BY DEF Idle
  <2>3. QED
    BY <2>1, <2>2
<1> HIDE DEF j
<1>4. QED
  BY <1>b, <1>3, WizardTyped DEF yaml

\* configure,
LEMMA ConfigureTyped ==
  ASSUME SetupType, NEW p \in Shells, Configure(p)
  PROVE  SetupType'
<1> DEFINE yaml == load_yaml(config)
<1>1. PICK only \in Filters :
        Begin(p, [Idle EXCEPT !.step = "ask", !.command = "configure", !.only = only,
                    !.wizard.yaml = yaml])
  BY DEF Configure
<1> DEFINE j == [Idle EXCEPT !.step = "ask", !.command = "configure", !.only = only,
                   !.wizard.yaml = yaml]
<1>2. yaml \in Yamls /\ only \in SectionNumbers
  BY LoadedTyped, InputsAssumption DEF SetupType, FilesTyped
<1>b. Begin(p, j)
  BY <1>1
<1> HIDE DEF yaml
<1>3. /\ j \in Jobs /\ j.step = "ask" /\ j.command # "set" /\ j.wizard.yaml = yaml
      /\ j.edits = {}
  <2>1. j \in Jobs /\ j.step = "ask" /\ j.command # "set" /\ j.wizard.yaml = yaml
    BY <1>2, IdleTyped DEF Jobs, Wizards, Steps, Commands
  <2>2. j.edits = {}
    BY DEF Idle
  <2>3. QED
    BY <2>1, <2>2
<1> HIDE DEF j
<1>4. QED
  BY <1>b, <1>3, WizardTyped DEF yaml

\* What a shell's job becomes.
LEMMA JobBecomes ==
  ASSUME SetupType, NEW p \in Shells, NEW j \in GoodJobs, FilesTyped',
         job' = [job EXCEPT ![p] = j]
  PROVE  SetupType'
BY DEF SetupType

\* The wizard asks: what it becomes.
Answered(j, typed) ==
  [j EXCEPT !.wizard = run_sections(j.wizard, Prompts(j.only), typed),
            !.step = IF j.command = "install" THEN "service" ELSE "save",
            !.edits = KeysOf(Prompts(j.only)), !.typed = (typed # Nothing)]

\* AskSections answers it so, with well typed answers.
LEMMA AskSectionsDoes ==
  ASSUME SetupType, NEW p \in Shells, AskSections(p)
  PROVE  \E typed : AnswersWell(typed) /\ job' = [job EXCEPT ![p] = Answered(job[p], typed)]
<1> DEFINE prompts == Prompts(job[p].only)
           Given == {Nothing} \cup
                      UNION {[{q.key} -> Typed(q)] :
                               q \in {x \in prompts : x.key \in TypedKeys}}
<1>1. PICK typed \in Given :
        job' = [job EXCEPT
             ![p].wizard = run_sections(@, prompts, typed),
             ![p].step = IF job[p].command = "install" THEN "service" ELSE "save",
             ![p].edits = {q.key : q \in prompts}, ![p].typed = (typed # Nothing)]
  BY DEF AskSections
<1>2. job[p] \in Jobs /\ job \in [Shells -> GoodJobs]
  BY DEF SetupType, GoodJobs
<1>3. prompts \in SUBSET Good
  BY <1>2, PromptsGood DEF Jobs
<1>4. AnswersWell(typed)
  <2>1. CASE typed = Nothing
    BY <2>1, NothingTyped
  <2>2. CASE typed # Nothing
    <3>1. PICK q \in prompts : typed \in [{q.key} -> Typed(q)]
      BY <2>2
    <3>2. q \in Good
      BY <1>3
    <3>3. \A x \in Good : x.key \in DOMAIN typed => x.key = q.key /\ typed[x.key] \in Typed(q)
      BY <3>1
    <3>4. \A v \in Typed(q) : v \in Answers /\ (v # Unset => FitsPrompt(q.key, v))
      BY <3>2, TypedAnswers
    <3>5. QED
      BY <3>3, <3>4 DEF AnswersWell
  <2>3. QED
    BY <2>1, <2>2
<1> DEFINE after == run_sections(job[p].wizard, prompts, typed)
           step == IF job[p].command = "install" THEN "service" ELSE "save"
           edits == {q.key : q \in prompts}
           wrote == typed # Nothing
           j == [job[p] EXCEPT !.wizard = after, !.step = step, !.edits = edits, !.typed = wrote]
<1>5. job' = [job EXCEPT ![p].wizard = after, ![p].step = step, ![p].edits = edits,
                         ![p].typed = wrote]
  BY <1>1
<1>6. j = Answered(job[p], typed)
  BY DEF Answered, KeysOf
<1>7. job' = [job EXCEPT ![p] = j]
  <2> HIDE DEF after, edits, step, wrote
  <2>1. QED
    BY <1>2, <1>5 DEF Jobs
<1> HIDE DEF j
<1>8. QED
  BY <1>4, <1>6, <1>7

\* The step on which Fits and Kept begin to say something: what was loaded is still
\* in hand, SectionsLoad and SectionsExtend say what has become of it.
LEMMA AskSectionsTyped ==
  ASSUME SetupType, NEW p \in Shells, AskSections(p)
  PROVE  SetupType'
<1> DEFINE only == job[p].only
           prompts == Prompts(only)
<1>1. PICK typed : AnswersWell(typed) /\ job' = [job EXCEPT ![p] = Answered(job[p], typed)]
  BY AskSectionsDoes
<1>2. job[p].step = "ask" /\ UNCHANGED <<config, env, meta, server, acked>>
  BY DEF AskSections
<1>3. job[p] \in Jobs /\ Fresh(job[p]) /\ FilesTyped
  BY DEF SetupType, GoodJobs
<1>4. prompts \in SUBSET Good
  BY <1>3, PromptsGood DEF Jobs
<1>5. AnswersWell(typed)
  BY <1>1
<1> DEFINE w == job[p].wizard
           after == run_sections(w, prompts, typed)
           step == IF job[p].command = "install" THEN "service" ELSE "save"
           edits == KeysOf(prompts)
           wrote == typed # Nothing
           j == [job[p] EXCEPT !.wizard = after, !.step = step, !.edits = edits, !.typed = wrote]
<1>6. /\ w.yaml \in Yamls /\ w.yaml = load_yaml(job[p].base)
      /\ w.skipped \subseteq ApiKeys \cup BaseUrls
  BY <1>2, <1>3 DEF Jobs, Wizards, Fresh
<1>7. HoldsValues(w.yaml) /\ DOMAIN w.yaml \subseteq AllKeys
  BY <1>6, YamlsAre
<1>8. edits \in SUBSET AllKeys
  BY <1>4 DEF KeysOf, Good, Known, AllKeys
<1>9. after \in Wizards
  <2>1. /\ Changed(w.yaml, after.yaml, Settable(prompts)) /\ HoldsValues(after.yaml)
        /\ IsMap(after.yaml) /\ after.skipped \subseteq w.skipped \cup ApiKeys \cup BaseUrls
    BY <1>4, <1>5, <1>7, SectionsChange
  <2>2. after = [yaml |-> after.yaml, skipped |-> after.skipped]
    BY DEF run_sections, Round
  <2> HIDE DEF after, w, prompts
  <2>3. DOMAIN after.yaml \subseteq AllKeys
    BY <1>7, <1>8, <2>1 DEF Changed, Settable
  <2>4. after.yaml \in Yamls /\ after.skipped \in SUBSET (ApiKeys \cup BaseUrls)
    BY <1>6, <2>1, <2>3, YamlsAre
  <2>5. QED
    BY <2>2, <2>4 DEF Wizards
<1>10. wrote \in BOOLEAN /\ step \in Steps /\ step \in {"service", "save"}
  BY DEF Steps
<1>11. job' = [job EXCEPT ![p] = j]
  BY <1>1 DEF Answered
<1> HIDE DEF after, edits, step, wrote
<1>12. /\ j \in Jobs /\ j.step \in {"service", "save"} /\ j.wizard = after /\ j.typed = wrote
       /\ j.only = only /\ j.base = job[p].base
  BY <1>3, <1>8, <1>9, <1>10 DEF Jobs
<1> HIDE DEF j
<1>13. Fresh(j)
  BY <1>12 DEF Fresh
<1>14. Fits(j)
  <2>1. ASSUME Deserializes(load_yaml(j.base)) PROVE LoadsButPort(j.wizard.yaml)
    <3>1. LoadsButPort(w.yaml)
      BY <1>6, <1>12, <2>1, DeserializesLoads
    <3>2. LoadsButPort(after.yaml)
      BY <1>4, <1>5, <1>7, <3>1, SectionsLoad DEF after
    <3>3. QED
      BY <1>12, <3>2
  <2>2. QED
    BY <2>1 DEF Fits
<1>15. Kept(j)
  <2>1. ASSUME ~j.typed, j.base \notin {Missing, Garbled}, Deserializes(j.base), ShownIn(j)
        PROVE  Settings(j.wizard.yaml) = Settings(j.base)
    <3>1. typed = Nothing
      BY <1>12, <2>1 DEF wrote
    <3>2. w.yaml = j.base
      BY <1>6, <1>12, <2>1 DEF load_yaml, Parsed
    <3>3. ShowsAll(w.yaml, prompts)
      <4>1. \A k \in DOMAIN w.yaml : yaml_get(w.yaml, k) = w.yaml[k] /\ w.yaml[k] # Unset
        BY <1>7, ValuesAre DEF yaml_get, HoldsValues
      <4>2. \A k : k \notin DOMAIN w.yaml => yaml_get(w.yaml, k) = Unset
        BY DEF yaml_get
      <4>3. \A k \in DOMAIN w.yaml : FitsField(k, w.yaml[k])
        BY <2>1, <3>2 DEF Deserializes
      <4>4. \A q \in prompts : LET v == yaml_get(w.yaml, q.key) IN
              (q.key \in Fields => v # Unset) /\ (v # Unset => ShownAs(q, v))
        BY <1>12, <2>1, <3>2 DEF ShownIn
      <4> HIDE DEF w, prompts
      <4>5. QED
        BY <4>1, <4>2, <4>3, <4>4 DEF ShowsAll
    <3>4. Extends(w.yaml, after.yaml)
      BY <1>4, <1>7, <3>1, <3>3, SectionsExtend DEF after
    <3>5. QED
      BY <1>12, <3>2, <3>4, SameSettings
  <2>2. QED
    BY <2>1 DEF Kept
<1>16. j \in GoodJobs
  BY <1>12, <1>13, <1>14, <1>15 DEF GoodJobs
<1>17. FilesTyped'
  BY <1>2, <1>3 DEF FilesTyped
<1>18. QED
  BY <1>11, <1>16, <1>17, JobBecomes

\* Ctrl+C,
LEMMA InterruptTyped ==
  ASSUME SetupType, NEW p \in Shells, Interrupt(p)
  PROVE  SetupType'
BY IdleTyped DEF Interrupt, SetupType, FilesTyped

\* the overrides after the wizard,
LEMMA OfferServiceTyped ==
  ASSUME SetupType, NEW p \in Shells, OfferService(p)
  PROVE  SetupType'
<1> DEFINE o == job[p].overrides
           y == job[p].wizard.yaml
           z == apply_overrides(y, o)
           edits == job[p].edits \cup {x[1] : x \in Range(o)}
           j == [job[p] EXCEPT !.wizard.yaml = z, !.edits = edits, !.step = "save"]
<1>1. /\ job[p].step = "service"
      /\ env' \in {env, IF env = Missing THEN Nothing ELSE env}
      /\ job' = [job EXCEPT ![p].wizard.yaml = apply_overrides(@, o),
                            ![p].edits = @ \cup {x[1] : x \in Range(o)},
                            ![p].step = "save"]
      /\ UNCHANGED <<config, meta, server, acked>>
  BY DEF OfferService
<1>2. /\ job \in [Shells -> GoodJobs] /\ FilesTyped
      /\ job[p] \in Jobs /\ Fits(job[p]) /\ Kept(job[p])
  BY DEF SetupType, GoodJobs
<1>3. y \in Yamls /\ o \in OverrideSets
  BY <1>2 DEF Jobs, Wizards
<1>4. z \in Yamls /\ {x[1] : x \in Range(o)} \subseteq AllKeys /\ (o = <<>> => z = y)
  BY <1>3, OverridesTyped
<1>5. edits \in SUBSET AllKeys /\ "save" \in Steps
  BY <1>2, <1>4 DEF Jobs, Steps
<1>6. job' = [job EXCEPT ![p] = j]
  <2>1. job' = [job EXCEPT ![p].wizard.yaml = z, ![p].edits = edits, ![p].step = "save"]
    BY <1>1
  <2> HIDE DEF z, edits, y, o
  <2>2. QED
    BY <1>2, <2>1 DEF Jobs
<1> HIDE DEF z, edits
<1>7. /\ j \in Jobs /\ j.step = "save" /\ j.wizard.yaml = z /\ j.typed = job[p].typed
      /\ j.only = job[p].only /\ j.base = job[p].base /\ j.command = job[p].command
      /\ j.overrides = o
  BY <1>2, <1>4, <1>5 DEF Jobs, Wizards
<1> HIDE DEF j
<1>8. Fresh(j)
  BY <1>7 DEF Fresh
<1>9. Fits(j)
  BY <1>1, <1>2, <1>4, <1>7 DEF Fits, WizardRan
<1>10. Kept(j)
  BY <1>1, <1>2, <1>4, <1>7 DEF Kept, WizardRan, ShownIn
<1>11. j \in GoodJobs
  BY <1>7, <1>8, <1>9, <1>10 DEF GoodJobs
<1>12. FilesTyped'
  BY <1>1, <1>2, NothingIsYaml DEF FilesTyped
<1>13. QED
  BY <1>6, <1>11, <1>12, JobBecomes

\* Others lose nothing but their being alone.
LEMMA OthersTyped ==
  ASSUME SetupType, NEW p \in Shells
  PROVE  OthersNotAlone(p) \in [Shells -> GoodJobs]
<1>1. \A q \in Shells : job[q] \in GoodJobs
  BY DEF SetupType
<1>2. \A q \in Shells : [job[q] EXCEPT !.alone = FALSE] \in GoodJobs
  BY <1>1, JobGoesOn
<1>3. QED
  BY <1>1, <1>2 DEF OthersNotAlone

\* What follows a save is a job again.
LEMMA AfterConfigTyped ==
  ASSUME NEW j \in GoodJobs
  PROVE  AfterConfig(j) \in GoodJobs
BY IdleTyped, JobMoves DEF AfterConfig, Steps

\* opening the file,
LEMMA OpenConfigTyped ==
  ASSUME SetupType, NEW p \in Shells, OpenConfig(p)
  PROVE  SetupType'
<1>1. OthersNotAlone(p) \in [Shells -> GoodJobs]
  BY OthersTyped
<1>2. [OthersNotAlone(p)[p] EXCEPT !.step = "saving"] \in GoodJobs
  BY <1>1, JobMoves DEF Steps
<1>3. job' = [OthersNotAlone(p) EXCEPT ![p] = [OthersNotAlone(p)[p] EXCEPT !.step = "saving"]]
      /\ config' = Nothing /\ UNCHANGED <<env, meta, server, acked>>
  BY DEF OpenConfig
<1>4. job' \in [Shells -> GoodJobs]
  <2> DEFINE others == OthersNotAlone(p)
             j == [others[p] EXCEPT !.step = "saving"]
  <2>1. others \in [Shells -> GoodJobs] /\ j \in GoodJobs /\ job' = [others EXCEPT ![p] = j]
    BY <1>1, <1>2, <1>3
  <2> HIDE DEF others, j
  <2>2. QED
    BY <2>1
<1>5. QED
  BY <1>3, <1>4, NothingIsYaml DEF SetupType, FilesTyped, ConfigFiles

\* One map of values over another.
LEMMA OverlaidTyped ==
  ASSUME NEW new, NEW old, HoldsValues(new), HoldsValues(old),
         DOMAIN new \subseteq AllKeys, DOMAIN old \subseteq AllKeys
  PROVE  Overlaid(new, old) \in Yamls
<1>1. Overlaid(new, old) \in [DOMAIN new \cup DOMAIN old -> Values]
  BY DEF Overlaid, HoldsValues
<1>2. DOMAIN new \cup DOMAIN old \in SUBSET AllKeys
  OBVIOUS
<1>3. QED
  BY <1>1, <1>2 DEF Yamls

\* A command is past its save.
LEMMA PastSaveTyped ==
  ASSUME SetupType, NEW p \in Shells, UNCHANGED <<env, meta, server>>,
         job' = [OthersNotAlone(p) EXCEPT ![p] = AfterConfig(job[p])],
         config' \in ConfigFiles, acked' \in Yamls
  PROVE  SetupType'
<1> DEFINE others == OthersNotAlone(p)
           j == AfterConfig(job[p])
<1>1. others \in [Shells -> GoodJobs] /\ j \in GoodJobs
  BY OthersTyped, AfterConfigTyped DEF SetupType
<1>2. job' = [others EXCEPT ![p] = j]
  OBVIOUS
<1> HIDE DEF others, j
<1>3. job' \in [Shells -> GoodJobs]
  BY <1>1, <1>2
<1>4. QED
  BY <1>3 DEF SetupType, FilesTyped

\* writing it,
LEMMA FinishConfigTyped ==
  ASSUME SetupType, NEW p \in Shells, FinishConfig(p)
  PROVE  SetupType'
<1> DEFINE y == job[p].wizard.yaml
<1>1. y \in Yamls /\ acked \in Yamls /\ job[p].edits \subseteq AllKeys
  BY DEF SetupType, FilesTyped, GoodJobs, Jobs, Wizards
<1>2. HoldsValues(y) /\ DOMAIN y \subseteq AllKeys /\ HoldsValues(acked)
      /\ DOMAIN acked \subseteq AllKeys
  BY <1>1, YamlsAre
<1>3. HoldsValues(Saved(p)) /\ DOMAIN Saved(p) \subseteq AllKeys
  BY <1>2 DEF Saved, HoldsValues
<1>4. HoldsValues(StillThere(y)) /\ DOMAIN StillThere(y) \subseteq AllKeys
  <2> HIDE DEF y
  <2>1. QED
    BY <1>2 DEF StillThere, HoldsValues
<1>5. Overlaid(Saved(p), StillThere(y)) \in Yamls
  BY <1>3, <1>4, OverlaidTyped
<1>6. config' \in ConfigFiles /\ acked' \in Yamls
  BY <1>1, <1>5, NothingIsYaml DEF FinishConfig, ConfigFiles
<1>7. QED
  BY <1>6, PastSaveTyped DEF FinishConfig

\* failing to,
LEMMA FailConfigTyped ==
  ASSUME SetupType, NEW p \in Shells, FailConfig(p)
  PROVE  SetupType'
<1> DEFINE y == job[p].wizard.yaml
           cut == [k \in DOMAIN y \cap Fields |-> y[k]]
<1>1. y \in Yamls /\ FilesTyped
  BY DEF SetupType, GoodJobs, Jobs, Wizards
<1>2. cut \in Yamls
  <2> HIDE DEF y
  <2>1. HoldsValues(y) /\ DOMAIN y \subseteq AllKeys
    BY <1>1, YamlsAre
  <2>2. cut \in [DOMAIN y \cap Fields -> Values] /\ DOMAIN y \cap Fields \in SUBSET AllKeys
    BY <2>1 DEF HoldsValues
  <2>3. QED
    BY <2>2 DEF Yamls
<1>3. Cuts(y) \subseteq ConfigFiles
  BY <1>2, NothingIsYaml DEF Cuts, ConfigFiles
<1>4. config' \in ConfigFiles /\ acked' \in Yamls
  <2>1. CASE job[p].step = "save"
    BY <1>1, <2>1 DEF FailConfig, FilesTyped
  <2>2. CASE job[p].step # "save"
    BY <1>3, <2>2, NothingIsYaml DEF FailConfig
  <2>3. QED
    BY <2>1, <2>2
<1>5. QED
  BY <1>4, PastSaveTyped DEF FailConfig

\* write_env, which writes keys of providers only,
LEMMA WriteEnvTyped ==
  ASSUME SetupType, NEW p \in Shells, WriteEnv(p)
  PROVE  SetupType'
<1> DEFINE w == job[p].wizard
           set == {k \in ApiKeys \ w.skipped :
                     yaml_get(w.yaml, k).type = "text" /\ w.yaml[k].is # "empty"}
<1>1. /\ job \in [Shells -> GoodJobs] /\ FilesTyped /\ job[p] \in GoodJobs
      /\ w.yaml \in Yamls /\ HoldsValues(w.yaml)
  BY YamlsAre DEF SetupType, GoodJobs, Jobs, Wizards
<1>2. ASSUME NEW k \in set PROVE w.yaml[k] \in Values
  <2>1. k \in DOMAIN w.yaml
    BY DEF yaml_get, Unset, Scalar
  <2>2. QED
    BY <1>1, <2>1 DEF HoldsValues
<1>3. EnvOf(w) = [k \in set |-> w.yaml[k]]
  BY DEF EnvOf
<1>4. set \subseteq ApiKeys /\ set \in SUBSET AllKeys
  BY DEF AllKeys
<1> HIDE DEF set
<1>5. EnvOf(w) \in Yamls /\ DOMAIN EnvOf(w) \subseteq ApiKeys
  BY <1>2, <1>3, <1>4 DEF Yamls
<1>6. FilesTyped'
  <2>1. env' \in {EnvOf(w), env, Nothing} /\ UNCHANGED <<config, meta, server, acked>>
    BY DEF WriteEnv
  <2>2. QED
    BY <1>1, <1>5, <2>1, NothingIsYaml DEF FilesTyped
<1>7. [job[p] EXCEPT !.step = "meta"] \in GoodJobs
  BY <1>1, JobMoves DEF Steps
<1>8. job' = [job EXCEPT ![p] = IF job[p].command = "install"
                                 THEN [job[p] EXCEPT !.step = "meta"] ELSE Idle]
  BY DEF WriteEnv
<1>9. job' \in [Shells -> GoodJobs]
  BY <1>1, <1>7, <1>8, IdleTyped
<1>10. QED
  BY <1>6, <1>9 DEF SetupType

\* write_metadata,
LEMMA WriteMetadataTyped ==
  ASSUME SetupType, NEW p \in Shells, WriteMetadata(p)
  PROVE  SetupType'
<1>1. job[p].wizard.skipped \in SUBSET (ApiKeys \cup BaseUrls)
  BY DEF SetupType, GoodJobs, Jobs, Wizards
<1>2. QED
  BY <1>1, IdleTyped DEF SetupType, FilesTyped, WriteMetadata

\* a kill,
LEMMA KillTyped ==
  ASSUME SetupType, NEW p \in Shells, Kill(p)
  PROVE  SetupType'
BY IdleTyped, NothingIsYaml DEF SetupType, FilesTyped, Kill

\* and the server, which runs with every setting or none.
LEMMA ServerTyped ==
  ASSUME SetupType, Serve \/ Stop
  PROVE  SetupType'
<1>1. \A file, environment :
        load_config(file, environment) = Refused \/ DOMAIN load_config(file, environment) = Known
  BY DEF load_config, Overridden, Settings, Known
<1>2. server' \in {Down, Refused} \/ DOMAIN server' = Known
  BY <1>1 DEF Serve, Stop
<1>3. UNCHANGED <<config, env, meta, job, acked>>
  BY DEF Serve, Stop
<1>4. QED
  BY <1>2, <1>3 DEF SetupType, FilesTyped

\* SetupType is inductive.
LEMMA SetupTypeSteps == SetupType /\ [Next]_vars => SetupType'
<1> SUFFICES ASSUME SetupType, [Next]_vars PROVE SetupType'
  OBVIOUS
<1>1. ASSUME NEW p \in Shells, ConfigSet(p) PROVE SetupType'
  BY <1>1, ConfigSetTyped
<1>2. ASSUME NEW p \in Shells, InstallHeadless(p) PROVE SetupType'
  BY <1>2, InstallHeadlessTyped
<1>3. ASSUME NEW p \in Shells, Install(p) PROVE SetupType'
  BY <1>3, InstallTyped
<1>4. ASSUME NEW p \in Shells, Configure(p) PROVE SetupType'
  BY <1>4, ConfigureTyped
<1>5. ASSUME NEW p \in Shells, AskSections(p) PROVE SetupType'
  BY <1>5, AskSectionsTyped
<1>6. ASSUME NEW p \in Shells, Interrupt(p) PROVE SetupType'
  BY <1>6, InterruptTyped
<1>7. ASSUME NEW p \in Shells, OfferService(p) PROVE SetupType'
  BY <1>7, OfferServiceTyped
<1>8. ASSUME NEW p \in Shells, OpenConfig(p) PROVE SetupType'
  BY <1>8, OpenConfigTyped
<1>9. ASSUME NEW p \in Shells, FinishConfig(p) PROVE SetupType'
  BY <1>9, FinishConfigTyped
<1>10. ASSUME NEW p \in Shells, FailConfig(p) PROVE SetupType'
  BY <1>10, FailConfigTyped
<1>11. ASSUME NEW p \in Shells, WriteEnv(p) PROVE SetupType'
  BY <1>11, WriteEnvTyped
<1>12. ASSUME NEW p \in Shells, WriteMetadata(p) PROVE SetupType'
  BY <1>12, WriteMetadataTyped
<1>13. ASSUME NEW p \in Shells, Kill(p) PROVE SetupType'
  BY <1>13, KillTyped
<1>14. CASE Serve \/ Stop
  BY <1>14, ServerTyped
<1>15. CASE UNCHANGED vars
  BY <1>15 DEF vars, SetupType, FilesTyped
<1>16. QED
  BY <1>1, <1>2, <1>3, <1>4, <1>5, <1>6, <1>7, <1>8, <1>9, <1>10, <1>11, <1>12, <1>13,
     <1>14, <1>15 DEF Next

\* SetupType is an invariant.
LEMMA SetupTypeInvariance == Spec => []SetupType
<1>1. Init => SetupType
  BY SetupStartsTyped
<1>2. SetupType /\ [Next]_vars => SetupType'
  BY SetupTypeSteps
<1>3. QED
  BY <1>1, <1>2, PTL DEF Spec

\* Every variable has its type: the files, the job in each shell, the server's
\* settings and what was reported.
THEOREM SetupTyped == Spec => []TypeOK
<1>1. SetupType => TypeOK
  <2> SUFFICES ASSUME SetupType PROVE TypeOK
    OBVIOUS
  <2>1. FilesTyped
    BY DEF SetupType
  <2>2. IsFile(config) /\ IsYaml(acked)
    BY <2>1, YamlsAre DEF FilesTyped, ConfigFiles, IsFile
  <2>3. env = Missing \/ (IsYaml(env) /\ DOMAIN env \subseteq ApiKeys)
    BY <2>1, YamlsAre DEF FilesTyped
  <2>4. meta = NotWritten \/ meta \subseteq ApiKeys \cup BaseUrls
    BY <2>1 DEF FilesTyped
  <2>5. server \in {Down, Refused} \/ DOMAIN server = Fields \cup ApiKeys \cup BaseUrls
    BY <2>1 DEF FilesTyped, Known
  <2>6. ASSUME NEW p \in Shells
        PROVE  /\ job[p].step \in Steps /\ job[p].only \in SectionNumbers
               /\ IsYaml(job[p].wizard.yaml) /\ IsFile(job[p].base)
               /\ job[p].edits \subseteq AllKeys
    <3>1. job[p] \in Jobs
      BY DEF SetupType, GoodJobs
    <3>2. job[p].wizard.yaml \in Yamls /\ job[p].base \in ConfigFiles
      BY <3>1 DEF Jobs, Wizards
    <3>3. QED
      BY <3>1, <3>2, YamlsAre DEF Jobs, ConfigFiles, IsFile
  <2>7. QED
    BY <2>2, <2>3, <2>4, <2>5, <2>6 DEF TypeOK
<1>2. QED
  BY <1>1, SetupTypeInvariance, PTL

\* What the wizard is about to save deserializes into NyquestConfig if what it
\* began with did, ports beyond 16 bits and overrides aside.
THEOREM WizardFileAlwaysLoads == Spec => []WizardFileLoads
<1>1. SetupType => WizardFileLoads
  <2> SUFFICES ASSUME SetupType, NEW p \in Shells,
                      job[p].step = "save", job[p].command # "set", job[p].overrides = <<>>,
                      Deserializes(load_yaml(job[p].base)),
                      "port" \in DOMAIN job[p].wizard.yaml =>
                        job[p].wizard.yaml.port.is # "big"
               PROVE  Deserializes(job[p].wizard.yaml)
    BY DEF WizardFileLoads
  <2>1. Fits(job[p])
    BY DEF SetupType, GoodJobs
  <2>2. LoadsButPort(job[p].wizard.yaml)
    BY <2>1 DEF Fits, WizardRan
  <2>3. QED
    BY <2>2, DeserializesLoads
<1>2. QED
  BY <1>1, SetupTypeInvariance, PTL

\* A wizard answered by Enter throughout leaves the server's settings as they were,
\* if the file holds a value of the prompt's type for every field it asks about.
THEOREM EnterAlwaysKeeps == Spec => []EnterKeepsWhatIsThere
<1>1. SetupType => EnterKeepsWhatIsThere
  <2> SUFFICES ASSUME SetupType, NEW p \in Shells, OnlyEnter(p), Shown(p)
               PROVE  Settings(job[p].wizard.yaml) = Settings(job[p].base)
    BY DEF EnterKeepsWhatIsThere
  <2>1. Kept(job[p])
    BY DEF SetupType, GoodJobs
  <2>2. ShownIn(job[p])
    BY DEF Shown, ShownIn
  <2>3. QED
    BY <2>1, <2>2 DEF Kept, WizardRan, OnlyEnter
<1>2. QED
  BY <1>1, SetupTypeInvariance, PTL
-------------------------------------------------------------------------------
\* y has what was reported, but for the keys in K.
HoldsAll(a, y, K) == \A k \in DOMAIN a \ K : k \in DOMAIN y /\ y[k] = a[k]

\* Unless a write is going on, the file has what was reported.
InFile(a, file) ==
  IF file \in {Missing, Garbled} THEN DOMAIN a = {} ELSE HoldsAll(a, file, {})
\* What was reported is in the file.
AckedInFile == NobodyWrites => InFile(acked, config)

\* And so does every command that has it in hand and no other has overlapped
\* with, but for what it edits itself.
InHand(a, j) ==
  j.step \in {"ask", "service", "save", "saving"} /\ j.alone =>
    HoldsAll(a, j.wizard.yaml, j.edits)
\* That of all commands, and the two together.
AckedInHand == \A p \in Shells : InHand(acked, job[p])
AckedSafe == AckedInFile /\ AckedInHand

\* Nothing reported, nothing to lose.
LEMMA NothingReported ==
  ASSUME NEW a, DOMAIN a = {}
  PROVE  (\A file : InFile(a, file)) /\ (\A j : InHand(a, j))
BY DEF InFile, InHand, HoldsAll

\* What is loaded while nobody writes has what was reported.
LEMMA LoadedHasAll ==
  ASSUME AckedSafe, NobodyWrites
  PROVE  HoldsAll(acked, load_yaml(config), {}) /\ HoldsAll(acked, Parsed(config), {})
<1>1. CASE config \in {Missing, Garbled}
  BY <1>1 DEF AckedSafe, AckedInFile, InFile, HoldsAll
<1>2. CASE config \notin {Missing, Garbled}
  BY <1>2 DEF AckedSafe, AckedInFile, InFile, load_yaml, Parsed
<1>3. QED
  BY <1>1, <1>2

\* Changing other keys loses nothing.
LEMMA ChangesElsewhere ==
  ASSUME NEW a, NEW y, NEW z, NEW K, NEW L, NEW New, HoldsAll(a, y, K),
         Changed(y, z, New), K \subseteq L, \A kv \in New : kv[1] \in L
  PROVE  HoldsAll(a, z, L)
BY DEF HoldsAll, Changed

\* The job of one shell changes and no file.
LEMMA JobKeepsAcked ==
  ASSUME SetupType, SetupType', AckedSafe, NEW p \in Shells,
         NEW j, job' = [job EXCEPT ![p] = j], UNCHANGED <<config, acked>>,
         job[p].step # "saving", InHand(acked, j)
  PROVE  AckedSafe'
<1>1. /\ \A q \in Shells \ {p} : job'[q] = job[q]
      /\ job'[p] = j
  BY DEF SetupType
<1>2. NobodyWrites' => NobodyWrites
  BY <1>1 DEF NobodyWrites
<1>3. AckedInFile'
  BY <1>2 DEF AckedSafe, AckedInFile
<1>4. ASSUME NEW q \in Shells PROVE InHand(acked, job'[q])
  BY <1>1 DEF AckedSafe, AckedInHand
<1>5. AckedInHand'
  BY <1>4 DEF AckedInHand
<1>6. QED
  BY <1>3, <1>5 DEF AckedSafe

\* A command that begins while nobody writes starts from what was reported.
LEMMA BeginKeepsAcked ==
  ASSUME SetupType, SetupType', AckedSafe, NEW p \in Shells, NEW j, Begin(p, j),
         [j EXCEPT !.base = config, !.alone = NobodyWrites] \in Jobs,
         NobodyWrites => HoldsAll(acked, j.wizard.yaml, j.edits)
  PROVE  AckedSafe'
<1> DEFINE i == [j EXCEPT !.base = config, !.alone = NobodyWrites]
<1>1. job' = [job EXCEPT ![p] = i] /\ UNCHANGED <<config, acked>> /\ job[p].step = "idle"
  BY DEF Begin
<1>2. i \in Jobs
  OBVIOUS
<1>3. i.alone = NobodyWrites /\ i.wizard = j.wizard /\ i.edits = j.edits
  BY <1>2 DEF Jobs
<1> HIDE DEF i
<1>4. InHand(acked, i)
  BY <1>3 DEF InHand
<1>5. QED
  BY <1>1, <1>4, JobKeepsAcked

\* Each action keeps AckedSafe: config set,
LEMMA ConfigSetKeepsAcked ==
  ASSUME SetupType, SetupType', AckedSafe, NEW p \in Shells, ConfigSet(p)
  PROVE  AckedSafe'
<1>1. PICK a \in Assignments :
        Begin(p, [Idle EXCEPT !.step = "save", !.command = "set", !.edits = {a[1]},
                    !.wizard.yaml = yaml_set(Parsed(config), a[1], a[2])])
  BY DEF ConfigSet
<1> DEFINE y == yaml_set(Parsed(config), a[1], a[2])
           j == [Idle EXCEPT !.step = "save", !.command = "set", !.edits = {a[1]},
                    !.wizard.yaml = y]
           i == [j EXCEPT !.base = config, !.alone = NobodyWrites]
<1>2. config \in ConfigFiles /\ a[1] \in AllKeys /\ a[2] \in Values
  BY InputsAssumption DEF SetupType, FilesTyped, AllKeys
<1>3. y \in Yamls /\ Changed(Parsed(config), y, {<<a[1], a[2]>>})
  BY <1>2, LoadedTyped, SetTyped
<1>4. NobodyWrites \in BOOLEAN
  BY DEF NobodyWrites
<1>5. Begin(p, j)
  BY <1>1
<1> HIDE DEF y
<1>6. NobodyWrites => HoldsAll(acked, y, {a[1]})
  BY <1>3, LoadedHasAll, ChangesElsewhere
<1>7. i \in Jobs /\ j.wizard.yaml = y /\ j.edits = {a[1]}
  BY <1>2, <1>3, <1>4, IdleTyped DEF Jobs, Wizards, Steps, Commands
<1> HIDE DEF j
<1>8. QED
  BY <1>5, <1>6, <1>7, BeginKeepsAcked

\* install --defaults,
LEMMA InstallHeadlessKeepsAcked ==
  ASSUME SetupType, SetupType', AckedSafe, NEW p \in Shells, InstallHeadless(p)
  PROVE  AckedSafe'
<1> DEFINE yaml == load_yaml(config)
<1>1. PICK l \in OverrideLists :
        Begin(p, [Idle EXCEPT !.step = "save", !.command = "install",
                    !.wizard = [yaml |-> apply_overrides(yaml, l),
                                skipped |-> headless_skipped(yaml)],
                    !.overrides = l, !.edits = {o[1] : o \in Range(l)}])
  BY DEF InstallHeadless
<1> DEFINE y == apply_overrides(yaml, l)
           skipped == headless_skipped(yaml)
           edits == {o[1] : o \in Range(l)}
           j == [Idle EXCEPT !.step = "save", !.command = "install",
                   !.wizard = [yaml |-> y, skipped |-> skipped],
                   !.overrides = l, !.edits = edits]
           i == [j EXCEPT !.base = config, !.alone = NobodyWrites]
<1>2. config \in ConfigFiles /\ yaml \in Yamls /\ l \in OverrideSets
  BY LoadedTyped DEF SetupType, FilesTyped, OverrideSets
<1>3. y \in Yamls /\ edits \in SUBSET AllKeys /\ Changed(yaml, y, PairsOf(l))
  BY <1>2, OverridesTyped
<1>4. \A kv \in PairsOf(l) : kv[1] \in edits
  BY DEF PairsOf
<1>5. skipped \in SUBSET (ApiKeys \cup BaseUrls)
  <2>1. 0 \in SectionNumbers
    BY SectionsGood DEF SectionNumbers
  <2>2. QED
    BY <2>1, PromptsGood DEF headless_skipped, Good
<1>6. NobodyWrites \in BOOLEAN
  BY DEF NobodyWrites
<1>7. Begin(p, j)
  BY <1>1
<1>8. NobodyWrites => HoldsAll(acked, yaml, {})
  BY LoadedHasAll
<1> HIDE DEF y, skipped, edits, yaml
<1>9. NobodyWrites => HoldsAll(acked, y, edits)
  BY <1>3, <1>4, <1>8, ChangesElsewhere
<1>10. i \in Jobs /\ j.wizard.yaml = y /\ j.edits = edits
  BY <1>2, <1>3, <1>5, <1>6, IdleTyped DEF Jobs, Wizards, Steps, Commands
<1> HIDE DEF j
<1>11. QED
  BY <1>7, <1>9, <1>10, BeginKeepsAcked

\* A wizard begins.
LEMMA WizardKeepsAcked ==
  ASSUME SetupType, SetupType', AckedSafe, NEW p \in Shells, NEW j \in Jobs, Begin(p, j),
         j.wizard.yaml = load_yaml(config), j.edits = {}
  PROVE  AckedSafe'
<1>1. config \in ConfigFiles /\ NobodyWrites \in BOOLEAN
  BY DEF SetupType, FilesTyped, NobodyWrites
<1>2. [j EXCEPT !.base = config, !.alone = NobodyWrites] \in Jobs
  BY <1>1 DEF Jobs
<1>3. NobodyWrites => HoldsAll(acked, j.wizard.yaml, j.edits)
  BY LoadedHasAll
<1>4. QED
  BY <1>2, <1>3, BeginKeepsAcked

\* install,
LEMMA InstallKeepsAcked ==
  ASSUME SetupType, SetupType', AckedSafe, NEW p \in Shells, Install(p)
  PROVE  AckedSafe'
<1> DEFINE yaml == load_yaml(config)
<1>1. PICK l \in OverrideLists :
        Begin(p, [Idle EXCEPT !.step = "ask", !.command = "install",
                    !.wizard.yaml = yaml, !.overrides = l])
  BY DEF Install
<1> DEFINE j == [Idle EXCEPT !.step = "ask", !.command = "install",
                   !.wizard.yaml = yaml, !.overrides = l]
<1>2. yaml \in Yamls /\ l \in OverrideSets
  BY LoadedTyped DEF SetupType, FilesTyped, OverrideSets
<1>3. Begin(p, j)
  BY <1>1
<1> HIDE DEF yaml
<1>4. j \in Jobs /\ j.wizard.yaml = yaml
  BY <1>2, IdleTyped DEF Jobs, Wizards, Steps, Commands
<1>5. j.edits = {}
  BY DEF Idle
<1> HIDE DEF j
<1>6. QED
  BY <1>3, <1>4, <1>5, WizardKeepsAcked DEF yaml

\* configure,
LEMMA ConfigureKeepsAcked ==
  ASSUME SetupType, SetupType', AckedSafe, NEW p \in Shells, Configure(p)
  PROVE  AckedSafe'
<1> DEFINE yaml == load_yaml(config)
<1>1. PICK only \in Filters :
        Begin(p, [Idle EXCEPT !.step = "ask", !.command = "configure", !.only = only,
                    !.wizard.yaml = yaml])
  BY DEF Configure
<1> DEFINE j == [Idle EXCEPT !.step = "ask", !.command = "configure", !.only = only,
                   !.wizard.yaml = yaml]
<1>2. yaml \in Yamls /\ only \in SectionNumbers
  BY LoadedTyped, InputsAssumption DEF SetupType, FilesTyped
<1>3. Begin(p, j)
  BY <1>1
<1> HIDE DEF yaml
<1>4. j \in Jobs /\ j.wizard.yaml = yaml
  BY <1>2, IdleTyped DEF Jobs, Wizards, Steps, Commands
<1>5. j.edits = {}
  BY DEF Idle
<1> HIDE DEF j
<1>6. QED
  BY <1>3, <1>4, <1>5, WizardKeepsAcked DEF yaml

\* the wizard, which edits all it asks about and nothing else,
LEMMA AskSectionsKeepsAcked ==
  ASSUME SetupType, SetupType', AckedSafe, NEW p \in Shells, AskSections(p)
  PROVE  AckedSafe'
<1> DEFINE w == job[p].wizard
           prompts == Prompts(job[p].only)
<1>1. PICK typed : AnswersWell(typed) /\ job' = [job EXCEPT ![p] = Answered(job[p], typed)]
  BY AskSectionsDoes
<1>2. job[p].step = "ask" /\ UNCHANGED <<config, acked>>
  BY DEF AskSections
<1>3. job[p] \in Jobs /\ Fresh(job[p]) /\ w.yaml \in Yamls
  BY DEF SetupType, GoodJobs, Jobs, Wizards
<1>4. prompts \in SUBSET Good
  BY <1>3, PromptsGood DEF Jobs
<1> DEFINE j == Answered(job[p], typed)
           z == run_sections(w, prompts, typed)
<1>5. Changed(w.yaml, z.yaml, Settable(prompts))
  BY <1>1, <1>3, <1>4, YamlsAre, SectionsChange
<1>6. j.wizard = z /\ j.edits = KeysOf(prompts) /\ j.alone = job[p].alone
  <2> HIDE DEF z
  <2>1. job[p] \in Jobs /\ j = [job[p] EXCEPT !.wizard = z,
            !.step = IF job[p].command = "install" THEN "service" ELSE "save",
            !.edits = KeysOf(Prompts(job[p].only)), !.typed = (typed # Nothing)]
    BY <1>3 DEF z, Answered
  <2>2. QED
    BY <2>1 DEF Jobs
<1>7. \A kv \in Settable(prompts) : kv[1] \in KeysOf(prompts)
  BY DEF Settable
<1>8. job[p].alone => HoldsAll(acked, w.yaml, {})
  BY <1>2, <1>3 DEF AckedSafe, AckedInHand, InHand, Fresh
<1> HIDE DEF z, w, prompts
<1>9. job[p].alone => HoldsAll(acked, z.yaml, KeysOf(prompts))
  BY <1>5, <1>7, <1>8, ChangesElsewhere
<1> HIDE DEF j
<1>10. InHand(acked, j)
  BY <1>6, <1>9 DEF InHand
<1>11. QED
  BY <1>1, <1>2, <1>10, JobKeepsAcked DEF j

\* the overrides,
LEMMA OfferServiceKeepsAcked ==
  ASSUME SetupType, SetupType', AckedSafe, NEW p \in Shells, OfferService(p)
  PROVE  AckedSafe'
<1> DEFINE o == job[p].overrides
           y == job[p].wizard.yaml
           z == apply_overrides(y, o)
           edits == job[p].edits \cup {x[1] : x \in Range(o)}
           j == [job[p] EXCEPT !.wizard.yaml = z, !.edits = edits, !.step = "save"]
<1>1. /\ job[p].step = "service" /\ UNCHANGED <<config, acked>>
      /\ job' = [job EXCEPT ![p].wizard.yaml = z, ![p].edits = edits, ![p].step = "save"]
  BY DEF OfferService
<1>2. job \in [Shells -> GoodJobs] /\ job[p] \in Jobs /\ y \in Yamls /\ o \in OverrideSets
  BY DEF SetupType, GoodJobs, Jobs, Wizards
<1>3. Changed(y, z, PairsOf(o))
  BY <1>2, OverridesTyped
<1>4. \A kv \in PairsOf(o) : kv[1] \in edits
  BY DEF PairsOf
<1>5. job[p].alone => HoldsAll(acked, y, job[p].edits)
  BY <1>1 DEF AckedSafe, AckedInHand, InHand
<1>6. job[p].edits \subseteq edits
  OBVIOUS
<1> HIDE DEF z, edits, y, o
<1>7. job[p].alone => HoldsAll(acked, z, edits)
  BY <1>3, <1>4, <1>5, <1>6, ChangesElsewhere
<1>8. job' = [job EXCEPT ![p] = j]
  BY <1>1, <1>2 DEF Jobs
<1>9. j.wizard.yaml = z /\ j.edits = edits /\ j.alone = job[p].alone
  BY <1>2 DEF Jobs, Wizards
<1> HIDE DEF j
<1>10. InHand(acked, j)
  BY <1>7, <1>9 DEF InHand
<1>11. QED
  BY <1>1, <1>8, <1>10, JobKeepsAcked

\* Whoever has something in hand when another writes is no longer alone.
LEMMA OthersNotAloneFacts ==
  ASSUME SetupType, NEW p \in Shells, NEW a
  PROVE  /\ \A q \in Shells \ {p} : /\ InHand(a, OthersNotAlone(p)[q])
                                    /\ OthersNotAlone(p)[q].step = job[q].step
         /\ OthersNotAlone(p)[p] = job[p] /\ DOMAIN OthersNotAlone(p) = Shells
<1>1. \A q \in Shells : job[q] \in Jobs
  BY DEF SetupType, GoodJobs
<1>2. OthersNotAlone(p)[p] = job[p] /\ DOMAIN OthersNotAlone(p) = Shells
  BY DEF OthersNotAlone
<1>3. ASSUME NEW q \in Shells \ {p}
      PROVE  /\ InHand(a, OthersNotAlone(p)[q])
             /\ OthersNotAlone(p)[q].step = job[q].step
  <2>1. CASE job[q].step = "idle"
    BY <2>1 DEF OthersNotAlone, InHand
  <2>2. CASE job[q].step # "idle"
    <3>1. OthersNotAlone(p)[q] = [job[q] EXCEPT !.alone = FALSE]
      BY <2>2 DEF OthersNotAlone
    <3>2. [job[q] EXCEPT !.alone = FALSE].alone = FALSE
          /\ [job[q] EXCEPT !.alone = FALSE].step = job[q].step
      BY <1>1 DEF Jobs
    <3>3. QED
      BY <3>1, <3>2 DEF InHand
  <2>3. QED
    BY <2>1, <2>2
<1>4. QED
  BY <1>2, <1>3

\* opening the file: nothing is claimed of it until it is written,
LEMMA OpenConfigKeepsAcked ==
  ASSUME SetupType, SetupType', AckedSafe, NEW p \in Shells, OpenConfig(p)
  PROVE  AckedSafe'
<1> DEFINE others == OthersNotAlone(p)
           j == [others[p] EXCEPT !.step = "saving"]
<1>1. /\ DOMAIN others = Shells /\ others[p] = job[p]
      /\ \A q \in Shells \ {p} : InHand(acked, others[q])
  BY OthersNotAloneFacts
<1>2. job' = [others EXCEPT ![p] = j] /\ acked' = acked /\ job[p].step = "save"
  BY DEF OpenConfig
<1>3. job[p] \in Jobs
  BY DEF SetupType, GoodJobs
<1> HIDE DEF others
<1>4. /\ j.step = "saving" /\ j.alone = job[p].alone /\ j.wizard = job[p].wizard
      /\ j.edits = job[p].edits
  BY <1>1, <1>3 DEF Jobs
<1> HIDE DEF j
<1>5. job'[p] = j /\ \A q \in Shells \ {p} : job'[q] = others[q]
  BY <1>1, <1>2
<1>6. AckedInFile'
  BY <1>4, <1>5 DEF AckedInFile, NobodyWrites
<1>7. InHand(acked, j)
  BY <1>2, <1>4 DEF AckedSafe, AckedInHand, InHand
<1>8. AckedInHand'
  BY <1>1, <1>2, <1>5, <1>7 DEF AckedInHand
<1>9. QED
  BY <1>6, <1>8 DEF AckedSafe

\* A command is past its save.
LEMMA PastSaveKeepsAcked ==
  ASSUME SetupType, SetupType', NEW p \in Shells,
         job' = [OthersNotAlone(p) EXCEPT ![p] = AfterConfig(job[p])],
         AckedInFile'
  PROVE  AckedSafe'
<1> DEFINE others == OthersNotAlone(p)
           j == AfterConfig(job[p])
<1>1. DOMAIN others = Shells /\ \A q \in Shells \ {p} : InHand(acked', others[q])
  BY OthersNotAloneFacts
<1>2. j.step \in {"idle", "env"}
  <2>1. job[p] \in Jobs
    BY DEF SetupType, GoodJobs
  <2>2. QED
    BY <2>1 DEF AfterConfig, Idle, Jobs
<1>3. job' = [others EXCEPT ![p] = j]
  OBVIOUS
<1> HIDE DEF others, j
<1>4. job'[p] = j /\ \A q \in Shells \ {p} : job'[q] = others[q]
  BY <1>1, <1>3
<1>5. AckedInHand'
  BY <1>1, <1>2, <1>4 DEF AckedInHand, InHand
<1>6. QED
  BY <1>5 DEF AckedSafe

\* writing it: what was reported is now what is in it,
LEMMA FinishConfigKeepsAcked ==
  ASSUME SetupType, SetupType', AckedSafe, NEW p \in Shells, FinishConfig(p)
  PROVE  AckedSafe'
<1> DEFINE y == job[p].wizard.yaml
<1>1. y \in Yamls
  BY DEF SetupType, GoodJobs, Jobs, Wizards
<1>2. CASE config' = y /\ acked' = Overlaid(Saved(p), StillThere(y))
  <2>1. InFile(acked', y)
    <3>1. HoldsAll(Overlaid(Saved(p), StillThere(y)), y, {})
      BY DEF HoldsAll, Overlaid, Saved, StillThere
    <3>2. QED
      BY <1>1, <1>2, <3>1, YamlsAre DEF InFile
  <2>2. AckedInFile'
    BY <1>2, <2>1 DEF AckedInFile
  <2>3. QED
    BY <2>2, PastSaveKeepsAcked DEF FinishConfig
<1>3. CASE config' = Garbled /\ acked' = Nothing
  <2>1. AckedInFile'
    BY <1>3, NothingIsYaml, NothingReported DEF AckedInFile
  <2>2. QED
    BY <2>1, PastSaveKeepsAcked DEF FinishConfig
<1>4. QED
  BY <1>2, <1>3 DEF FinishConfig

\* failing before the file is opened, or after, when nothing counts as reported,
LEMMA FailConfigKeepsAcked ==
  ASSUME SetupType, SetupType', AckedSafe, NEW p \in Shells, FailConfig(p)
  PROVE  AckedSafe'
<1>1. CASE job[p].step = "save"
  <2>1. UNCHANGED <<config, acked>> /\ job' = [OthersNotAlone(p) EXCEPT ![p] = AfterConfig(job[p])]
    BY <1>1 DEF FailConfig
  <2>2. NobodyWrites' => NobodyWrites
    <3> DEFINE others == OthersNotAlone(p)
               j == AfterConfig(job[p])
    <3>1. /\ DOMAIN others = Shells
          /\ \A q \in Shells \ {p} : others[q].step = job[q].step
      BY OthersNotAloneFacts
    <3>2. job' = [others EXCEPT ![p] = j]
      BY <2>1
    <3> HIDE DEF others, j
    <3>3. QED
      BY <1>1, <3>1, <3>2 DEF NobodyWrites
  <2>3. AckedInFile'
    BY <2>1, <2>2 DEF AckedSafe, AckedInFile
  <2>4. QED
    BY <2>1, <2>3, PastSaveKeepsAcked
<1>2. CASE job[p].step # "save"
  <2>1. acked' = Nothing
    BY <1>2 DEF FailConfig
  <2>2. AckedInFile'
    BY <2>1, NothingIsYaml, NothingReported DEF AckedInFile
  <2>3. QED
    BY <2>2, PastSaveKeepsAcked DEF FailConfig
<1>3. QED
  BY <1>1, <1>2

\* A command that has nothing in hand any more.
LEMMA LaterJobsKeepAcked ==
  ASSUME SetupType, SetupType', AckedSafe, NEW p \in Shells,
         Interrupt(p) \/ WriteEnv(p) \/ WriteMetadata(p)
  PROVE  AckedSafe'
<1>1. PICK j : /\ job' = [job EXCEPT ![p] = j]
               /\ j \in {Idle, [job[p] EXCEPT !.step = "meta"]}
  BY DEF Interrupt, WriteEnv, WriteMetadata
<1>2. job[p] \in Jobs
  BY DEF SetupType, GoodJobs
<1>3. j.step \in {"idle", "meta"}
  BY <1>1, <1>2 DEF Jobs, Idle
<1>4. InHand(acked, j)
  BY <1>3 DEF InHand
<1>5. job[p].step # "saving" /\ UNCHANGED <<config, acked>>
  BY DEF Interrupt, WriteEnv, WriteMetadata
<1>6. QED
  BY <1>1, <1>4, <1>5, JobKeepsAcked

\* and a kill, of one that writes or one that does not.
LEMMA KillKeepsAcked ==
  ASSUME SetupType, SetupType', AckedSafe, NEW p \in Shells, Kill(p)
  PROVE  AckedSafe'
<1>1. CASE job[p].step = "saving"
  <2>1. acked' = Nothing
    BY <1>1 DEF Kill
  <2>2. QED
    BY <2>1, NothingIsYaml, NothingReported DEF AckedSafe, AckedInFile, AckedInHand
<1>2. CASE job[p].step # "saving"
  <2>1. InHand(acked, Idle)
    BY DEF InHand, Idle
  <2>2. QED
    BY <1>2, <2>1, JobKeepsAcked DEF Kill
<1>3. QED
  BY <1>1, <1>2

\* AckedSafe is inductive.
LEMMA AckedSteps == SetupType /\ SetupType' /\ AckedSafe /\ [Next]_vars => AckedSafe'
<1> SUFFICES ASSUME SetupType, SetupType', AckedSafe, [Next]_vars PROVE AckedSafe'
  OBVIOUS
<1>1. ASSUME NEW p \in Shells, ConfigSet(p) PROVE AckedSafe'
  BY <1>1, ConfigSetKeepsAcked
<1>2. ASSUME NEW p \in Shells, InstallHeadless(p) PROVE AckedSafe'
  BY <1>2, InstallHeadlessKeepsAcked
<1>3. ASSUME NEW p \in Shells, Install(p) PROVE AckedSafe'
  BY <1>3, InstallKeepsAcked
<1>4. ASSUME NEW p \in Shells, Configure(p) PROVE AckedSafe'
  BY <1>4, ConfigureKeepsAcked
<1>5. ASSUME NEW p \in Shells, AskSections(p) PROVE AckedSafe'
  BY <1>5, AskSectionsKeepsAcked
<1>6. ASSUME NEW p \in Shells, OfferService(p) PROVE AckedSafe'
  BY <1>6, OfferServiceKeepsAcked
<1>7. ASSUME NEW p \in Shells, OpenConfig(p) PROVE AckedSafe'
  BY <1>7, OpenConfigKeepsAcked
<1>8. ASSUME NEW p \in Shells, FinishConfig(p) PROVE AckedSafe'
  BY <1>8, FinishConfigKeepsAcked
<1>9. ASSUME NEW p \in Shells, FailConfig(p) PROVE AckedSafe'
  BY <1>9, FailConfigKeepsAcked
<1>10. ASSUME NEW p \in Shells, Interrupt(p) \/ WriteEnv(p) \/ WriteMetadata(p) PROVE AckedSafe'
  BY <1>10, LaterJobsKeepAcked
<1>11. ASSUME NEW p \in Shells, Kill(p) PROVE AckedSafe'
  BY <1>11, KillKeepsAcked
<1>12. CASE Serve \/ Stop \/ UNCHANGED vars
  BY <1>12 DEF Serve, Stop, vars, AckedSafe, AckedInFile, AckedInHand, NobodyWrites
<1>13. QED
  BY <1>1, <1>2, <1>3, <1>4, <1>5, <1>6, <1>7, <1>8, <1>9, <1>10, <1>11, <1>12 DEF Next

\* AckedSafe is an invariant.
LEMMA AckedInvariance == Spec => [](SetupType /\ AckedSafe)
<1>1. Init => AckedSafe
  BY NothingIsYaml, NothingReported DEF Init, AckedSafe, AckedInFile, AckedInHand
<1>2. QED
  BY <1>1, AckedSteps, SetupTypeInvariance, PTL DEF Spec

\* A setting that was reported as set is lost only to a command that edits it or
\* to one whose load and save another command's write came between or overlapped.
THEOREM OnlyOverlapsEverLose == Spec => OnlyOverlapsLose
<1>1. ASSUME SetupType, AckedSafe, [Next]_vars, NEW p \in Shells,
             job[p].step = "saving", job[p].alone, config' = job[p].wizard.yaml,
             NEW k \in DOMAIN acked \ job[p].edits
      PROVE  k \in DOMAIN config' /\ config'[k] = acked[k]
  <2>1. HoldsAll(acked, job[p].wizard.yaml, job[p].edits)
    BY <1>1 DEF AckedSafe, AckedInHand, InHand
  <2>2. QED
    BY <1>1, <2>1 DEF HoldsAll
<1>2. SetupType /\ AckedSafe /\ [Next]_vars =>
        [\A p \in Shells :
           job[p].step = "saving" /\ job[p].alone /\ config' = job[p].wizard.yaml =>
             \A k \in DOMAIN acked \ job[p].edits :
               k \in DOMAIN config' /\ config'[k] = acked[k]]_vars
  BY <1>1
<1>3. QED
  BY <1>2, AckedInvariance, PTL DEF Spec, OnlyOverlapsLose

\* A server that starts while nobody writes runs with every setting reported as
\* set and not lost that way, but for those its environment overrides.
THEOREM ReportedSettingsAlwaysReach == Spec => ReportedSettingsReachServer
<1>1. ASSUME SetupType, AckedSafe, [Next]_vars,
             server = Down, server' \notin {Down, Refused}, NobodyWrites,
             NEW k \in DOMAIN acked \ EnvFields
      PROVE  k \in DOMAIN server' /\ server'[k] = Meaning(k, acked[k])
  <2>1. Serve
    <3>1. server' # server
      BY <1>1
    <3>2. ASSUME NEW p \in Shells
          PROVE  /\ ConfigSet(p) \/ InstallHeadless(p) \/ Install(p) \/ Configure(p)
                    \/ AskSections(p) \/ Interrupt(p) => server' = server
                 /\ OfferService(p) \/ OpenConfig(p) \/ FinishConfig(p) \/ FailConfig(p)
                    \/ WriteEnv(p) \/ WriteMetadata(p) \/ Kill(p) => server' = server
      <4>1. ConfigSet(p) \/ InstallHeadless(p) \/ Install(p) \/ Configure(p) => server' = server
        BY DEF Begin, ConfigSet, InstallHeadless, Install, Configure
      <4>2. AskSections(p) \/ Interrupt(p) \/ OfferService(p) \/ OpenConfig(p) => server' = server
        BY DEF AskSections, Interrupt, OfferService, OpenConfig
      <4>3. FinishConfig(p) \/ FailConfig(p) => server' = server
        BY DEF FinishConfig, FailConfig
      <4>4. WriteEnv(p) \/ WriteMetadata(p) \/ Kill(p) => server' = server
        BY DEF WriteEnv, WriteMetadata, Kill
      <4>5. QED
        BY <4>1, <4>2, <4>3, <4>4
    <3>3. Stop => server' = Down
      BY DEF Stop
    <3>4. UNCHANGED vars => server' = server
      BY DEF vars
    <3>5. QED
      BY <1>1, <3>1, <3>2, <3>3, <3>4 DEF Next
  <2>2. PICK environment \in Environments : server' = load_config(config, environment)
    BY <2>1 DEF Serve
  <2>3. InFile(acked, config)
    BY <1>1 DEF AckedSafe, AckedInFile
  <2>4. config \notin {Missing, Garbled}
    BY <2>3 DEF InFile
  <2>5. k \in DOMAIN config /\ config[k] = acked[k]
    BY <2>3, <2>4 DEF InFile, HoldsAll
  <2>6. Deserializes(config) /\ server' = Overridden(Settings(config), environment)
    BY <1>1, <2>2, <2>4 DEF load_config, Parsed
  <2>7. k \in Known
    BY <2>5, <2>6 DEF Deserializes, Known
  <2>8. k \in DOMAIN Settings(config) /\ Settings(config)[k] = Meaning(k, acked[k])
    BY <2>5, <2>7 DEF Settings, Known
  <2> DEFINE settings == Settings(config)
  <2>9. server' = [x \in DOMAIN settings |->
                     IF x \in EnvFields \cap DOMAIN environment
                          /\ Override(x, environment[x]) # Unset
                     THEN Override(x, environment[x]) ELSE settings[x]]
    BY <2>6 DEF Overridden
  <2> HIDE DEF settings
  <2>10. QED
    BY <2>8, <2>9 DEF settings
<1>2. SetupType /\ AckedSafe /\ [Next]_vars =>
        [server = Down /\ server' \notin {Down, Refused} /\ NobodyWrites =>
           \A k \in DOMAIN acked \ EnvFields :
             k \in DOMAIN server' /\ server'[k] = Meaning(k, acked[k])]_vars
  BY <1>1
<1>3. QED
  BY <1>2, AckedInvariance, PTL DEF Spec, ReportedSettingsReachServer
-------------------------------------------------------------------------------
(* The key vault. *)

VaultSteps == {"closed", "init_cipher", "open", "save", "saving"}
Handles ==
  [step : VaultSteps, file : Files, cipher : Ciphers, found : Draws \cup {Absent, Torn},
   data : Maps, owner : Owners \cup {Absent}, alone : BOOLEAN, read : BOOLEAN]

\* What the variables may be.
VaultType ==
  /\ vault \in [cipher : Ciphers \cup {Absent, Torn}, map : Maps]
  /\ secret \in [Files -> Draws \cup {Absent, Torn}]
  /\ handle \in [Processes -> Handles]
  /\ reported \in Maps /\ lapsed \subseteq Owners \cup {Absent}
  /\ steps \in 0..MaxVaultSteps

\* map holds what was reported of Os.
Holds(map, Os) == \A o \in Os : map[o] = reported[o]

\* So does a vault that is not torn, for the reports that nothing has overtaken;
\* one that was never written has no keys.
KeysInVault ==
  /\ vault.cipher # Torn => Holds(vault.map, Owners \ lapsed)
  /\ vault.cipher = Absent => vault.map = Empty
\* So does the map of a process that could read the vault and was alone since.
KeysInHand ==
  \A p \in Processes :
    LET h == handle[p] IN
      h.step \in {"save", "saving"} /\ h.alone /\ h.read =>
        Holds(h.data, Owners \ (lapsed \cup {h.owner}))
\* While a process alone writes, the vault is the file it has cut.
TornWhileSaving ==
  \A p \in Processes :
    handle[p].step = "saving" /\ handle[p].alone => vault.cipher = Torn
\* A vault that was left torn has overtaken every report.
TornExcuses == vault.cipher = Torn /\ NoneSaving => Owners \subseteq lapsed

\* The inductive invariant.
VaultInv == VaultType /\ KeysInVault /\ KeysInHand /\ TornWhileSaving /\ TornExcuses

\* A closed process has no key in hand.
LEMMA ClosedTyped == Empty \in Maps /\ Closed \in Handles
BY DEF Empty, Maps, Closed, Handles, VaultSteps, Files, Ciphers

\* Without a vault nothing is reported.
LEMMA VaultStarts == VInit => VaultInv
<1> SUFFICES ASSUME VInit PROVE VaultInv
  OBVIOUS
<1>1. VaultType
  BY ClosedTyped, VaultAssumption DEF VInit, VaultType
<1>2. KeysInVault
  BY DEF VInit, KeysInVault, Holds, Empty
<1>3. KeysInHand /\ TornWhileSaving /\ TornExcuses
  BY VaultAssumption DEF VInit, KeysInHand, TornWhileSaving, TornExcuses, Closed
<1>4. QED
  BY <1>1, <1>2, <1>3 DEF VaultInv

\* The values keep their types: a cipher is never one of the marks.
LEMMA TypeSteps == VaultType /\ [VNext]_vaultVars => VaultType'
<1> SUFFICES ASSUME VaultType, [VNext]_vaultVars PROVE VaultType'
  OBVIOUS
<1>0. /\ vault \in [cipher : Ciphers \cup {Absent, Torn}, map : Maps]
      /\ secret \in [Files -> Draws \cup {Absent, Torn}]
      /\ handle \in [Processes -> Handles]
      /\ reported \in Maps /\ lapsed \subseteq Owners \cup {Absent} /\ steps \in 0..MaxVaultSteps
  BY DEF VaultType
<1>s. Operation => steps \in 1..MaxVaultSteps /\ steps' \in 0..MaxVaultSteps
  BY <1>0, VaultAssumption DEF Operation
<1>1. ASSUME NEW p \in Processes, Open(p) PROVE VaultType'
  <2>1. PICK f \in Files :
          handle' = [handle EXCEPT ![p] = [Closed EXCEPT !.step = "init_cipher", !.file = f,
                                                         !.found = secret[f]]]
    BY <1>1 DEF Open
  <2>2. [Closed EXCEPT !.step = "init_cipher", !.file = f, !.found = secret[f]] \in Handles
    <3>1. secret[f] \in Draws \cup {Absent, Torn}
      BY <1>0
    <3>2. QED
      BY <3>1, ClosedTyped DEF Handles, VaultSteps
  <2>3. handle' \in [Processes -> Handles]
    BY <1>0, <2>1, <2>2
  <2>4. Operation /\ UNCHANGED <<vault, secret, reported, lapsed>>
    BY <1>1 DEF Open
  <2>5. QED
    BY <1>0, <1>s, <2>3, <2>4 DEF VaultType
<1>2. ASSUME NEW p \in Processes, UseSecret(p) PROVE VaultType'
  <2>1. handle[p] \in Handles
    BY <1>0
  <2>2. CipherFrom(handle[p].file, handle[p].found) \in Ciphers
    <3>1. handle[p].file \in Files /\ handle[p].found \in Draws \cup {Torn}
      BY <1>2, <2>1 DEF UseSecret, Handles
    <3>2. QED
      BY <3>1 DEF CipherFrom, Ciphers
  <2>3. handle' = [handle EXCEPT ![p] =
                     [handle[p] EXCEPT !.step = "open",
                        !.cipher = CipherFrom(handle[p].file, handle[p].found)]]
    BY <1>2 DEF UseSecret
  <2>4. handle' \in [Processes -> Handles]
    BY <1>0, <2>1, <2>2, <2>3 DEF Handles, VaultSteps
  <2>5. UNCHANGED <<vault, secret, reported, lapsed, steps>>
    BY <1>2 DEF UseSecret
  <2>6. QED
    BY <1>0, <2>4, <2>5 DEF VaultType
<1>3. ASSUME NEW p \in Processes, MakeSecret(p) PROVE VaultType'
  <2> DEFINE f == handle[p].file
  <2>1. handle[p] \in Handles /\ f \in Files
    BY <1>0 DEF Handles
  <2>2. Drawn(p) \in Draws
    BY <1>0 DEF Drawn, Draws
  <2>3. PICK written \in BOOLEAN :
          /\ secret' = IF written THEN [secret EXCEPT ![f] = Drawn(p)] ELSE secret
          /\ handle' = [handle EXCEPT ![p] =
                          [handle[p] EXCEPT !.step = "open",
                             !.cipher = IF written \/ f = "vault.salt"
                                        THEN <<f, Drawn(p)>> ELSE Plain]]
    BY <1>3 DEF MakeSecret
  <2>4. secret' \in [Files -> Draws \cup {Absent, Torn}]
    BY <1>0, <2>1, <2>2, <2>3
  <2>5. (IF written \/ f = "vault.salt" THEN <<f, Drawn(p)>> ELSE Plain) \in Ciphers
    BY <2>1, <2>2 DEF Ciphers
  <2>6. handle' \in [Processes -> Handles]
    BY <1>0, <2>1, <2>3, <2>5 DEF Handles, VaultSteps
  <2>7. UNCHANGED <<vault, reported, lapsed, steps>>
    BY <1>3 DEF MakeSecret
  <2>8. QED
    BY <1>0, <2>4, <2>6, <2>7 DEF VaultType
<1>4. ASSUME NEW p \in Processes, DieMakingSecret(p) PROVE VaultType'
  <2>1. handle' = [handle EXCEPT ![p] = Closed] /\ UNCHANGED <<vault, reported, lapsed, steps>>
        /\ secret' = [secret EXCEPT ![handle[p].file] = Torn]
    BY <1>4 DEF DieMakingSecret
  <2>2. QED
    BY <1>0, <2>1, ClosedTyped DEF VaultType
<1>5. ASSUME NEW p \in Processes, NEW o \in Owners, NEW k \in Keys \cup {Absent},
             NEW l \in Loaded(handle[p].cipher), Change(p, l, o, k)
      PROVE  handle' \in [Processes -> Handles]
  <2>1. handle[p] \in Handles /\ handle[p].cipher \in Ciphers
    BY <1>0 DEF Handles
  <2>2. l.map \in Maps /\ l.read \in BOOLEAN
    <3>1. load_vault(handle[p].cipher) \in Maps /\ Readable(handle[p].cipher) \in BOOLEAN
      BY <1>0, ClosedTyped DEF load_vault, Readable
    <3>2. \/ l.map = load_vault(handle[p].cipher) /\ l.read = Readable(handle[p].cipher)
          \/ l.map = Empty /\ l.read = FALSE
      BY DEF Loaded
    <3>3. QED
      BY <3>1, <3>2, ClosedTyped
  <2> DEFINE d == [l.map EXCEPT ![o] = k]
  <2>3. d \in Maps
    BY <2>2 DEF Maps
  <2>4. handle' = [handle EXCEPT ![p] =
                     [handle[p] EXCEPT !.step = "save", !.owner = o, !.data = d,
                                       !.read = l.read, !.alone = TRUE]]
    BY <1>5 DEF Change
  <2> HIDE DEF d
  <2>5. [handle[p] EXCEPT !.step = "save", !.owner = o, !.data = d,
                          !.read = l.read, !.alone = TRUE] \in Handles
    BY <2>1, <2>2, <2>3 DEF Handles, VaultSteps
  <2>6. QED
    BY <1>0, <2>4, <2>5 DEF d
<1>6. ASSUME NEW p \in Processes, store(p) \/ remove(p) PROVE VaultType'
  <2>1. handle' \in [Processes -> Handles]
    BY <1>0, <1>5, <1>6 DEF store, remove
  <2>2. Operation /\ UNCHANGED <<vault, secret, reported, lapsed>>
    BY <1>6 DEF store, remove
  <2>3. QED
    BY <1>0, <1>s, <2>1, <2>2 DEF VaultType
<1>7. ASSUME NEW p \in Processes
      PROVE  OthersOverlap(p) \in [Processes -> Handles]
  <2>1. ASSUME NEW q \in Processes PROVE [handle[q] EXCEPT !.alone = FALSE] \in Handles
    <3>1. handle[q] \in Handles
      BY <1>0
    <3>2. QED
      BY <3>1 DEF Handles
  <2>2. QED
    BY <1>0, <2>1 DEF OthersOverlap
<1>8. ASSUME NEW p \in Processes, NEW s \in VaultSteps
      PROVE  [OthersOverlap(p) EXCEPT ![p].step = s] \in [Processes -> Handles]
  <2>1. ASSUME NEW h \in Handles PROVE [h EXCEPT !.step = s] \in Handles
    BY DEF Handles
  <2>2. QED
    BY <1>7, <2>1
<1>9. ASSUME NEW p \in Processes, Truncate(p) PROVE VaultType'
  <2>1. handle' \in [Processes -> Handles]
    BY <1>8, <1>9 DEF Truncate, VaultSteps
  <2>2. vault' = TornVault /\ UNCHANGED <<secret, reported, lapsed, steps>>
    BY <1>9 DEF Truncate
  <2>3. QED
    BY <1>0, <2>1, <2>2, ClosedTyped DEF VaultType, TornVault
<1>10. ASSUME NEW p \in Processes, Save(p) \/ FailSave(p) PROVE VaultType'
  <2>1. handle[p] \in Handles
    BY <1>0
  <2>2. /\ handle' \in [Processes -> Handles] /\ UNCHANGED <<secret, steps>>
    <3>1. CASE handle' = [OthersOverlap(p) EXCEPT ![p].step = "open"]
      BY <1>8, <1>10, <3>1 DEF Save, FailSave, VaultSteps
    <3>2. CASE handle' = [handle EXCEPT ![p].step = "open"]
      <4>1. [handle[p] EXCEPT !.step = "open"] \in Handles
        BY <2>1 DEF Handles, VaultSteps
      <4>2. QED
        BY <1>0, <1>10, <3>2, <4>1 DEF Save, FailSave
    <3>3. QED
      BY <1>10, <3>1, <3>2 DEF Save, FailSave
  <2>3. vault' \in [cipher : Ciphers \cup {Absent, Torn}, map : Maps]
    BY <1>0, <1>10, <2>1, ClosedTyped DEF Save, FailSave, Handles, TornVault
  <2>4. reported' \in Maps
    BY <1>0, <1>10, <2>1 DEF Save, FailSave, Report, Handles, Maps
  <2>5. lapsed' \subseteq Owners \cup {Absent}
    BY <1>0, <1>10, <2>1 DEF Save, FailSave, Handles
  <2>6. QED
    BY <1>0, <2>2, <2>3, <2>4, <2>5 DEF VaultType
<1>11. ASSUME NEW p \in Processes, Exit(p) PROVE VaultType'
  <2>1. /\ handle' = [handle EXCEPT ![p] = Closed]
        /\ lapsed' \in {Owners, lapsed} /\ UNCHANGED <<vault, secret, reported, steps>>
    BY <1>11 DEF Exit
  <2>2. QED
    BY <1>0, <2>1, ClosedTyped DEF VaultType
<1>12. CASE UNCHANGED vaultVars
  BY <1>0, <1>12 DEF vaultVars, VaultType
<1>13. QED
  BY <1>1, <1>2, <1>3, <1>4, <1>6, <1>9, <1>10, <1>11, <1>12 DEF VNext

\* What each kind of step does to the vault, the reports and the processes.
Quiet(p) ==
  /\ UNCHANGED <<vault, reported>>
  /\ \A q \in Processes \ {p} : handle'[q] = handle[q]
Overlapping(p) ==
  \A q \in Processes \ {p} :
    /\ handle'[q].alone = FALSE /\ handle'[q].step = handle[q].step

\* Opening and exiting leave the vault and the other processes alone; an exit
\* may give up every report.
LEMMA QuietSteps ==
  ASSUME VaultType, NEW p \in Processes,
         Open(p) \/ UseSecret(p) \/ MakeSecret(p) \/ DieMakingSecret(p) \/ Exit(p)
  PROVE  /\ Quiet(p) /\ handle'[p].step \in {"closed", "init_cipher", "open"}
         /\ lapsed' = (IF handle[p].step = "saving" THEN Owners ELSE lapsed)
<1>1. handle \in [Processes -> Handles]
  BY DEF VaultType
<1>2. UNCHANGED <<vault, reported>>
  BY DEF Open, UseSecret, MakeSecret, DieMakingSecret, Exit
<1>3. \A q \in Processes \ {p} : handle'[q] = handle[q]
  BY <1>1 DEF Open, UseSecret, MakeSecret, DieMakingSecret, Exit
<1>4. /\ handle'[p].step \in {"closed", "init_cipher", "open"}
      /\ lapsed' = (IF handle[p].step = "saving" THEN Owners ELSE lapsed)
  <2>1. CASE Open(p)
    BY <1>1, <2>1 DEF Open, Closed
  <2>2. CASE UseSecret(p)
    BY <1>1, <2>2 DEF UseSecret, Handles
  <2>3. CASE MakeSecret(p)
    BY <1>1, <2>3 DEF MakeSecret, Handles
  <2>4. CASE DieMakingSecret(p) \/ Exit(p)
    BY <1>1, <2>4 DEF DieMakingSecret, Exit, Closed
  <2>5. QED
    BY <2>1, <2>2, <2>3, <2>4
<1>5. QED
  BY <1>2, <1>3, <1>4 DEF Quiet

\* store and remove take from the vault what they do not change.
LEMMA ChangeSteps ==
  ASSUME VaultType, NEW p \in Processes, store(p) \/ remove(p)
  PROVE  /\ UNCHANGED <<vault, reported, lapsed>>
         /\ \A q \in Processes \ {p} : handle'[q] = handle[q]
         /\ \/ handle' = handle
            \/ /\ handle[p].step = "open" /\ handle'[p].step = "save"
               /\ handle'[p].read =>
                    /\ Readable(handle[p].cipher)
                    /\ \A o \in Owners \ {handle'[p].owner} :
                         handle'[p].data[o] = load_vault(handle[p].cipher)[o]
<1>1. handle \in [Processes -> Handles] /\ handle[p] \in Handles
  BY DEF VaultType
<1>2. UNCHANGED <<vault, reported, lapsed>> /\ handle[p].step = "open"
  BY DEF store, remove
<1>3. CASE handle' = handle
  BY <1>2, <1>3
<1>4. CASE \E o \in Owners, k \in Keys \cup {Absent}, l \in Loaded(handle[p].cipher) :
             Change(p, l, o, k)
  <2>1. PICK o \in Owners, k \in Keys \cup {Absent}, l \in Loaded(handle[p].cipher) :
               Change(p, l, o, k)
    BY <1>4
  <2> DEFINE d == [l.map EXCEPT ![o] = k]
  <2>2. l.map \in Maps /\ (l.read => /\ Readable(handle[p].cipher)
                                     /\ l.map = load_vault(handle[p].cipher))
    BY <1>1, ClosedTyped DEF Loaded, load_vault, VaultType
  <2>3. \A x \in Owners \ {o} : d[x] = l.map[x]
    BY <2>2 DEF Maps
  <2>4. handle' = [handle EXCEPT ![p] =
                     [handle[p] EXCEPT !.step = "save", !.owner = o, !.data = d,
                                       !.read = l.read, !.alone = TRUE]]
    BY <2>1 DEF Change
  <2> HIDE DEF d
  <2>5. /\ handle'[p].step = "save" /\ handle'[p].owner = o /\ handle'[p].data = d
        /\ handle'[p].read = l.read
        /\ \A q \in Processes \ {p} : handle'[q] = handle[q]
    BY <1>1, <2>4 DEF Handles
  <2>6. QED
    BY <1>2, <2>2, <2>3, <2>5
<1>5. QED
  BY <1>3, <1>4 DEF store, remove

\* fs::write cuts the vault, under everybody else's hands.
LEMMA TruncateSteps ==
  ASSUME VaultType, NEW p \in Processes, Truncate(p)
  PROVE  /\ vault'.cipher = Torn /\ UNCHANGED <<reported, lapsed>>
         /\ Overlapping(p)
         /\ handle[p].step = "save" /\ handle'[p].step = "saving"
         /\ handle'[p].alone = handle[p].alone /\ handle'[p].read = handle[p].read
         /\ handle'[p].data = handle[p].data /\ handle'[p].owner = handle[p].owner
<1>1. handle \in [Processes -> Handles]
  BY DEF VaultType
<1>2. QED
  BY <1>1 DEF Truncate, TornVault, OthersOverlap, Overlapping, Handles

\* What is saved is what was in hand, and of the reports only those stay that
\* held when a process alone loaded it.
LEMMA SaveSteps ==
  ASSUME VaultType, NEW p \in Processes, Save(p)
  PROVE  /\ Overlapping(p)
         /\ handle[p].step = "saving" /\ handle'[p].step = "open"
         /\ \/ /\ vault'.cipher = handle[p].cipher /\ vault'.map = handle[p].data
               /\ reported' = [reported EXCEPT ![handle[p].owner] =
                                                  handle[p].data[handle[p].owner]]
               /\ lapsed' = (IF handle[p].alone /\ handle[p].read THEN lapsed ELSE Owners)
                              \ {handle[p].owner}
            \/ vault'.cipher = Torn /\ lapsed' = Owners
<1>1. handle \in [Processes -> Handles] /\ handle[p] \in Handles
  BY DEF VaultType
<1>2. Overlapping(p) /\ handle[p].step = "saving" /\ handle'[p].step = "open"
  BY <1>1 DEF Save, OthersOverlap, Overlapping, Handles
<1>3. QED
  BY <1>2 DEF Save, Report, TornVault

\* A write that fails leaves the vault intact and its report overtaken, or
\* overtakes them all.
LEMMA FailSteps ==
  ASSUME VaultType, NEW p \in Processes, FailSave(p)
  PROVE  /\ handle'[p].step = "open"
         /\ \A q \in Processes \ {p} : handle'[q].step = handle[q].step
         /\ \/ /\ handle[p].step = "save" /\ UNCHANGED vault
               /\ \A q \in Processes \ {p} : handle'[q] = handle[q]
               /\ lapsed' = lapsed \cup {handle[p].owner}
               /\ \A o \in Owners \ {handle[p].owner} : reported'[o] = reported[o]
            \/ /\ handle[p].step = "saving" /\ Overlapping(p) /\ lapsed' = Owners
               /\ vault' = vault \/ vault'.cipher = Torn
<1>1. handle \in [Processes -> Handles] /\ handle[p] \in Handles /\ reported \in Maps
  BY DEF VaultType
<1>2. CASE handle[p].step = "save"
  BY <1>1, <1>2 DEF FailSave, Report, Handles, Maps
<1>3. CASE handle[p].step # "save"
  <2>1. /\ handle[p].step = "saving" /\ lapsed' = Owners
        /\ vault' = vault \/ vault'.cipher = Torn
        /\ handle' = [OthersOverlap(p) EXCEPT ![p].step = "open"]
    BY <1>3 DEF FailSave, TornVault
  <2>2. handle'[p].step = "open" /\ Overlapping(p)
    BY <1>1, <2>1 DEF OthersOverlap, Overlapping, Handles
  <2>3. QED
    BY <2>1, <2>2 DEF Overlapping
<1>4. QED
  BY <1>2, <1>3

\* Every step keeps the invariant.
LEMMA VaultMoves == VaultInv /\ [VNext]_vaultVars => VaultInv'
<1> SUFFICES ASSUME VaultInv, [VNext]_vaultVars PROVE VaultInv'
  OBVIOUS
<1>0. VaultType /\ KeysInVault /\ KeysInHand /\ TornWhileSaving /\ TornExcuses /\ VaultType'
  BY TypeSteps DEF VaultInv
<1>c. \A p \in Processes : handle[p].cipher \in Ciphers /\ handle[p].cipher # Torn
                           /\ handle[p].cipher # Absent
  BY <1>0, VaultAssumption DEF VaultType, Handles
<1>1. ASSUME NEW p \in Processes,
             Open(p) \/ UseSecret(p) \/ MakeSecret(p) \/ DieMakingSecret(p) \/ Exit(p)
      PROVE  VaultInv'
  <2>1. /\ Quiet(p) /\ handle'[p].step \in {"closed", "init_cipher", "open"}
        /\ lapsed' = (IF handle[p].step = "saving" THEN Owners ELSE lapsed)
    BY <1>0, <1>1, QuietSteps
  <2>2. KeysInVault'
    BY <1>0, <2>1 DEF Quiet, KeysInVault, Holds
  <2>3. KeysInHand'
    BY <1>0, <2>1 DEF Quiet, KeysInHand, Holds
  <2>4. TornWhileSaving'
    BY <1>0, <2>1 DEF Quiet, TornWhileSaving
  <2>5. TornExcuses'
    BY <1>0, <2>1 DEF Quiet, TornExcuses, NoneSaving
  <2>6. QED
    BY <1>0, <2>2, <2>3, <2>4, <2>5 DEF VaultInv
<1>2. ASSUME NEW p \in Processes, store(p) \/ remove(p)
      PROVE  VaultInv'
  <2>1. /\ UNCHANGED <<vault, reported, lapsed>>
        /\ \A q \in Processes \ {p} : handle'[q] = handle[q]
        /\ \/ handle' = handle
           \/ /\ handle[p].step = "open" /\ handle'[p].step = "save"
              /\ handle'[p].read =>
                   /\ Readable(handle[p].cipher)
                   /\ \A o \in Owners \ {handle'[p].owner} :
                        handle'[p].data[o] = load_vault(handle[p].cipher)[o]
    BY <1>0, <1>2, ChangeSteps
  <2>2. KeysInVault'
    BY <1>0, <2>1 DEF KeysInVault, Holds
  <2>3. TornWhileSaving'
    BY <1>0, <2>1 DEF TornWhileSaving
  <2>4. Readable(handle[p].cipher) =>
          \A o \in Owners \ lapsed : load_vault(handle[p].cipher)[o] = reported[o]
    <3>1. CASE vault.cipher = handle[p].cipher
      BY <1>0, <1>c, <3>1 DEF load_vault, KeysInVault, Holds
    <3>2. CASE vault.cipher = Absent
      BY <1>0, <1>c, <3>2, VaultAssumption DEF load_vault, KeysInVault, Holds, Empty
    <3>3. QED
      BY <3>1, <3>2 DEF Readable
  <2>5. KeysInHand'
    BY <1>0, <2>1, <2>4 DEF KeysInHand, Holds
  <2>6. TornExcuses'
    BY <1>0, <2>1 DEF TornExcuses, NoneSaving
  <2>7. QED
    BY <1>0, <2>2, <2>3, <2>5, <2>6 DEF VaultInv
<1>3. ASSUME NEW p \in Processes, Truncate(p) PROVE VaultInv'
  <2>1. /\ vault'.cipher = Torn /\ UNCHANGED <<reported, lapsed>>
        /\ Overlapping(p)
        /\ handle[p].step = "save" /\ handle'[p].step = "saving"
        /\ handle'[p].alone = handle[p].alone /\ handle'[p].read = handle[p].read
        /\ handle'[p].data = handle[p].data /\ handle'[p].owner = handle[p].owner
    BY <1>0, <1>3, TruncateSteps
  <2>2. KeysInVault'
    BY <2>1, VaultAssumption DEF KeysInVault
  <2>3. KeysInHand'
    BY <1>0, <2>1 DEF Overlapping, KeysInHand, Holds
  <2>4. TornWhileSaving' /\ TornExcuses'
    BY <2>1 DEF TornWhileSaving, TornExcuses, NoneSaving
  <2>5. QED
    BY <1>0, <2>2, <2>3, <2>4 DEF VaultInv
<1>4. ASSUME NEW p \in Processes, Save(p) PROVE VaultInv'
  <2>1. /\ Overlapping(p)
        /\ handle[p].step = "saving" /\ handle'[p].step = "open"
        /\ \/ /\ vault'.cipher = handle[p].cipher /\ vault'.map = handle[p].data
              /\ reported' = [reported EXCEPT ![handle[p].owner] =
                                                 handle[p].data[handle[p].owner]]
              /\ lapsed' = (IF handle[p].alone /\ handle[p].read THEN lapsed ELSE Owners)
                             \ {handle[p].owner}
           \/ vault'.cipher = Torn /\ lapsed' = Owners
    BY <1>0, <1>4, SaveSteps
  <2>2. reported \in Maps
    BY <1>0 DEF VaultType
  <2>3. KeysInVault'
    BY <1>0, <1>c, <2>1, <2>2, VaultAssumption DEF KeysInVault, KeysInHand, Holds, Maps
  <2>4. KeysInHand' /\ TornWhileSaving'
    BY <2>1 DEF Overlapping, KeysInHand, TornWhileSaving
  <2>5. TornExcuses'
    BY <1>c, <2>1 DEF TornExcuses
  <2>6. QED
    BY <1>0, <2>3, <2>4, <2>5 DEF VaultInv
<1>5. ASSUME NEW p \in Processes, FailSave(p) PROVE VaultInv'
  <2>1. /\ handle'[p].step = "open"
        /\ \A q \in Processes \ {p} : handle'[q].step = handle[q].step
        /\ \/ /\ handle[p].step = "save" /\ UNCHANGED vault
              /\ \A q \in Processes \ {p} : handle'[q] = handle[q]
              /\ lapsed' = lapsed \cup {handle[p].owner}
              /\ \A o \in Owners \ {handle[p].owner} : reported'[o] = reported[o]
           \/ /\ handle[p].step = "saving" /\ Overlapping(p) /\ lapsed' = Owners
              /\ vault' = vault \/ vault'.cipher = Torn
    BY <1>0, <1>5, FailSteps
  <2>2. KeysInVault'
    BY <1>0, <2>1, VaultAssumption DEF KeysInVault, Holds
  <2>3. KeysInHand'
    BY <1>0, <2>1 DEF Overlapping, KeysInHand, Holds
  <2>4. TornWhileSaving'
    BY <1>0, <2>1 DEF Overlapping, TornWhileSaving
  <2>5. TornExcuses'
    BY <1>0, <2>1 DEF TornExcuses, NoneSaving
  <2>6. QED
    BY <1>0, <2>2, <2>3, <2>4, <2>5 DEF VaultInv
<1>6. CASE UNCHANGED vaultVars
  BY <1>0, <1>6 DEF vaultVars, VaultInv, KeysInVault, KeysInHand, TornWhileSaving,
                    TornExcuses, NoneSaving, Holds
<1>7. QED
  BY <1>1, <1>2, <1>3, <1>4, <1>5, <1>6 DEF VNext

\* The vault holds what its processes reported of it and take it for, but for
\* what a failed, cut or overlapping write has overtaken.
THEOREM VaultInvariance == VSpec => []VaultInv
BY VaultStarts, VaultMoves, PTL DEF VSpec

\* What store and remove reported stays true of the vault, whatever other keys
\* are stored and removed, until a failure or a race overtakes it.
THEOREM ReportedKeysAlwaysStay == VSpec => []ReportedKeysStay
<1>1. VaultInv => ReportedKeysStay
  BY DEF VaultInv, KeysInVault, TornExcuses, ReportedKeysStay, Holds
<1>2. QED
  BY <1>1, VaultInvariance, PTL
===============================================================================
