------------------------------ MODULE SetupTables ------------------------------
(***************************************************************************)
(* The settings of Nyquest: the fields of NyquestConfig (src/config.rs),   *)
(* the prompts of the wizard (src/cli/install.rs), and what one answer     *)
(* does to the YAML value the wizard holds.                                *)
(*                                                                         *)
(* A YAML value is a function from dotted keys to scalars.  A scalar has a *)
(* type and says which value it is as far as defaults, Enter and the width *)
(* of a field tell values apart: the default of its field, zero, empty,    *)
(* too big for 16 bits, the first choice of a list, or something new.      *)
(***************************************************************************)
EXTENDS Naturals, FiniteSets, SequencesExt

Scalar(type, is) == [type |-> type, is |-> is]
Bool(b) == Scalar("bool", IF b THEN "true" ELSE "false")
True == Bool(TRUE)
False == Bool(FALSE)
Unset == Scalar("none", "none")     \* what a lookup of a missing key yields
Values ==
  {True, False} \cup
  [type : {"int", "float", "text"},
   is : {"default", "zero", "empty", "big", "first", "other", "new"}]
-------------------------------------------------------------------------------
(* NyquestConfig: its fields by type, and their defaults. *)

BoolFields ==
  {"adaptive_mode", "semantic_validation", "log_metrics", "allow_header_override",
   "normalize", "inject_boundaries", "stability_mode", "stability_active",
   "context_optimization", "privacy_mode", "encrypt_keys", "compress_responses",
   "openclaw_mode", "openclaw_schema_minimize", "openclaw_dedup_errors",
   "openclaw_condense_views", "openclaw_cache_control", "openclaw_sliding_window",
   "semantic_enabled", "semantic_dedup"}
FloatFields ==
  {"compression_level", "semantic_threshold", "stability_level_step",
   "stability_min_level", "openclaw_sliding_window_threshold", "semantic_temperature"}
TextFields ==
  {"target_api_base", "target_api_version", "host", "log_file", "log_level",
   "token_counting", "stability_log_file", "vault_path", "semantic_endpoint",
   "semantic_model", "semantic_fallback", "semantic_api_key"}
PortFields == {"port"}              \* u16
CountFields ==                      \* u64 and usize
  {"request_timeout", "context_max_input_tokens", "context_preserve_recent_turns",
   "context_min_turns", "response_compression_age", "openclaw_tool_prune_turns",
   "openclaw_thought_prune_turns", "openclaw_sliding_window_max_tokens",
   "openclaw_sliding_window_preserve", "semantic_timeout_ms",
   "semantic_history_threshold", "semantic_system_threshold", "semantic_max_tokens"}
Fields == BoolFields \cup FloatFields \cup TextFields \cup PortFields \cup CountFields

ApiKey == [anthropic |-> "providers.anthropic.api_key",
           openai |-> "providers.openai.api_key",
           gemini |-> "providers.gemini.api_key",
           xai |-> "providers.xai.api_key",
           openrouter |-> "providers.openrouter.api_key"]
ApiKeys == Range(ApiKey)
BaseUrl == [anthropic |-> "providers.anthropic.base_url",
            openai |-> "providers.openai.base_url",
            gemini |-> "providers.gemini.base_url",
            xai |-> "providers.xai.base_url",
            openrouter |-> "providers.openrouter.base_url",
            local |-> "providers.local.base_url"]
BaseUrls == Range(BaseUrl)

OnByDefault ==
  {"log_metrics", "allow_header_override", "normalize", "context_optimization",
   "compress_responses", "openclaw_schema_minimize", "openclaw_dedup_errors",
   "openclaw_condense_views", "openclaw_cache_control", "openclaw_sliding_window"}
Default(k) ==
  CASE k \in BoolFields -> Bool(k \in OnByDefault)
    [] k \in {"stability_min_level", "semantic_temperature"} -> Scalar("float", "zero")
    [] k \in FloatFields -> Scalar("float", "default")
    [] k \in PortFields \cup CountFields -> Scalar("int", "default")
    [] k \in {"host", "semantic_fallback"} -> Scalar("text", "first")
    [] k = "log_level" -> Scalar("text", "other")
    [] k = "semantic_api_key" -> Scalar("text", "empty")
    [] OTHER -> Scalar("text", "default")
DefaultFile == [k \in Fields |-> Default(k)]
-------------------------------------------------------------------------------
(* sections(): what the wizard asks, in order.                             *)

Ask(key, type) == [key |-> key, type |-> type, required |-> TRUE, needs |-> {}]
Offer(key, type) == [Ask(key, type) EXCEPT !.required = FALSE]
If(switches, prompts) ==
  [i \in DOMAIN prompts |-> [prompts[i] EXCEPT !.needs = switches]]

ServerSection ==
  <<Ask("host", "Select"), Ask("port", "Int"), Ask("request_timeout", "Int")>>
ProviderSection ==
  LET both(p) == <<Offer(ApiKey[p], "Secret"), Ask(BaseUrl[p], "Text")>>
  IN  both("anthropic") \o both("openai") \o both("gemini") \o both("xai")
        \o both("openrouter") \o <<Offer(BaseUrl["local"], "Text")>>
CompressionSection ==
  <<Ask("compression_level", "Float"), Ask("adaptive_mode", "Bool"),
    Ask("allow_header_override", "Bool")>>
NormalizationSection == <<Ask("normalize", "Bool"), Ask("inject_boundaries", "Bool")>>
ContextSection ==
  <<Ask("context_optimization", "Bool")>> \o
  If({"context_optimization"},
     <<Ask("context_max_input_tokens", "Int"),
       Ask("context_preserve_recent_turns", "Int"), Ask("context_min_turns", "Int")>>)
OpenClawSection ==
  <<Ask("openclaw_mode", "Bool")>> \o
  If({"openclaw_mode"},
     <<Ask("openclaw_tool_prune_turns", "Int"), Ask("openclaw_thought_prune_turns", "Int"),
       Ask("openclaw_schema_minimize", "Bool"), Ask("openclaw_dedup_errors", "Bool"),
       Ask("openclaw_condense_views", "Bool"), Ask("openclaw_cache_control", "Bool"),
       Ask("openclaw_sliding_window", "Bool")>>) \o
  If({"openclaw_mode", "openclaw_sliding_window"},
     <<Ask("openclaw_sliding_window_threshold", "Float"),
       Ask("openclaw_sliding_window_max_tokens", "Int"),
       Ask("openclaw_sliding_window_preserve", "Int")>>)
ResponseSection ==
  <<Ask("compress_responses", "Bool")>> \o
  If({"compress_responses"}, <<Ask("response_compression_age", "Int")>>)
SecuritySection ==
  <<Ask("privacy_mode", "Bool"), Ask("encrypt_keys", "Bool")>> \o
  If({"encrypt_keys"}, <<Ask("vault_path", "Text")>>)
LoggingSection ==
  <<Ask("log_metrics", "Bool")>> \o
  If({"log_metrics"}, <<Ask("log_file", "Text")>>) \o
  <<Ask("log_level", "Select")>>
SemanticSection ==
  <<Ask("semantic_enabled", "Bool")>> \o
  If({"semantic_enabled"},
     <<Ask("semantic_endpoint", "Text"), Ask("semantic_model", "Text"),
       Ask("semantic_timeout_ms", "Int"), Ask("semantic_system_threshold", "Int"),
       Ask("semantic_history_threshold", "Int"), Ask("semantic_fallback", "Select")>>)
StabilitySection ==
  <<Ask("stability_mode", "Bool")>> \o
  If({"stability_mode"}, <<Ask("semantic_threshold", "Float")>>)

sections ==
  <<ServerSection, ProviderSection, CompressionSection, NormalizationSection,
    ContextSection, OpenClawSection, ResponseSection, SecuritySection,
    LoggingSection, SemanticSection, StabilitySection>>
\* The prompts of the section that configure is given, of all for 0.
Prompts(only) == IF only = 0 THEN UNION {Range(sections[i]) : i \in DOMAIN sections}
                 ELSE Range(sections[only])
-------------------------------------------------------------------------------
(* One prompt. *)

yaml_get(yaml, k) == IF k \in DOMAIN yaml THEN yaml[k] ELSE Unset
Overlaid(new, old) ==
  [k \in DOMAIN new \cup DOMAIN old |-> IF k \in DOMAIN new THEN new[k] ELSE old[k]]
yaml_set(yaml, k, v) == Overlaid([x \in {k} |-> v], yaml)

\* The default given to yaml_bool with the switch of a condition.
yaml_bool(yaml, k) ==
  LET v == yaml_get(yaml, k) IN
    IF v.type = "bool" THEN v = True
    ELSE k \in {"context_optimization", "openclaw_sliding_window",
                "compress_responses", "log_metrics"}

Asked(p, yaml) == \A k \in p.needs : yaml_bool(yaml, k)

\* What Enter stands for: the current value where it has the type of the
\* prompt, otherwise what the code falls back to.  Unset: nothing is set.
EnterOrZero(p, current) == IF current # Unset THEN current ELSE Scalar("int", "zero")
EnterFirst(p, current) ==
  IF p.type = "Select" THEN Scalar("text", "first") ELSE EnterOrZero(p, current)
Enter(p, current) ==
  CASE p.type = "Bool" -> IF current.type = "bool" THEN current ELSE True
    [] p.type = "Select" -> IF current.type = "text" /\ current.is \in {"first", "other"}
                            THEN current ELSE Scalar("text", "first")
    [] p.type = "Secret" -> Unset
    [] p.type = "Text" -> IF current.type = "text" /\ current.is # "empty" THEN current
                          ELSE IF p.required THEN Scalar("text", "empty") ELSE Unset
    [] p.type = "Int" -> IF current.type = "int" THEN current ELSE Scalar("int", "zero")
    [] p.type = "Float" -> IF current.type \in {"int", "float"}
                           THEN Scalar("float", current.is) ELSE Scalar("float", "zero")

\* What may be typed or chosen instead.  A number that does not parse and the
\* Escape key leave the value alone.
Typed(p) ==
  CASE p.type = "Bool" -> {True, False, Unset}
    [] p.type = "Select" -> {Scalar("text", "first"), Scalar("text", "other"), Unset}
    [] p.type \in {"Secret", "Text"} -> {Scalar("text", "new")}
    [] p.type = "Int" -> {Scalar("int", "new"), Scalar("int", "big"), Unset}
    [] p.type = "Float" -> {Scalar("float", "new"), Unset}

\* A secret or text left empty is reported as skipped, unless a secret is set.
Skips(p, yaml) ==
  /\ ~p.required /\ Enter(p, yaml_get(yaml, p.key)) = Unset
  /\ p.type = "Secret" => yaml_get(yaml, p.key) = Unset

\* What a prompt gives its key, Unset if it leaves it alone; typed maps the
\* prompts not answered by Enter to what was given.
handle_prompt(p, yaml, typed) ==
  IF p.key \in DOMAIN typed THEN typed[p.key] ELSE Enter(p, yaml_get(yaml, p.key))

\* The wizard after some of the prompts.  Each one reads and sets its own key
\* only and its condition reads switches asked before it, under fewer
\* conditions: the order of the others does not matter.
Round(w, prompts, typed) ==
  LET asked == {p \in prompts : Asked(p, w.yaml)}
      set == {p \in asked : handle_prompt(p, w.yaml, typed) # Unset}
      new == [k \in {p.key : p \in set} |->
                handle_prompt(CHOOSE p \in set : p.key = k, w.yaml, typed)]
  IN  [yaml |-> Overlaid(new, w.yaml),
       skipped |-> w.skipped \cup {p.key : p \in {q \in asked :
                     q.key \notin DOMAIN typed /\ Skips(q, w.yaml)}}]
Under(n, prompts) == {p \in prompts : Cardinality(p.needs) = n}
run_sections(w, prompts, typed) ==
  LET unconditional == Round(w, Under(0, prompts), typed)
      switched == Round(unconditional, Under(1, prompts), typed)
  IN  Round(switched, Under(2, prompts), typed)

\* A headless installation asks nothing; it reports what has no value.
headless_skipped(yaml) ==
  {p.key : p \in {q \in Prompts(0) : /\ Asked(q, yaml) /\ ~q.required
                                       /\ yaml_get(yaml, q.key) = Unset}}

apply_overrides(yaml, overrides) ==
  FoldLeft(LAMBDA y, o : yaml_set(y, o[1], o[2]), yaml, overrides)
-------------------------------------------------------------------------------
(* Reading a file into NyquestConfig. *)

\* Any scalar reads as a string; a number reads as f64; u16 has 16 bits.
FitsField(k, v) ==
  CASE k \in BoolFields -> v.type = "bool"
    [] k \in FloatFields -> v.type \in {"int", "float"}
    [] k \in CountFields -> v.type = "int"
    [] k \in PortFields -> v.type = "int" /\ v.is # "big"
    [] OTHER -> TRUE

\* deny_unknown_fields, and the type of every field that is there.
Deserializes(yaml) ==
  \A k \in DOMAIN yaml : /\ k \in Fields \cup ApiKeys \cup BaseUrls
                         /\ FitsField(k, yaml[k])

\* Nobody reads the base URLs of the configuration (get_provider_base_url has no
\* caller): an empty one is as good as none.
Meaning(k, v) == IF k \in BaseUrls /\ v.is = "empty" THEN Unset ELSE v
Settings(yaml) ==
  [k \in Fields \cup ApiKeys \cup BaseUrls |->
     IF k \in DOMAIN yaml THEN Meaning(k, yaml[k])
     ELSE IF k \in Fields THEN Default(k) ELSE Unset]

\* The variables that override a field: a number that does not parse is
\* ignored, a switch is on for "true" only.
EnvFields ==
  {"compression_level", "target_api_base", "host", "port", "log_level",
   "request_timeout", "openclaw_mode", "semantic_enabled", "semantic_endpoint",
   "semantic_model", "semantic_api_key"}
Override(k, v) ==
  CASE k \in BoolFields -> Bool(v = True)
    [] k \in TextFields -> v
    [] OTHER -> IF FitsField(k, v) THEN v ELSE Unset
Overridden(settings, environment) ==
  [k \in DOMAIN settings |->
     IF k \in EnvFields \cap DOMAIN environment /\ Override(k, environment[k]) # Unset
     THEN Override(k, environment[k]) ELSE settings[k]]
================================================================================
