--------------------------------- MODULE Setup ---------------------------------
(***************************************************************************)
(* The command line at work on the files of an installation: nyquest       *)
(* install and configure (src/cli/install.rs), config set                  *)
(* (src/cli/config_cmd.rs) and the start of the server (src/main.rs,       *)
(* load_config of src/config.rs).                                          *)
(*                                                                         *)
(* Every command loads nyquest.yaml, changes the value in memory and       *)
(* writes the whole file, without a lock.  fs::write truncates the file    *)
(* before it writes: a killed process leaves it empty, a full disk leaves  *)
(* part of it.  The wizard spends minutes between its load and its save.   *)
(***************************************************************************)
EXTENDS SetupTables

CONSTANTS
  Shells,        \* where commands run, possibly at the same time
  Assignments,   \* the <<key, value>> pairs given to config set
  OverrideLists, \* the --set options of install
  Environments,  \* the environments a server may be started in
  InitialFiles,  \* what nyquest.yaml may be before
  Filters,       \* the sections that configure is given; 0 for all of them
  TypedKeys,     \* the prompts that may be answered otherwise than by Enter
  MaxCommands, MaxTyped, MaxFaults, MaxStarts,  \* bounds
  Missing, Garbled,  \* a file that does not exist, or cannot be parsed
  NotWritten,        \* no install.json yet
  Down, Refused      \* no server; a start that ended with exit code 2

VARIABLES
  config,    \* nyquest.yaml: a YAML value, Missing or Garbled
  env,       \* .env next to it: the API keys it sets, or Missing
  meta,      \* install.json: the settings reported as skipped, or NotWritten
  job,       \* job[p]: the command running in shell p
  server,    \* the settings of the running server, Down or Refused
  acked,     \* the settings that commands have set and reported, as last written
  left       \* how many more commands, typed answers and faults there are

vars == <<config, env, meta, job, server, acked, left>>

Nothing == <<>>

ParsedIfAny(file) == Nothing
Parsed(file) == IF file \in {Missing, Garbled} THEN Nothing ELSE file

\* load_yaml of install.rs: without a file the defaults, and from a file that
\* cannot be parsed nothing.
load_yaml(file) == IF file = Missing THEN DefaultFile ELSE Parsed(file)

\* What a write that did not complete leaves: nothing, a file cut inside a
\* value, or one without its last keys (the map of providers is the last field).
Cuts(yaml) ==
  {Nothing, Garbled,
   [k \in DOMAIN yaml \cap Fields |-> yaml[k]]}

Idle == [step |-> "idle", command |-> "none", wizard |-> [yaml |-> Nothing, skipped |-> {}],
         only |-> 0, overrides |-> <<>>, edits |-> {},
         base |-> Nothing, alone |-> TRUE, typed |-> FALSE]

Init ==
  /\ config \in InitialFiles /\ env = Missing /\ meta = NotWritten
  /\ job = [p \in Shells |-> Idle]
  /\ server = Down /\ acked = Nothing
  /\ left = [commands |-> MaxCommands, typed |-> MaxTyped, faults |-> MaxFaults,
             starts |-> MaxStarts]

Spend(what) == left[what] > 0 /\ left' = [left EXCEPT ![what] = @ - 1]

NobodyWrites == \A p \in Shells : job[p].step # "saving"

\* A command that loads the file while another is writing it overlaps with it.
Begin(p, j) ==
  /\ job[p].step = "idle"
  /\ Spend("commands")
  /\ job' = [job EXCEPT ![p] = [j EXCEPT !.base = config, !.alone = NobodyWrites]]
  /\ UNCHANGED <<config, env, meta, server, acked>>

-------------------------------------------------------------------------------
(* The commands. *)

\* run_set
ConfigSet(p) ==
  \E a \in Assignments :
    Begin(p, [Idle EXCEPT !.step = "save", !.command = "set", !.edits = {a[1]},
                !.wizard.yaml = yaml_set(Parsed(config), a[1], a[2])])

\* run_install with --defaults
InstallHeadless(p) ==
  \E overrides \in OverrideLists :
    LET yaml == load_yaml(config) IN
      Begin(p, [Idle EXCEPT !.step = "save", !.command = "install",
                  !.wizard = [yaml |-> apply_overrides(yaml, overrides),
                              skipped |-> headless_skipped(yaml)],
                  !.overrides = overrides,
                  !.edits = {o[1] : o \in Range(overrides)}])

\* run_install with its wizard
Install(p) ==
  \E overrides \in OverrideLists :
    Begin(p, [Idle EXCEPT !.step = "ask", !.command = "install",
                !.wizard.yaml = load_yaml(config), !.overrides = overrides])

\* run_configure, of one section or of all (0); without a file it ends at once.
Configure(p) ==
  /\ config # Missing
  /\ \E only \in Filters :
       Begin(p, [Idle EXCEPT !.step = "ask", !.command = "configure", !.only = only,
                   !.wizard.yaml = load_yaml(config)])

\* The wizard asks; nobody sees its value meanwhile.  At most one prompt is
\* answered otherwise than by Enter.
AskSections(p) ==
  LET prompts == Prompts(job[p].only) IN
  /\ job[p].step = "ask"
  /\ \E typed \in {Nothing} \cup
                  UNION {[{q.key} -> Typed(q)] : q \in {x \in prompts : x.key \in TypedKeys}} :
       /\ job' = [job EXCEPT
             ![p].wizard = run_sections(@, prompts, typed),
             ![p].step = IF job[p].command = "install" THEN "service" ELSE "save",
             ![p].edits = {q.key : q \in prompts}, ![p].typed = (typed # Nothing)]
       /\ typed # Nothing => left.typed > 0
       /\ left' = [left EXCEPT !.typed = IF typed = Nothing THEN @ ELSE @ - 1]
  /\ UNCHANGED <<config, env, meta, server, acked>>

\* Ctrl+C at a prompt: "Setup interrupted. Partial config NOT saved."
Interrupt(p) ==
  /\ job[p].step = "ask"
  /\ job' = [job EXCEPT ![p] = Idle]
  /\ UNCHANGED <<config, env, meta, server, acked, left>>

\* The overrides, then offer_systemd, which creates .env if there is none.
OfferService(p) ==
  /\ job[p].step = "service"
  /\ env' \in {env, IF env = Missing THEN Nothing ELSE env}
  /\ LET o == job[p].overrides IN
       job' = [job EXCEPT ![p].wizard.yaml = apply_overrides(@, o),
                          ![p].edits = @ \cup {x[1] : x \in Range(o)},
                          ![p].step = "save"]
  /\ UNCHANGED <<config, meta, server, acked, left>>
-------------------------------------------------------------------------------
(* Writing the files. *)

OthersNotAlone(p) ==
  [q \in Shells |-> IF q = p \/ job[q].step = "idle" THEN job[q]
                    ELSE [job[q] EXCEPT !.alone = FALSE]]

\* fs::write opens the file, which truncates it ...
OpenConfig(p) ==
  /\ job[p].step = "save"
  /\ config' = Nothing
  /\ job' = [OthersNotAlone(p) EXCEPT ![p].step = "saving"]
  /\ UNCHANGED <<env, meta, server, acked, left>>

\* config set reports and ends; the wizard goes on to .env.
AfterConfig(j) == IF j.command = "set" THEN Idle ELSE [j EXCEPT !.step = "env"]

Saved(p) == [k \in job[p].edits \cap DOMAIN job[p].wizard.yaml |-> job[p].wizard.yaml[k]]
StillThere(file) ==
  [k \in {x \in DOMAIN acked : x \in DOMAIN file /\ file[x] = acked[x]} |-> acked[k]]

\* ... and writes it from the start; over a text another command has written
\* meanwhile, a tail of that text may remain.
FinishConfig(p) ==
  LET yaml == job[p].wizard.yaml IN
  /\ job[p].step = "saving"
  /\ \/ config' = yaml /\ acked' = Overlaid(Saved(p), StillThere(yaml))
     \/ config # Nothing /\ config' = Garbled /\ acked' = Nothing
  /\ job' = [OthersNotAlone(p) EXCEPT ![p] = AfterConfig(job[p])]
  /\ UNCHANGED <<env, meta, server, left>>

\* The write fails: config set exits, the wizard prints the error, reports
\* "Config written" all the same and goes on.
FailConfig(p) ==
  /\ job[p].step \in {"save", "saving"}
  /\ Spend("faults")
  /\ IF job[p].step = "save" THEN UNCHANGED <<config, acked>>
     ELSE config' \in Cuts(job[p].wizard.yaml) /\ acked' = Nothing
  /\ job' = [OthersNotAlone(p) EXCEPT ![p] = AfterConfig(job[p])]
  /\ UNCHANGED <<env, meta, server>>

\* write_env: the keys of the providers, from scratch; what was skipped becomes
\* a comment.
EnvOfAll(w) == w.yaml
EnvOf(w) ==
  LET set == {k \in ApiKeys \ w.skipped :
                /\ yaml_get(w.yaml, k).type = "text" /\ w.yaml[k].is # "empty"}
  IN  [k \in set |-> w.yaml[k]]
WriteEnv(p) ==
  /\ job[p].step = "env"
  /\ \/ env' = EnvOf(job[p].wizard) /\ UNCHANGED left
     \/ env' \in {env, Nothing} /\ Spend("faults")
  /\ job' = [job EXCEPT ![p] = IF @.command = "install" THEN [@ EXCEPT !.step = "meta"]
                               ELSE Idle]
  /\ UNCHANGED <<config, meta, server, acked>>

\* write_metadata and print_summary; only install keeps the list of what was
\* skipped.
WriteMetadata(p) ==
  /\ job[p].step = "meta"
  /\ meta' = job[p].wizard.skipped
  /\ job' = [job EXCEPT ![p] = Idle]
  /\ UNCHANGED <<config, env, server, acked, left>>

\* A command is killed: a file being written stays as it is.
Kill(p) ==
  /\ job[p].step \notin {"idle", "ask"}
  /\ Spend("faults")
  /\ job' = [job EXCEPT ![p] = Idle]
  /\ acked' = IF job[p].step = "saving" THEN Nothing ELSE acked
  /\ UNCHANGED <<config, env, meta, server>>
-------------------------------------------------------------------------------
(* The server. *)

\* load_config: a file that does not deserialize ends the process.
load_env_only(file, environment) == Overridden(Settings(Nothing), environment)
load_config(file, environment) ==
  IF file = Missing THEN Overridden(Settings(Nothing), environment)
  ELSE IF file = Garbled \/ ~Deserializes(Parsed(file)) THEN Refused
  ELSE Overridden(Settings(file), environment)

Serve ==
  /\ server = Down /\ Spend("starts")
  /\ \E environment \in Environments : server' = load_config(config, environment)
  /\ UNCHANGED <<config, env, meta, job, acked>>

Stop ==
  /\ server # Down
  /\ server' = Down
  /\ UNCHANGED <<config, env, meta, job, acked, left>>

Next ==
  \/ \E p \in Shells :
       \/ ConfigSet(p) \/ InstallHeadless(p) \/ Install(p) \/ Configure(p)
       \/ AskSections(p) \/ Interrupt(p) \/ OfferService(p)
       \/ OpenConfig(p) \/ FinishConfig(p) \/ FailConfig(p)
       \/ WriteEnv(p) \/ WriteMetadata(p) \/ Kill(p)
  \/ Serve \/ Stop

Spec == Init /\ [][Next]_vars
-------------------------------------------------------------------------------
AllKeys == Fields \cup ApiKeys \cup BaseUrls \cup {a[1] : a \in Assignments}
             \cup {o[1] : o \in UNION {Range(l) : l \in OverrideLists}}
IsYaml(y) == DOMAIN y \subseteq AllKeys /\ y \in [DOMAIN y -> Values]
IsFile(file) == file \in {Missing, Garbled} \/ IsYaml(file)

\* What commands are given are values, in lists, and the two files that are no
\* YAML value are told apart by a key that none has.
SectionNumbers == 0..Len(sections)
ASSUME InputsAssumption ==
  /\ \A a \in Assignments : a[2] \in Values
  /\ \A l \in OverrideLists : l \in Seq(Range(l)) /\ \A o \in Range(l) : o[2] \in Values
  /\ \A file \in InitialFiles : IsFile(file)
  /\ Filters \subseteq SectionNumbers
ASSUME MarksAssumption == \A mark \in {Missing, Garbled} : ~(DOMAIN mark \subseteq AllKeys)

Steps == {"idle", "ask", "service", "save", "saving", "env", "meta"}

TypeOK ==
  /\ IsFile(config)
  /\ env = Missing \/ (IsYaml(env) /\ DOMAIN env \subseteq ApiKeys)
  /\ meta = NotWritten \/ meta \subseteq ApiKeys \cup BaseUrls
  /\ \A p \in Shells : /\ job[p].step \in Steps /\ job[p].only \in SectionNumbers
                       /\ IsYaml(job[p].wizard.yaml) /\ IsFile(job[p].base)
                       /\ job[p].edits \subseteq AllKeys
  /\ server \in {Down, Refused} \/ DOMAIN server = Fields \cup ApiKeys \cup BaseUrls
  /\ IsYaml(acked)

\* A setting that was set, and reported as set, is lost only to a command that
\* edits it, or to one that loaded the file before it was saved or while it was
\* being written (the commands overlapped): a save by any other command leaves
\* it alone, through any sequence of commands, interrupted wizards and restarts.
OnlyOverlapsLose ==
  [][\A p \in Shells :
       job[p].step = "saving" /\ job[p].alone /\ config' = job[p].wizard.yaml =>
         \A k \in DOMAIN acked \ job[p].edits :
           k \in DOMAIN config' /\ config'[k] = acked[k]]_vars

\* And it reaches the server: one that starts while no command is writing runs
\* with every setting that was reported as set and not lost that way, unless its
\* environment overrides it or it refuses the file.
ReportedSettingsReachServer ==
  [][server = Down /\ server' \notin {Down, Refused}
       /\ NobodyWrites =>
     \A k \in DOMAIN acked \ EnvFields :
       k \in DOMAIN server' /\ server'[k] = Meaning(k, acked[k])]_vars

\* What the wizard is about to save can be loaded by the server, if what it
\* began with could: its prompts name fields of NyquestConfig and give them
\* values of their types.  Not so for a port that exceeds 16 bits, which the
\* prompt lets pass, nor for overrides, which are not checked at all.
WizardFileLoads ==
  \A p \in Shells :
    LET w == job[p].wizard IN
      /\ job[p].step = "save" /\ job[p].command # "set" /\ job[p].overrides = <<>>
      /\ Deserializes(load_yaml(job[p].base))
      /\ "port" \in DOMAIN w.yaml => w.yaml.port.is # "big"
      => Deserializes(w.yaml)

\* The current values of a file, shown as defaults, are those Enter keeps.
\* A value of another type is not shown, although the server may read it: a text
\* field may hold a number, and a fraction a whole one.
ShownAs(q, v) ==
  CASE q.type = "Text" -> v.type = "text"
    [] q.type = "Select" -> v.type = "text" /\ v.is \in {"first", "other"}
    [] q.type = "Float" -> v.type = "float"
    [] OTHER -> TRUE
Shown(p) ==
  \A q \in Prompts(job[p].only) :
    LET v == yaml_get(job[p].base, q.key) IN
      /\ q.key \in Fields => v # Unset
      /\ v # Unset => ShownAs(q, v)
OnlyEnter(p) ==
  /\ job[p].command # "set" /\ job[p].overrides = <<>>
  /\ job[p].step = "save" /\ ~job[p].typed
  /\ job[p].base \notin {Missing, Garbled} /\ Deserializes(job[p].base)

\* "Current values shown as defaults. Press Enter to keep." (install.rs:613):
\* a wizard answered by Enter throughout changes no setting of the server, as
\* long as the file holds, for every field it asks about, a value of the type of
\* the prompt.
EnterKeepsWhatIsThere ==
  \A p \in Shells :
    OnlyEnter(p) /\ Shown(p) => Settings(job[p].wizard.yaml) = Settings(job[p].base)

\* Findings.

\* The same for any file that loads, whatever fields it leaves to their
\* defaults.
EnterKeeps ==
  \A p \in Shells :
    OnlyEnter(p) => Settings(job[p].wizard.yaml) = Settings(job[p].base)
================================================================================
