-------------------------------- MODULE MCSetup --------------------------------
(***************************************************************************)
(* Two shells at the files of an installation that began without a         *)
(* configuration, with the one of the repository (src/nyquest.yaml), or    *)
(* with one key set; beside it, sharing nothing with it, two processes at  *)
(* a key vault.                                                            *)
(***************************************************************************)
EXTENDS Setup, KeyVault, TLC

VARIABLES scene

NewKey == Scalar("text", "new")
Anthropic == ApiKey["anthropic"]
MCAssignments ==
  {<<"port", Scalar("int", "new")>>, <<"semantic_threshhold", Scalar("float", "new")>>}
MCOverrideLists == {<<<<Anthropic, NewKey>>>>}
MCEnvironments ==
  {[port |-> Scalar("text", "new"), openclaw_mode |-> Scalar("text", "new"),
    host |-> Scalar("text", "new")]}
MCMissing == "missing" :> True
MCGarbled == "garbled" :> True
MCTypedKeys == {"port"}

\* The fields that src/nyquest.yaml leaves to their defaults.
LeftOut ==
  {"target_api_base", "target_api_version", "semantic_validation", "semantic_threshold",
   "semantic_api_key", "stability_mode", "stability_active", "stability_level_step",
   "stability_min_level", "stability_log_file", "privacy_mode", "encrypt_keys", "vault_path"}
Shipped ==
  [k \in Fields \ LeftOut |->
     IF k \in {"openclaw_mode", "semantic_enabled"} THEN True ELSE Default(k)]
MCInitialFiles == {Missing, Shipped}

\* In the scene of the files every command may run, one fewer than the bound;
\* in that of the assignments only config set.
OnlySets == \A p \in Shells : job'[p].command \in {"none", "set"}
MCInit ==
  /\ scene \in {"files", "assignments", "vault"} /\ Init /\ VInit
  /\ scene = "vault" => config = Missing
MCNext ==
  /\ UNCHANGED scene
  /\ \/ scene = "files" /\ Next /\ left'.commands > 0 /\ UNCHANGED vaultVars
     \/ scene = "assignments" /\ Next /\ OnlySets /\ UNCHANGED vaultVars
     \/ scene = "vault" /\ VNext /\ UNCHANGED vars
MCSpec == MCInit /\ [][MCNext]_<<scene, vars, vaultVars>>

Symmetry == Permutations(Shells) \cup Permutations(Processes) \cup Permutations(Owners)
================================================================================
