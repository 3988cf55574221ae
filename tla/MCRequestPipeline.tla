---------------------------- MODULE MCRequestPipeline ----------------------------
(***************************************************************************)
(* What happens to a request, in five scenes that share no state: the      *)
(* stages and the compression of a growing conversation, the same for an   *)
(* agent in OpenClaw mode, the rules of a category on one text, an         *)
(* exchange of an OpenAI client with a provider of either format, and the  *)
(* level all this is done at.                                              *)
(***************************************************************************)
EXTENDS RequestCompression, AgentMode, Levels, RuleCategories, ChatExchange, TLC

VARIABLES scene

MCBaseLevels == {-300, 0, 236, 900, 1400}
MCSizes == {50, 150, 250, 70000, 102000, 103000, 110000, 170000}

\* The scenes that are not played stand still in one state.
MCInit ==
  /\ scene \in {"stages", "agent", "rules", "exchange", "level"}
  /\ RInit /\ AgentInit /\ ChatInit /\ CategoryInit /\ LevelInit
  /\ scene # "stages" => api = "anthropic"
  /\ scene # "agent" => format = "openai" /\ tools = <<1, 2>> /\ contextAt = 3
  /\ scene # "rules" => rules = <<>> /\ original = CHOOSE t \in Texts : TRUE
  /\ scene # "level" => family = "other"
MCNext ==
  /\ UNCHANGED scene
  /\ \/ scene = "stages" /\ RNext
        /\ UNCHANGED <<agentVars, chatVars, categoryVars, levelVars>>
     \/ scene = "agent" /\ AgentNext
        /\ UNCHANGED <<allVars, chatVars, categoryVars, levelVars>>
     \/ scene = "rules" /\ CategoryNext
        /\ UNCHANGED <<allVars, agentVars, chatVars, levelVars>>
     \/ scene = "exchange" /\ ChatNext
        /\ UNCHANGED <<allVars, agentVars, categoryVars, levelVars>>
     \/ scene = "level" /\ LevelNext
        /\ UNCHANGED <<allVars, agentVars, chatVars, categoryVars>>
MCSpec == MCInit /\ [][MCNext]_<<scene, allVars, agentVars, chatVars, categoryVars, levelVars>>

Symmetry == Permutations(Traces)
================================================================================
