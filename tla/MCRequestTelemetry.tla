--------------------------- MODULE MCRequestTelemetry ---------------------------
(***************************************************************************)
(* What is recorded, in two scenes that share no state: three requests at  *)
(* the proxy, one of which has its old answers compressed, with a log that *)
(* may be inherited from a process killed between two writes; and the      *)
(* worker of the browser extension.                                        *)
(***************************************************************************)
EXTENDS RequestTelemetry, ExtensionWorker, TLC

CONSTANTS r1, r2, r3
VARIABLE scene

MCAmount ==
  [r \in Requests |->
     [c \in Counter |-> IF c = "total_tokens_before" /\ r = r1 THEN 2 ELSE 1]]

MCInit == scene \in {"proxy", "extension"} /\ Init /\ WorkerInit
MCNext ==
  /\ UNCHANGED scene
  /\ \/ scene = "proxy" /\ Next /\ UNCHANGED workerVars
     \/ scene = "extension" /\ WorkerNext /\ UNCHANGED vars
MCSpec == MCInit /\ [][MCNext]_<<scene, vars, workerVars>>
================================================================================
