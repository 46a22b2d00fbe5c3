------------------------------ MODULE MCArkAgent ------------------------------
(* A small agent for ArkAgent. *)
EXTENDS ArkAgent

CONSTANTS s1, s2

EveryFault == {"apiError", "stepLoop", "agentEdit", "promptEdit", "deploymentEdit",
               "operatorCrash"}
=============================================================================
