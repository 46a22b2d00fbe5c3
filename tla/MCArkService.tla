----------------------------- MODULE MCArkService -----------------------------
(* A small instance of ArkService. *)
EXTENDS ArkService

EveryFault == {"apiError", "serviceEdit", "agentChange", "foreignEdit", "operatorCrash"}
=============================================================================
