------------------------------ MODULE MCArkFlow ------------------------------
(* Small flows and fault sets for ArkFlow. *)
EXTENDS ArkFlow

(* 2 after 1. *)
Chain == << {}, {1} >>
(* 2 and 3 after 1. *)
Fork == << {}, {1}, {1} >>
NoLoops2 == << 0, 0 >>
FirstLoops == << 1, 0 >>
FirstOf3Loops == << 1, 0, 0 >>

NoFaults == {}
TaskErrors == {"taskError"}
AgentFaults == {"taskError", "podStop", "promptError"}
(* Everything but edits of the cluster. *)
SilentFaults == AgentFaults \cup {"queueError", "apiError", "staleRead", "operatorCrash"}
AllFaults == SilentFaults \cup {"agentEdit", "eventEdit", "deletion"}
EveryFault == AllFaults \cup {"noQueue"}
=============================================================================
