---------------------------- MODULE MCAgentRuntime ----------------------------
(* Small instances of AgentRuntime. *)
EXTENDS AgentRuntime, TLC

CONSTANTS p1, p2

TwoProviders == p1 :> "anthropic" @@ p2 :> "openai"
AllFaults == {"queueError", "taskError", "podStop"}
Clients == 1 .. 1
Usages == 0 .. 2
=============================================================================
