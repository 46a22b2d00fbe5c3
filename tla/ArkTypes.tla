------------------------------ MODULE ArkTypes ------------------------------
(***************************************************************************)
(* The vocabulary the modules share (api/v1alpha1): what an agent answers, *)
(* reduced to what the flow logic tells apart, and what a call costs.      *)
(***************************************************************************)
EXTENDS Integers

CONSTANTS
  Outputs,       \* what an agent may answer
  NoOutput,      \* Output = ""
  AgainOutputs,  \* the answers that make their step's loop condition truthy
  JSONOutputs,   \* the answers ExtractJSON finds JSON in
  Costs          \* the tokens a call may report

ASSUME OutputAssumption ==
  /\ NoOutput \notin Outputs
  /\ Costs \subseteq Nat

FlowPhase == {"", "Running", "Succeeded", "Failed"}
StepPhase == {"Pending", "Running", "Succeeded", "Failed", "Skipped"}

(* Reasons of the flow's "Ready" condition. *)
Reason == {"", "InvalidDAG", "DeploymentNotFound", "Validated", "TimedOut",
           "NoTaskQueue", "BudgetExceeded", "StepFailed", "Succeeded"}

(* ArkFlowStepStatus.  task is TaskID (0 for ""), json whether OutputJSON is
   set, iter is Iterations, tokens the total of TokenUsage (0 for nil). *)
StepStatus == [phase : StepPhase, task : Nat, output : Outputs \cup {NoOutput},
               json : BOOLEAN, iter : Nat, tokens : Nat]
=============================================================================
