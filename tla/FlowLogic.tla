------------------------------ MODULE FlowLogic ------------------------------
(***************************************************************************)
(* The pure business logic of an ArkFlow (package internal/flow).  The     *)
(* operator and the ark CLI both call it, so it is a module of operators   *)
(* on a status record and has no variables of its own.                     *)
(*                                                                         *)
(* A step is its position in Spec.Steps.  Templates are abstracted to the  *)
(* decisions they lead to: an output either makes the loop condition of    *)
(* its own step truthy or not, and parses as JSON or not.                  *)
(***************************************************************************)
EXTENDS ArkTypes, FiniteSets, FiniteSetsExt

CONSTANTS
  NumSteps,        \* len(Spec.Steps)
  DependsOn,       \* the dependsOn entries of every step; may name no step
  Conditional,     \* the steps with an If expression
  MaxIterations,   \* the effective Loop.MaxIterations of a step, 0 for no Loop
  CrossLoop,       \* the loop steps whose condition reads other steps' outputs
  WithSchema,      \* the steps that declare an OutputSchema
  MaxTokens,       \* Spec.MaxTokens, 0 for no limit
  TimeoutSeconds   \* Spec.TimeoutSeconds in clock ticks, 0 for no timeout

Step == 1 .. NumSteps

ASSUME FlowSpecAssumption ==
  /\ NumSteps \in Nat
  /\ DependsOn \in [Step -> SUBSET Nat]
  /\ Conditional \subseteq Step
  /\ MaxIterations \in [Step -> Nat]
  /\ CrossLoop \subseteq Step
  /\ MaxTokens \in Nat
  /\ TimeoutSeconds \in Nat

(* The phases that satisfy a dependency. *)
Done == {"Succeeded", "Skipped"}

(* ArkFlowStatus.  reason is that of the "Ready" condition; start, the
   StartTime, is nil exactly while phase is "". *)
Status == [phase : FlowPhase, reason : Reason, start : Nat,
           steps : [Step -> StepStatus]]

FreshStep == [phase |-> "Pending", task |-> 0, output |-> NoOutput,
              json |-> FALSE, iter |-> 0, tokens |-> 0]

(* A flow nobody has reconciled: Status.Steps does not exist yet and is written
   here as the list InitializeSteps is about to create. *)
NewStatus == [phase |-> "", reason |-> "", start |-> 0,
              steps |-> [s \in Step |-> FreshStep]]
-----------------------------------------------------------------------------
IsTerminalPhase(phase) == phase \in {"Succeeded", "Failed"}

(* No cycle: every non-empty set of steps has one that waits for none of the
   set. *)
Acyclic(deps) == \A S \in (SUBSET Step) \ {{}} : \E s \in S : deps[s] \cap S = {}

Known(deps) == \A s \in Step : deps[s] \subseteq Step

(* What ValidateDAG decides; module ValidateDAG has the search itself. *)
ValidDAG(deps) == Known(deps) /\ Acyclic(deps)

DepsSucceeded(f, s) ==
  \A d \in DependsOn[s] : d \in Step /\ f.steps[d].phase \in Done

(* Mutant: dependencies are not looked at. *)
ReadyStep_IgnoresDeps(f, s) == f.steps[s].phase = "Pending"

(* A step the submission loop will not pass over. *)
ReadyStep(f, s) == f.steps[s].phase = "Pending" /\ DepsSucceeded(f, s)

(* Mutant: the flow starts in the phase Pending of the API enum. *)
InitializeSteps_Pending(f, now) ==
  IF f.phase # "" THEN f ELSE [NewStatus EXCEPT !.phase = "Pending", !.start = now]

InitializeSteps(f, now) ==
  IF f.phase # "" THEN f
  ELSE [NewStatus EXCEPT !.phase = "Running", !.start = now,
                         !.reason = "Validated"]

(* ExtractJSON finds a JSON value in the output.  Output "" is NoOutput, which
   is no JSON. *)
IsJSON(output) == output \in JSONOutputs

ParseOutputJSON(f) ==
  [f EXCEPT !.steps = [s \in Step |->
     IF s \in WithSchema /\ @[s].phase = "Succeeded" /\ IsJSON(@[s].output)
     THEN [@[s] EXCEPT !.json = TRUE] ELSE @[s]]]

(* Whether EvaluateLoops finds the condition of s truthy.  A condition over the
   step's own output is a function of that output; one over other outputs gives
   whatever `verdict` says at this evaluation. *)
LoopCondition(f, s, verdict) ==
  IF s \in CrossLoop THEN verdict[s] ELSE f.steps[s].output \in AgainOutputs

LoopsAgain(f, s, verdict) ==
  /\ MaxIterations[s] > 0
  /\ f.steps[s].phase = "Succeeded"
  /\ f.steps[s].iter < MaxIterations[s]
  /\ LoopCondition(f, s, verdict)

(* Mutant: the TaskID survives the reset. *)
EvaluateLoops_KeepsTask(f, verdict) ==
  [f EXCEPT !.steps = [s \in Step |->
     IF LoopsAgain(f, s, verdict)
     THEN [FreshStep EXCEPT !.iter = f.steps[s].iter + 1, !.task = f.steps[s].task]
     ELSE @[s]]]

(* Mutant: the iteration is not counted. *)
EvaluateLoops_Uncounted(f, verdict) ==
  [f EXCEPT !.steps = [s \in Step |->
     IF LoopsAgain(f, s, verdict) THEN [FreshStep EXCEPT !.iter = f.steps[s].iter] ELSE @[s]]]

(* Mutant: OutputJSON survives the reset. *)
EvaluateLoops_KeepsJSON(f, verdict) ==
  [f EXCEPT !.steps = [s \in Step |->
     IF LoopsAgain(f, s, verdict)
     THEN [FreshStep EXCEPT !.iter = f.steps[s].iter + 1, !.json = f.steps[s].json]
     ELSE @[s]]]

(* TokenUsage survives the reset; TaskID, Output and OutputJSON do not. *)
EvaluateLoops(f, verdict) ==
  [f EXCEPT !.steps = [s \in Step |->
     IF LoopsAgain(f, s, verdict)
     THEN [FreshStep EXCEPT !.iter = f.steps[s].iter + 1,
                            !.tokens = f.steps[s].tokens]
     ELSE @[s]]]

SumTokens(steps) == MapThenSumSet(LAMBDA s : steps[s].tokens, Step)
SumStepTokens(f) == SumTokens(f.steps)

(* Mutant: the timeout waits for the running steps. *)
EnforceTimeout_BetweenSteps(f, now) ==
  /\ TimeoutSeconds > 0 /\ f.phase # "" /\ now > f.start + TimeoutSeconds
  /\ \A s \in Step : f.steps[s].phase # "Running"

EnforceTimeout(f, now) ==
  TimeoutSeconds > 0 /\ f.phase # "" /\ now > f.start + TimeoutSeconds

OverBudget(f) == MaxTokens > 0 /\ SumStepTokens(f) > MaxTokens

AnyFailed(f) == \E s \in Step : f.steps[s].phase = "Failed"
AllDone(f) == \A s \in Step : f.steps[s].phase \in Done

(* Mutant: the budget is looked at only while steps are left. *)
UpdateFlowPhase_BudgetLast(f, now) ==
  LET end(phase, reason) == [f EXCEPT !.phase = phase, !.reason = reason]
  IN IF EnforceTimeout(f, now) THEN end("Failed", "TimedOut")
     ELSE IF AllDone(f) THEN end("Succeeded", "Succeeded")
     ELSE IF OverBudget(f) THEN end("Failed", "BudgetExceeded")
     ELSE IF AnyFailed(f) THEN end("Failed", "StepFailed")
     ELSE f

(* Mutant: a failed step counts once no other step runs. *)
UpdateFlowPhase_FailsLate(f, now) ==
  IF AllDone(f) THEN [f EXCEPT !.phase = "Succeeded", !.reason = "Succeeded"]
  ELSE IF AnyFailed(f) /\ \A s \in Step : f.steps[s].phase # "Running"
       THEN [f EXCEPT !.phase = "Failed", !.reason = "StepFailed"]
  ELSE f

(* TotalTokenUsage and the rendered Output are display data and left out. *)
UpdateFlowPhase(f, now) ==
  LET end(phase, reason) == [f EXCEPT !.phase = phase, !.reason = reason]
  IN IF EnforceTimeout(f, now) THEN end("Failed", "TimedOut")
     ELSE IF OverBudget(f) THEN end("Failed", "BudgetExceeded")
     ELSE IF AnyFailed(f) THEN end("Failed", "StepFailed")
     ELSE IF AllDone(f) THEN end("Succeeded", "Succeeded")
     ELSE f
=============================================================================
