--------------------------- MODULE FlowLogicProofs ---------------------------
(***************************************************************************)
(* Lemmas about the operators of FlowLogic, for any flow: what each does   *)
(* to the type of a status, to its steps and to its verdict.  The proofs   *)
(* about the operator and about ark run rest on them.                      *)
(***************************************************************************)
EXTENDS FlowLogic, TLAPS

LEMMA FreshStepType == FreshStep \in StepStatus
  BY DEF FreshStep, StepStatus, StepPhase

LEMMA NewStatusType == NewStatus \in Status
  BY FreshStepType DEF NewStatus, Status, FlowPhase, Reason

LEMMA InitializeStepsType ==
  ASSUME NEW g \in Status, NEW t \in Nat
  PROVE  InitializeSteps(g, t) \in Status
  BY NewStatusType DEF InitializeSteps, Status, FlowPhase, Reason

LEMMA ParseOutputJSONType ==
  ASSUME NEW g \in Status
  PROVE  ParseOutputJSON(g) \in Status
<1> DEFINE steps == [s \in Step |->
             IF s \in WithSchema /\ g.steps[s].phase = "Succeeded" /\ g.steps[s].output \in JSONOutputs
             THEN [g.steps[s] EXCEPT !.json = TRUE] ELSE g.steps[s]]
<1>1. \A s \in Step : g.steps[s] \in StepStatus /\ [g.steps[s] EXCEPT !.json = TRUE] \in StepStatus
  BY DEF Status, StepStatus
<1>2. steps \in [Step -> StepStatus]
  BY <1>1
<1>3. ParseOutputJSON(g) = [g EXCEPT !.steps = steps]
  BY DEF ParseOutputJSON, IsJSON, Status
<1> QED BY <1>2, <1>3 DEF Status

LEMMA EvaluateLoopsType ==
  ASSUME NEW g \in Status, NEW verdict
  PROVE  EvaluateLoops(g, verdict) \in Status
<1> DEFINE again(s) == [FreshStep EXCEPT !.iter = g.steps[s].iter + 1, !.tokens = g.steps[s].tokens]
           steps == [s \in Step |-> IF LoopsAgain(g, s, verdict) THEN again(s) ELSE g.steps[s]]
<1>1. \A s \in Step : g.steps[s] \in StepStatus
  BY DEF Status
<1>2. ASSUME NEW s \in Step PROVE again(s) \in StepStatus
  <2>1. g.steps[s].iter + 1 \in Nat /\ g.steps[s].tokens \in Nat
    BY <1>1 DEF StepStatus
  <2> QED BY <2>1, FreshStepType DEF StepStatus
<1>3. steps \in [Step -> StepStatus]
  BY <1>1, <1>2
<1>4. EvaluateLoops(g, verdict) = [g EXCEPT !.steps = steps]
  BY DEF EvaluateLoops, Status
<1> QED BY <1>3, <1>4 DEF Status

LEMMA UpdateFlowPhaseType ==
  ASSUME NEW g \in Status, NEW t
  PROVE  /\ UpdateFlowPhase(g, t) \in Status
         /\ UpdateFlowPhase(g, t).steps = g.steps
         /\ UpdateFlowPhase(g, t).start = g.start
         /\ UpdateFlowPhase(g, t).phase \in {g.phase, "Succeeded", "Failed"}
         /\ UpdateFlowPhase(g, t).phase = "Succeeded" => g.phase = "Succeeded" \/ AllDone(g)
  BY DEF UpdateFlowPhase, Status, FlowPhase, Reason

-----------------------------------------------------------------------------
LEMMA ParseOutputJSONKeeps ==
  ASSUME NEW g \in Status, NEW s \in Step
  PROVE  LET h == ParseOutputJSON(g) IN
         /\ h.phase = g.phase
         /\ h.steps[s].phase = g.steps[s].phase /\ h.steps[s].output = g.steps[s].output
         /\ h.steps[s].iter = g.steps[s].iter /\ h.steps[s].task = g.steps[s].task
         /\ \/ h.steps[s].json <=> g.steps[s].json
            \/ g.steps[s].phase = "Succeeded" /\ g.steps[s].output \in JSONOutputs
<1> DEFINE steps == [t \in Step |->
             IF t \in WithSchema /\ g.steps[t].phase = "Succeeded" /\ g.steps[t].output \in JSONOutputs
             THEN [g.steps[t] EXCEPT !.json = TRUE] ELSE g.steps[t]]
<1>1. ParseOutputJSON(g) = [g EXCEPT !.steps = steps]
  BY DEF ParseOutputJSON, IsJSON, Status
<1>2. g.steps[s] \in StepStatus
  BY DEF Status
<1>3. /\ steps[s].phase = g.steps[s].phase /\ steps[s].output = g.steps[s].output
      /\ steps[s].iter = g.steps[s].iter /\ steps[s].task = g.steps[s].task
  BY <1>2 DEF StepStatus
<1>4. \/ steps[s].json <=> g.steps[s].json
      \/ g.steps[s].phase = "Succeeded" /\ g.steps[s].output \in JSONOutputs
  BY <1>2 DEF StepStatus
<1> HIDE DEF steps
<1>5. ParseOutputJSON(g).steps = steps /\ ParseOutputJSON(g).phase = g.phase
  BY <1>1 DEF Status
<1> QED BY <1>3, <1>4, <1>5

LEMMA ParseOutputJSONPhase ==
  ASSUME NEW g \in Status
  PROVE  ParseOutputJSON(g).phase = g.phase
  BY DEF ParseOutputJSON, Status

LEMMA EvaluateLoopsPhase ==
  ASSUME NEW g \in Status, NEW verdict
  PROVE  EvaluateLoops(g, verdict).phase = g.phase
  BY DEF EvaluateLoops, Status

LEMMA EvaluateLoopsKeeps ==
  ASSUME NEW g \in Status, NEW verdict, NEW s \in Step
  PROVE  LET h == EvaluateLoops(g, verdict) IN
         /\ h.phase = g.phase
         /\ \/ h.steps[s] = g.steps[s] /\ ~LoopsAgain(g, s, verdict)
            \/ /\ LoopsAgain(g, s, verdict) /\ g.steps[s].phase = "Succeeded"
               /\ h.steps[s].phase = "Pending" /\ h.steps[s].task = 0 /\ ~h.steps[s].json
               /\ h.steps[s].iter = g.steps[s].iter + 1
<1> DEFINE again(t) == [FreshStep EXCEPT !.iter = g.steps[t].iter + 1, !.tokens = g.steps[t].tokens]
           steps == [t \in Step |-> IF LoopsAgain(g, t, verdict) THEN again(t) ELSE g.steps[t]]
<1>1. EvaluateLoops(g, verdict) = [g EXCEPT !.steps = steps]
  BY DEF EvaluateLoops, Status
<1>2. /\ again(s).phase = "Pending" /\ again(s).task = 0 /\ ~again(s).json
      /\ again(s).iter = g.steps[s].iter + 1
  BY DEF FreshStep
<1>3. /\ steps[s] = IF LoopsAgain(g, s, verdict) THEN again(s) ELSE g.steps[s]
      /\ LoopsAgain(g, s, verdict) => g.steps[s].phase = "Succeeded"
  BY DEF LoopsAgain
<1> HIDE DEF steps, again
<1>4. EvaluateLoops(g, verdict).steps = steps /\ EvaluateLoops(g, verdict).phase = g.phase
  BY <1>1 DEF Status
<1> QED BY <1>2, <1>3, <1>4

-----------------------------------------------------------------------------
(* A status whose verdict, if it has one, its steps, budget and timeout earned by
   time t. *)
Earned(g, t) ==
  /\ g.phase = "Succeeded" => AllDone(g) /\ ~OverBudget(g)
  /\ g.phase = "Failed" => AnyFailed(g) \/ OverBudget(g) \/ EnforceTimeout(g, t)

(* A verdict is about the steps: a new reason leaves it as it was. *)
LEMMA SameVerdict ==
  ASSUME NEW g, NEW h, NEW t, g.phase = h.phase, g.steps = h.steps, g.start = h.start,
         Earned(g, t)
  PROVE  Earned(h, t)
  BY DEF Earned, AllDone, AnyFailed, OverBudget, SumStepTokens, EnforceTimeout

LEMMA UnendedEarned ==
  ASSUME NEW g, NEW t, ~IsTerminalPhase(g.phase)
  PROVE  Earned(g, t)
  BY DEF Earned, IsTerminalPhase

(* A timeout that is over stays over. *)
LEMMA EarnedLater ==
  ASSUME NEW g \in Status, NEW t \in Nat, Earned(g, t)
  PROVE  Earned(g, t + 1)
<1>1. g.start \in Nat
  BY DEF Status
<1>2. t > g.start + TimeoutSeconds => t + 1 > g.start + TimeoutSeconds
  BY <1>1, FlowSpecAssumption
<1>3. EnforceTimeout(g, t) => EnforceTimeout(g, t + 1)
  BY <1>2, Zenon DEF EnforceTimeout
<1> QED BY <1>3 DEF Earned

(* UpdateFlowPhase ends a running flow only for a reason, and in the order of its
   checks: the budget is looked at before the steps. *)
LEMMA UpdateEarns ==
  ASSUME NEW g \in Status, g.phase = "Running", NEW t
  PROVE  Earned(UpdateFlowPhase(g, t), t)
<1> DEFINE h == UpdateFlowPhase(g, t)
<1>1. h.steps = g.steps /\ h.start = g.start
  BY UpdateFlowPhaseType
<1>2. /\ AllDone(h) <=> AllDone(g)
      /\ AnyFailed(h) <=> AnyFailed(g)
      /\ OverBudget(h) <=> OverBudget(g)
  BY <1>1 DEF AllDone, AnyFailed, OverBudget, SumStepTokens
<1>3. h.phase = "Succeeded" => AllDone(g) /\ ~OverBudget(g)
  BY DEF UpdateFlowPhase, Status
<1>4. h.phase = "Failed" => AnyFailed(g) \/ OverBudget(g) \/ EnforceTimeout(g, t)
  BY DEF UpdateFlowPhase, Status
<1>5. h.phase = "Failed" /\ EnforceTimeout(g, t) => EnforceTimeout(h, t)
  BY <1>1 DEF EnforceTimeout
<1> HIDE DEF h
<1>6. Earned(h, t)
  BY <1>2, <1>3, <1>4, <1>5 DEF Earned
<1> QED BY <1>6 DEF h

(* UpdateFlowPhase leaves no failed step in a flow that goes on. *)
LEMMA UpdateFailsFlow ==
  ASSUME NEW g \in Status, NEW t
  PROVE  AnyFailed(UpdateFlowPhase(g, t)) => UpdateFlowPhase(g, t).phase = "Failed"
<1>1. AnyFailed(UpdateFlowPhase(g, t)) => AnyFailed(g)
  BY UpdateFlowPhaseType DEF AnyFailed
<1>2. AnyFailed(g) => UpdateFlowPhase(g, t).phase = "Failed"
  BY DEF UpdateFlowPhase, Status
<1> QED BY <1>1, <1>2
=============================================================================
