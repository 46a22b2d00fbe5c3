---------------------------- MODULE ArkFlowProofs ----------------------------
(***************************************************************************)
(* Proofs about ArkFlow, for any number of steps, pods and faults, and any *)
(* dependencies, conditions, loops, budget and timeout.                    *)
(***************************************************************************)
EXTENDS ArkFlow, TaskQueueProofs, FlowLogicProofs

(* With one result per task, the answer collectResults settles on exists. *)
LEMMA CollectStepType ==
  ASSUME QueueTypeOK, OneResultPerTask, f \in Status, NEW s \in Step
  PROVE  /\ CollectStep(s) \in StepStatus
         /\ CollectStep(s) # f.steps[s] =>
              /\ f.steps[s].phase = "Running" /\ CollectStep(s).phase = "Succeeded"
              /\ CollectStep(s).json = f.steps[s].json
              /\ \E i \in Answers(f.steps[s].task) : CollectStep(s).output = results[i].output
         /\ CollectStep(s).task = f.steps[s].task
         /\ CollectStep(s).iter = f.steps[s].iter
<1> DEFINE answers == Answers(f.steps[s].task)
           i == CHOOSE i \in answers : \A j \in answers : j <= i
           g == [f.steps[s] EXCEPT !.phase = "Succeeded", !.output = results[i].output,
                   !.tokens = IF results[i].tokens > 0 THEN results[i].tokens ELSE @]
<1>1. f.steps[s] \in StepStatus
  BY DEF Status
<1>2. CASE ~(Waiting(s) /\ answers # {})
  BY <1>1, <1>2 DEF CollectStep
<1>3. CASE Waiting(s) /\ answers # {}
  <2>1. PICK k \in answers : TRUE
    BY <1>3
  <2>2. k \in Nat /\ \A j \in answers : j = k
    <3>1. k \in DOMAIN results /\ results[k].task = f.steps[s].task /\ DOMAIN results = 1 .. Len(results)
      BY <2>1 DEF Answers, QueueTypeOK
    <3>2. \A j \in answers : j \in DOMAIN results /\ results[j].task = f.steps[s].task
      BY DEF Answers
    <3> QED BY <3>1, <3>2 DEF OneResultPerTask
  <2>3. i \in answers
    <3>1. \E m \in answers : \A j \in answers : j <= m
      BY <2>1, <2>2
    <3> HIDE DEF answers
    <3> QED BY <3>1
  <2>4. results[i] \in Result
    BY <2>3 DEF Answers, QueueTypeOK
  <2>5. /\ g \in StepStatus /\ g.phase = "Succeeded" /\ g.task = f.steps[s].task
        /\ g.iter = f.steps[s].iter /\ g.json = f.steps[s].json /\ g.output = results[i].output
    BY <1>1, <2>4 DEF StepStatus, StepPhase, Result
  <2>6. CollectStep(s) = g
    BY <1>3 DEF CollectStep
  <2> QED BY <1>3, <2>3, <2>5, <2>6 DEF Waiting
<1> QED BY <1>2, <1>3

(***************************************************************************)
(* The queue under the controller: it only ever adds tasks.                *)
(***************************************************************************)
LEMMA QuietPreserves ==
  ASSUME QueueTypeOK, QueueInv, UNCHANGED <<stream, agentVars>>, faults' \in 0 .. MaxFaults
  PROVE  QueueTypeOK' /\ QueueInv' /\ StreamGrows
  BY DEF agentVars, QueueTypeOK, QueueInv, Delivered, OneWorkerPerTask, OneResultPerTask,
         AttemptsBounded, DeadOnlyWhenExhausted, StreamGrows

LEMMA FaultType ==
  ASSUME QueueTypeOK, NEW kind, NoFault \/ Fault(kind)
  PROVE  faults' \in 0 .. MaxFaults
  BY QueueAssumption DEF NoFault, Fault, QueueTypeOK

LEMMA StepPromptType ==
  ASSUME f \in Status, NEW s \in Step
  PROVE  <<s, f.steps[s].iter>> \in Prompt
<1>1. s \in Nat
  BY FlowSpecAssumption DEF Step
<1>2. f.steps[s] \in StepStatus
  BY DEF Status
<1>3. f.steps[s].iter \in Nat
  BY <1>2 DEF StepStatus
<1> QED BY <1>1, <1>3 DEF Prompt

(* The actions of the controller and its environment that leave the queue as it
   is, and the two that add a task. *)
QuietSteps ==
  \/ ReconcileIgnored \/ ReconcileProblem \/ ReconcileTerminal \/ ReconcileStart
  \/ CollectResults \/ CollectFails \/ PassOverStep \/ SkipStep \/ FailStep
  \/ SaveAfterError \/ SaveStatus \/ SaveConflicts \/ SaveFails
  \/ Environment

LEMMA QuietStepsQuiet ==
  ASSUME QueueTypeOK, QuietSteps
  PROVE  UNCHANGED <<stream, agentVars>> /\ faults' \in 0 .. MaxFaults
<1>0. faults \in 0 .. MaxFaults
  BY DEF QueueTypeOK
<1>1. CASE ReconcileIgnored \/ ReconcileProblem \/ ReconcileTerminal \/ ReconcileStart
  BY <1>1, FaultType
  DEF ReconcileIgnored, ReconcileProblem, ReconcileTerminal, ReconcileStart, ReadFlow, UpdateLost
<1>2. CASE CollectResults \/ CollectFails \/ PassOverStep \/ SkipStep \/ FailStep
  BY <1>0, <1>2, FaultType
  DEF CollectResults, CollectFails, PassOverStep, SkipStep, FailStep, NextStepAs
<1>3. CASE SaveAfterError \/ SaveStatus \/ SaveConflicts \/ SaveFails
  BY <1>0, <1>3, FaultType DEF SaveAfterError, SaveStatus, SaveConflicts, SaveFails
<1>4. CASE Environment
  BY <1>0, <1>4, FaultType
  DEF Environment, RestartOperator, Watch, Resync, Tick, ChangeAgents, ChangeEvents,
      DeleteFlow, EditCluster
<1> QED BY <1>1, <1>2, <1>3, <1>4 DEF QuietSteps

LEMMA QueuePreserved ==
  ASSUME TypeOK, QueueInv, [Next]_vars
  PROVE  QueueTypeOK' /\ QueueInv' /\ StreamGrows
<1>0. QueueTypeOK /\ f \in Status
  BY DEF TypeOK
<1>1. CASE QuietSteps
  BY <1>0, <1>1, QuietStepsQuiet, QuietPreserves
<1>2. CASE SubmitStep
  <2>1. next \in Step /\ faults' \in 0 .. MaxFaults
    BY <1>2 DEF SubmitStep, AtReadyStep, NextStepAs, TypeOK, QueueTypeOK, Step
  <2> QED BY <1>0, <1>2, <2>1, StepPromptType, EnqueuePreserves DEF SubmitStep, NextStepAs, agentVars
<1>3. CASE SubmitFails
  <2>1. next \in Step /\ faults' \in 0 .. MaxFaults
    BY <1>0, <1>3, FaultType DEF SubmitFails, AtReadyStep, TypeOK, Step
  <2>2. CASE stream' = stream
    BY <1>0, <1>3, <2>1, <2>2, QuietPreserves DEF SubmitFails
  <2>3. CASE Enqueue(<<next, f.steps[next].iter>>)
    BY <1>0, <1>3, <2>1, <2>3, StepPromptType, EnqueuePreserves DEF SubmitFails, agentVars
  <2> QED BY <1>3, <2>2, <2>3 DEF SubmitFails
<1>4. CASE AgentNext \/ ClientSubmit
  BY <1>0, <1>4, AgentNextPreserves, ClientSubmitPreserves
<1>5. CASE UNCHANGED vars
  BY <1>0, <1>5, QueueStutterPreserves DEF vars, queueVars
<1> QED BY <1>1, <1>2, <1>3, <1>4, <1>5 DEF Next, Reconcile, QuietSteps

(***************************************************************************)
(* Types.                                                                  *)
(***************************************************************************)
LEMMA InitType == Init => TypeOK
<1> SUFFICES ASSUME Init PROVE TypeOK
  OBVIOUS
<1>1. QueueTypeOK
  BY QueueInitInv DEF Init
<1>2. flow \in Object /\ cached \in Object /\ f \in Status
  BY NewStatusType DEF Init, Object
<1>3. cluster \in Cluster
  BY DEF Init, Cluster, OneOf
<1>4. next \in 1 .. NumSteps + 1
  BY FlowSpecAssumption DEF Init
<1> QED BY <1>1, <1>2, <1>3, <1>4 DEF Init, TypeOK

LEMMA ReturnType ==
  ASSUME Return
  PROVE  /\ pc' = "idle" /\ f' = NewStatus /\ f' \in Status
         /\ version' = 0 /\ next' \in 1 .. NumSteps + 1
  BY NewStatusType, FlowSpecAssumption DEF Return

LEMMA StoredType ==
  ASSUME flow \in Object, NEW g \in Status
  PROVE  /\ Stored(g) \in Object
         /\ Stored(g).status = g
         /\ Stored(g) = flow \/ Stored(g).version = flow.version + 1
  BY DEF Stored, Object

LEMMA NextStepAsType ==
  ASSUME TypeOK, next \in Step, NEW phase \in StepPhase, NEW task \in Nat,
         NextStepAs(phase, task)
  PROVE  /\ f' \in Status
         /\ f'.phase = f.phase
         /\ next' \in 1 .. NumSteps + 1
         /\ \A s \in Step \ {next} : f'.steps[s] = f.steps[s]
         /\ f'.steps[next].phase = phase
         /\ f'.steps[next].task = task
         /\ f'.steps[next].iter = f.steps[next].iter
         /\ f'.steps[next].json = f.steps[next].json
         /\ UNCHANGED <<flow, cached, cluster, now, wanted, pc, version>>
<1>1. f \in Status /\ f.steps[next] \in StepStatus
  BY DEF TypeOK, Status
<1> DEFINE st == [f.steps[next] EXCEPT !.phase = phase, !.task = task]
           steps == [f.steps EXCEPT ![next] = st]
<1>2. /\ st \in StepStatus
      /\ st.phase = phase /\ st.task = task /\ st.iter = f.steps[next].iter
      /\ st.json = f.steps[next].json
  BY <1>1 DEF StepStatus
<1>3. f' = [f EXCEPT !.steps = steps]
  BY <1>1 DEF NextStepAs, Status
<1> HIDE DEF st
<1>4. /\ steps \in [Step -> StepStatus] /\ steps[next] = st
      /\ \A s \in Step \ {next} : steps[s] = f.steps[s]
  BY <1>1, <1>2 DEF Status
<1> HIDE DEF steps
<1>5. f' \in Status /\ f'.steps = steps /\ f'.phase = f.phase
  BY <1>1, <1>3, <1>4 DEF Status
<1>6. next' \in 1 .. NumSteps + 1
  BY FlowSpecAssumption DEF NextStepAs, Step
<1> QED BY <1>2, <1>4, <1>5, <1>6 DEF NextStepAs

(* The part of TypeOK that is about the flow. *)
FlowTypeOK ==
  /\ flow \in Object /\ cached \in Object /\ cluster \in Cluster
  /\ now \in Nat /\ wanted \in BOOLEAN
  /\ pc \in {"idle", "collect", "submit", "saveError"}
  /\ f \in Status /\ version \in Nat /\ next \in 1 .. NumSteps + 1

LEMMA CollectedType ==
  ASSUME QueueTypeOK, OneResultPerTask, f \in Status
  PROVE  /\ CollectedResults \in Status
         /\ CollectedResults.phase = f.phase
         /\ CollectedResults.steps = [s \in Step |-> CollectStep(s)]
<1> DEFINE steps == [s \in Step |-> CollectStep(s)]
<1>1. steps \in [Step -> StepStatus]
  BY CollectStepType
<1>2. CollectedResults = [f EXCEPT !.steps = steps]
  BY DEF CollectedResults
<1> HIDE DEF steps
<1>3. CollectedResults \in Status /\ CollectedResults.phase = f.phase /\ CollectedResults.steps = steps
  BY <1>1, <1>2 DEF Status
<1> QED BY <1>3 DEF steps

(* What ReconcileProblem may write. *)
LEMMA ProblemWrites ==
  ASSUME ReconcileProblem
  PROVE  \/ flow' = flow
         \/ /\ CanUpdate(cached.version)
            /\ flow' = Stored([cached.status EXCEPT !.reason = Problem])
  BY DEF ReconcileProblem, UpdateLost

LEMMA ReconcileType ==
  ASSUME TypeOK, QueueInv, Reconcile
  PROVE  FlowTypeOK'
<1>0. /\ FlowTypeOK /\ QueueTypeOK /\ OneResultPerTask
      /\ flow.version \in Nat /\ cached.version \in Nat
      /\ flow.status \in Status /\ cached.status \in Status
  BY DEF TypeOK, FlowTypeOK, QueueInv, Object
<1>1. CASE ReconcileIgnored \/ ReconcileTerminal
  BY <1>0, <1>1 DEF ReconcileIgnored, ReconcileTerminal, UpdateLost, FlowTypeOK, reconcileVars, CanUpdate
<1>2. CASE ReconcileProblem
  <2>1. [cached.status EXCEPT !.reason = Problem] \in Status
    BY <1>0 DEF Problem, Status, Reason
  <2>2. flow' \in Object
    BY <1>0, <1>2, <2>1, StoredType, ProblemWrites DEF FlowTypeOK
  <2> QED BY <1>0, <1>2, <2>2 DEF ReconcileProblem, FlowTypeOK, reconcileVars
<1>3. CASE ReconcileStart
  BY <1>0, <1>3, InitializeStepsType DEF ReconcileStart, FlowTypeOK
<1>4. CASE CollectResults
  <2>1. ParseOutputJSON(CollectedResults) \in Status
    BY <1>0, CollectedType, ParseOutputJSONType DEF FlowTypeOK
  <2>2. f' \in Status
    BY <1>4, <2>1, EvaluateLoopsType DEF CollectResults
  <2> QED BY <1>0, <1>4, <2>2 DEF CollectResults, FlowTypeOK
<1>5. CASE CollectFails
  BY <1>0, <1>5, ReturnType DEF CollectFails, FlowTypeOK
<1>6. CASE PassOverStep
  BY <1>0, <1>6, FlowSpecAssumption DEF PassOverStep, FlowTypeOK
<1>7. CASE SkipStep \/ FailStep \/ SubmitStep
  <2>0. AtReadyStep
    BY <1>7 DEF SkipStep, FailStep, SubmitStep
  <2>1. next \in Step /\ f.steps[next] \in StepStatus
    BY <1>0, <2>0, FlowSpecAssumption DEF AtReadyStep, FlowTypeOK, Step, Status
  <2>2. f.steps[next].task \in Nat /\ Len(stream) + 1 \in Nat
    BY <1>0, <2>1 DEF StepStatus, QueueTypeOK
  <2>3. PICK phase \in StepPhase, task \in Nat : NextStepAs(phase, task)
    BY <1>7, <2>2 DEF SkipStep, FailStep, SubmitStep, StepPhase
  <2> QED BY <1>0, <2>1, <2>3, NextStepAsType DEF FlowTypeOK
<1>8. CASE SubmitFails
  BY <1>0, <1>8 DEF SubmitFails, FlowTypeOK
<1>9. CASE SaveAfterError
  BY <1>0, <1>9, ReturnType, StoredType DEF SaveAfterError, FlowTypeOK
<1>10. CASE SaveStatus
  BY <1>0, <1>10, ReturnType, StoredType, UpdateFlowPhaseType DEF SaveStatus, FlowTypeOK
<1>11. CASE SaveConflicts
  BY <1>0, <1>11, ReturnType DEF SaveConflicts, FlowTypeOK
<1>12. CASE SaveFails
  BY <1>0, <1>12, ReturnType, StoredType, UpdateFlowPhaseType DEF SaveFails, FlowTypeOK
<1> QED
  BY <1>1, <1>2, <1>3, <1>4, <1>5, <1>6, <1>7, <1>8, <1>9, <1>10, <1>11, <1>12 DEF Reconcile

LEMMA EnvironmentType ==
  ASSUME TypeOK, Environment
  PROVE  FlowTypeOK'
<1>0. FlowTypeOK
  BY DEF TypeOK, FlowTypeOK
<1>1. CASE RestartOperator
  BY <1>0, <1>1, ReturnType DEF RestartOperator, FlowTypeOK
<1>2. CASE Watch \/ Resync
  BY <1>0, <1>2 DEF Watch, Resync, FlowTypeOK, reconcileVars
<1>4. CASE Tick
  BY <1>0, <1>4 DEF Tick, FlowTypeOK, reconcileVars
<1>3. ASSUME NEW field \in {"agents", "template", "gone"}, EditCluster(field)
      PROVE  FlowTypeOK'
  <2>1. cluster' \in Cluster
    BY <1>0, <1>3 DEF EditCluster, FlowTypeOK, Cluster
  <2> QED BY <1>0, <1>3, <2>1 DEF EditCluster, FlowTypeOK, reconcileVars
<1> QED BY <1>1, <1>2, <1>3, <1>4 DEF Environment, ChangeAgents, ChangeEvents, DeleteFlow

LEMMA TypePreserved ==
  ASSUME TypeOK, QueueInv, [Next]_vars
  PROVE  TypeOK' /\ QueueInv'
<1>1. FlowTypeOK'
  <2>1. CASE Reconcile
    BY <2>1, ReconcileType
  <2>2. CASE Environment
    BY <2>2, EnvironmentType
  <2>3. CASE UNCHANGED flowVars
    BY <2>3 DEF flowVars, TypeOK, FlowTypeOK
  <2>4. CASE UNCHANGED vars
    BY <2>3, <2>4 DEF vars, flowVars
  <2> QED BY <2>1, <2>2, <2>3, <2>4 DEF Next
<1> QED BY <1>1, QueuePreserved DEF TypeOK, FlowTypeOK

(* TypeOK and the invariant of the queue hold throughout: every variable keeps
   its type, and under the controller too no task is ever answered twice. *)
THEOREM FlowTypesCorrect == SafetySpec => [](TypeOK /\ OneResultPerTask)
<1>1. Init => TypeOK /\ QueueInv
  BY InitType, QueueInitInv DEF Init
<1>2. TypeOK /\ QueueInv => TypeOK /\ OneResultPerTask
  BY DEF QueueInv
<1> QED BY <1>1, <1>2, TypePreserved, PTL DEF SafetySpec

(***************************************************************************)
(* The reconcile and the optimistic lock.                                  *)
(***************************************************************************)

(* The relation of FlowLifecycle, spelled out for one step of two statuses. *)
StepMoves(g, h, s) ==
  /\ \/ /\ h.steps[s].iter = g.steps[s].iter
        /\ \/ h.steps[s].phase = g.steps[s].phase
           \/ g.steps[s].phase = "Pending" /\ h.steps[s].phase \in {"Running", "Skipped", "Failed"}
           \/ g.steps[s].phase = "Running" /\ h.steps[s].phase = "Succeeded"
     \/ /\ h.steps[s].iter = g.steps[s].iter + 1
        /\ g.steps[s].phase \in {"Running", "Succeeded"}
        /\ h.steps[s].phase # "Succeeded"
  /\ /\ h.steps[s].phase # "Pending"
     /\ g.steps[s].phase = "Pending" \/ h.steps[s].iter > g.steps[s].iter
     => DepsSucceeded(h, s)

(* The cache holds the stored object or an older one. *)
CacheBehind ==
  /\ cached.version <= flow.version
  /\ cached.version = flow.version => cached = flow

(* A flow that has not started has untouched steps. *)
FreshUntilRunning == flow.status.phase = "" => flow.status.steps = NewStatus.steps

(* A working copy is that of a running flow; as long as nobody has written a
   newer version, the stored flow has not ended and the copy is a legal
   successor of it. *)
WorkingCopy ==
  pc # "idle" =>
    /\ f.phase = "Running"
    /\ version <= flow.version
    /\ version = flow.version =>
         /\ ~IsTerminalPhase(flow.status.phase)
         /\ pc = "collect" => f.steps = flow.status.steps
         /\ \A s \in Step : StepMoves(flow.status, f, s)

FlowInv == CacheBehind /\ FreshUntilRunning /\ WorkingCopy

LEMMA StepsMoveByStep ==
  ASSUME NEW g \in Status, NEW h \in Status, \A s \in Step : StepMoves(g, h, s)
  PROVE  Lifecycle!StepsMove(View(g), View(h))
<1>1. SUFFICES ASSUME NEW s \in Step
               PROVE  /\ Lifecycle!Moves(View(g)[s], View(h)[s])
                      /\ Lifecycle!Begins(View(g)[s], View(h)[s])
                           => \A d \in DependsOn[s] : View(h)[d].phase \in Done
  BY DEF Lifecycle!StepsMove, Lifecycle!Done, Done
<1>2. StepMoves(g, h, s)
  OBVIOUS
<1>3. Lifecycle!Moves(View(g)[s], View(h)[s])
  BY <1>2 DEF StepMoves, Lifecycle!Moves, Lifecycle!Follows, View
<1>4. Lifecycle!Begins(View(g)[s], View(h)[s]) => DepsSucceeded(h, s)
  BY <1>2 DEF StepMoves, Lifecycle!Begins, View
<1>5. DepsSucceeded(h, s) => \A d \in DependsOn[s] : View(h)[d].phase \in Done
  BY DEF DepsSucceeded, View
<1> QED BY <1>3, <1>4, <1>5

LEMMA StayingMoves ==
  ASSUME NEW g \in Status, NEW s \in Step
  PROVE  StepMoves(g, g, s)
<1>1. g.steps[s].iter \in Nat
  BY DEF Status, StepStatus
<1> QED BY <1>1 DEF StepMoves

(* What one CollectResults does to a step: nothing, an answer, or another
   iteration. *)
LEMMA CollectResultsKeeps ==
  ASSUME TypeOK, OneResultPerTask, CollectResults, NEW s \in Step
  PROVE  /\ f'.phase = f.phase
         /\ \/ /\ f'.steps[s].phase = f.steps[s].phase
               /\ f'.steps[s].iter = f.steps[s].iter
               /\ f'.steps[s].task = f.steps[s].task
            \/ /\ f.steps[s].phase = "Running" /\ f'.steps[s].phase = "Succeeded"
               /\ f'.steps[s].iter = f.steps[s].iter
               /\ f'.steps[s].task = f.steps[s].task
            \/ /\ f.steps[s].phase \in {"Running", "Succeeded"} /\ f'.steps[s].phase = "Pending"
               /\ f'.steps[s].iter = f.steps[s].iter + 1
               /\ f'.steps[s].task = 0
<1>1. QueueTypeOK /\ f \in Status
  BY DEF TypeOK
<1> DEFINE g == CollectedResults
           h == ParseOutputJSON(g)
<1>2. PICK verdict \in [CrossLoop -> BOOLEAN] : f' = EvaluateLoops(h, verdict)
  BY DEF CollectResults
<1>3. /\ g \in Status /\ g.phase = f.phase /\ g.steps[s] = CollectStep(s)
      /\ h \in Status
  BY <1>1, CollectedType, ParseOutputJSONType
<1>4. /\ h.phase = g.phase /\ h.steps[s].phase = g.steps[s].phase
      /\ h.steps[s].iter = g.steps[s].iter /\ h.steps[s].task = g.steps[s].task
  BY <1>3, ParseOutputJSONKeeps
<1>5. /\ f'.phase = h.phase
      /\ \/ f'.steps[s] = h.steps[s]
         \/ /\ h.steps[s].phase = "Succeeded"
            /\ f'.steps[s].phase = "Pending" /\ f'.steps[s].task = 0
            /\ f'.steps[s].iter = h.steps[s].iter + 1
  BY <1>2, <1>3, EvaluateLoopsKeeps
<1>6. /\ g.steps[s].task = f.steps[s].task /\ g.steps[s].iter = f.steps[s].iter
      /\ \/ g.steps[s] = f.steps[s]
         \/ f.steps[s].phase = "Running" /\ g.steps[s].phase = "Succeeded"
  BY <1>1, <1>3, CollectStepType
<1> HIDE DEF g, h
<1> QED BY <1>3, <1>4, <1>5, <1>6

LEMMA SameStepsMove ==
  ASSUME NEW g \in Status, NEW h \in Status, g.steps = h.steps, NEW s \in Step
  PROVE  StepMoves(g, h, s)
<1>1. g.steps[s].iter \in Nat
  BY DEF Status, StepStatus
<1> QED BY <1>1 DEF StepMoves

LEMMA UpdateMoves ==
  ASSUME NEW g \in Status, NEW h \in Status, NEW t, NEW s \in Step, StepMoves(g, h, s)
  PROVE  StepMoves(g, UpdateFlowPhase(h, t), s)
<1>1. UpdateFlowPhase(h, t).steps = h.steps
  BY UpdateFlowPhaseType
<1> QED BY <1>1 DEF StepMoves, DepsSucceeded

LEMMA CollectMoves ==
  ASSUME TypeOK, OneResultPerTask, CollectResults,
         NEW g \in Status, f.steps = g.steps, NEW s \in Step
  PROVE  StepMoves(g, f', s)
<1>1. g.steps[s].iter \in Nat
  BY DEF Status, StepStatus
<1>2. f.steps[s] = g.steps[s]
  OBVIOUS
<1> QED BY <1>1, <1>2, CollectResultsKeeps DEF StepMoves

LEMMA NextStepMoves ==
  ASSUME TypeOK, AtReadyStep, NEW g \in Status, \A s \in Step : StepMoves(g, f, s),
         NEW phase \in {"Running", "Skipped", "Failed"}, NEW task \in Nat,
         NextStepAs(phase, task)
  PROVE  \A s \in Step : StepMoves(g, f', s)
<1>1. /\ next \in Step /\ f.steps[next].phase = "Pending" /\ DepsSucceeded(f, next)
  BY FlowSpecAssumption DEF AtReadyStep, ReadyStep, TypeOK, Step
<1>2. /\ \A s \in Step \ {next} : f'.steps[s] = f.steps[s]
      /\ f'.steps[next].phase = phase /\ f'.steps[next].iter = f.steps[next].iter
  BY <1>1, NextStepAsType DEF StepPhase
<1>3. \A s \in Step : DepsSucceeded(f, s) => DepsSucceeded(f', s)
  <2> SUFFICES ASSUME NEW s \in Step, DepsSucceeded(f, s), NEW d \in DependsOn[s]
               PROVE  d \in Step /\ f'.steps[d].phase \in Done
    BY DEF DepsSucceeded
  <2>1. d \in Step /\ f.steps[d].phase \in Done
    BY DEF DepsSucceeded
  <2>2. d # next
    BY <1>1, <2>1 DEF Done
  <2> QED BY <1>2, <2>1, <2>2
<1>4. StepMoves(g, f', next)
  <2>1. StepMoves(g, f, next)
    BY <1>1
  <2> QED BY <1>1, <1>2, <1>3, <2>1 DEF StepMoves
<1>5. ASSUME NEW s \in Step \ {next} PROVE StepMoves(g, f', s)
  <2>1. StepMoves(g, f, s) /\ f'.steps[s] = f.steps[s]
    BY <1>2
  <2> QED BY <1>3, <2>1 DEF StepMoves
<1> QED BY <1>4, <1>5

LEMMA NewVersion ==
  \A a, b \in Nat : a <= a /\ (a <= b => a <= b + 1 /\ a # b + 1)
  OBVIOUS

(* What a write may do to the cache and to a flow that has not started. *)
LEMMA StoreKeeps ==
  ASSUME TypeOK, CacheBehind, FreshUntilRunning,
         NEW g \in Status, g.phase = "" => g.steps = NewStatus.steps,
         flow' \in {flow, Stored(g)}, cached' = cached
  PROVE  CacheBehind' /\ FreshUntilRunning'
<1>1. /\ flow \in Object /\ flow.version \in Nat /\ cached.version \in Nat
  BY DEF TypeOK, Object
<1>2. CASE flow' = flow
  BY <1>2 DEF CacheBehind, FreshUntilRunning
<1>3. CASE flow' = Stored(g) /\ flow' # flow
  <2>1. flow'.status = g /\ flow'.version = flow.version + 1
    BY <1>1, <1>3, StoredType
  <2>2. FreshUntilRunning'
    BY <2>1 DEF FreshUntilRunning
  <2>3. cached.version <= flow.version /\ cached' = cached
    BY DEF CacheBehind
  <2>4. /\ cached'.version <= flow'.version
        /\ cached'.version # flow'.version
    <3>1. cached.version <= flow.version + 1 /\ cached.version # flow.version + 1
      BY <1>1, <2>3, NewVersion
    <3> QED BY <2>1, <2>3, <3>1
  <2> QED BY <2>2, <2>4 DEF CacheBehind
<1> QED BY <1>2, <1>3

(* The writes: an ended flow is never touched except for its condition, and a
   flow that is written is replaced by a legal successor. *)
Writes(g) ==
  /\ flow' \in {flow, Stored(g)}
  /\ flow' # flow =>
       \/ /\ g.phase = flow.status.phase
          /\ g.steps = flow.status.steps
       \/ /\ ~IsTerminalPhase(flow.status.phase)
          /\ g.phase \in {"Running", "Succeeded", "Failed"}
          /\ g.phase = "Succeeded" => AllDone(g)
          /\ \A s \in Step : StepMoves(flow.status, g, s)

LEMMA EveryWrite ==
  ASSUME TypeOK, FlowInv, [Next]_vars
  PROVE  \E g \in Status : Writes(g) /\ (g.phase = "" => g.steps = NewStatus.steps)
<1>0. /\ flow \in Object /\ flow.status \in Status /\ cached.status \in Status
      /\ f \in Status /\ cached \in Object
  BY DEF TypeOK, Object
<1>1. CASE UNCHANGED flow
  BY <1>0, <1>1 DEF Writes, FlowInv, FreshUntilRunning
<1>2. CASE ReconcileProblem
  <2> DEFINE g == [cached.status EXCEPT !.reason = Problem]
  <2>1. /\ g \in Status /\ g.phase = cached.status.phase /\ g.steps = cached.status.steps
    BY <1>0 DEF Problem, Status, Reason
  <2>2. CASE CanUpdate(cached.version) /\ flow' = Stored(g)
    <3>1. cached = flow
      BY <2>2 DEF CanUpdate, FlowInv, CacheBehind
    <3> HIDE DEF g
    <3> QED BY <2>1, <2>2, <3>1 DEF Writes, FlowInv, FreshUntilRunning
  <2> QED BY <1>1, <1>2, <2>2, ProblemWrites
<1>3. ASSUME pc # "idle", version = flow.version
      PROVE  /\ ~IsTerminalPhase(flow.status.phase)
             /\ f.phase = "Running"
             /\ \A s \in Step : StepMoves(flow.status, f, s)
  BY <1>3 DEF FlowInv, WorkingCopy
<1>4. CASE SaveAfterError
  <2>1. CASE CanUpdate(version) /\ flow' = Stored(f)
    BY <1>0, <1>3, <1>4, <2>1 DEF SaveAfterError, CanUpdate, Writes
  <2> QED BY <1>1, <1>4, <2>1 DEF SaveAfterError
<1>5. CASE SaveStatus \/ SaveFails
  <2> DEFINE g == UpdateFlowPhase(f, now)
  <2>1. pc # "idle" /\ version = flow.version /\ flow' \in {flow, Stored(g)}
    BY <1>5 DEF SaveStatus, SaveFails, AtEnd, CanUpdate
  <2>2. /\ g \in Status /\ g.steps = f.steps
        /\ g.phase \in {f.phase, "Succeeded", "Failed"}
        /\ g.phase = "Succeeded" => f.phase = "Succeeded" \/ AllDone(f)
    BY <1>0, UpdateFlowPhaseType
  <2>3. g.phase \in {"Running", "Succeeded", "Failed"} /\ (g.phase = "Succeeded" => AllDone(g))
    BY <1>3, <2>1, <2>2 DEF AllDone
  <2>4. \A s \in Step : StepMoves(flow.status, g, s)
    BY <1>0, <1>3, <2>1, UpdateMoves
  <2> HIDE DEF g
  <2> QED BY <1>3, <2>1, <2>2, <2>3, <2>4 DEF Writes
<1> QED
  BY <1>1, <1>2, <1>4, <1>5
  DEF Next, Reconcile, Environment, flowVars, vars, ReconcileIgnored, ReconcileTerminal,
      ReconcileStart, CollectResults, CollectFails, PassOverStep, SkipStep, FailStep,
      SubmitStep, NextStepAs, SubmitFails, SaveConflicts, RestartOperator, Watch, Resync,
      Tick, ChangeAgents, ChangeEvents, DeleteFlow, EditCluster

LEMMA FlowInvInit == Init => FlowInv
  BY DEF Init, FlowInv, CacheBehind, FreshUntilRunning, WorkingCopy

(* A reconcile that ends, in whatever way, leaves no working copy behind. *)
LEMMA StoreAndReturnKeeps ==
  ASSUME TypeOK, FlowInv, [Next]_vars, pc' = "idle", cached' = cached
  PROVE  FlowInv'
<1>1. CacheBehind' /\ FreshUntilRunning'
  BY EveryWrite, StoreKeeps DEF FlowInv, Writes
<1> QED BY <1>1 DEF FlowInv, WorkingCopy

LEMMA FlowInvPreserved ==
  ASSUME TypeOK, QueueInv, FlowInv, [Next]_vars
  PROVE  FlowInv'
<1>0. /\ flow \in Object /\ cached \in Object /\ f \in Status
      /\ flow.status \in Status /\ flow.version \in Nat /\ version \in Nat
      /\ cached.status \in Status /\ OneResultPerTask
  BY DEF TypeOK, Object, QueueInv
<1>1. CASE UNCHANGED <<flow, cached, reconcileVars>>
  BY <1>1 DEF reconcileVars, FlowInv, CacheBehind, FreshUntilRunning, WorkingCopy
<1>2. CASE ReconcileProblem \/ CollectFails \/ SaveAfterError \/ SaveStatus \/ SaveConflicts
           \/ SaveFails
  <2>1. pc' = "idle" /\ cached' = cached
    BY <1>2 DEF ReconcileProblem, ReadFlow, UpdateLost, reconcileVars, CollectFails, SaveAfterError,
                SaveStatus, SaveConflicts, SaveFails, Return
  <2> QED BY <2>1, StoreAndReturnKeeps
<1>3. CASE RestartOperator
  <2>1. cached' = flow /\ flow' = flow /\ pc' = "idle"
    BY <1>3 DEF RestartOperator, Return
  <2> QED BY <1>0, <2>1, NewVersion DEF FlowInv, CacheBehind, FreshUntilRunning, WorkingCopy
<1>4. CASE Watch
  <2>1. cached' = flow /\ flow' = flow /\ UNCHANGED reconcileVars
    BY <1>4 DEF Watch
  <2>2. CacheBehind'
    BY <1>0, <2>1, NewVersion DEF CacheBehind
  <2> QED BY <2>1, <2>2 DEF reconcileVars, FlowInv, FreshUntilRunning, WorkingCopy
<1>5. CASE ReconcileStart
  <2>1. /\ pc' = "collect" /\ version' = cached.version
        /\ f' = InitializeSteps(cached.status, now)
        /\ UNCHANGED <<flow, cached>>
        /\ ~IsTerminalPhase(cached.status.phase)
    BY <1>5 DEF ReconcileStart
  <2>2. f' \in Status /\ f'.phase = "Running"
    BY <1>0, <2>1, InitializeStepsType, NewStatusType
    DEF InitializeSteps, IsTerminalPhase, Status, FlowPhase, TypeOK
  <2>3. ASSUME version' = flow'.version
        PROVE  /\ ~IsTerminalPhase(flow'.status.phase)
               /\ f'.steps = flow'.status.steps
    <3>1. cached = flow
      BY <2>1, <2>3 DEF FlowInv, CacheBehind
    <3>2. f'.steps = flow.status.steps
      BY <1>0, <2>1, <3>1 DEF InitializeSteps, FlowInv, FreshUntilRunning, NewStatus
    <3> QED BY <2>1, <3>1, <3>2
  <2>4. ASSUME version' = flow'.version, NEW s \in Step
        PROVE  StepMoves(flow'.status, f', s)
    BY <1>0, <2>1, <2>2, <2>3, <2>4, SameStepsMove
  <2> QED BY <2>1, <2>2, <2>3, <2>4 DEF FlowInv, CacheBehind, FreshUntilRunning, WorkingCopy
<1>6. CASE CollectResults
  <2>1. pc = "collect" /\ pc' = "submit" /\ UNCHANGED <<flow, cached, version>>
    BY <1>6 DEF CollectResults
  <2>2. f'.phase = "Running"
    <3>1. f.phase = "Running" /\ CollectedResults \in Status /\ CollectedResults.phase = f.phase
      BY <1>0, <2>1, CollectedType DEF FlowInv, WorkingCopy, TypeOK
    <3>2. /\ ParseOutputJSON(CollectedResults) \in Status
          /\ ParseOutputJSON(CollectedResults).phase = CollectedResults.phase
      BY <3>1, ParseOutputJSONType, ParseOutputJSONPhase
    <3> QED BY <1>6, <3>1, <3>2, EvaluateLoopsPhase DEF CollectResults
  <2>3. ASSUME version = flow.version, NEW s \in Step
        PROVE  StepMoves(flow.status, f', s)
    BY <1>0, <1>6, <2>1, <2>3, CollectMoves DEF FlowInv, WorkingCopy
  <2> QED BY <2>1, <2>2, <2>3 DEF FlowInv, CacheBehind, FreshUntilRunning, WorkingCopy
<1>7. CASE PassOverStep \/ SubmitFails
  <2>1. /\ pc = "submit" /\ pc' \in {"submit", "saveError"}
        /\ UNCHANGED <<flow, cached, f, version>>
    BY <1>7 DEF PassOverStep, SubmitFails, AtReadyStep
  <2> QED BY <2>1 DEF FlowInv, CacheBehind, FreshUntilRunning, WorkingCopy
<1>8. CASE SkipStep \/ FailStep \/ SubmitStep
  <2>1. AtReadyStep /\ pc = "submit"
    BY <1>8 DEF SkipStep, FailStep, SubmitStep, AtReadyStep
  <2>2. next \in Step /\ f.steps[next].task \in Nat /\ Len(stream) + 1 \in Nat
    <3>1. next \in Step /\ stream \in Seq(Entry)
      BY <2>1, FlowSpecAssumption DEF AtReadyStep, TypeOK, QueueTypeOK, Step
    <3>2. f.steps[next] \in StepStatus
      BY <1>0, <3>1 DEF Status
    <3> QED BY <3>1, <3>2 DEF StepStatus
  <2>3. PICK phase \in {"Running", "Skipped", "Failed"}, task \in Nat : NextStepAs(phase, task)
    BY <1>8, <2>2 DEF SkipStep, FailStep, SubmitStep
  <2>4. UNCHANGED <<flow, cached, pc, version>> /\ f'.phase = f.phase
    BY <2>2, <2>3, NextStepAsType DEF StepPhase
  <2>5. ASSUME version = flow.version
        PROVE  \A s \in Step : StepMoves(flow.status, f', s)
    <3>1. \A s \in Step : StepMoves(flow.status, f, s)
      BY <2>1, <2>5 DEF FlowInv, WorkingCopy
    <3> QED BY <1>0, <2>1, <2>3, <3>1, NextStepMoves
  <2> QED BY <2>1, <2>4, <2>5 DEF FlowInv, CacheBehind, FreshUntilRunning, WorkingCopy
<1>9. CASE UNCHANGED flowVars \/ UNCHANGED vars
  BY <1>1, <1>9 DEF flowVars, vars, reconcileVars
<1>10. CASE ReconcileIgnored \/ ReconcileTerminal \/ Resync \/ Tick \/ ChangeAgents
            \/ ChangeEvents \/ DeleteFlow
  BY <1>1, <1>10 DEF ReconcileIgnored, ReconcileTerminal, Resync, Tick, ChangeAgents,
                     ChangeEvents, DeleteFlow, EditCluster
<1> QED
  BY <1>2, <1>3, <1>4, <1>5, <1>6, <1>7, <1>8, <1>9, <1>10 DEF Next, Reconcile, Environment

(* The invariant the theorems below rest on. *)
IInv == TypeOK /\ QueueInv /\ FlowInv

LEMMA IInvHolds == SafetySpec => []IInv
<1>1. Init => IInv
  BY InitType, QueueInitInv, FlowInvInit DEF Init, IInv
<1>2. IInv /\ [Next]_vars => IInv'
  BY TypePreserved, FlowInvPreserved DEF IInv
<1> QED BY <1>1, <1>2, PTL DEF SafetySpec

(* A flow that has ended keeps its phase and its steps, whatever stale copies
   and half-done reconciles are still around. *)
THEOREM EndedFlowStays == SafetySpec => TerminalIsFinal
<1>1. IInv /\ [Next]_vars =>
        [IsTerminalPhase(flow.status.phase) =>
           /\ flow'.status.phase = flow.status.phase
           /\ flow'.status.steps = flow.status.steps]_vars
  <2> SUFFICES ASSUME IInv, [Next]_vars, IsTerminalPhase(flow.status.phase)
               PROVE  /\ flow'.status.phase = flow.status.phase
                      /\ flow'.status.steps = flow.status.steps
    OBVIOUS
  <2>1. PICK g \in Status : Writes(g)
    BY EveryWrite DEF IInv
  <2>2. flow \in Object
    BY DEF IInv, TypeOK
  <2>3. Stored(g).status = g
    BY <2>2, StoredType
  <2> QED BY <2>1, <2>3 DEF Writes
<1> QED BY <1>1, IInvHolds, PTL DEF SafetySpec, TerminalIsFinal

(* Whoever ends a reconcile of a flow that could go on either asks for the next one
   or has stored its end. *)
Kept == pc = "idle" /\ ~wanted => IsTerminalPhase(flow.status.phase)

LEMMA KeptPreserved ==
  ASSUME IInv, Kept, Ready, [Next]_vars
  PROVE  Kept'
<1>0. TypeOK /\ FlowInv /\ flow \in Object /\ f \in Status
  BY DEF IInv, TypeOK
<1>1. CASE UNCHANGED <<flow, pc, wanted>>
  BY <1>1 DEF Kept
<1>2. ~Ignored /\ Problem = ""
  BY DEF Ready, Problem
<1>3. CASE ReconcileTerminal
  <2>1. UNCHANGED <<flow, pc>> /\ IsTerminalPhase(cached.status.phase)
        /\ (wanted' \/ CanUpdate(cached.version))
    BY <1>3 DEF ReconcileTerminal, UpdateLost, reconcileVars
  <2>2. CASE CanUpdate(cached.version)
    <3>1. cached = flow
      BY <1>0, <2>2 DEF CanUpdate, FlowInv, CacheBehind
    <3> QED BY <2>1, <3>1 DEF Kept
  <2>3. CASE wanted'
    BY <2>1, <2>3 DEF Kept
  <2> QED BY <2>1, <2>2, <2>3
<1>4. CASE ReconcileStart \/ CollectResults \/ PassOverStep \/ SkipStep \/ FailStep \/ SubmitStep
           \/ SubmitFails
  <2>1. pc' # "idle"
    BY <1>4 DEF ReconcileStart, CollectResults, PassOverStep, SkipStep, FailStep, SubmitStep,
                SubmitFails, AtReadyStep, NextStepAs
  <2> QED BY <2>1 DEF Kept
<1>5. CASE CollectFails \/ SaveAfterError \/ SaveConflicts \/ SaveFails \/ RestartOperator
           \/ Watch \/ Resync
  <2>1. wanted'
    BY <1>5 DEF CollectFails, SaveAfterError, SaveConflicts, SaveFails, RestartOperator, Watch,
                Resync
  <2> QED BY <2>1 DEF Kept
<1>6. CASE SaveStatus
  <2> DEFINE done == UpdateFlowPhase(f, now)
  <2>1. pc # "idle" /\ flow' = Stored(done) /\ wanted' = (wanted \/ done.phase = "Running")
    BY <1>6 DEF SaveStatus, AtEnd
  <2>2. done \in Status /\ done.phase \in {f.phase, "Succeeded", "Failed"}
    BY <1>0, UpdateFlowPhaseType
  <2>3. f.phase = "Running"
    BY <1>0, <2>1 DEF FlowInv, WorkingCopy
  <2> HIDE DEF done
  <2>4. Stored(done).status = done
    BY <1>0, <2>2, StoredType
  <2> QED BY <2>1, <2>2, <2>3, <2>4 DEF Kept, IsTerminalPhase
<1>7. CASE Tick \/ ChangeAgents \/ ChangeEvents \/ DeleteFlow \/ UNCHANGED flowVars \/ UNCHANGED vars
  BY <1>1, <1>7 DEF Tick, ChangeAgents, ChangeEvents, DeleteFlow, EditCluster, reconcileVars,
                    flowVars, vars
<1> QED
  BY <1>2, <1>3, <1>4, <1>5, <1>6, <1>7
  DEF Next, Reconcile, Environment, ReconcileIgnored, ReconcileProblem

(* A flow that nothing stands in the way of stays in the work queue until it has
   ended, whatever fails, conflicts or is read too early: this is the safety half of
   ResumesWhenReady. *)
THEOREM FlowNeverForgotten == SafetySpec => NeverForgotten
<1>1. Init => Kept
  BY DEF Init, Kept
<1>2. IInv /\ Kept /\ Ready /\ [Next]_vars => Kept'
  BY KeptPreserved
<1>3. SafetySpec /\ []Ready => []Kept
  BY <1>1, <1>2, IInvHolds, PTL DEF SafetySpec
<1> QED BY <1>3, PTL DEF NeverForgotten, Kept

(* What the API server shows of a flow is a behaviour of FlowLifecycle. *)
THEOREM FlowImplementsLifecycle == SafetySpec => ImplementsLifecycle
<1>1. Init => Lifecycle!Init
  <2> SUFFICES ASSUME Init PROVE Lifecycle!Init
    OBVIOUS
  <2>1. flow.status = NewStatus
    BY DEF Init
  <2>2. View(NewStatus) = [s \in Step |-> [phase |-> "Pending", iter |-> 0]]
    BY DEF View, NewStatus, FreshStep
  <2>3. View(flow.status) = [s \in Step |-> [phase |-> "Pending", iter |-> 0]]
    BY <2>1, <2>2
  <2>4. flow.status.phase = ""
    <3>1. NewStatus.phase = ""
      BY DEF NewStatus
    <3> QED BY <2>1, <3>1
  <2> QED BY <2>3, <2>4 DEF Lifecycle!Init
<1>2. IInv /\ [Next]_vars => [Lifecycle!Next]_(Lifecycle!vars)
  <2> SUFFICES ASSUME IInv, [Next]_vars, ~UNCHANGED Lifecycle!vars
               PROVE  Lifecycle!Next
    OBVIOUS
  <2>0. flow \in Object /\ flow.status \in Status
    BY DEF IInv, TypeOK, Object
  <2>1. PICK g \in Status : Writes(g)
    BY EveryWrite DEF IInv
  <2>2. Stored(g).status = g
    BY <2>0, StoredType
  <2>3. flow'.status = g
    BY <2>1, <2>2 DEF Writes, Lifecycle!vars
  <2>4. flow' # flow /\ ~(g.phase = flow.status.phase /\ g.steps = flow.status.steps)
    BY <2>3 DEF Lifecycle!vars, View
  <2>5. /\ ~IsTerminalPhase(flow.status.phase)
        /\ g.phase \in {"Running", "Succeeded", "Failed"}
        /\ g.phase = "Succeeded" => AllDone(g)
        /\ \A s \in Step : StepMoves(flow.status, g, s)
    BY <2>1, <2>4 DEF Writes
  <2>6. Lifecycle!StepsMove(View(flow.status), View(g))
    BY <2>0, <2>5, StepsMoveByStep
  <2>7. View(g) \in [Step -> [phase : StepPhase, iter : Nat]]
    <3>1. \A s \in Step : g.steps[s] \in StepStatus
      BY DEF Status
    <3> QED BY <3>1 DEF View, StepStatus
  <2>8. Lifecycle!Advance
    BY <2>3, <2>5, <2>6, <2>7
    DEF Lifecycle!Advance, Lifecycle!Final, IsTerminalPhase, StepPhase
  <2>9. g.phase = "Succeeded" => \A s \in Step : View(g)[s].phase \in Lifecycle!Done
    BY <2>5 DEF View, AllDone, Done, Lifecycle!Done
  <2> QED BY <2>3, <2>5, <2>8, <2>9
      DEF Lifecycle!Next, Lifecycle!Proceed, Lifecycle!Succeed, Lifecycle!Fail
<1> QED BY <1>1, <1>2, IInvHolds, PTL DEF SafetySpec, ImplementsLifecycle, Lifecycle!Spec

(***************************************************************************)
(* Task IDs.                                                               *)
(***************************************************************************)
LEMMA GenuineGrows ==
  ASSUME QueueTypeOK, QueueTypeOK', StreamGrows, NEW g \in Status, TaskIDsGenuine(stream, g)
  PROVE  TaskIDsGenuine(stream', g)
<1>1. DOMAIN stream \subseteq DOMAIN stream'
  <2>1. /\ DOMAIN stream = 1 .. Len(stream) /\ DOMAIN stream' = 1 .. Len(stream')
        /\ Len(stream) \in Nat /\ Len(stream') \in Nat /\ Len(stream) <= Len(stream')
    BY DEF QueueTypeOK, StreamGrows
  <2> QED BY <2>1
<1>2. \A i \in DOMAIN stream : stream'[i] = stream[i]
  BY DEF StreamGrows
<1> QED BY <1>1, <1>2 DEF TaskIDsGenuine

(* A status with the same steps, or without tasks, is as genuine. *)
LEMMA NewStatusGenuine ==
  ASSUME NEW log
  PROVE  TaskIDsGenuine(log, NewStatus)
<1>1. \A s \in Step : NewStatus.steps[s].task = 0
  BY DEF NewStatus, FreshStep
<1> QED BY <1>1 DEF TaskIDsGenuine

LEMMA SameStepsGenuine ==
  ASSUME NEW log, NEW g, NEW h, g.steps = h.steps, TaskIDsGenuine(log, g)
  PROVE  TaskIDsGenuine(log, h)
  BY DEF TaskIDsGenuine, PromptOf

LEMMA CollectGenuine ==
  ASSUME TypeOK, OneResultPerTask, CollectResults, TaskIDsGenuine(stream, f)
  PROVE  TaskIDsGenuine(stream, f')
<1> SUFFICES ASSUME NEW s \in Step, f'.steps[s].task # 0
             PROVE  /\ f'.steps[s].task \in DOMAIN stream
                    /\ stream[f'.steps[s].task] =
                         [prompt |-> <<s, f'.steps[s].iter>>, attempt |-> 0]
  BY DEF TaskIDsGenuine, PromptOf
<1>1. f'.steps[s].task = f.steps[s].task /\ f'.steps[s].iter = f.steps[s].iter
  BY CollectResultsKeeps
<1> QED BY <1>1 DEF TaskIDsGenuine, PromptOf

LEMMA NextStepGenuine ==
  ASSUME TypeOK, next \in Step, NEW phase \in StepPhase, NEW task \in Nat,
         NextStepAs(phase, task), NEW log, TaskIDsGenuine(log, f),
         task # 0 => /\ task \in DOMAIN log
                     /\ log[task] = [prompt |-> <<next, f.steps[next].iter>>, attempt |-> 0]
  PROVE  TaskIDsGenuine(log, f')
<1>1. /\ \A s \in Step \ {next} : f'.steps[s] = f.steps[s]
      /\ f'.steps[next].task = task /\ f'.steps[next].iter = f.steps[next].iter
  BY NextStepAsType
<1> SUFFICES ASSUME NEW s \in Step, f'.steps[s].task # 0
             PROVE  /\ f'.steps[s].task \in DOMAIN log
                    /\ log[f'.steps[s].task] =
                         [prompt |-> <<s, f'.steps[s].iter>>, attempt |-> 0]
  BY DEF TaskIDsGenuine, PromptOf
<1>2. CASE s = next
  BY <1>1, <1>2
<1>3. CASE s # next
  BY <1>1, <1>3 DEF TaskIDsGenuine, PromptOf
<1> QED BY <1>2, <1>3

(* Every status in play has the steps of one that was there before, except
   where CollectResults and the submission loop work on f. *)
LEMMA StatusesFromBefore ==
  ASSUME TypeOK, [Next]_vars,
         ~(CollectResults \/ SkipStep \/ FailStep \/ SubmitStep)
  PROVE  \A g \in {flow'.status, cached'.status, f'} :
           \E h \in {flow.status, cached.status, f, NewStatus} : g.steps = h.steps
<1>0. /\ flow \in Object /\ flow.status \in Status /\ cached.status \in Status /\ f \in Status
  BY DEF TypeOK, Object
<1>1. CASE ReconcileProblem
  <2> DEFINE g == [cached.status EXCEPT !.reason = Problem]
  <2>1. g \in Status /\ g.steps = cached.status.steps
    BY <1>0 DEF Problem, Status, Reason
  <2>2. flow' \in {flow, Stored(g)}
    BY <1>1, ProblemWrites
  <2> HIDE DEF g
  <2>3. flow'.status \in {flow.status, g}
    BY <1>0, <2>1, <2>2, StoredType
  <2> QED BY <1>1, <2>1, <2>3 DEF ReconcileProblem, reconcileVars
<1>2. CASE ReconcileStart
  <2>1. f'.steps \in {cached.status.steps, NewStatus.steps}
    BY <1>0, <1>2 DEF ReconcileStart, InitializeSteps, NewStatus
  <2> QED BY <1>2, <2>1 DEF ReconcileStart
<1>3. CASE SaveAfterError
  <2>1. flow'.status \in {flow.status, f}
    BY <1>0, <1>3, StoredType DEF SaveAfterError
  <2> QED BY <1>3, <2>1 DEF SaveAfterError, Return
<1>4. CASE SaveStatus \/ SaveFails
  <2> DEFINE g == UpdateFlowPhase(f, now)
  <2>1. g \in Status /\ g.steps = f.steps
    BY <1>0, UpdateFlowPhaseType
  <2>2. flow' \in {flow, Stored(g)} /\ cached' = cached /\ f' = NewStatus
    BY <1>4 DEF SaveStatus, SaveFails, Return
  <2> HIDE DEF g
  <2>3. flow'.status \in {flow.status, g}
    BY <1>0, <2>1, <2>2, StoredType
  <2> QED BY <2>1, <2>2, <2>3
<1>5. CASE RestartOperator \/ Watch \/ CollectFails \/ SaveConflicts
  BY <1>5 DEF RestartOperator, Watch, CollectFails, SaveConflicts, Return, reconcileVars
<1>6. CASE UNCHANGED <<flow, cached, f>>
  BY <1>6
<1> QED
  BY <1>1, <1>2, <1>3, <1>4, <1>5, <1>6
  DEF Next, Reconcile, Environment, flowVars, vars, reconcileVars, ReconcileIgnored,
      ReconcileTerminal, PassOverStep, SubmitFails, Resync, Tick, ChangeAgents, ChangeEvents,
      DeleteFlow, EditCluster

LEMMA TaskIDsPreserved ==
  ASSUME IInv, IInv', TaskIDsCorrelate, [Next]_vars
  PROVE  TaskIDsCorrelate'
<1>0. /\ TypeOK /\ TypeOK' /\ QueueTypeOK /\ QueueTypeOK' /\ OneResultPerTask /\ StreamGrows
      /\ flow.status \in Status /\ cached.status \in Status /\ f \in Status
      /\ f' \in Status
  BY QueuePreserved DEF IInv, TypeOK, QueueInv, Object
<1>1. \A h \in {flow.status, cached.status, f, NewStatus} : TaskIDsGenuine(stream', h)
  BY <1>0, GenuineGrows, NewStatusGenuine DEF TaskIDsCorrelate
<1>2. CASE ~(CollectResults \/ SkipStep \/ FailStep \/ SubmitStep)
  BY <1>0, <1>1, <1>2, StatusesFromBefore, SameStepsGenuine DEF TaskIDsCorrelate
<1>3. ASSUME UNCHANGED <<flow, cached>>, TaskIDsGenuine(stream', f')
      PROVE  TaskIDsCorrelate'
  BY <1>1, <1>3 DEF TaskIDsCorrelate
<1>4. CASE CollectResults
  <2>1. TaskIDsGenuine(stream, f') /\ UNCHANGED <<stream, flow, cached>>
    BY <1>0, <1>4, CollectGenuine DEF CollectResults, TaskIDsCorrelate
  <2> QED BY <1>0, <1>3, <2>1, GenuineGrows
<1>5. CASE SkipStep \/ FailStep \/ SubmitStep
  <2>1. /\ next \in Step /\ UNCHANGED <<flow, cached>>
        /\ f.steps[next] \in StepStatus
    BY <1>0, <1>5, FlowSpecAssumption
    DEF SkipStep, FailStep, SubmitStep, AtReadyStep, NextStepAs, TypeOK, Step, Status
  <2>2. TaskIDsGenuine(stream', f)
    BY <1>1
  <2>3. CASE SkipStep \/ FailStep
    <3>1. PICK phase \in StepPhase : NextStepAs(phase, f.steps[next].task)
      BY <2>3 DEF SkipStep, FailStep, StepPhase
    <3>2. f.steps[next].task \in Nat
      BY <2>1 DEF StepStatus
    <3> QED BY <1>0, <1>3, <2>1, <2>2, <3>1, <3>2, NextStepGenuine DEF TaskIDsGenuine, PromptOf
  <2>4. CASE SubmitStep
    <3> DEFINE id == Len(stream) + 1
    <3>1. /\ stream' = Append(stream, [prompt |-> <<next, f.steps[next].iter>>, attempt |-> 0])
          /\ NextStepAs("Running", id)
      BY <2>4 DEF SubmitStep, Enqueue
    <3>2. /\ id \in Nat /\ id \in DOMAIN stream'
          /\ stream'[id] = [prompt |-> <<next, f.steps[next].iter>>, attempt |-> 0]
      BY <1>0, <3>1 DEF QueueTypeOK
    <3> HIDE DEF id
    <3>3. "Running" \in StepPhase
      BY DEF StepPhase
    <3> QED BY <1>0, <1>3, <2>1, <2>2, <3>1, <3>2, <3>3, NextStepGenuine
  <2> QED BY <1>5, <2>3, <2>4
<1> QED BY <1>2, <1>4, <1>5

(* No crash, stale read or lost reply makes a step wait for, or be answered by,
   the task of another step or of another iteration. *)
THEOREM TaskIDsAlwaysCorrelate == SafetySpec => []TaskIDsCorrelate
<1>1. Init => TaskIDsCorrelate
  BY NewStatusGenuine DEF Init, TaskIDsCorrelate
<1>2. IInv /\ IInv' /\ TaskIDsCorrelate /\ [Next]_vars => TaskIDsCorrelate'
  BY TaskIDsPreserved
<1> QED BY <1>1, <1>2, IInvHolds, PTL DEF SafetySpec

(***************************************************************************)
(* The verdict.                                                            *)
(***************************************************************************)

LEMMA VerdictPreserved ==
  ASSUME IInv, IInv', VerdictIsEarned, [Next]_vars
  PROVE  VerdictIsEarned'
<1>0. /\ flow \in Object /\ flow.status \in Status /\ cached.status \in Status
      /\ f \in Status /\ now \in Nat
  BY DEF IInv, TypeOK, Object
<1>1. Earned(flow.status, now)
  BY DEF VerdictIsEarned, Earned
<1>2. SUFFICES Earned(flow'.status, now')
  BY DEF VerdictIsEarned, Earned, EnforceTimeout
<1>3. CASE UNCHANGED <<flow, now>>
  BY <1>1, <1>3
<1>4. CASE Tick
  <2>1. flow' = flow /\ now' = now + 1
    BY <1>4 DEF Tick
  <2> QED BY <1>0, <1>1, <2>1, EarnedLater
<1>5. CASE ReconcileProblem
  <2> DEFINE g == [cached.status EXCEPT !.reason = Problem]
  <2>1. /\ g.phase = cached.status.phase /\ g.steps = cached.status.steps
        /\ g.start = cached.status.start /\ g \in Status
    BY <1>0 DEF Problem, Status, Reason
  <2>2. CASE CanUpdate(cached.version) /\ flow' = Stored(g)
    <3>1. cached = flow
      BY <2>2 DEF CanUpdate, IInv, FlowInv, CacheBehind
    <3>2. now' = now
      BY <1>5 DEF ReconcileProblem
    <3> HIDE DEF g
    <3>3. flow'.status = g
      BY <1>0, <2>1, <2>2, StoredType
    <3> QED BY <1>1, <2>1, <3>1, <3>2, <3>3, SameVerdict
  <2>3. CASE flow' = flow
    BY <1>3, <1>5, <2>3 DEF ReconcileProblem
  <2> QED BY <1>5, <2>2, <2>3, ProblemWrites
<1>6. pc # "idle" => f.phase = "Running"
  BY DEF IInv, FlowInv, WorkingCopy
<1>7. CASE SaveAfterError
  <2>1. flow' \in {flow, Stored(f)} /\ now' = now /\ pc # "idle"
    BY <1>7 DEF SaveAfterError
  <2>2. CASE flow' = flow
    BY <1>3, <2>1, <2>2
  <2>3. CASE flow' = Stored(f)
    <3>1. flow'.status = f
      BY <1>0, <2>3, StoredType
    <3> QED BY <1>6, <2>1, <3>1, UnendedEarned DEF IsTerminalPhase
  <2> QED BY <2>1, <2>2, <2>3
<1>8. CASE SaveStatus \/ SaveFails
  <2> DEFINE g == UpdateFlowPhase(f, now)
  <2>1. flow' \in {flow, Stored(g)} /\ now' = now /\ pc # "idle"
    BY <1>8 DEF SaveStatus, SaveFails, AtEnd
  <2>2. g \in Status /\ Earned(g, now)
    BY <1>0, <1>6, <2>1, UpdateFlowPhaseType, UpdateEarns
  <2> HIDE DEF g
  <2>3. CASE flow' = flow
    BY <1>3, <2>1, <2>3
  <2>4. CASE flow' = Stored(g)
    <3>1. flow'.status = g
      BY <1>0, <2>2, <2>4, StoredType
    <3> QED BY <2>1, <2>2, <3>1
  <2> QED BY <2>1, <2>3, <2>4
<1> QED
  BY <1>3, <1>4, <1>5, <1>7, <1>8
  DEF Next, Reconcile, Environment, flowVars, vars, ReconcileIgnored, ReconcileTerminal,
      ReconcileStart, CollectResults, CollectFails, PassOverStep, SkipStep, FailStep,
      SubmitStep, NextStepAs, SubmitFails, SaveConflicts, RestartOperator, Watch, Resync,
      ChangeAgents, ChangeEvents, DeleteFlow, EditCluster

(* The verdict the API server shows is earned in every reachable state: no
   reconcile from an old copy, no lost reply and no half-done submission stores a
   Succeeded over an unfinished step or a spent budget, or a Failed for nothing. *)
THEOREM VerdictAlwaysEarned == SafetySpec => []VerdictIsEarned
<1>1. Init => VerdictIsEarned
  <2> SUFFICES ASSUME Init PROVE VerdictIsEarned
    OBVIOUS
  <2>1. flow.status.phase = ""
    BY DEF Init, NewStatus
  <2> QED BY <2>1, Zenon DEF VerdictIsEarned
<1>2. IInv /\ IInv' /\ VerdictIsEarned /\ [Next]_vars => VerdictIsEarned'
  BY VerdictPreserved
<1> QED BY <1>1, <1>2, IInvHolds, PTL DEF SafetySpec

(***************************************************************************)
(* What a status says of its steps: the answers, the JSON, the             *)
(* dependencies.                                                           *)
(***************************************************************************)

(* Each of the three properties, of one status.  They have to hold of the cache
   and of the working copy too, which become the stored status later. *)
FromAnswers(log, g) ==
  \A s \in Step : g.steps[s].phase = "Succeeded" =>
    \E i \in DOMAIN log : /\ log[i].task = g.steps[s].task
                          /\ log[i].output = g.steps[s].output
Current(g) ==
  \A s \in Step : g.steps[s].json =>
    g.steps[s].phase = "Succeeded" /\ g.steps[s].output \in JSONOutputs

(* With conditions over a step's own output, a step that EvaluateLoops has let
   pass once is never reset later, so its dependents are safe to begin. *)
Again(st, s) ==
  MaxIterations[s] > 0 /\ st.iter < MaxIterations[s] /\ st.output \in AgainOutputs
DepsStay(g) ==
  CrossLoop = {} =>
    \A s \in Step : /\ g.steps[s].phase # "Pending" => DepsSucceeded(g, s)
                    /\ g.steps[s].phase = "Succeeded" => ~Again(g.steps[s], s)
StepsSound(log, g) == FromAnswers(log, g) /\ Current(g) /\ DepsStay(g)

StepsInv ==
  /\ StepsSound(results, flow.status)
  /\ StepsSound(results, cached.status)
  /\ StepsSound(results, f)

ResultsGrow ==
  /\ DOMAIN results \subseteq DOMAIN results'
  /\ \A i \in DOMAIN results : results'[i] = results[i]

LEMMA ResultsOnlyGrow ==
  ASSUME TypeOK, QueueInv, [Next]_vars
  PROVE  ResultsGrow
<1>0. QueueTypeOK
  BY DEF TypeOK
<1>1. CASE results' = results
  BY <1>1 DEF ResultsGrow
<1>2. ASSUME NEW w \in work, PublishResult(w) PROVE ResultsGrow
  <2>1. PICK output \in Outputs, tokens \in Costs : Publish(w, output, tokens)
    BY <1>2 DEF PublishResult
  <2> DEFINE r == [task |-> w.task, output |-> output, tokens |-> tokens]
  <2>2. results \in Seq(Result) /\ (results' = results \/ results' = Append(results, r))
    BY <1>0, <2>1 DEF Publish, QueueTypeOK
  <2> HIDE DEF r
  <2> QED BY <2>2 DEF ResultsGrow
<1>3. CASE QuietSteps
  BY <1>0, <1>1, <1>3, QuietStepsQuiet DEF agentVars
<1>4. CASE SubmitStep \/ SubmitFails \/ ClientSubmit \/ UNCHANGED vars
  BY <1>1, <1>4 DEF SubmitStep, NextStepAs, SubmitFails, ClientSubmit, vars, agentVars
<1>5. ASSUME NEW p \in Pod, StartPod(p) \/ Poll(p) \/ StopPod(p) PROVE results' = results
  BY <1>5 DEF StartPod, Poll, StopPod
<1>6. ASSUME NEW w \in work,
             SubmitSubtask(w) \/ TaskCompletes(w) \/ TaskFails(w) \/ Requeue(w) \/ DeadLetter(w)
      PROVE  results' = results
  BY <1>6 DEF SubmitSubtask, TaskCompletes, TaskFails, Acknowledge, Requeue, DeadLetter
<1> QED BY <1>1, <1>2, <1>3, <1>4, <1>5, <1>6 DEF Next, Reconcile, QuietSteps, AgentNext, RunWork

LEMMA NewStatusSound ==
  ASSUME NEW log
  PROVE  StepsSound(log, NewStatus)
<1>1. \A s \in Step : NewStatus.steps[s].phase = "Pending" /\ ~NewStatus.steps[s].json
  BY DEF NewStatus, FreshStep
<1> QED BY <1>1 DEF StepsSound, FromAnswers, Current, DepsStay

LEMMA SameStepsSound ==
  ASSUME NEW log, NEW g, NEW h, g.steps = h.steps, StepsSound(log, g)
  PROVE  StepsSound(log, h)
  BY DEF StepsSound, FromAnswers, Current, DepsStay, DepsSucceeded

LEMMA SoundGrows ==
  ASSUME ResultsGrow, NEW g, StepsSound(results, g)
  PROVE  StepsSound(results', g)
<1>1. FromAnswers(results', g)
  BY DEF ResultsGrow, StepsSound, FromAnswers
<1> QED BY <1>1 DEF StepsSound

(* A step after collectResults and ParseOutputJSON, before EvaluateLoops. *)
Collected(k, s) ==
  /\ k.task = f.steps[s].task /\ k.iter = f.steps[s].iter
  /\ \/ k.phase = f.steps[s].phase /\ k.output = f.steps[s].output
     \/ /\ f.steps[s].phase = "Running" /\ k.phase = "Succeeded"
        /\ \E i \in Answers(k.task) : results[i].output = k.output
  /\ k.json => \/ f.steps[s].json /\ f.steps[s].phase = k.phase /\ f.steps[s].output = k.output
               \/ k.phase = "Succeeded" /\ k.output \in JSONOutputs

LEMMA CollectResultsStep ==
  ASSUME TypeOK, OneResultPerTask, Current(f), CollectResults, NEW s \in Step
  PROVE  \E k \in StepStatus :
           /\ Collected(k, s)
           /\ \/ f'.steps[s] = k /\ (CrossLoop = {} /\ k.phase = "Succeeded" => ~Again(k, s))
              \/ /\ k.phase = "Succeeded" /\ (CrossLoop = {} => Again(k, s))
                 /\ f'.steps[s].phase = "Pending" /\ ~f'.steps[s].json
<1>1. QueueTypeOK /\ f \in Status
  BY DEF TypeOK
<1> DEFINE g == CollectedResults
           h == ParseOutputJSON(g)
           k == h.steps[s]
<1>2. PICK verdict \in [CrossLoop -> BOOLEAN] : f' = EvaluateLoops(h, verdict)
  BY DEF CollectResults
<1>3. g \in Status /\ g.steps[s] = CollectStep(s) /\ h \in Status /\ k \in StepStatus
  BY <1>1, CollectedType, ParseOutputJSONType DEF Status
<1>4. /\ k.phase = g.steps[s].phase /\ k.output = g.steps[s].output
      /\ k.iter = g.steps[s].iter /\ k.task = g.steps[s].task
      /\ \/ k.json <=> g.steps[s].json
         \/ g.steps[s].phase = "Succeeded" /\ g.steps[s].output \in JSONOutputs
  BY <1>3, ParseOutputJSONKeeps
<1>5. \/ f'.steps[s] = k /\ ~LoopsAgain(h, s, verdict)
      \/ /\ LoopsAgain(h, s, verdict) /\ k.phase = "Succeeded"
         /\ f'.steps[s].phase = "Pending" /\ ~f'.steps[s].json
  BY <1>2, <1>3, EvaluateLoopsKeeps
<1>6. CrossLoop = {} => (LoopsAgain(h, s, verdict) <=> k.phase = "Succeeded" /\ Again(k, s))
  BY DEF LoopsAgain, LoopCondition, Again
<1>7. \/ g.steps[s] = f.steps[s]
      \/ /\ f.steps[s].phase = "Running" /\ g.steps[s].phase = "Succeeded" /\ ~g.steps[s].json
         /\ g.steps[s].task = f.steps[s].task /\ g.steps[s].iter = f.steps[s].iter
         /\ \E i \in Answers(f.steps[s].task) : g.steps[s].output = results[i].output
  BY <1>1, <1>3, CollectStepType DEF Current
<1> HIDE DEF g, h, k
<1>8. Collected(k, s)
  BY <1>4, <1>7 DEF Collected
<1> QED BY <1>3, <1>5, <1>6, <1>8

LEMMA CollectSound ==
  ASSUME TypeOK, OneResultPerTask, CollectResults, StepsSound(results, f)
  PROVE  StepsSound(results, f')
<1>1. Current(f) /\ FromAnswers(results, f) /\ DepsStay(f)
  BY DEF StepsSound
<1>2. FromAnswers(results, f')
  <2> SUFFICES ASSUME NEW s \in Step, f'.steps[s].phase = "Succeeded"
               PROVE  \E i \in DOMAIN results : /\ results[i].task = f'.steps[s].task
                                                /\ results[i].output = f'.steps[s].output
    BY DEF FromAnswers
  <2>1. PICK k \in StepStatus : Collected(k, s) /\ f'.steps[s] = k
    BY <1>1, CollectResultsStep
  <2>2. CASE k.phase = f.steps[s].phase /\ k.output = f.steps[s].output
    BY <1>1, <2>1, <2>2 DEF FromAnswers, Collected
  <2>3. CASE \E i \in Answers(k.task) : results[i].output = k.output
    BY <2>1, <2>3 DEF Answers
  <2> QED BY <2>1, <2>2, <2>3 DEF Collected
<1>3. Current(f')
  <2> SUFFICES ASSUME NEW s \in Step, f'.steps[s].json
               PROVE  f'.steps[s].phase = "Succeeded" /\ f'.steps[s].output \in JSONOutputs
    BY DEF Current
  <2>1. PICK k \in StepStatus : Collected(k, s) /\ f'.steps[s] = k
    BY <1>1, CollectResultsStep
  <2> QED BY <1>1, <2>1 DEF Current, Collected
<1>4. ASSUME CrossLoop = {}, NEW s \in Step
      PROVE  /\ f.steps[s].phase \in Done => f'.steps[s].phase \in Done
             /\ f'.steps[s].phase # "Pending" => f.steps[s].phase # "Pending"
             /\ f'.steps[s].phase = "Succeeded" => ~Again(f'.steps[s], s)
  <2>1. PICK k \in StepStatus :
          /\ Collected(k, s)
          /\ \/ f'.steps[s] = k /\ (CrossLoop = {} /\ k.phase = "Succeeded" => ~Again(k, s))
             \/ /\ k.phase = "Succeeded" /\ (CrossLoop = {} => Again(k, s))
                /\ f'.steps[s].phase = "Pending"
    BY <1>1, CollectResultsStep
  <2>2. f.steps[s].phase = "Succeeded" => ~Again(k, s)
    BY <1>1, <1>4, <2>1 DEF DepsStay, Again, Collected
  <2> QED BY <1>4, <2>1, <2>2 DEF Collected, Done
<1>5. DepsStay(f')
  BY <1>1, <1>4 DEF DepsStay, DepsSucceeded
<1> QED BY <1>2, <1>3, <1>5 DEF StepsSound

LEMMA NextStepSound ==
  ASSUME TypeOK, AtReadyStep, NEW log, StepsSound(log, f),
         NEW phase \in {"Running", "Skipped", "Failed"}, NEW task \in Nat,
         NextStepAs(phase, task)
  PROVE  StepsSound(log, f')
<1>1. /\ next \in Step /\ f.steps[next].phase = "Pending" /\ DepsSucceeded(f, next)
  BY FlowSpecAssumption DEF AtReadyStep, ReadyStep, TypeOK, Step
<1>2. /\ \A s \in Step \ {next} : f'.steps[s] = f.steps[s]
      /\ f'.steps[next].phase = phase /\ f'.steps[next].json = f.steps[next].json
  BY <1>1, NextStepAsType DEF StepPhase
<1>3. \A s \in Step : DepsSucceeded(f, s) => DepsSucceeded(f', s)
  <2> SUFFICES ASSUME NEW s \in Step, DepsSucceeded(f, s), NEW d \in DependsOn[s]
               PROVE  d \in Step /\ f'.steps[d].phase \in Done
    BY DEF DepsSucceeded
  <2>1. d \in Step /\ f.steps[d].phase \in Done
    BY DEF DepsSucceeded
  <2>2. d # next
    BY <1>1, <2>1 DEF Done
  <2> QED BY <1>2, <2>1, <2>2
<1>4. ~f'.steps[next].json /\ f'.steps[next].phase # "Succeeded"
  BY <1>1, <1>2 DEF StepsSound, Current
<1>5. FromAnswers(log, f') /\ Current(f')
  BY <1>2, <1>4 DEF StepsSound, FromAnswers, Current
<1>6. DepsStay(f')
  BY <1>1, <1>2, <1>3, <1>4 DEF StepsSound, DepsStay
<1> QED BY <1>5, <1>6 DEF StepsSound

LEMMA StepsPreserved ==
  ASSUME IInv, StepsInv, [Next]_vars
  PROVE  StepsInv'
<1>0. /\ TypeOK /\ QueueInv /\ QueueTypeOK /\ OneResultPerTask /\ ResultsGrow
      /\ flow.status \in Status /\ cached.status \in Status /\ f \in Status
  BY ResultsOnlyGrow DEF IInv, TypeOK, QueueInv, Object
<1>1. \A h \in {flow.status, cached.status, f, NewStatus} : StepsSound(results', h)
  BY <1>0, SoundGrows, NewStatusSound DEF StepsInv
<1>2. CASE ~(CollectResults \/ SkipStep \/ FailStep \/ SubmitStep)
  BY <1>0, <1>1, <1>2, StatusesFromBefore, SameStepsSound DEF StepsInv
<1>3. ASSUME UNCHANGED <<flow, cached>>, StepsSound(results', f')
      PROVE  StepsInv'
  BY <1>1, <1>3 DEF StepsInv
<1>4. CASE CollectResults
  <2>1. StepsSound(results, f') /\ UNCHANGED <<results, flow, cached>>
    BY <1>0, <1>4, CollectSound DEF CollectResults, StepsInv, agentVars
  <2> QED BY <1>3, <2>1
<1>5. CASE SkipStep \/ FailStep \/ SubmitStep
  <2>1. /\ AtReadyStep /\ next \in Step /\ UNCHANGED <<flow, cached>> /\ f.steps[next] \in StepStatus
    BY <1>0, <1>5, FlowSpecAssumption
    DEF SkipStep, FailStep, SubmitStep, AtReadyStep, NextStepAs, TypeOK, Step, Status
  <2>2. f.steps[next].task \in Nat /\ Len(stream) + 1 \in Nat
    BY <1>0, <2>1 DEF StepStatus, QueueTypeOK
  <2>3. PICK phase \in {"Running", "Skipped", "Failed"}, task \in Nat : NextStepAs(phase, task)
    BY <1>5, <2>2 DEF SkipStep, FailStep, SubmitStep
  <2>4. StepsSound(results', f')
    BY <1>0, <1>1, <2>1, <2>3, NextStepSound
  <2> QED BY <1>3, <2>1, <2>4
<1> QED BY <1>2, <1>4, <1>5

LEMMA StepsAlwaysSound == SafetySpec => []StepsInv
<1>1. Init => StepsInv
  BY NewStatusSound DEF Init, StepsInv
<1>2. IInv /\ StepsInv /\ [Next]_vars => StepsInv'
  BY StepsPreserved
<1> QED BY <1>1, <1>2, IInvHolds, PTL DEF SafetySpec

(* A stored Succeeded step has the answer to the task it recorded, whatever was
   restarted, read late or written twice in between. *)
THEOREM OutputsAlwaysAnswers == SafetySpec => []OutputsAreAnswers
<1>1. StepsInv => OutputsAreAnswers
  BY DEF StepsInv, StepsSound, FromAnswers, OutputsAreAnswers, Answers
<1> QED BY <1>1, StepsAlwaysSound, PTL

(* No iteration of a loop leaves its JSON next to the output of another. *)
THEOREM FieldsAlwaysCurrent == SafetySpec => []FieldsAreCurrent
<1>1. StepsInv => FieldsAreCurrent
  BY DEF StepsInv, StepsSound, Current, FieldsAreCurrent
<1> QED BY <1>1, StepsAlwaysSound, PTL

(* No step is begun before its dependencies are done, and no loop takes one of
   them back afterwards, as long as conditions read their own step's output. *)
THEOREM DependenciesAlwaysDone == SafetySpec => []DependenciesStayDone
<1>1. StepsInv => DependenciesStayDone
  BY DEF StepsInv, StepsSound, DepsStay, DependenciesStayDone
<1> QED BY <1>1, StepsAlwaysSound, PTL

(***************************************************************************)
(* Failed steps.                                                           *)
(***************************************************************************)

(* While Redis takes every task, every write of the steps goes through
   UpdateFlowPhase. *)
LEMMA FailedPreserved ==
  ASSUME "queueError" \notin FaultKinds, IInv, pc # "saveError", FailedStepFailsFlow, [Next]_vars
  PROVE  pc' # "saveError" /\ FailedStepFailsFlow'
<1>0. /\ flow \in Object /\ flow.status \in Status /\ cached.status \in Status /\ f \in Status
  BY DEF IInv, TypeOK, Object
<1>1. ~SubmitFails /\ ~SaveAfterError
  BY DEF SubmitFails, Fault, SaveAfterError
<1>2. CASE ReconcileProblem
  <2> DEFINE g == [cached.status EXCEPT !.reason = Problem]
  <2>1. /\ g.phase = cached.status.phase /\ g.steps = cached.status.steps /\ g \in Status
    BY <1>0 DEF Problem, Status, Reason
  <2>2. pc' # "saveError" /\ (flow' = flow \/ (CanUpdate(cached.version) /\ flow' = Stored(g)))
    BY <1>2, ProblemWrites DEF ReconcileProblem, reconcileVars
  <2>3. CASE CanUpdate(cached.version) /\ flow' = Stored(g)
    <3>1. cached = flow
      BY <2>3 DEF CanUpdate, IInv, FlowInv, CacheBehind
    <3> HIDE DEF g
    <3>2. flow'.status = g
      BY <1>0, <2>1, <2>3, StoredType
    <3> QED BY <2>1, <2>2, <3>1, <3>2 DEF FailedStepFailsFlow, AnyFailed
  <2> QED BY <2>2, <2>3 DEF FailedStepFailsFlow
<1>3. CASE SaveStatus \/ SaveFails
  <2> DEFINE g == UpdateFlowPhase(f, now)
  <2>1. pc' = "idle" /\ flow' \in {flow, Stored(g)}
    BY <1>3 DEF SaveStatus, SaveFails, Return
  <2>2. g \in Status /\ (AnyFailed(g) => g.phase = "Failed")
    BY <1>0, UpdateFlowPhaseType, UpdateFailsFlow
  <2> HIDE DEF g
  <2>3. flow'.status \in {flow.status, g}
    BY <1>0, <2>1, <2>2, StoredType
  <2> QED BY <2>1, <2>2, <2>3 DEF FailedStepFailsFlow
<1>4. ASSUME UNCHANGED flow, pc' # "saveError" PROVE pc' # "saveError" /\ FailedStepFailsFlow'
  BY <1>4 DEF FailedStepFailsFlow
<1>5. CASE \/ ReconcileIgnored \/ ReconcileTerminal \/ ReconcileStart \/ CollectResults \/ CollectFails
           \/ PassOverStep \/ SkipStep \/ FailStep \/ SubmitStep \/ SaveConflicts
  BY <1>4, <1>5
  DEF ReconcileIgnored, ReconcileTerminal, ReconcileStart, CollectResults, CollectFails, PassOverStep,
      SkipStep, FailStep, SubmitStep, NextStepAs, SaveConflicts, Return, reconcileVars
<1>6. CASE Environment \/ UNCHANGED flowVars \/ UNCHANGED vars
  BY <1>4, <1>6
  DEF Environment, RestartOperator, Watch, Resync, Tick, ChangeAgents, ChangeEvents, DeleteFlow,
      EditCluster, Return, reconcileVars, flowVars, vars
<1> QED BY <1>1, <1>2, <1>3, <1>5, <1>6 DEF Next, Reconcile

(* As long as Redis takes every task a reconcile submits, a flow with a failed
   step is stored as Failed, whatever else goes wrong. *)
THEOREM FailedStepAlwaysFails ==
  ASSUME "queueError" \notin FaultKinds
  PROVE  SafetySpec => []FailedStepFailsFlow
<1>1. Init => pc # "saveError" /\ FailedStepFailsFlow
  <2> SUFFICES ASSUME Init PROVE pc # "saveError" /\ FailedStepFailsFlow
    OBVIOUS
  <2>1. \A s \in Step : flow.status.steps[s].phase = "Pending"
    BY DEF Init, NewStatus, FreshStep
  <2> QED BY <2>1 DEF Init, FailedStepFailsFlow, AnyFailed
<1>2. IInv /\ pc # "saveError" /\ FailedStepFailsFlow /\ [Next]_vars
        => (pc # "saveError" /\ FailedStepFailsFlow)'
  BY FailedPreserved
<1> QED BY <1>1, <1>2, IInvHolds, PTL DEF SafetySpec

(***************************************************************************)
(* Submissions.                                                            *)
(***************************************************************************)

(* Nothing of what SubmittedOnce excludes can happen, and the tasks of other
   clients are not mistaken for those of this flow. *)
NothingUnreliable == FaultKinds \cap {"queueError", "apiError", "staleRead", "operatorCrash"} = {}
ClientsAreOthers == ClientTasks \cap Step = {}

Submission(log, i) == log[i].attempt = 0 /\ log[i].prompt[1] \in Step

(* Every submission is on record: its step has left Pending in that iteration. *)
Recorded(log, g) ==
  \A i \in DOMAIN log : Submission(log, i) =>
    LET s == log[i].prompt[1]
        n == log[i].prompt[2]
    IN n < g.steps[s].iter \/ (n = g.steps[s].iter /\ g.steps[s].phase # "Pending")

(* The record is the working copy while there is one, and the stored status
   otherwise; only a deletion may lose it, and then nothing is submitted again. *)
OnceInv ==
  /\ SubmittedOnce
  /\ pc = "idle" => cluster.gone \/ Recorded(stream, flow.status)
  /\ pc # "idle" => Recorded(stream, f) /\ version = flow.version

(* Agents and other clients submit nothing for a step of this flow. *)
LEMMA OthersSubmitNothing ==
  ASSUME QueueTypeOK, QueueInv, ClientsAreOthers, AgentNext \/ ClientSubmit, NEW i \in DOMAIN stream',
         Submission(stream', i)
  PROVE  i \in DOMAIN stream /\ stream'[i] = stream[i]
<1>1. ASSUME NEW e \in Entry, stream' = Append(stream, e), ~(e.attempt = 0 /\ e.prompt[1] \in Step)
      PROVE  i \in DOMAIN stream /\ stream'[i] = stream[i]
  <2>1. \/ i \in DOMAIN stream /\ stream'[i] = stream[i]
        \/ i = Len(stream) + 1 /\ stream'[i] = e
    BY <1>1 DEF QueueTypeOK
  <2> QED BY <1>1, <2>1 DEF Submission
<1>2. ASSUME NEW prompt \in Prompt, Enqueue(prompt), prompt[1] \notin Step
      PROVE  i \in DOMAIN stream /\ stream'[i] = stream[i]
  <2> DEFINE e == [prompt |-> prompt, attempt |-> 0]
  <2>1. e \in Entry /\ e.prompt = prompt /\ stream' = Append(stream, e)
    BY <1>2 DEF Entry, Enqueue
  <2> HIDE DEF e
  <2> QED BY <1>1, <1>2, <2>1
<1>3. CASE stream' = stream
  BY <1>3
<1>4. CASE ClientSubmit
  <2>1. PICK s \in ClientTasks : Enqueue(<<s, 0>>)
    BY <1>4 DEF ClientSubmit
  <2>2. <<s, 0>> \in Prompt /\ <<s, 0>>[1] \notin Step
    BY QueueAssumption DEF Prompt, ClientsAreOthers
  <2> QED BY <1>2, <2>1, <2>2
<1>5. ASSUME NEW w \in work, SubmitSubtask(w)
      PROVE  i \in DOMAIN stream /\ stream'[i] = stream[i]
  <2>1. SubtaskPrompt \in Prompt /\ SubtaskPrompt[1] \notin Step
    BY FlowSpecAssumption DEF SubtaskPrompt, Prompt, Step
  <2> QED BY <1>2, <1>5, <2>1 DEF SubmitSubtask
<1>6. ASSUME NEW w \in work, Requeue(w), stream' # stream
      PROVE  i \in DOMAIN stream /\ stream'[i] = stream[i]
  <2> DEFINE e == [stream[w.task] EXCEPT !.attempt = @ + 1]
  <2>1. stream[w.task] \in Entry
    BY DEF QueueTypeOK, QueueInv, Delivered
  <2>2. e \in Entry /\ e.attempt # 0 /\ stream' = Append(stream, e)
    BY <1>6, <2>1 DEF Entry, Requeue
  <2> HIDE DEF e
  <2> QED BY <1>1, <2>2
<1>7. ASSUME NEW w \in work, TaskCompletes(w) \/ TaskFails(w) \/ PublishResult(w) \/ DeadLetter(w)
      PROVE  stream' = stream
  BY <1>7 DEF TaskCompletes, TaskFails, Acknowledge, PublishResult, Publish, DeadLetter
<1>8. ASSUME NEW p \in Pod, StartPod(p) \/ Poll(p) \/ StopPod(p)
      PROVE  stream' = stream
  BY <1>8 DEF StartPod, Poll, StopPod
<1> QED BY <1>3, <1>4, <1>5, <1>6, <1>7, <1>8 DEF AgentNext, RunWork

(* A record stays one as its steps move on, and nothing else is submitted. *)
LEMMA RecordKept ==
  ASSUME NEW old, NEW log, old \in Seq(Entry), NEW g \in Status, NEW h \in Status,
         \A i \in DOMAIN log : Submission(log, i) => i \in DOMAIN old /\ log[i] = old[i],
         \A s \in Step : \/ /\ h.steps[s].iter = g.steps[s].iter
                            /\ h.steps[s].phase = "Pending" => g.steps[s].phase = "Pending"
                         \/ h.steps[s].iter = g.steps[s].iter + 1,
         Recorded(old, g)
  PROVE  Recorded(log, h)
<1> SUFFICES ASSUME NEW i \in DOMAIN log, Submission(log, i)
             PROVE  LET s == log[i].prompt[1]
                        n == log[i].prompt[2]
                    IN n < h.steps[s].iter \/ (n = h.steps[s].iter /\ h.steps[s].phase # "Pending")
  BY DEF Recorded
<1> DEFINE s == log[i].prompt[1]
           n == log[i].prompt[2]
<1>1. i \in DOMAIN old /\ log[i] = old[i] /\ Submission(old, i)
  BY DEF Submission
<1>2. n < g.steps[s].iter \/ (n = g.steps[s].iter /\ g.steps[s].phase # "Pending")
  BY <1>1 DEF Recorded
<1>3. s \in Step /\ n \in Nat
  <2>1. log[i] \in Entry
    BY <1>1
  <2> QED BY <2>1 DEF Entry, Prompt, Submission
<1>4. g.steps[s].iter \in Nat
  BY <1>3 DEF Status, StepStatus
<1> HIDE DEF s, n
<1>5. n < h.steps[s].iter \/ (n = h.steps[s].iter /\ h.steps[s].phase # "Pending")
  BY <1>2, <1>3, <1>4
<1> QED BY <1>5 DEF s, n

LEMMA SameStepsRecorded ==
  ASSUME NEW log, NEW g, NEW h, g.steps = h.steps, Recorded(log, g)
  PROVE  Recorded(log, h)
  BY DEF Recorded

(* SubmitStep finds no submission of the step's iteration, and records its own. *)
LEMMA SubmitOnce ==
  ASSUME TypeOK, QueueInv, SubmittedOnce, Recorded(stream, f), SubmitStep
  PROVE  SubmittedOnce' /\ Recorded(stream', f')
<1> DEFINE id == Len(stream) + 1
           e == [prompt |-> <<next, f.steps[next].iter>>, attempt |-> 0]
<1>0. stream \in Seq(Entry) /\ f \in Status
  BY DEF TypeOK, QueueTypeOK
<1>1. /\ next \in Step /\ f.steps[next].phase = "Pending" /\ f.steps[next].iter \in Nat
  BY <1>0, FlowSpecAssumption
  DEF SubmitStep, AtReadyStep, ReadyStep, TypeOK, Step, Status, StepStatus
<1>2. /\ e.prompt[1] = next /\ e.prompt[2] = f.steps[next].iter /\ e.attempt = 0
      /\ e.prompt = <<next, f.steps[next].iter>>
      /\ stream' = Append(stream, e) /\ NextStepAs("Running", id)
  BY DEF SubmitStep, Enqueue
<1>3. /\ id \in Nat /\ stream'[id] = e /\ id \in DOMAIN stream' /\ id \notin DOMAIN stream
      /\ \A i \in DOMAIN stream' \ {id} : i \in DOMAIN stream /\ stream'[i] = stream[i]
  BY <1>0, <1>2
<1> HIDE DEF id, e
<1>4. \A i \in DOMAIN stream : Submission(stream, i) => stream[i].prompt # e.prompt
  <2> SUFFICES ASSUME NEW i \in DOMAIN stream, Submission(stream, i), stream[i].prompt = e.prompt
               PROVE  FALSE
    OBVIOUS
  <2>1. stream[i].prompt[1] = next /\ stream[i].prompt[2] = f.steps[next].iter
    BY <1>2
  <2> QED BY <1>1, <2>1 DEF Recorded
<1>5. SubmittedOnce'
  <2> SUFFICES ASSUME NEW i \in DOMAIN stream', NEW j \in DOMAIN stream',
                      stream'[i].prompt = stream'[j].prompt, stream'[i].prompt[1] \in Step,
                      stream'[i].attempt = 0, stream'[j].attempt = 0
               PROVE  i = j
    BY DEF SubmittedOnce
  <2>1. CASE i # id /\ j # id
    BY <1>3, <2>1 DEF SubmittedOnce
  <2>2. CASE i = id /\ j # id
    BY <1>3, <1>4, <2>2 DEF Submission
  <2>3. CASE i # id /\ j = id
    BY <1>3, <1>4, <2>3 DEF Submission
  <2> QED BY <2>1, <2>2, <2>3
<1>6. /\ \A s \in Step \ {next} : f'.steps[s] = f.steps[s]
      /\ f'.steps[next].phase = "Running" /\ f'.steps[next].iter = f.steps[next].iter
  BY <1>1, <1>2, <1>3, NextStepAsType DEF StepPhase
<1>7. Recorded(stream', f')
  <2> SUFFICES ASSUME NEW i \in DOMAIN stream', Submission(stream', i)
               PROVE  LET s == stream'[i].prompt[1]
                          n == stream'[i].prompt[2]
                      IN n < f'.steps[s].iter \/ (n = f'.steps[s].iter /\ f'.steps[s].phase # "Pending")
    BY DEF Recorded
  <2>1. CASE i = id
    BY <1>2, <1>3, <1>6, <2>1
  <2>2. CASE i # id
    <3> DEFINE s == stream[i].prompt[1]
               n == stream[i].prompt[2]
    <3>1. i \in DOMAIN stream /\ stream'[i] = stream[i] /\ Submission(stream, i) /\ s \in Step
      BY <1>3, <2>2 DEF Submission
    <3>2. n < f.steps[s].iter \/ (n = f.steps[s].iter /\ f.steps[s].phase # "Pending")
      BY <3>1 DEF Recorded
    <3>3. f'.steps[s].iter = f.steps[s].iter /\ (f'.steps[s].phase = f.steps[s].phase \/ f'.steps[s].phase = "Running")
      BY <1>6, <3>1
    <3> QED BY <3>1, <3>2, <3>3
  <2> QED BY <2>1, <2>2
<1> QED BY <1>5, <1>7

LEMMA OncePreserved ==
  ASSUME NothingUnreliable, ClientsAreOthers, IInv, OnceInv, [Next]_vars
  PROVE  OnceInv'
<1>0. /\ TypeOK /\ QueueInv /\ QueueTypeOK /\ OneResultPerTask /\ stream \in Seq(Entry)
      /\ flow \in Object /\ flow.status \in Status /\ cached.status \in Status /\ f \in Status
  BY DEF IInv, TypeOK, QueueTypeOK, QueueInv, Object
<1>1. \A kind \in {"queueError", "apiError", "staleRead", "operatorCrash"} : ~Fault(kind)
  BY DEF NothingUnreliable, Fault
<1>2. ~CollectFails /\ ~SubmitFails /\ ~SaveFails /\ ~RestartOperator /\ "apiError" \notin FaultKinds
  BY <1>1 DEF NothingUnreliable, CollectFails, SubmitFails, SaveFails, RestartOperator
<1>3. ASSUME stream' = stream PROVE SubmittedOnce'
  BY <1>3 DEF OnceInv, SubmittedOnce
<1>4. ASSUME stream' = stream, pc' = "idle", cluster'.gone \/ Recorded(stream, flow'.status)
      PROVE  OnceInv'
  BY <1>3, <1>4 DEF OnceInv
<1>5. ASSUME stream' = stream, pc' # "idle", Recorded(stream, f'), version' = flow'.version
      PROVE  OnceInv'
  BY <1>3, <1>5 DEF OnceInv
<1>6. CASE ReconcileProblem
  <2> DEFINE g == [cached.status EXCEPT !.reason = Problem]
  <2>1. g.steps = cached.status.steps /\ g \in Status
    BY <1>0 DEF Problem, Status, Reason
  <2>2. stream' = stream /\ pc' = "idle" /\ Recorded(stream, flow.status)
        /\ (flow' = flow \/ (CanUpdate(cached.version) /\ flow' = Stored(g)))
    BY <1>6, ProblemWrites
    DEF ReconcileProblem, ReadFlow, UpdateLost, Ignored, reconcileVars, OnceInv
  <2>3. CASE CanUpdate(cached.version) /\ flow' = Stored(g)
    <3>1. cached = flow
      BY <2>3 DEF CanUpdate, IInv, FlowInv, CacheBehind
    <3> HIDE DEF g
    <3>2. flow'.status = g
      BY <1>0, <2>1, <2>3, StoredType
    <3>3. Recorded(stream, flow'.status)
      BY <2>1, <2>2, <3>1, <3>2, SameStepsRecorded
    <3> QED BY <1>4, <2>2, <3>3
  <2> QED BY <1>4, <2>2, <2>3
<1>7. CASE ReconcileStart
  <2>1. /\ pc = "idle" /\ pc' = "collect" /\ cached = flow /\ ~cluster.gone
        /\ version' = flow.version /\ flow' = flow /\ stream' = stream
        /\ f' = InitializeSteps(flow.status, now)
    BY <1>1, <1>7 DEF ReconcileStart, ReadFlow, Ignored
  <2>2. f'.steps = flow.status.steps
    BY <1>0, <2>1 DEF InitializeSteps, IInv, FlowInv, FreshUntilRunning, NewStatus
  <2>3. Recorded(stream, f')
    BY <2>1, <2>2, SameStepsRecorded DEF OnceInv
  <2> QED BY <1>5, <2>1, <2>3
<1>8. CASE CollectResults
  <2>1. pc = "collect" /\ pc' = "submit" /\ UNCHANGED <<stream, flow, version>>
    BY <1>8 DEF CollectResults
  <2>2. f' \in Status
    BY <1>0, <1>8, TypePreserved DEF TypeOK
  <2>3. \A s \in Step : \/ /\ f'.steps[s].iter = f.steps[s].iter
                           /\ f'.steps[s].phase = "Pending" => f.steps[s].phase = "Pending"
                        \/ f'.steps[s].iter = f.steps[s].iter + 1
    BY <1>0, <1>8, CollectResultsKeeps
  <2>4. Recorded(stream, f')
    BY <1>0, <2>1, <2>2, <2>3, RecordKept DEF OnceInv
  <2> QED BY <1>5, <2>1, <2>4 DEF OnceInv
<1>9. CASE SkipStep \/ FailStep
  <2>1. /\ AtReadyStep /\ pc = "submit" /\ UNCHANGED stream /\ next \in Step /\ f.steps[next] \in StepStatus
    BY <1>0, <1>9, FlowSpecAssumption DEF SkipStep, FailStep, AtReadyStep, TypeOK, Step, Status
  <2>2. PICK phase \in {"Skipped", "Failed"} : NextStepAs(phase, f.steps[next].task)
    BY <1>9 DEF SkipStep, FailStep
  <2>3. /\ f' \in Status /\ UNCHANGED <<flow, pc, version>> /\ f'.steps[next].phase # "Pending"
        /\ f'.steps[next].iter = f.steps[next].iter
        /\ \A s \in Step \ {next} : f'.steps[s] = f.steps[s]
    BY <1>0, <2>1, <2>2, NextStepAsType DEF StepPhase, StepStatus
  <2>4. Recorded(stream, f')
    BY <1>0, <2>1, <2>3, RecordKept DEF OnceInv
  <2> QED BY <1>5, <2>1, <2>3, <2>4 DEF OnceInv
<1>10. CASE SubmitStep
  <2>1. pc = "submit" /\ UNCHANGED <<flow, pc, version>>
    BY <1>10 DEF SubmitStep, AtReadyStep, NextStepAs
  <2>2. SubmittedOnce' /\ Recorded(stream', f')
    BY <1>0, <1>10, <2>1, SubmitOnce DEF OnceInv
  <2> QED BY <2>1, <2>2 DEF OnceInv
<1>11. CASE SaveAfterError \/ SaveStatus
  <2> PICK g \in Status : g.steps = f.steps /\ (CanUpdate(version) => flow' = Stored(g))
    BY <1>0, <1>2, <1>11, UpdateFlowPhaseType DEF SaveAfterError, SaveStatus
  <2>1. stream' = stream /\ pc # "idle" /\ pc' = "idle" /\ cluster' = cluster
    BY <1>11 DEF SaveAfterError, SaveStatus, AtEnd, Return
  <2>2. CASE CanUpdate(version)
    <3>1. flow'.status = g
      BY <1>0, <2>2, StoredType
    <3>2. Recorded(stream, flow'.status)
      BY <2>1, <3>1, SameStepsRecorded DEF OnceInv
    <3> QED BY <1>4, <2>1, <3>2
  <2>3. CASE ~CanUpdate(version)
    <3>1. cluster'.gone
      BY <2>1, <2>3 DEF CanUpdate, OnceInv
    <3> QED BY <1>4, <2>1, <3>1
  <2> QED BY <2>2, <2>3
<1>12. CASE SaveConflicts
  <2>1. stream' = stream /\ pc # "idle" /\ pc' = "idle" /\ cluster' = cluster /\ cluster.gone
    BY <1>12 DEF SaveConflicts, AtEnd, CanUpdate, Return, OnceInv
  <2> QED BY <1>4, <2>1
<1>13. CASE PassOverStep
  <2>1. pc = "submit" /\ UNCHANGED <<stream, flow, pc, f, version>>
    BY <1>13 DEF PassOverStep
  <2> QED BY <1>5, <2>1 DEF OnceInv
<1>14. ASSUME UNCHANGED <<stream, flow, pc, f, version>>, cluster'.gone \/ ~cluster.gone
       PROVE  OnceInv'
  BY <1>4, <1>5, <1>14 DEF OnceInv
<1>15. CASE ReconcileIgnored \/ ReconcileTerminal \/ Watch \/ Resync \/ Tick \/ UNCHANGED vars
  <2>1. UNCHANGED <<stream, flow, pc, f, version, cluster>>
    BY <1>15 DEF ReconcileIgnored, ReconcileTerminal, Watch, Resync, Tick, reconcileVars, vars
  <2>2. cluster'.gone \/ ~cluster.gone
    BY <2>1
  <2> QED BY <1>14, <2>1, <2>2
<1>16. CASE ChangeAgents \/ ChangeEvents \/ DeleteFlow
  BY <1>14, <1>16 DEF ChangeAgents, ChangeEvents, DeleteFlow, EditCluster, reconcileVars
<1>17. CASE (AgentNext \/ ClientSubmit) /\ UNCHANGED flowVars
  <2>1. \A i \in DOMAIN stream' : Submission(stream', i) => i \in DOMAIN stream /\ stream'[i] = stream[i]
    BY <1>0, <1>17, OthersSubmitNothing
  <2>2. SubmittedOnce'
    BY <2>1 DEF OnceInv, SubmittedOnce, Submission
  <2>3. UNCHANGED <<flow, cluster, pc, f, version>>
    BY <1>17 DEF flowVars
  <2>4. ASSUME NEW g \in Status, Recorded(stream, g) PROVE Recorded(stream', g)
    BY <1>0, <2>1, <2>4, RecordKept
  <2> QED BY <1>0, <2>2, <2>3, <2>4 DEF OnceInv
<1> QED
  BY <1>2, <1>6, <1>7, <1>8, <1>9, <1>10, <1>11, <1>12, <1>13, <1>15, <1>16, <1>17
  DEF Next, Reconcile, Environment

(* Without a failure of Redis, the API server, the cache or the operator the
   controller submits each iteration of each step once, whatever its agents do
   and whoever edits the cluster in between. *)
THEOREM AlwaysSubmittedOnce ==
  ASSUME NothingUnreliable, ClientsAreOthers
  PROVE  SafetySpec => []SubmittedOnce
<1>1. Init => OnceInv
  <2> SUFFICES ASSUME Init PROVE OnceInv
    OBVIOUS
  <2>1. stream = <<>> /\ pc = "idle"
    BY DEF Init, QueueInit
  <2> QED BY <2>1 DEF OnceInv, SubmittedOnce, Recorded
<1>2. IInv /\ OnceInv /\ [Next]_vars => OnceInv'
  BY OncePreserved
<1>3. OnceInv => SubmittedOnce
  BY DEF OnceInv
<1> QED BY <1>1, <1>2, <1>3, IInvHolds, PTL DEF SafetySpec
=============================================================================
