------------------------------- MODULE ArkFlow -------------------------------
(***************************************************************************)
(* The ArkFlow controller (internal/controller/arkflow_controller.go)      *)
(* driving one flow, composed with the task queue and the agent pods.      *)
(*                                                                         *)
(* A reconcile reads the flow from the informer cache, works on its copy   *)
(* f, and writes the copy back at the end; every Redis command and API     *)
(* write in between is a step of its own.  The work queue of               *)
(* controller-runtime runs at most one reconcile per key at a time.        *)
(***************************************************************************)
EXTENDS FlowLogic, TaskQueue

VARIABLES
  flow,     \* the object in the API server: [version, status]
  cached,   \* the object in the informer cache
  cluster,  \* what else a reconcile looks up: [agents, template, gone, queue]
  now,      \* the clock
  wanted,   \* the flow's key is in the work queue, or will be after a delay
  pc,       \* where the reconcile is: idle, collect, submit, saveError
  f,        \* its working copy of the status
  version,  \* the resourceVersion it has read
  next      \* the step the submission loop is at

agentVars == <<group, pel, results, dead, up, work>>
reconcileVars == <<pc, f, version, next>>
flowVars == <<flow, cached, cluster, now, wanted, pc, f, version, next>>
vars == <<stream, group, pel, results, dead, up, work, faults,
          flow, cached, cluster, now, wanted, pc, f, version, next>>

Object == [version : Nat, status : Status]

(* agents: every ArkAgent the steps name exists.  template: an ArkEvent targets
   the flow.  gone: it is deleted.  queue: TASK_QUEUE_URL is set. *)
Cluster == [agents : BOOLEAN, template : BOOLEAN, gone : BOOLEAN, queue : BOOLEAN]

OneOf(kind) == IF kind \in FaultKinds THEN BOOLEAN ELSE {TRUE}

Init ==
  /\ QueueInit
  /\ flow = [version |-> 0, status |-> NewStatus]
  /\ cached = flow
  /\ cluster \in [agents : OneOf("agentEdit"), template : {FALSE}, gone : {FALSE},
                  queue : OneOf("noQueue")]
  /\ now = 0
  /\ wanted = TRUE
  /\ pc = "idle" /\ f = NewStatus /\ version = 0 /\ next = 1

TypeOK ==
  /\ QueueTypeOK
  /\ flow \in Object
  /\ cached \in Object
  /\ cluster \in Cluster
  /\ now \in Nat
  /\ wanted \in BOOLEAN
  /\ pc \in {"idle", "collect", "submit", "saveError"}
  /\ f \in Status
  /\ version \in Nat
  /\ next \in 1 .. NumSteps + 1
-----------------------------------------------------------------------------
(* Mutant: the last writer wins. *)
CanUpdate_Always(read) == ~cluster.gone

(* Status().Update replaces the status if the version it was read at is still
   the stored one; an update that changes nothing makes no new version. *)
CanUpdate(read) == read = flow.version /\ ~cluster.gone

Stored(status) ==
  IF status = flow.status THEN flow
  ELSE [version |-> flow.version + 1, status |-> status]

Return ==
  /\ pc' = "idle" /\ f' = NewStatus /\ version' = 0 /\ next' = 1

(* r.Get.  After a delay or an error the cache may still be behind. *)
ReadFlow ==
  /\ pc = "idle" /\ wanted
  /\ \/ cached = flow /\ NoFault
     \/ cached # flow /\ Fault("staleRead")

(* Not found, being deleted, or the template of an ArkEvent. *)
Ignored == cluster.gone \/ cluster.template

(* A fresh read, after which the API server fails the status update. *)
UpdateLost ==
  /\ pc = "idle" /\ wanted /\ cached = flow
  /\ Fault("apiError") /\ UNCHANGED flow

Problem ==
  IF ~ValidDAG(DependsOn) THEN "InvalidDAG"
  ELSE IF ~cluster.agents THEN "DeploymentNotFound"
  ELSE IF ~IsTerminalPhase(cached.status.phase) /\ ~cluster.queue THEN "NoTaskQueue"
  ELSE ""

ReconcileIgnored ==
  /\ ReadFlow /\ Ignored
  /\ wanted' = FALSE
  /\ UNCHANGED <<stream, agentVars, flow, cached, cluster, now, reconcileVars>>

(* The condition is written, an error of the write ignored, and nothing brings
   the flow back to the work queue when the problem is solved. *)
ReconcileProblem ==
  /\ ~Ignored /\ Problem # ""
  /\ \/ /\ ReadFlow
        /\ flow' = IF CanUpdate(cached.version)
                   THEN Stored([cached.status EXCEPT !.reason = Problem]) ELSE flow
     \/ UpdateLost
  /\ wanted' = FALSE
  /\ UNCHANGED <<stream, agentVars, cached, cluster, now, reconcileVars>>

(* Only ObservedGeneration is written. *)
ReconcileTerminal ==
  /\ ~Ignored /\ Problem = "" /\ IsTerminalPhase(cached.status.phase)
  /\ \/ ReadFlow /\ wanted' = ~CanUpdate(cached.version)
     \/ UpdateLost /\ wanted' = TRUE
  /\ UNCHANGED <<stream, agentVars, flow, cached, cluster, now, reconcileVars>>

ReconcileStart ==
  /\ ReadFlow /\ ~Ignored /\ Problem = "" /\ ~IsTerminalPhase(cached.status.phase)
  /\ wanted' = FALSE
  /\ pc' = "collect"
  /\ f' = InitializeSteps(cached.status, now)
  /\ version' = cached.version
  /\ UNCHANGED <<stream, agentVars, flow, cached, cluster, now, next>>

Waiting(s) == f.steps[s].phase = "Running" /\ f.steps[s].task # 0
(* Mutant: only the newest message is looked at. *)
Answers_NewestOnly(task) ==
  {i \in DOMAIN results : i = Len(results) /\ results[i].task = task}
Answers(task) == {i \in DOMAIN results : results[i].task = task}

(* Mutant: any message on the results stream will do. *)
CollectStep_AnyMessage(s) ==
  IF Waiting(s) /\ results # <<>>
  THEN [f.steps[s] EXCEPT !.phase = "Succeeded", !.output = results[Len(results)].output]
  ELSE f.steps[s]

(* The last answer on the stream counts; one without usage leaves TokenUsage. *)
CollectStep(s) ==
  LET answers == Answers(f.steps[s].task)
      i == CHOOSE i \in answers : \A j \in answers : j <= i
  IN IF Waiting(s) /\ answers # {}
     THEN [f.steps[s] EXCEPT !.phase = "Succeeded", !.output = results[i].output,
             !.tokens = IF results[i].tokens > 0 THEN results[i].tokens ELSE @]
     ELSE f.steps[s]

CollectedResults == [f EXCEPT !.steps = [s \in Step |-> CollectStep(s)]]

(* XRANGE, then everything up to the submission loop, which touches only f. *)
CollectResults ==
  /\ pc = "collect"
  /\ \E verdict \in [CrossLoop -> BOOLEAN] :
       f' = EvaluateLoops(ParseOutputJSON(CollectedResults), verdict)
  /\ pc' = "submit"
  /\ UNCHANGED <<stream, agentVars, faults, flow, cached, cluster, now, wanted, version, next>>

CollectFails ==
  /\ pc = "collect" /\ \E s \in Step : Waiting(s)
  /\ Fault("queueError")
  /\ wanted' = TRUE /\ Return
  /\ UNCHANGED <<stream, agentVars, flow, cached, cluster, now>>

(* The submission loop is at a step that is ready. *)
AtReadyStep == pc = "submit" /\ next <= NumSteps /\ ReadyStep(f, next)

(* Mutant: the loop updates a copy of the step's status. *)
NextStepAs_Copy(phase, task) ==
  /\ next' = next + 1
  /\ UNCHANGED <<agentVars, faults, flow, cached, cluster, now, wanted, pc, f, version>>

NextStepAs(phase, task) ==
  /\ f' = [f EXCEPT !.steps[next].phase = phase, !.steps[next].task = task]
  /\ next' = next + 1
  /\ UNCHANGED <<agentVars, faults, flow, cached, cluster, now, wanted, pc, version>>

PassOverStep ==
  /\ pc = "submit" /\ next <= NumSteps /\ ~ReadyStep(f, next)
  /\ next' = next + 1
  /\ UNCHANGED <<stream, agentVars, faults, flow, cached, cluster, now, wanted, pc, f, version>>

(* The If expression is falsy, or fails to evaluate. *)
SkipStep ==
  /\ AtReadyStep /\ next \in Conditional
  /\ NextStepAs("Skipped", f.steps[next].task)
  /\ UNCHANGED stream

(* An input template fails to evaluate. *)
FailStep ==
  /\ AtReadyStep /\ "promptError" \in FaultKinds
  /\ NextStepAs("Failed", f.steps[next].task)
  /\ UNCHANGED stream

SubmitStep ==
  /\ AtReadyStep
  /\ Enqueue(<<next, f.steps[next].iter>>)
  /\ NextStepAs("Running", Len(stream) + 1)

(* XADD returns an error, whether or not the entry was written.  What the loop
   has done so far is saved, without UpdateFlowPhase. *)
SubmitFails ==
  /\ AtReadyStep
  /\ Fault("queueError")
  /\ stream' = stream \/ Enqueue(<<next, f.steps[next].iter>>)
  /\ pc' = "saveError"
  /\ UNCHANGED <<agentVars, flow, cached, cluster, now, wanted, f, version, next>>

(* An error of this write is ignored: the API server may fail with Redis. *)
SaveAfterError ==
  /\ pc = "saveError"
  /\ \/ CanUpdate(version) /\ flow' = Stored(f)
     \/ (~CanUpdate(version) \/ "apiError" \in FaultKinds) /\ UNCHANGED flow
  /\ wanted' = TRUE /\ Return
  /\ UNCHANGED <<stream, agentVars, faults, cached, cluster, now>>

AtEnd == pc = "submit" /\ next > NumSteps

(* Mutant: it is left to the watch to bring the flow back. *)
SaveStatus_NoRequeue ==
  LET done == UpdateFlowPhase(f, now) IN
  /\ AtEnd /\ CanUpdate(version)
  /\ flow' = Stored(done)
  /\ Return
  /\ UNCHANGED <<stream, agentVars, faults, cached, cluster, now, wanted>>

(* UpdateFlowPhase and the final Status().Update; a Running flow comes back
   after pipelineRequeueIn. *)
SaveStatus ==
  LET done == UpdateFlowPhase(f, now) IN
  /\ AtEnd /\ CanUpdate(version)
  /\ flow' = Stored(done)
  /\ wanted' = (wanted \/ done.phase = "Running")
  /\ Return
  /\ UNCHANGED <<stream, agentVars, faults, cached, cluster, now>>

SaveConflicts ==
  /\ AtEnd /\ ~CanUpdate(version)
  /\ wanted' = TRUE /\ Return
  /\ UNCHANGED <<stream, agentVars, faults, flow, cached, cluster, now>>

(* The update returns an error, whether or not it took effect. *)
SaveFails ==
  /\ AtEnd /\ CanUpdate(version)
  /\ Fault("apiError")
  /\ flow' \in {flow, Stored(UpdateFlowPhase(f, now))}
  /\ wanted' = TRUE /\ Return
  /\ UNCHANGED <<stream, agentVars, cached, cluster, now>>

(* The operator stops and starts: the new process lists every flow. *)
RestartOperator ==
  /\ Fault("operatorCrash")
  /\ cached' = flow
  /\ wanted' = TRUE /\ Return
  /\ UNCHANGED <<stream, agentVars, flow, cluster, now>>

(* The watch delivers the current object, which enqueues its key. *)
Watch ==
  /\ cached # flow
  /\ cached' = flow
  /\ wanted' = TRUE
  /\ UNCHANGED <<stream, agentVars, faults, flow, cluster, now, reconcileVars>>

(* The informer re-delivers every object it holds now and then. *)
Resync ==
  /\ ~wanted
  /\ wanted' = TRUE
  /\ UNCHANGED <<stream, agentVars, faults, flow, cached, cluster, now, reconcileVars>>

(* Time passes.  The clock stops once the timeout of the stored flow is over. *)
Tick ==
  /\ TimeoutSeconds > 0 /\ flow.status.phase = "Running"
  /\ now <= flow.status.start + TimeoutSeconds
  /\ now' = now + 1
  /\ UNCHANGED <<stream, agentVars, faults, flow, cached, cluster, wanted, reconcileVars>>

(* The controller watches flows only: not the agents, nor the events. *)
EditCluster(field) ==
  /\ ~cluster.gone
  /\ cluster' = [cluster EXCEPT ![field] = ~@]
  /\ UNCHANGED <<stream, agentVars, flow, cached, now, wanted, reconcileVars>>

(* A user deletes or creates an agent the steps name. *)
ChangeAgents == Fault("agentEdit") /\ EditCluster("agents")

(* A user creates or deletes an ArkEvent that targets the flow. *)
ChangeEvents == Fault("eventEdit") /\ EditCluster("template")

DeleteFlow == Fault("deletion") /\ EditCluster("gone")
-----------------------------------------------------------------------------
Reconcile ==
  \/ ReconcileIgnored \/ ReconcileProblem \/ ReconcileTerminal \/ ReconcileStart
  \/ CollectResults \/ CollectFails
  \/ PassOverStep \/ SkipStep \/ FailStep \/ SubmitStep \/ SubmitFails
  \/ SaveAfterError \/ SaveStatus \/ SaveConflicts \/ SaveFails

Environment == RestartOperator \/ Watch \/ Resync \/ Tick
               \/ ChangeAgents \/ ChangeEvents \/ DeleteFlow

Next ==
  \/ Reconcile
  \/ Environment
  \/ (AgentNext \/ ClientSubmit) /\ UNCHANGED flowVars

(* The controller's workers run while there is a key to work on, watches and
   resyncs are delivered, time passes.  No fault is fair. *)
Fairness ==
  /\ WF_vars(Reconcile)
  /\ WF_vars(Watch)
  /\ WF_vars(Resync)
  /\ WF_vars(Tick)
  /\ AgentFairness

SafetySpec == Init /\ [][Next]_vars
Spec == SafetySpec /\ Fairness
-----------------------------------------------------------------------------
(* Safety: what holds whatever fails. *)

PromptOf(status, s) == <<s, status.steps[s].iter>>

(* TaskIDs name real work (submitPendingSteps): in the stored flow, in the cache
   and in the working copy, a step's TaskID is a message of the task stream, on
   its first attempt, that carries the prompt of that very step and iteration.
   No crash, stale read or half-done write mixes up two steps or iterations. *)
TaskIDsGenuine(log, status) ==
  \A s \in Step : status.steps[s].task # 0 =>
    /\ status.steps[s].task \in DOMAIN log
    /\ log[status.steps[s].task] = [prompt |-> PromptOf(status, s), attempt |-> 0]

TaskIDsCorrelate ==
  /\ TaskIDsGenuine(stream, flow.status)
  /\ TaskIDsGenuine(stream, cached.status)
  /\ TaskIDsGenuine(stream, f)

(* A step is Succeeded only with an answer of an agent to the task it recorded,
   and keeps exactly that answer (collectResults). *)
OutputsAreAnswers ==
  \A s \in Step : flow.status.steps[s].phase = "Succeeded" =>
    \E i \in Answers(flow.status.steps[s].task) :
      results[i].output = flow.status.steps[s].output

(* Once the stored phase is terminal, no later write, not even one by a
   reconcile that read an older copy, changes the phase or a step. *)
TerminalIsFinal ==
  [][IsTerminalPhase(flow.status.phase) =>
       /\ flow'.status.phase = flow.status.phase
       /\ flow'.status.steps = flow.status.steps]_vars

(* A stored step never starts before what it depends on is done, and what it
   depends on stays done: with conditions over a step's own output only, no
   loop re-runs a step whose dependents have seen its output. *)
DependenciesStayDone ==
  CrossLoop = {} =>
    \A s \in Step : flow.status.steps[s].phase # "Pending" => DepsSucceeded(flow.status, s)

(* The stored flow keeps the promise of FlowLifecycle: phases only advance,
   steps advance one iteration at a time and never begin before what they depend
   on, a step is stored Running before it is stored Succeeded, and a flow that
   has ended no longer changes. *)
View(status) ==
  [s \in Step |-> [phase |-> status.steps[s].phase, iter |-> status.steps[s].iter]]
Lifecycle == INSTANCE FlowLifecycle WITH
  phase <- flow.status.phase, steps <- View(flow.status), RunEnds <- {"Succeeded"}
ImplementsLifecycle == Lifecycle!Spec

(* A flow succeeds only with every step Succeeded or Skipped and within its
   budget; it fails only for a failed step, the budget or the timeout. *)
VerdictIsEarned ==
  /\ flow.status.phase = "Succeeded" => AllDone(flow.status) /\ ~OverBudget(flow.status)
  /\ flow.status.phase = "Failed" =>
       \/ AnyFailed(flow.status) \/ OverBudget(flow.status)
       \/ EnforceTimeout(flow.status, now)

(* The JSON a dependent step reads fields of is that of the output next to it:
   no iteration of a loop leaves its JSON to a later one that has none
   (ParseOutputJSON skips a step whose OutputJSON is set). *)
FieldsAreCurrent ==
  \A s \in Step : flow.status.steps[s].json =>
    flow.status.steps[s].phase = "Succeeded" /\ flow.status.steps[s].output \in JSONOutputs

(* Without a failure of Redis, the API server, the cache or the operator, each
   step is submitted once per iteration: two reconciles never both submit it. *)
SubmittedOnce ==
  \A i, j \in DOMAIN stream :
    stream[i].prompt = stream[j].prompt /\ stream[i].prompt[1] \in Step
      /\ stream[i].attempt = 0 /\ stream[j].attempt = 0 => i = j

(* A step that failed is never left behind in a flow that goes on running, as
   long as Redis takes every task (see SubmitFails). *)
FailedStepFailsFlow == AnyFailed(flow.status) => flow.status.phase = "Failed"
-----------------------------------------------------------------------------
(* Liveness. *)

(* The flow comes to an end. *)
FlowEnds == <>IsTerminalPhase(flow.status.phase)

(* When the agents exist and no event targets the flow for good, it ends, also
   after reconciles that found otherwise and did not ask to be repeated. *)
Ready == ~Ignored /\ ValidDAG(DependsOn) /\ cluster.agents /\ cluster.queue
ResumesWhenReady == <>[]Ready => FlowEnds

(* A flow that nothing stands in the way of is never dropped from the work queue
   before it has ended, whatever fails, conflicts or is read too early: it does not
   take a resync to go on.  One that a reconcile found not ready does need it. *)
NeverForgotten ==
  []Ready => [](pc = "idle" /\ ~wanted => IsTerminalPhase(flow.status.phase))

(* If nothing fails on the way, neither a command nor a task nor a prompt, every
   step is answered in the end and the flow succeeds. *)
NothingFails == faults = 0 /\ ~AnyFailed(f) /\ \A w \in work : w.pc # "requeue"
FlowSucceeds == []NothingFails => <>(flow.status.phase = "Succeeded")
-----------------------------------------------------------------------------
(* What the API types and comments of the repository say of a flow, where the
   code does otherwise. *)

(* arkflow_types.go: TaskID is "used to correlate results from the
   agent-tasks-results stream": a step whose prompt has been answered does not
   stay Running. *)
Answered(s) ==
  \E i \in DOMAIN results : stream[results[i].task].prompt = PromptOf(flow.status, s)
AnswersReachTheirStep ==
  \A s \in Step :
    (flow.status.steps[s].phase = "Running" /\ Answered(s))
      ~> (flow.status.steps[s].phase # "Running" \/ IsTerminalPhase(flow.status.phase))

(* arkflow_types.go: the budget is for the entire run, so every answer a
   finished step collected counts, also those of earlier loop iterations. *)
SpentTokens ==
  MapThenSumSet(LAMBDA i : results[i].tokens,
                {i \in DOMAIN results : stream[results[i].task].prompt[1] \in Step})
BudgetCoversRun ==
  flow.status.phase = "Succeeded" /\ MaxTokens > 0 => SpentTokens <= MaxTokens
=============================================================================
