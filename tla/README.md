# A formal model of the arkonis operator

TLA+ modules for the operator that runs AI agents and flows on Kubernetes, model-checked with TLC on small
instances, with proofs that TLAPS checks for every instance. Paths are relative to the repository.

## The system

```
   cron tick, POST, end of a flow                        ArkAgent spec, prompt, daily budget
              |                                                       |
      ArkEvent controller ----creates---> ArkFlow          ArkAgent controller
      webhook server      <---polls end--    |   \--usage of steps--> |
                                    ArkFlow controller                | creates, patches, scales
                                      | XADD        ^ XRANGE          v
                                  agent-tasks   agent-tasks-results   Deployment of agent pods
                                      | XREADGROUP  | XADD            |
                                      +---------> agent pods <--------+
                                                    | XADD on the last failure
                                                agent-tasks-dead  (read by nobody)
   ark run (CLI) ---- same flow logic, goroutines instead of the queue ----> model provider
```

| Component | State it keeps | Operations | Interacts with |
|---|---|---|---|
| Flow logic (`internal/flow`) | none; edits `ArkFlow.Status` in place | `InitializeSteps`, `ParseOutputJSON`, `EvaluateLoops`, `EnforceTimeout`, `EnforceBudget`, `UpdateFlowPhase`, `DepsSucceeded`, `ValidateDAG`, templates | called by the ArkFlow controller and by `ark run` |
| ArkFlow controller (`internal/controller/arkflow_controller.go`) | the flow's status, in the API server | reconcile: look up, validate, collect, loop, submit, decide, save | Redis, API server, informer cache |
| Task queue (`internal/agent/queue`) | three Redis streams, one consumer group, its pending list (PEL) | `Submit`, `Poll`, `Ack`, `Nack`, dead-letter | written by operator, pods and tools; read by pods |
| Agent runtime (`runtime/agent`, `internal/agent/runner`) | one goroutine per task | discover tools, poll, run, call tools, acknowledge, spawn sub-tasks | task queue, model provider, tools |
| ArkEvent controller (`arkevent_controller.go`) | `LastFiredAt`, `FiredCount`, condition; flows it dispatched | cron, webhook and flow-completion reconciles | API server, flows, Secret |
| Webhook server (`trigger_webhook_server.go`) | one handler per request; writes the same status | authenticate, dispatch, wait for the flow | API server, cache |
| ArkAgent controller (`arkagent_controller.go`) | daily usage and conditions; a Deployment | resolve prompt, daily budget, create or patch, status | API server, caches, flows |
| Local executor (`internal/ark/local`) | a flow in memory, goroutines of one batch | batches of ready steps until the flow ends | flow logic, model provider |
| Model providers (`internal/agent/providers`) | the messages and the usage of one conversation | the tool-use loop, turn by turn | model API, runner |
| MCP manager (`internal/agent/mcp`) | the tools of the servers | discover, call | MCP servers |
| ArkService controller (`arkservice_controller.go`) | ready replicas, observed generation, condition; a Service | look up the agent, create or patch, status | API server, caches, agents |
| ark CLI (`cmd/ark`) | the exit code | load, run, validate | local executor, `ValidateDAG` |
| ArkMemory, ArkSettings controllers, health probe, operator main | a condition each; none | write condition; probe; wiring | API server; kubelet |

### What is hard here

* **The queue is at-most-once with retries.** Every Redis command is separate; acknowledgement comes before the
  result, and a retry is a new message with a new ID. A pod can stop between any two commands.
* **The flow's status is the only memory of a run.** It is read from a cache that lags, edited in a copy while Redis
  is written, and saved at the end under an optimistic lock. The write may conflict, fail, or succeed and report
  failure; the operator may die before it.
* **Two writers, one status.** The ArkEvent controller and the webhook server both write `LastFiredAt` and
  `FiredCount`, from copies of different ages.
* **Names and times have a resolution of one second** (dispatched flows, `metav1.Time`).
* **Something must happen although nothing changes**: a flow's timeout, a cron tick, the end of a budget window, a
  waiting caller's answer.
* **A task is a conversation with two unreliable parties**, the model and its tools. Either may fail, stall or go on
  for ever at every turn; only a deadline ends it, and what was charged before must not be lost.
* **Loops re-open finished work**: a step, its task ID, output, JSON and usage go through several lives.

`PROJECT.json` lists each hazard at its line with the properties that would catch it going wrong.

### What makes each component correct

* *Queue*: a message runs once, is answered at most once, is retried at most `MaxRetries` times and never after an
  answer; without a fault every task settles.
* *Agent runtime*: whatever models, tools and servers do, it behaves as the pods the queue's properties take for
  granted; every tool call gets a result and every result all of its usage.
* *Flow controller*: the status names only real tasks and real answers; visible progress follows one lifecycle; an
  ended flow stays as it is; the verdict is the one the steps, budget and timeout earn; a flow that can end, ends.
* *Events*: each cause fires, and fires once; each caller learns about his own run.
* *Agents*: the Deployment and the published status come to agree with prompt, replicas and budget.
* *Services*: the Service selects the pods of the chosen agent, does not outlive the ArkService, and the status comes
  to tell the truth.
* *Local executor, CLI*: same lifecycle as the operator, no verdict while a goroutine is at work; every command
  returns, with an exit code that tells the outcome; the search for cycles finds exactly the cycles.

## The modules

| Module | Models | Uses |
|---|---|---|
| `ArkTypes` | the statuses and phases of `api/v1alpha1` | |
| `FlowLogic` | `internal/flow`, as operators on a status record | `ArkTypes` |
| `ValidateDAG` | `flow.ValidateDAG`, call by call | `FlowLogic` |
| `TaskQueue` | `internal/agent/queue`, and pods that run a task in one step | `ArkTypes` |
| `AgentRuntime` | the process in a pod: `runtime/agent`, `internal/agent/{mcp,runner,providers}` | `TaskQueue` |
| `FlowLifecycle` | abstract: what a flow's phases promise to an observer | |
| `ArkFlow` | the ArkFlow controller composed with the queue and the pods | `FlowLogic`, `TaskQueue`, `FlowLifecycle` |
| `LocalExecutor` | the executor of `ark run` | `FlowLogic`, `FlowLifecycle` |
| `ArkCLI` | the commands `ark run` and `ark validate` | `LocalExecutor`, `ValidateDAG` |
| `ArkEvent` | the ArkEvent controller and the webhook server | |
| `ArkAgent` | the ArkAgent controller, the Deployment controller around it | |
| `ArkService` | the ArkService controller, users and the garbage collector around it | |
| `TaskQueueProofs`, `AgentRuntimeProofs`, `ArkFlowProofs`, `ArkCLIProofs`, `ArkEventProofs`, `ArkAgentProofs`, `ArkServiceProofs` | theorems about the module they are named after; `ArkCLIProofs` those of `LocalExecutor` and `ValidateDAG` too | `TLAPS` |
| `FlowLogicProofs` | lemmas about the operators of `FlowLogic`, for the proofs of both its users | `TLAPS` |
| `MC*` | the constants of the small instances | |

Operators named `X_Something` next to `X` are mutants: plausible bugs of `X`. `PROJECT.json` pairs each property
with a mutant that violates it, so that no property holds whatever the code does.

### FlowLogic

A status record has `phase`, the `reason` of the Ready condition, `start`, and per step `[phase, task, output, json,
iter, tokens]`; `task = 0` is the empty `TaskID`. A step is its position in `Spec.Steps`; the spec is given by
constants. Templates are reduced to decisions: an output is a model value that does or does not make its own loop
condition truthy (`AgainOutputs`) and does or does not hold JSON (`JSONOutputs`). A loop condition over other steps'
outputs (`CrossLoop`) may be true or false at each evaluation. `UpdateFlowPhase` keeps the code's order: timeout,
budget, failed step, all done.

### TaskQueue

`stream`, `results` are logs and a message ID is a position. `group` is the last message delivered (`-1` before
`XGROUP CREATE`), `pel` the pending list, `dead` the dead letters, `up` the running pods, `work` the goroutines
`[pod, task, pc]`.

| Action | Code |
|---|---|
| `StartPod` | `queue.New`: group created at `$` unless it exists, errors ignored |
| `Poll` | `XREADGROUP >` with count 1; a goroutine per task |
| `Acknowledge`, `PublishResult` | the two commands of `Ack` |
| `Acknowledge`, `Requeue` / `DeadLetter` | the two commands of `Nack` |
| `SubmitSubtask` | the built-in tool, from a running task |
| `StopPod` | the process ends and its goroutines with it |

### AgentRuntime

`boot` is where `main` of each pod is before it polls, `server` the state of each MCP server, `talk` the conversation
of each goroutine: its `turn`, the tool calls of the last reply that are `left` to make and `open` without a result,
the `usage` counted and what the provider has `billed`.

| Action | Code |
|---|---|
| `Discover` | one `tools/list` request of `NewManager`; the first error ends the discovery, a server that hangs stops it |
| `RestartStuck` | the liveness probe of the Deployment: nothing listens on `/healthz` during the discovery |
| `PodStarts`, `PodPolls`, `PodStops` | `StartPod`, `Poll`, `StopPod` of `TaskQueue`, and the conversations that begin or end with them |
| `ModelAsksTools`, `ModelAnswers`, `ModelFails` | one request to the model: go on, return the text, return the error |
| `ToolReturns`, `ToolSubmits` | one tool call: a result or an error for the model, or a sub-task on the stream |
| `DeadlinePasses` | the context of `RunTask` is done: requests fail from here on |
| `PublishUsage`, `GiveBack` | the second command of `Ack` and of `Nack` |

The two providers differ in when they go on (`Continues`): anthropic whenever there are tool calls and the turn is
not marked as the last, openai only if the finish reason is `tool_calls`. What the MCP discovery found is not kept:
a model may name any tool, and one that does not exist is an error like others.

### ArkFlow

`flow` is the stored object `[version, status]`, `cached` the informer's copy, `wanted` whether the key is (or will
be) in the work queue. A reconcile is at `pc`: from `idle` it either ends at once (`ReconcileIgnored`,
`ReconcileProblem`, `ReconcileTerminal`) or copies the status into `f` (`ReconcileStart`); at `collect` it reads the
results, parses JSON and evaluates loops (`CollectResults`); at `submit` it walks the steps in order, one `XADD` per
action (`SubmitStep`, `SkipStep`, `FailStep`, `PassOverStep`); then it decides and writes (`SaveStatus`,
`SaveConflicts`, `SaveFails`). A failed `XADD` leads to `saveError`, which stores the half-done status without
deciding, as the code does. Around it: `Watch`, `Resync`, `RestartOperator`, `Tick`, user edits, and every action of
`TaskQueue`.

`FlowLifecycle` knows only phases and iterations. Under the refinement mapping `phase <- flow.status.phase`,
`steps <- View(flow.status)`, each write of the status is one of its steps or a stutter.

### LocalExecutor

`f` is the status, `running` the goroutines whose result is not in. `NextBatch` is the top of the loop in `Run`
(loops, conditions in spec order, goroutines), `StepSucceeds` and `StepFails` are the channel reads in any order,
`EndBatch` is `ParseOutputJSON` and `UpdateFlowPhase`. It implements `FlowLifecycle` with steps that may fail while
Running. Two actions are of `buildMCPManager`, which asks the MCP servers for their tools: `StepPanics` is its nil
manager, with which the process ends, and `ServerHangs` puts a goroutine into `hung` for good, since the request has no
deadline (`mcp.go:46`) and comes before the context of the step (`executor.go:191`, 196).

### ValidateDAG and ArkCLI

`path` is the stack of the recursive `dfs`, `todo` what is left of each step's loop over its dependencies, `color`
the map of the code. Dependencies are taken in any order, the roots in order. The graph `deps` is a variable, so that
one run searches every graph of `Graphs`; the parameters of `Acyclic` and `ValidDAG` are what `FlowLogic` and
`ArkFlow` use too. `ArkCLI` puts the load of the file before, and the exit code after, either `LocalExecutor!Run` or
the search.

### ArkEvent

One event: cron, webhook or pipeline-output. `event`/`cachedEvent` are its stored and cached copies, `runs` the
dispatched flows by name (target and second), `seen` the flow cache, `requests` the webhook handlers. A reconcile is
`StartReconcile` (cause, policy, `LastFiredAt`), one `CreateRun` per target, `SaveStatus`. A handler is
`RequestArrives`, one `RequestCreates` per target, `RequestSaves` (a conflict is only logged), then `RequestPolls`
until `RequestTimesOut`. A tick is a second.

What a pipeline-output event waits for is `DesiredPhase` (`onPhase`, or Succeeded). `PhaseReached` has the guard against
a second fire only for phases that come with a completion time, as the code does, and `WatchFlows` enqueues the event
only when the watched flow enters or leaves an ended phase, whatever phase it waits for.

### ArkAgent

One agent, the Deployment it owns, the usage of the steps that name it and its prompt source, each with a lagging
cache. `StartReconcile` does all that only reads, `ReconcileDeployment` creates or applies a merge patch computed
against the *cached* Deployment, `SyncStatus` writes the status and the requeue delay (`wakeAt`). `WatchOne` is each
of the watches that enqueue the agent; `PodsFollow` is Kubernetes.

### ArkService

`ark`, `agents`, `service` are the stored objects, `cache` the informers' copies, `news` the Service's event on its
way, which enqueues the ArkService only if the Service has (or had) its controller reference. A reconcile that finds
no selector or no agent is one step (`ReconcileUnbacked`); else `StartReconcile` copies the cached ArkService and
agent, `ReconcileService` creates, or applies a merge patch computed against the cached Service, and `UpdateStatus`
writes under the optimistic lock. The updates whose error the code drops are `TryUpdate` and the one in
`ServiceFails`.

## What is checked

All passing runs check their properties over the complete state space of the instance, and between them every
action fires.

| Run | Instance | What it shows |
|---|---|---|
| `runtime` | 2 pods (one per provider), 2 MCP servers with an outage, 1 client, 1 sub-task, 1 retry, 1 fault | `OneResultPerTask`, `WorkConserved`, `DeadOnlyWhenExhausted`, `TasksAreKept`, `EveryCallAnswered`, `UsageIsWhole`; `EveryTaskConcludes` if only tasks fail; `ImplementsQueue`, the refinement of `TaskQueue` with its fairness |
| `flow_faults` | a looping step, then a conditional one; 1 pod, budget, timeout, 1 fault of any kind | `TaskIDsCorrelate`, `OutputsAreAnswers`, `DependenciesStayDone`, `VerdictIsEarned`, `TerminalIsFinal`, refinement of `FlowLifecycle`, `NeverForgotten`, `ResumesWhenReady` |
| `flow_fork` | a looping step and two after it, 2 pods, tasks and prompts may fail | `SubmittedOnce`, `FailedStepFailsFlow`, `FieldsAreCurrent`, `FlowSucceeds` |
| `cli` | `ark run`: a diamond, two loops (one over other outputs), two conditions, budget, timeout, failing steps, missing agents, MCP servers that vanish or hang; `ark validate`: 8192 graphs | `ReportsWholeOutcome`, `ExitTellsOutcome`, `VerdictRight`, refinement of `FlowLifecycle`, `CommandReturns` |
| `events` | ten events: three sources, flows watched for Succeeded, Failed and Running, two policies, one or two targets; 1 fault, or 2 callers | `AnswersAreOwn`, `OncePerCause`, `NothingForgotten`, `EveryCauseFires`, `RequestsAnswered` |
| `agent` | 2 steps that use up the budget together, 1 fault or edit | `RestsInAgreement`, `ComesToAgree` |
| `service` | 2 agents, a port list that is refused, a Service that may be there before, 2 faults or edits | `RestsInAgreement`, `ComesToAgree` |

Five further runs refute what the repository says of itself (see below): `flow_retry`, `flow_loopbudget`,
`local_loops`, `event_once`, `event_count`.

Five of the properties are what the liveness of a component comes down to when fairness is taken away: *whenever the
component has come to rest, nothing is left that it should have done*. A queue never loses a task (`TasksAreKept`), a
flow that could go on stays in the work queue until it has ended (`NeverForgotten`), an event has no due time behind
it that it neither fired for nor set a timer for (`NothingForgotten`), and the Deployment or the Service of an object
at rest is the one it asks for, with a status that says so and a timer for a budget that is used up
(`RestsInAgreement`, of `ArkAgent` and of `ArkService`). Each is a safety property, and so can be proved; with the
progress that fairness gives it is most of the liveness property next to it (`EveryTaskConcludes`,
`ResumesWhenReady`, `EveryCauseFires`, `ComesToAgree`).

`ImplementsQueue` is what makes the composition honest: `ArkFlow` is checked with the pods of `TaskQueue`, whose
conversations are one step and whose fairness (`AgentFairness`) is assumed there. `runtime` shows that assumption of
the process in the pod, from nothing but its own progress and the deadline of a task.

### Faults

A *fault* is a step that takes one from a budget of `MaxFaults`; which kinds an instance admits is its `FaultKinds`
(for events, a field of the case).

| Kind | Meaning |
|---|---|
| `queueError` | a Redis command fails; where it matters, whether or not it took effect |
| `apiError` | an API write fails, whether or not it took effect (where the code drops the error, one that took effect is a success) |
| `staleRead` | a reconcile starts from a cache that is behind (ArkFlow, ArkEvent; in ArkAgent caches lag freely) |
| `operatorCrash`, `podStop` | the process ends between any two steps and starts again |
| `agentEdit`, `eventEdit`, `deletion`, `promptEdit`, `deploymentEdit`, `suspend` | users change objects |
| `recreate` | the watched flow is deleted and created again |
| `stepLoop` | a loop clears the completion time of a step |
| `serviceEdit`, `agentChange`, `foreignEdit` | of ArkService: its spec changes or it is deleted, an agent or its pods come and go, somebody edits or deletes the Service |
| `touch` | a write changes only the transition time of a condition, and so the version |
| `taskError`, `promptError` | not counted: where admitted, any task and any prompt may fail, any number of times |
| outages | counted apart (`MaxOutages`): an MCP server answers with errors (`down`) or not at all (`hung`), and may recover |
| lost or hung MCP servers, missing agents | not counted: choices of `LocalExecutor` (`MCPOutages`, `AgentSets`) |
| `noQueue` | not counted: a choice of the initial state, `TASK_QUEUE_URL` may be unset |

### Bounds, and why they are enough

* `MaxFaults = 1` (2 in `service`, where an edit and a lost write may meet): every hazard listed is one fault against an arbitrary interleaving. Conflicts of writers, retries,
  lagging caches of ArkAgent and competing handlers are not faults and happen without bound. What does not depend on
  the number of faults is proved without a bound (below).
* Steps, pods: two steps give a dependency, three a fork whose branches run on two pods at once, four a diamond whose
  join depends on two steps of which one may be skipped. Nothing in the flow logic counts steps.
* `MaxRetries = 1` has a retry and an exhausted retry; loops of one iteration have a reset and a used-up loop, and
  `cli` has one of two.
* `MaxTurns`, `MaxCalls`, `MaxCost` (all 1 in `runtime`): a conversation with one reply that calls a tool and one that
  does not has each transition of the loop, a first and a later turn, with cost or without. The theorems of
  `AgentRuntimeProofs` hold for any number. `NumServers = 2` has a server before and one after the one that fails.
* The graphs of `cli` have all dependencies of three steps on each other, on themselves and on a step that does not
  exist, and a fourth step that may join two of them: cycles of one to three steps, on and off the path of the search.
* Costs and budgets are chosen so that both sides of the limit are reached; timeouts of one tick so that the clock
  may pass before, during and after any step. The clock of each module stops where nothing waits for it any more,
  which is the bound on time; `MaxNow` in `ArkEvent` and `ArkAgent` bounds when new causes and completions appear. In
  `ArkAgent` it goes on until every completion has left the window, whether or not a timer waits for that.
* `MaxRuns` in `ArkEvent`: an event that waits for Running keeps dispatching, and the clock stops with its ninth flow.
  The other events of the instance stop by themselves before that.
* `DueTimes = {1, 3}` with a look-back of 2 ticks: both due times collapse into one, or the first is too old.
* In `agent` both steps complete in the same second; window and buffer are one second each, so that being at the
  edge of the window, and one second past it, are different.
* `MaxSubtasks`, `ClientTasks` bound what others put on the stream. `flow_*` set them to none: what they add is
  checked in `runtime`, and theorems cover any number.

### Fairness

* `WF(Reconcile)`: controller-runtime's worker takes a queued key and a reconcile that runs comes to its end.
  `ArkAgent` needs `SF(Reconcile)`, because a reconcile that cannot resolve the prompt leaves no visible change and
  the other steps need their turn when it can.
* `WF(Watch)`, `WF(Resync)`, `WF(Wake)`: informers deliver, re-list and timers fire.
* `WF(Tick)`: time passes.
* `AgentFairness`: the kubelet restarts pods, some pod polls, and each goroutine ends because `RunTask` has a context
  deadline. Nothing says that a task is answered rather than failed. `ImplementsQueue` derives it, as long as no MCP
  server hangs for good.
* `RuntimeFairness`: `main` proceeds, some pod polls, and the goroutines proceed by themselves (`Concludes`): the
  deadline passes, and what waits for a model or a tool fails then. That a model or a tool ever answers is not assumed.
* `WF(Proceed)` in `ArkCLI`: the command proceeds. A goroutine that has its MCP tools ends, at the deadline of its step
  if need be; of one that waits for a hung server nothing is assumed, and `CommandReturns` says what then happens: the
  command waits for such goroutines and for nothing else (`WaitsForServers`).
* Informers in `ArkService`: one `WF` each, and no resync, which is hours apart.
* `WF(PodsFollow)`: the Deployment controller.
* `WF(ServeRequest)`: a handler proceeds, its poll has a deadline.
* No fault, edit, flow completion or POST is fair: none need ever happen.

Without fairness (`SafetySpec`) all safety properties, the refinement and the theorems hold already.

`CHECK_DEADLOCK FALSE` is set where the system may come to rest: the queue with all tasks settled, a command that
has returned, an event, an agent or a service with nothing due. The ArkFlow runs check deadlock: the resync keeps the controller
alive.

### Where the code does other than it says

Each of these is a run in which TLC finds the quoted sentence violated; `PROJECT.json` has the lines.

| Run | The repository says | The code |
|---|---|---|
| `flow_retry` | `TaskID` correlates results | a retried task answers under a new message ID, so its step stays Running until the timeout, if there is one |
| `flow_loopbudget` | `MaxTokens` is the budget of the entire run | the usage of a loop iteration replaces that of the one before |
| `local_loops` | a step repeats while its condition is truthy | `ark run` decides that the flow has succeeded before it looks at the condition of the last step |
| `event_once` | no second fire for the same completion | the guard reads the cache, which may not have the controller's own write |
| `event_count` | `FiredCount` is the number of fires | a reconcile puts an older status over what the webhook server wrote |

Behaviour met while modelling, kept in the models, and without a run of its own:

* A flow whose agent is deleted while it runs is never timed out: every reconcile returns before it looks.
* The MCP discovery is all or nothing: if one server fails the pod runs with the tools of none, although
  `runtime/agent/main.go:32` says it "runs with whatever tools were successfully discovered". The request has no
  deadline; a pod whose server hangs is restarted by its liveness probe and hangs again.
* Under `ark run` a server that goes away between the two rounds of `buildMCPManager` leaves a nil manager, which
  `runner.New` dereferences: the process panics, where the comment says such servers are silently skipped.
* A server that does not answer the discovery holds `ark run` for good: the step's deadline begins only after it.
* An event with `onPhase: Running` is not enqueued when the watched flow starts to run: the watch looks at Succeeded
  and Failed only (`arkevent_controller.go:439`). If it is reconciled while the flow runs, it fires, and again at every
  reconcile, since the guard asks for a completion time (line 241), and each flow it dispatches brings the next one.
  `OncePerCause`, `NothingForgotten` and `OncePerCompletion` are stated for events that wait for Succeeded or Failed
  (`AwaitsEnd`), for which `arkevent_types.go:65` says that completion fires the trigger. `onPhase: Pending` waits for
  ever: no code sets that phase.
* Usage is counted for answers only: what a failed attempt was charged is dropped with `Nack`, and the usage of
  sub-tasks belongs to no step.
* The reply that ends an openai conversation may hold tool calls, which are dropped if the finish reason is not
  `tool_calls`; anthropic runs them on any stop reason but `end_turn`.
* The semantic readiness probe runs a conversation with all tools, `submit_subtask` included.
* An ArkService keeps `readyReplicas` of an agent that was deleted, and a failed update of its `NoSelector` or
  `DeploymentNotFound` condition is not repeated. A Service of the same name that was there before is patched but
  never owned, so an edit of it goes unnoticed and nothing deletes it; `ComesToAgree` and `RestsInAgreement` start without one.
  Two ports of one protocol get one name, which the API server refuses.
* A loop condition over another step's output may re-open a step whose dependents have already run;
  `DependenciesStayDone` excludes those conditions.
* An output that does not match `OutputSchema` is accepted: the schema only switches JSON parsing on.
* No code reads `MaxConcurrentTasks`: a pod starts every task it polls, although `arkagent_types.go:70` says that it
  is the maximum number of tasks a replica processes in parallel.
* `DailyTokenUsage` is that of the last reconcile: while it is below the limit no next one is asked for, and a
  completion that has left the window stays in it until something else happens to the agent. `ComesToAgree` and
  `RestsInAgreement` of `ArkAgent` therefore say only that it is not too low.
* The budget fails a flow when usage is *above* `MaxTokens`, not when it reaches it.
* Validation overwrites the Ready condition of flows that have ended, when an agent is missing then.
* The group is created at `$`: tasks submitted before the first pod ever connected are never delivered. All agents
  share one group, so any agent's pod may take any step's task.
* `Forbid` looks only at cached flows that are Running: it is best effort, and a forbidden fire is counted and moves
  `LastFiredAt`.
* A synchronous POST to an event with more than one target (or to one that Forbid skips) fires, and then answers 400.
* Names of dispatched flows repeat within a second; the second Create fails. An event that names one flow template
  in two targets therefore fails at the second of them, and starts over with the first whenever it is retried in
  another second: nothing refuses such an event, and `OncePerCause` is stated of events whose last target's flow is
  no other target's.
* The webhook server's status update may conflict with a reconcile, which is logged and loses the count.
* A new cron event fires at once for a due time before it was created.
* `ark run` does not validate the graph, and a valid one is not enough: with steps listed against their dependencies,
  a skip may leave `Run` finding nothing ready and returning with the flow still Running, and the exit code is 0.
  `executor.go:65` says this should not happen after validation. `ExitTellsOutcome` is stated of `ark run` for flows
  listed in order.
* `ark run` ignores a prompt template that does not resolve; the operator fails the step.
* While an agent's prompt is missing its daily budget is not enforced; changes of ArkSettings and ArkMemory reach
  the pods only with a reconcile something else causes.

## What is proved

For all values of the constants - any steps, dependencies, loops, budgets, pods, retries, targets, requests, and any
number of faults of any kind - and without fairness:

| Theorem | States |
|---|---|
| *`TaskQueueProofs`*: the queue, with any clients | |
| `QueueSafe` | `OneResultPerTask`: a task is answered at most once |
| `DeadOnlyWhenRetriesAreSpent` | `DeadOnlyWhenExhausted` |
| `TasksAlwaysKept` | `TasksAreKept`: without a fault every message in the pending list is being run, and each task is to be delivered, is with a goroutine, or has been answered, retried or dead-lettered |
| `WorkIsConserved` | `WorkConserved`: the answers, dead letters and retries of an attempt at a prompt never exceed its submissions: nothing concludes twice |
| *`AgentRuntimeProofs`*: the process in a pod | |
| `RuntimeStepsAreQueueSteps` | every step is a step of `TaskQueue` or a stutter: `ImplementsQueue` without fairness |
| `RuntimeKeepsPromises` | so the queue's invariants hold of the runtime |
| `RuntimeTypesCorrect` | `RuntimeTypeOK`, with the bound on what a conversation costs |
| `EveryCallAlwaysAnswered` | `EveryCallAnswered`: no model is asked while a tool call is unanswered |
| `UsageAlwaysWhole` | `UsageIsWhole`: a result carries all its conversation was charged |
| *`ArkFlowProofs`*: the controller, the queue and the pods | |
| `FlowTypesCorrect` | `TypeOK` of the composed system |
| `EndedFlowStays` | `TerminalIsFinal`: no write changes the phase or steps of an ended flow |
| `FlowImplementsLifecycle` | the controller implements `FlowLifecycle` |
| `TaskIDsAlwaysCorrelate` | every `TaskID`, in the API server, the cache and the working copy, is of its own step and iteration |
| `VerdictAlwaysEarned` | no stored Succeeded over an unfinished step or a spent budget, no stored Failed for nothing |
| `OutputsAlwaysAnswers` | every output in the status is what some agent answered to that very task |
| `FieldsAlwaysCurrent` | no output, JSON or task ID of an earlier iteration is left in a step |
| `DependenciesAlwaysDone` | what a step that has begun depends on stays done |
| `FailedStepAlwaysFails` | a failed step fails its flow, if no Redis command fails |
| `AlwaysSubmittedOnce` | a step's iteration is submitted once, if nothing unreliable happens |
| `FlowNeverForgotten` | `NeverForgotten`: whatever fails, a flow that could go on is in the work queue until it has ended |
| *`ArkCLIProofs`*: `ark run`, `ark validate` | |
| `CLITypesCorrect` | `CLITypeOK` |
| `OutcomeAlwaysWhole` | `ReportsWholeOutcome`: `Run` returns with no step Running, and reports Succeeded only when all is done within the budget |
| `ExitAlwaysTells` | `ExitTellsOutcome` |
| `RunImplementsLifecycle` | `RunsLifecycle`: the executor implements `FlowLifecycle`, with steps that may fail while Running |
| `VerdictAlwaysRight` | whatever graph it is given, `ValidateDAG` accepts only acyclic ones and reports only real cycles |
| `SearchAlwaysAdvances` | what is left of the search is a natural number, and every step of it gives the verdict or makes it less: the search is finite on any graph |
| *`ArkEventProofs`* | |
| `EventTypesCorrect` | `EventTypeOK` |
| `AnswersAlwaysOwn` | `AnswersAreOwn`: a caller is told the truth about his own run |
| `LastTargetOncePerCause` | `OncePerCause`: without a fault, a due time, a request or a completion in the phase waited for, Succeeded or Failed, dispatches the last target once |
| `NothingEverForgotten` | `NothingForgotten`: a controller at rest has fired for, or set a timer for, all due times and the completion it waits for |
| *`ArkAgentProofs`* | |
| `AgentTypesCorrect` | `AgentTypeOK` |
| `BudgetAlwaysHasTimer` | `BudgetHasTimer`, a part of `RestsInAgreement`: at rest, a used up budget has a timer set |
| `AgentAlwaysRestsInAgreement` | `RestsInAgreement` of agents: at rest, Deployment and status are as prompt, replicas and budget demand |
| *`ArkServiceProofs`* | |
| `ServiceTypesCorrect` | `ServiceTypeOK`: also, no status is of a generation still to come |
| `ServiceAlwaysRestsInAgreement` | `RestsInAgreement` of services: at rest, the Service selects the agent's pods and the status tells of them |

Assumptions, which TLC evaluates on every run:

* `OutputAssumption` (costs are natural numbers, `NoOutput` is not an answer), `FlowSpecAssumption` (the spec has a
  list of steps, its conditions and loops are of them, and numbers are natural), `QueueAssumption` (retries and
  bounds are natural), `RuntimeAssumption` (providers are of the two kinds, and `Costs` holds what a conversation of
  the bounds can cost), `GraphsAssumption` (dependencies are sets of numbers), `AgentsAssumption` (the agents found
  are those of steps, and outages are of the two kinds), `PhaseAssumption` (`onPhase` is empty or one of the
  enumerated phases): they say nothing the CRD schema does not.
* `EventAssumption`: an event has a list of targets that is not empty (`MinItems=1`), and due times are times.
* `AgentAssumption`: the steps that name an agent are finitely many, and the margin of the wake-up (a constant minute)
  is not zero. Without it an agent whose oldest step is at the edge would ask for no wake-up.
* `ServiceAssumption`: no agent has the empty name, the ports the API server refuses are among those users set, and
  some are not.
* `FailedStepAlwaysFails` has the hypothesis that `queueError` is no fault of the instance, since a failed `XADD` saves
  a half-done status without a verdict, and `AlwaysSubmittedOnce` that nothing unreliable happens and other clients
  submit other prompts: a crash between `XADD` and the save submits again, which the queue cannot notice.
  The runs check both properties on instances of that kind (`flow_fork`).

### The argument

`QueueInv` strengthens the queue's properties until they are inductive. That a task has one result cannot be shown
alone: it needs that a message has at most one goroutine (`OneWorkerPerTask`), and that nothing beyond the group's
position runs or is answered (`Delivered`), so that the next message polled is fresh. That dead letters are exhausted
needs `AttemptsBounded`. `WorkConserved` is a count: `BalanceInv` says of each prompt and attempt how many messages
there are against how many goroutines, answers, retries and dead letters, and every step moves one of them from one
column to the next. The queue's steps are shown to preserve all this once, and the composed system reuses those
lemmas for `AgentNext`, with every other step either leaving the queue alone or appending to `stream`. `TasksAreKept`
needs that the group, once there, is not created again (`GroupKept`): the next message polled is then the one after
the last, and a goroutine that ends has put something on a stream that settles its task.

`Sound`, of the runtime, adds to `QueueInv` that a conversation exists exactly while its goroutine does and is
complete: usage and bill agree, no call is open that is not left to make, and the usage is what so many replies can
cost, which keeps it in `Costs`. That no two goroutines share a conversation is `OneWorkerPerTask` again. Since every
action of the runtime that moves the queue conjoins one of `TaskQueue`, `RuntimeStepsAreQueueSteps` is a case split,
and the queue's invariants need no second proof.

`DFSInv` of `ArkCLIProofs` is the argument for the three colours: the gray steps are those on the path, each
depends on the next; what a step's loop has passed is gray above it or black; black steps depend on black ones only,
and there is no cycle among them (`BlackAcyclic`), since a step turns black after all it depends on. So a gray
dependency closes a cycle along the path (`CycleIsReal`), and when all roots are visited all steps are black. That the search is finite is a
variant, `LeftToDo`: dependencies to look at, steps to finish and roots to try. A step of the search takes one off one
of the three and adds to none (`StepLeavesLess`); that the step finished was not black yet is `DFSInv` again.

`FlowInv` is the reason for the optimistic lock:

* `CacheBehind`: the cache is never ahead, and an equal version means an equal object.
* `FreshUntilRunning`: a flow that has not started has untouched steps.
* `WorkingCopy`: as long as nobody has written since the copy was read, the stored flow has not ended and the copy
  is a successor of it that `FlowLifecycle` allows. It must be kept through collecting, looping and submitting, and
  it is worth nothing once the version is old - but then the write is refused.

`EveryWrite` shows from these that a write leaves phase and steps alone or replaces a flow that has not ended by a
legal successor. `EndedFlowStays` and `FlowImplementsLifecycle` follow from it. `TaskIDsAlwaysCorrelate` adds
that `stream` only grows and that whatever a step's status is copied from had the property before; `StepsInv`, which
gives `OutputsAlwaysAnswers` and `FieldsAlwaysCurrent`, says the same of `results` for the three statuses there are:
stored, cached and being edited. `VerdictAlwaysEarned` adds that `UpdateFlowPhase` earns the verdict it gives to a
running working copy, that the one write that skips it (`SaveAfterError`) stores a running flow, and that a timeout
that is over stays over. `OnceInv` of `ArkFlowProofs` says that whatever was submitted is recorded in the stored
status between two reconciles and in the working copy during one. For
`NeverForgotten`, `Kept` says it of one moment. It rests on two facts of `FlowInv`: a reconcile which finds an ended
flow in the cache, and asks for nothing more, has seen the flow as it is stored; and one that decides works on a flow
that is Running, which it either ends or asks to see again.

`LocalInv` of `ArkCLIProofs` says that the goroutines awaited are exactly the Running steps and that the phase is what
the place in `Run` allows. The hard part is a batch that has nothing to run: `LastBatchEnds` takes, of a flow listed in
order, the least step that is still Pending; all it depends on is done, so it was ready and would have run or been
skipped. A least number exists because `<` is well founded on the naturals (`LeastNumber`), which is how these proofs
do without induction. `CLIInv` puts the search's `DFSInv` beside it, for the exit code of `ark validate`.

`ArkEventProofs`: a dispatched flow keeps its cause and an ended one its phase (`RunsStay`), so what the lagging cache
shows of an ended flow is true (`SeenBehind`), and a handler keeps the name of a flow it dispatched itself (`Owned`).
For `OncePerCause`, `ReconcilesOnce` says that while a reconcile runs nobody else writes the event, that it fires for
something later than all that is recorded, and that every flow of the last target has its cause recorded or is the
one being recorded; `RequestsOnce` says that a handler which has the last target before it has dispatched none. Both
need that time and completions do not run ahead of the clock. `MemoryInv`, for `NothingForgotten`, follows what is
due through a reconcile: what its cause covers, what falls due while it runs, and what the wake-up it computes from
the schedule covers. A time may fall due while the reconcile runs, which is why the wake-up has to be sought from
when it started (the mutant `WakeUp_AfterSave` shows what goes wrong otherwise).

`ArkAgentProofs`: `TimerSet` lists who is going to look at a used up budget while no reconcile runs: a timer, or the
event of a change of the agent or its Deployment that the cache has not seen. `CacheBehind` turns "not seen" into a
comparison of versions, so that a cache that is current leaves only the timer. That the timer is asked for at all
needs that a budget which is used up was used by somebody: the sum over an empty window is 0 (`UsageType`), and the
oldest step of a window that is not empty lies at most a window back (`DelayType`). The library's sum is recursive;
that it is a number is shown by a smallest set for which it were not (`SmallestSubset`). `RestInv`, for
`RestsInAgreement`, says while a reconcile runs what it has made sure of so far, and after it what its end leaves,
each as far as the caches show the objects as they are: a patch that finds nothing to change proves the Deployment
right only if the cached one is the stored one, and a newer one is an event that is on its way (`PatchAgrees`).

`RestInv` of `ArkServiceProofs` is the same argument for the Service, without versions of it: `news` says whether an
event of it is on its way. `OwnedOK` is what makes the events reach the ArkService at all: a Service that the
controller created has the controller reference until it is gone, and the property starts without a foreign one.

### Only model-checked

Liveness, and all that needs fairness or ENABLED, is beyond the prover: `EveryTaskConcludes`, `ResumesWhenReady`,
`FlowSucceeds`, `CommandReturns`, `EveryCauseFires`, `RequestsAnswered`, `ComesToAgree` (of agents and of services),
and the fairness half of `ImplementsQueue`. The safety half of most of them is proved, as said above; of
`CommandReturns`, that the search is finite (`SearchAlwaysAdvances`). That a run of the executor is finite would need a
sum over the loops of all steps, so induction over data. Every invariant and every
action property that a passing run checks is proved.

## What is not modelled

* *Health probe*: a stateless handler. *ArkMemory and ArkSettings controllers*: read one object, write its condition.
* *Operator main*: flags and wiring. *Generated code, manifests, tests, docs.*
* Of the CLI: `ark init`, progress and result texts, the choice of a provider. Of the runtime: texts, schemas and the
  offer of tools, configurations that do not load, a missing API key.
* Inside modelled components: an `XACK` that fails although the `XADD` after it works; an `XADD` that the Redis
  client repeats by itself; a flow's spec edited while it runs; two steps of one name; rendered text, total usage
  and output for display; rejected specs of events (bad cron expression, no source) and malformed requests; input
  templates of an event's targets; edits of ArkSettings and ArkMemory; ready replicas apart from replicas; flows that
  are deleted with their usage.
* `Problem` of `ArkFlow` looks at agents and events as they are, the code (`arkflow_controller.go:84`, 262-294) through
  the informers' caches. A reconcile that sees an older view decides whether to go on as one before the edit would,
  and keeps nothing of it but the reason; the liveness properties take for granted (`Ready`) that agents and events
  are in place for good, so that every cache shows them in the end.

## Plan

Done, in this order: `FlowLogic` and `TaskQueue` first, since the controller is their composition; `ArkFlow` with
`FlowLifecycle`, the heart of the system; its proofs; `LocalExecutor`, `ArkEvent`, `ArkAgent`; then `ValidateDAG` and
`ArkCLI`, `AgentRuntime` as the refinement of `TaskQueue`, `ArkService`; then the proofs of every safety invariant of
all components; then, for what is live, the safety property that says that a component at rest has nothing left to
do, and its proof.

What could follow:

1. `OncePerCause` for the targets that are not the last: what a retried fire repeats, and what it does not.
2. ArkMemory and ArkSettings as part of `ArkAgent`, with their edits.
3. Specs of flows and events that are edited while they run.
