---------------------------- MODULE LocalExecutor ----------------------------
(***************************************************************************)
(* ark run: the executor of the CLI (internal/ark/local), which drives a   *)
(* flow through the same flow logic as the operator but without a queue.   *)
(* It works in batches: all ready steps run at once, each in a goroutine   *)
(* of its own that calls the model directly, and all their results are in  *)
(* before the next batch is looked for.                                    *)
(***************************************************************************)
EXTENDS FlowLogic

CONSTANTS
  StepErrors,  \* whether a step may fail: a model error, a timeout
  MCPOutages,  \* what an MCP server may do while it is connected to: lost, it goes
               \* away after it answered once; hung, it never answers
  AgentSets    \* the steps whose agent the loaded file may have

ASSUME AgentsAssumption == AgentSets \subseteq SUBSET Step /\ MCPOutages \subseteq {"lost", "hung"}

VARIABLES
  agents,   \* the steps whose agent was loaded
  f,        \* the status of the flow, kept in memory
  now,      \* the clock
  running,  \* the steps whose results are not in yet
  hung,     \* those of them that wait for an MCP server that never answers
  pc        \* where Run is: load, batch, collect, returned, or the process crashed

vars == <<agents, f, now, running, hung, pc>>

Init ==
  /\ agents \in AgentSets
  /\ f = NewStatus
  /\ now = 0
  /\ running = {}
  /\ hung = {}
  /\ pc = "load"

LocalTypeOK ==
  /\ agents \subseteq Step
  /\ f \in Status
  /\ now \in Nat
  /\ running \subseteq Step /\ hung \subseteq Step
  /\ pc \in {"load", "batch", "collect", "returned", "crashed"}
-----------------------------------------------------------------------------
(* runFlow hands the flow to Run without validating it. *)
Start ==
  /\ pc = "load"
  /\ f' = InitializeSteps(f, now)
  /\ pc' = "batch"
  /\ UNCHANGED <<agents, now, running, hung>>

(* Mutant: a skipped dependency is not done. *)
DepsMet_OnlySucceeded(g, skipped, s) ==
  \A d \in DependsOn[s] : d \in Step /\ g.steps[d].phase = "Succeeded"

(* Mutant: a dependency that is ready is as good as done. *)
DepsMet_Ready(g, skipped, s) ==
  \A d \in DependsOn[s] : d \in Step /\ DepsSucceeded(g, d)

(* A step is looked at after the steps before it in the spec: a dependency that
   was skipped in this very pass counts only if it comes first. *)
DepsMet(g, skipped, s) ==
  \A d \in DependsOn[s] :
    d \in Step /\ (g.steps[d].phase \in Done \/ (d < s /\ d \in skipped))

(* The steps one pass of collectReadySteps may mark Skipped: each is reached with
   what it depends on done, or skipped before it in the same pass. *)
MaySkip(g, skipped) ==
  \A s \in skipped : g.steps[s].phase = "Pending" /\ DepsMet(g, skipped, s)

ReadySteps(g, skipped) ==
  {s \in Step \ skipped : g.steps[s].phase = "Pending" /\ DepsMet(g, skipped, s)}

SetPhase(g, steps, phase) ==
  [g EXCEPT !.steps = [s \in Step |-> IF s \in steps THEN [@[s] EXCEPT !.phase = phase] ELSE @[s]]]

(* One pass of the loop up to the channel reads: loops, the conditions that do
   not hold, and the goroutines of the ready steps.  With none ready Run gives up. *)
NextBatch ==
  /\ pc = "batch" /\ ~IsTerminalPhase(f.phase)
  /\ \E verdict \in [CrossLoop -> BOOLEAN], skipped \in SUBSET Conditional :
       LET g == EvaluateLoops(f, verdict)
           ready == ReadySteps(g, skipped)
           h == SetPhase(g, skipped, "Skipped")
       IN /\ MaySkip(g, skipped)
          /\ IF ready = {}
             THEN f' = UpdateFlowPhase(h, now) /\ pc' = "returned" /\ running' = {}
             ELSE f' = SetPhase(h, ready, "Running") /\ pc' = "collect" /\ running' = ready
  /\ UNCHANGED <<agents, now, hung>>

(* buildMCPManager asks each server of the step's agent for its tools with a request
   that has no deadline, and before there is a context for the step: whoever does
   not answer holds the goroutine for good, and the batch with it. *)
ServerHangs(s) ==
  /\ pc = "collect" /\ s \in (running \cap agents) \ hung /\ "hung" \in MCPOutages
  /\ hung' = hung \cup {s}
  /\ UNCHANGED <<agents, f, now, running, pc>>

(* A result arrives on the channel; the order is that of the agents. *)
StepSucceeds(s) ==
  /\ pc = "collect" /\ s \in (running \cap agents) \ hung
  /\ \E output \in Outputs, tokens \in Costs :
       f' = [f EXCEPT !.steps[s].phase = "Succeeded", !.steps[s].output = output,
                      !.steps[s].tokens = tokens]
  /\ running' = running \ {s}
  /\ UNCHANGED <<agents, now, hung, pc>>

(* The agent is not in the file, or its task fails, at its deadline if need be. *)
StepFails(s) ==
  /\ pc = "collect" /\ s \in running \ hung /\ (StepErrors \/ s \notin agents)
  /\ f' = SetPhase(f, {s}, "Failed")
  /\ running' = running \ {s}
  /\ UNCHANGED <<agents, now, hung, pc>>

(* buildMCPManager connects to each server by itself, to leave out those that do
   not answer, and then to all that did.  If one of these is gone by then the
   manager is nil, and runner.New uses it: the process ends with all its steps. *)
StepPanics(s) ==
  /\ pc = "collect" /\ s \in (running \cap agents) \ hung /\ "lost" \in MCPOutages
  /\ pc' = "crashed"
  /\ UNCHANGED <<agents, f, now, running, hung>>

(* Mutant: the batch is over with its first result. *)
EndBatch_EarlyReturn ==
  /\ pc = "collect" /\ (running = {} \/ Cardinality(running) < NumSteps)
  /\ f' = UpdateFlowPhase(ParseOutputJSON(f), now)
  /\ pc' = "batch" /\ running' = {}
  /\ UNCHANGED <<agents, now, hung>>

EndBatch ==
  /\ pc = "collect" /\ running = {}
  /\ f' = UpdateFlowPhase(ParseOutputJSON(f), now)
  /\ pc' = "batch"
  /\ UNCHANGED <<agents, now, running, hung>>

ReturnFinished ==
  /\ pc = "batch" /\ IsTerminalPhase(f.phase)
  /\ pc' = "returned"
  /\ UNCHANGED <<agents, f, now, running, hung>>

(* The clock, until the timeout is over. *)
Tick ==
  /\ pc \in {"batch", "collect"} /\ TimeoutSeconds > 0 /\ now <= TimeoutSeconds
  /\ now' = now + 1
  /\ UNCHANGED <<agents, f, running, hung, pc>>

Run ==
  \/ Start \/ NextBatch \/ EndBatch \/ ReturnFinished
  \/ \E s \in Step : StepSucceeds(s) \/ StepFails(s) \/ StepPanics(s)

Next == Run \/ Tick \/ (\E s \in Step : ServerHangs(s))

(* A goroutine that has its MCP tools ends, at the deadline of its step if need be
   (runStep); one that still waits for them ends only if the servers answer. *)
Spec == Init /\ [][Next]_vars /\ WF_vars(Run)
-----------------------------------------------------------------------------
(* Run keeps the promise of FlowLifecycle, with steps that may fail while they
   are Running. *)
View ==
  [s \in Step |-> [phase |-> f.steps[s].phase, iter |-> f.steps[s].iter]]
Lifecycle == INSTANCE FlowLifecycle WITH
  phase <- f.phase, steps <- View, RunEnds <- {"Succeeded", "Failed"}
RunsLifecycle == Lifecycle!Spec

(* When Run returns no goroutine is still at work on a step, and
   if it reports Succeeded (runFlow prints it) all is done, within the budget. *)
ReportsWholeOutcome ==
  pc = "returned" =>
    /\ \A s \in Step : f.steps[s].phase # "Running"
    /\ f.phase = "Succeeded" => AllDone(f) /\ ~OverBudget(f)
-----------------------------------------------------------------------------
(* arkflow_types.go: a loop step repeats while its condition is truthy, up to
   MaxIterations, so a flow that succeeded has no step left to repeat. *)
LoopsRunOut ==
  f.phase = "Succeeded" => \A s \in Step \ CrossLoop : ~LoopsAgain(f, s, <<>>)
=============================================================================
