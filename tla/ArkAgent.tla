------------------------------- MODULE ArkAgent -------------------------------
(***************************************************************************)
(* The ArkAgent controller (internal/controller/arkagent_controller.go):   *)
(* it keeps the Deployment of one agent at the wanted number of replicas   *)
(* and the current prompt, and scales it to 0 while the agent's steps have *)
(* used up the daily token budget.                                         *)
(*                                                                         *)
(* Every object is read from an informer cache, which lags behind the API  *)
(* server: the agent, its Deployment, the flows and the prompt source.     *)
(***************************************************************************)
EXTENDS Integers, FiniteSets, FiniteSetsExt

CONSTANTS
  Limits,      \* Spec.Limits.MaxDailyTokens: what users set it to, 0 for no limit
  Replicas,    \* Spec.Replicas: what users set it to
  FlowSteps,   \* the steps, of any flow, that name the agent
  Costs,       \* the tokens a step may use
  Window,      \* the 24 hours of the budget
  Buffer,      \* the minute added to the wake-up time
  FaultKinds,  \* what may go wrong, or be edited
  MaxFaults,   \* bound: how often
  MaxNow       \* bound: the clock goes on only while the controller waits for it

ASSUME AgentAssumption ==
  /\ Limits \subseteq Nat /\ Replicas \subseteq Nat /\ Costs \subseteq Nat
  /\ {Window, Buffer, MaxFaults, MaxNow} \subseteq Nat /\ Buffer > 0 /\ IsFiniteSet(FlowSteps)

VARIABLES
  agent,      \* in the API server: [version, gone, limit, replicas, status]
  deployment, \* [version, exists, replicas, prompt, pods]
  used,       \* CompletionTime (0 for nil) and TokenUsage of the steps
  prompt,     \* what systemPromptRef refers to, 0 when it is missing
  cache,      \* the informer caches: [agent, deployment, used, prompt]
  now, wanted, wakeAt,
  pc,         \* where the reconcile is: idle, apply, sync
  copy,       \* its copy of the agent's status
  version,    \* the resourceVersion of the agent it has read
  desired,    \* the Deployment it has built
  delay,      \* the requeue reconcileDailyBudget asked for
  faults

reconcileVars == <<pc, copy, version, desired, delay>>
queueVars == <<wanted, wakeAt>>
worldVars == <<agent, deployment, used, prompt>>
vars == <<worldVars, cache, now, queueVars, reconcileVars, faults>>

(* DailyTokenUsage, the BudgetExceeded condition, and Replicas with
   ReadyReplicas as one number.  The prompt of a Deployment stands for its pod
   template: the environment of the agent, which is a function of what the
   reconcile has read, and the hash that restarts the pods. *)
AgentStatus == [usage : Nat, exceeded : BOOLEAN, pods : Nat]
Agent == [version : Nat, gone : BOOLEAN, limit : Limits, replicas : Replicas,
          status : AgentStatus]
Deployment == [version : Nat, exists : BOOLEAN, replicas : Nat, prompt : Nat, pods : Nat]

NewStatus == [usage |-> 0, exceeded |-> FALSE, pods |-> 0]
NoDeployment == [version |-> 0, exists |-> FALSE, replicas |-> 0, prompt |-> 0, pods |-> 0]

Current == [agent |-> agent, deployment |-> deployment, used |-> used, prompt |-> prompt]

Init ==
  /\ agent \in [version : {0}, gone : {FALSE}, limit : Limits, replicas : Replicas,
                status : {NewStatus}]
  /\ deployment = NoDeployment
  /\ used = [s \in FlowSteps |-> [at |-> 0, tokens |-> 0]]
  /\ prompt = 1
  /\ cache = Current
  /\ now = 1 /\ wanted = TRUE /\ wakeAt = 0
  /\ pc = "idle" /\ copy = NewStatus /\ version = 0 /\ desired = NoDeployment /\ delay = 0
  /\ faults = 0

AgentTypeOK ==
  /\ agent \in Agent /\ cache.agent \in Agent
  /\ deployment \in Deployment /\ cache.deployment \in Deployment /\ desired \in Deployment
  /\ used \in [FlowSteps -> [at : Nat, tokens : Nat]]
  /\ {prompt, now, wakeAt, version, delay, faults} \subseteq Nat
  /\ wanted \in BOOLEAN
  /\ pc \in {"idle", "apply", "sync"}
  /\ copy \in AgentStatus

NoFault == UNCHANGED faults
Fault(kind) == kind \in FaultKinds /\ faults < MaxFaults /\ faults' = faults + 1
-----------------------------------------------------------------------------
(* The steps whose completion lies in the window; one at its very edge does. *)
InWindow(steps) == {s \in FlowSteps : steps[s].at > 0 /\ steps[s].at >= now - Window}
UsageIn(steps) == MapThenSumSet(LAMBDA s : steps[s].tokens, InWindow(steps))

Exceeds(limit, steps) == limit > 0 /\ UsageIn(steps) >= limit

(* Mutant: the controller wakes up when the oldest step is at the edge. *)
RequeueDelay_NoBuffer(limit, steps) ==
  IF Exceeds(limit, steps)
  THEN Min({steps[s].at : s \in InWindow(steps)}) + Window - now
  ELSE 0

(* How long until the oldest step leaves the window; 0 asks for nothing. *)
RequeueDelay(limit, steps) ==
  IF Exceeds(limit, steps)
  THEN Min({steps[s].at : s \in InWindow(steps)}) + Window - now + Buffer
  ELSE 0

(* reconcileDailyBudget on a status.  The step loop leaves a step out that a
   loop has put back to Pending. *)
Budgeted(status, limit, steps) ==
  [status EXCEPT !.usage = IF limit > 0 THEN UsageIn(steps) ELSE 0,
                 !.exceeded = Exceeds(limit, steps)]

(* Mutant: an exceeded budget takes the agent's replicas off those there are. *)
Desired_Relative(a, exceeded) ==
  [version |-> 0, exists |-> TRUE, prompt |-> cache.prompt, pods |-> 0,
   replicas |-> IF exceeded THEN cache.deployment.replicas - a.replicas ELSE a.replicas]

(* buildDeployment. *)
Desired(a, exceeded) ==
  [version |-> 0, exists |-> TRUE, replicas |-> IF exceeded THEN 0 ELSE a.replicas,
   prompt |-> cache.prompt, pods |-> 0]

CanUpdate == version = agent.version /\ ~agent.gone
StoredStatus(status) ==
  IF status = agent.status THEN agent
  ELSE [agent EXCEPT !.version = @ + 1, !.status = status]

Return == pc' = "idle" /\ copy' = NewStatus /\ version' = 0 /\ desired' = NoDeployment /\ delay' = 0
-----------------------------------------------------------------------------
(* Not found, or being deleted. *)
ReconcileGone ==
  /\ pc = "idle" /\ wanted /\ cache.agent.gone
  /\ wanted' = FALSE
  /\ UNCHANGED <<worldVars, cache, now, wakeAt, reconcileVars, faults>>

(* The prompt cannot be resolved: nothing else is done, and it is tried again. *)
PromptFails ==
  /\ pc = "idle" /\ wanted /\ ~cache.agent.gone /\ cache.prompt = 0
  /\ UNCHANGED <<worldVars, cache, now, queueVars, reconcileVars, faults>>

(* Everything that only reads: the prompt, the steps, the budget. *)
StartReconcile ==
  LET a == cache.agent
      status == Budgeted(a.status, a.limit, cache.used)
  IN /\ pc = "idle" /\ wanted /\ ~a.gone /\ cache.prompt # 0
     /\ copy' = status /\ version' = a.version
     /\ desired' = Desired(a, status.exceeded)
     /\ delay' = RequeueDelay(a.limit, cache.used)
     /\ wanted' = FALSE
     /\ pc' = "apply"
     /\ UNCHANGED <<worldVars, cache, now, wakeAt, faults>>

(* Mutant: the patch leaves the prompt alone. *)
Patched_OnlyReplicas(d) == [d EXCEPT !.replicas = desired.replicas]

(* A merge patch holds the fields in which the cached Deployment differs. *)
Patched(d) ==
  LET old == cache.deployment IN
  [d EXCEPT !.replicas = IF desired.replicas # old.replicas THEN desired.replicas ELSE @,
            !.prompt = IF desired.prompt # old.prompt THEN desired.prompt ELSE @]

(* Every write that changes it makes a version, so that the informer sees it. *)
Written(d) == IF d = deployment THEN deployment ELSE [d EXCEPT !.version = deployment.version + 1]

CreateOrPatch ==
  \/ ~cache.deployment.exists /\ ~deployment.exists /\ deployment' = Written(desired)
  \/ cache.deployment.exists /\ deployment.exists /\ deployment' = Written(Patched(deployment))

ReconcileDeployment ==
  /\ pc = "apply" /\ CreateOrPatch
  /\ pc' = "sync"
  /\ UNCHANGED <<agent, used, prompt, cache, now, queueVars, copy, version, desired,
                 delay, faults>>

(* It exists although the cache says it does not, or the reverse; or the API
   server fails, whether or not the write took effect.  The status, with the
   condition of the budget, is written; an error of that is ignored. *)
DeploymentFails ==
  LET reported == IF CanUpdate THEN StoredStatus(copy) ELSE agent
  IN /\ pc = "apply"
     /\ \/ /\ cache.deployment.exists # deployment.exists /\ NoFault
           /\ agent' = reported /\ UNCHANGED deployment
        \/ /\ Fault("apiError")
           /\ agent' \in {agent, reported}
           /\ UNCHANGED deployment \/ CreateOrPatch
     /\ wanted' = TRUE /\ Return
     /\ UNCHANGED <<used, prompt, cache, now, wakeAt>>

(* RequeueAfter; the work queue keeps an earlier time it already waits for. *)
WakeUp ==
  LET timers == ({wakeAt} \ {0}) \cup (IF delay > 0 THEN {now + delay} ELSE {})
  IN IF timers = {} THEN 0 ELSE Min(timers)

Synced == StoredStatus([copy EXCEPT !.pods = cache.deployment.pods])

(* A Deployment that has not arrived in the cache leaves the status alone. *)
SyncStatus ==
  /\ pc = "sync"
  /\ \/ ~cache.deployment.exists /\ UNCHANGED agent
     \/ cache.deployment.exists /\ CanUpdate /\ agent' = Synced
  /\ wakeAt' = WakeUp
  /\ Return
  /\ UNCHANGED <<deployment, used, prompt, cache, now, wanted, faults>>

SyncFails ==
  /\ pc = "sync" /\ cache.deployment.exists
  /\ \/ ~CanUpdate /\ NoFault /\ UNCHANGED agent
     \/ Fault("apiError") /\ (UNCHANGED agent \/ (CanUpdate /\ agent' = Synced))
  /\ wanted' = TRUE /\ Return
  /\ UNCHANGED <<deployment, used, prompt, cache, now, wakeAt>>

Reconcile ==
  \/ ReconcileGone \/ PromptFails \/ StartReconcile
  \/ ReconcileDeployment \/ DeploymentFails \/ SyncStatus \/ SyncFails
-----------------------------------------------------------------------------
(* The informers.  Each watch enqueues the agent: its own object, the Deployment
   it owns, a flow that names it (flowToAgents), the ConfigMap or Secret of its
   prompt (configMapToAgents, secretToAgents). *)
WatchOne(object) ==
  /\ cache[object] # Current[object]
  /\ cache' = [cache EXCEPT ![object] = Current[object]]
  /\ wanted' = TRUE
  /\ UNCHANGED <<worldVars, now, wakeAt, reconcileVars, faults>>

Watch == \E object \in {"agent", "deployment", "used", "prompt"} : WatchOne(object)

Wake ==
  /\ wakeAt # 0 /\ now >= wakeAt
  /\ wanted' = TRUE /\ wakeAt' = 0
  /\ UNCHANGED <<worldVars, cache, now, reconcileVars, faults>>

Tick ==
  /\ now < MaxNow \/ now < wakeAt \/ InWindow(used) # {}
  /\ now' = now + 1
  /\ UNCHANGED <<worldVars, cache, queueVars, reconcileVars, faults>>

environmentRest == <<cache, now, queueVars, reconcileVars>>

(* The Deployment controller brings the pods up or down. *)
PodsFollow ==
  /\ deployment.exists /\ deployment.pods # deployment.replicas
  /\ deployment' = Written([deployment EXCEPT !.pods = deployment.replicas])
  /\ UNCHANGED <<agent, used, prompt, environmentRest, faults>>

(* The flow controller completes a step, or puts it back to Pending in a loop. *)
StepCompletes(s) ==
  /\ used[s].at = 0 /\ now <= MaxNow
  /\ \E cost \in Costs : used' = [used EXCEPT ![s] = [at |-> now, tokens |-> cost]]
  /\ UNCHANGED <<agent, deployment, prompt, environmentRest, faults>>

StepLoops(s) ==
  /\ used[s].at # 0 /\ Fault("stepLoop")
  /\ used' = [used EXCEPT ![s].at = 0]
  /\ UNCHANGED <<agent, deployment, prompt, environmentRest>>

(* Users edit the agent, the prompt or the Deployment. *)
EditAgent ==
  /\ Fault("agentEdit") /\ ~agent.gone
  /\ \E gone \in BOOLEAN, limit \in Limits, replicas \in Replicas :
       agent' = [agent EXCEPT !.version = @ + 1, !.gone = gone, !.limit = limit,
                              !.replicas = replicas]
  /\ UNCHANGED <<deployment, used, prompt, environmentRest>>

EditPrompt ==
  /\ Fault("promptEdit")
  /\ prompt' \in {0, 1, 2} \ {prompt}
  /\ UNCHANGED <<agent, deployment, used, environmentRest>>

EditDeployment ==
  /\ Fault("deploymentEdit") /\ deployment.exists
  /\ \/ deployment' = Written(NoDeployment)
     \/ \E n \in Replicas \cup {0} : deployment' = Written([deployment EXCEPT !.replicas = n])
  /\ UNCHANGED <<agent, used, prompt, environmentRest>>

RestartOperator ==
  /\ Fault("operatorCrash")
  /\ cache' = Current
  /\ wanted' = TRUE /\ wakeAt' = 0 /\ Return
  /\ UNCHANGED <<worldVars, now>>

Environment ==
  \/ Watch \/ Wake \/ Tick \/ PodsFollow
  \/ \E s \in FlowSteps : StepCompletes(s) \/ StepLoops(s)
  \/ EditAgent \/ EditPrompt \/ EditDeployment \/ RestartOperator

Next == Reconcile \/ Environment

(* The worker, every informer, timers, time and Kubernetes make progress. *)
Spec ==
  /\ Init /\ [][Next]_vars
  /\ SF_vars(Reconcile) /\ WF_vars(Watch) /\ WF_vars(Wake) /\ WF_vars(Tick) /\ WF_vars(PodsFollow)
-----------------------------------------------------------------------------
Settled == ~agent.gone /\ prompt # 0

(* The Deployment runs the current prompt on the wanted replicas, and on none while
   the budget is used up. *)
DeploymentRight ==
  /\ deployment.exists /\ deployment.prompt = prompt
  /\ deployment.replicas = IF Exceeds(agent.limit, used) THEN 0 ELSE agent.replicas

(* The status tells the truth about the budget and the pods.  The published usage
   is that of the last reconcile: while it is below the limit no time is set for the
   next, so it may be too high, but not too low. *)
StatusRight ==
  /\ agent.status.exceeded = Exceeds(agent.limit, used)
  /\ agent.limit > 0 => UsageIn(used) <= agent.status.usage
  /\ agent.status.pods = deployment.pods

(* Once the agent's prompt is there for good, both come to be so: whichever cache
   lagged when a patch was computed, whoever edited the Deployment, and also when
   nothing but time gives the budget back. *)
ComesToAgree == <>[]Settled => <>[](DeploymentRight /\ StatusRight)

(* Nothing is left to do: no reconcile runs, the key is not queued and every event
   has been delivered. *)
AtRest == pc = "idle" /\ ~wanted /\ cache = Current

(* A budget that is found used up is never forgotten: at rest, an agent whose
   published condition holds has a timer set.  That it is not set too early, while
   the steps still count, is what ComesToAgree and WorkIsDone find out. *)
BudgetHasTimer == AtRest /\ ~agent.gone /\ agent.status.exceeded => wakeAt > 0

(* What is to be done has been done: at rest the Deployment runs the current prompt
   on the replicas that the published condition allows, the status has its pods, and
   a budget that is used up has been noticed. *)
WorkIsDone ==
  AtRest /\ Settled =>
    /\ deployment.exists /\ deployment.prompt = prompt
    /\ deployment.replicas = IF agent.status.exceeded THEN 0 ELSE agent.replicas
    /\ agent.status.pods = deployment.pods
    /\ Exceeds(agent.limit, used) => agent.status.exceeded
    /\ agent.limit > 0 => UsageIn(used) <= agent.status.usage

(* The controller never rests with work left over, now or for later, whatever failed,
   conflicted or was read too early on the way there. *)
RestsInAgreement == BudgetHasTimer /\ WorkIsDone
=============================================================================
