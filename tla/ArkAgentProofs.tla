--------------------------- MODULE ArkAgentProofs ---------------------------
(***************************************************************************)
(* Proofs about ArkAgent, for any agent, steps, budgets and faults.        *)
(***************************************************************************)
EXTENDS ArkAgent, FiniteSetTheorems, WellFoundedInduction, TLAPS

(***************************************************************************)
(* The usage in the window is a number, and none if the window is empty.   *)
(***************************************************************************)
Pick(S) == CHOOSE s \in S : TRUE

(* g adds up the tokens of every subset of S the way MapThenSumSet does. *)
Adds(g, S, steps) ==
  g = [T \in SUBSET S |-> IF T = {} THEN 0 ELSE steps[Pick(T)].tokens + g[T \ {Pick(T)}]]

LEMMA UsageAdds ==
  ASSUME NEW steps, NEW S, S = InWindow(steps)
  PROVE  UsageIn(steps) = (CHOOSE g : Adds(g, S, steps))[S]
  BY DEF UsageIn, MapThenSumSet, MapThenFoldSet, Adds, Pick

LEMMA AddsAt ==
  ASSUME NEW steps, NEW S, NEW g, Adds(g, S, steps), NEW T \in SUBSET S
  PROVE  g[T] = IF T = {} THEN 0 ELSE steps[Pick(T)].tokens + g[T \ {Pick(T)}]
<1> DEFINE value(U) == IF U = {} THEN 0 ELSE steps[Pick(U)].tokens + g[U \ {Pick(U)}]
<1>1. g = [U \in SUBSET S |-> value(U)]
  BY DEF Adds
<1> HIDE DEF value
<1>2. g[T] = value(T)
  BY <1>1
<1> QED BY <1>2 DEF value

(* Induction over the subsets of a finite set: of a set of them one is smallest. *)
LEMMA SmallestSubset ==
  ASSUME NEW S, IsFiniteSet(S), NEW Bad \in SUBSET (SUBSET S), Bad # {}
  PROVE  \E T \in Bad : \A U \in SUBSET T : U \in Bad => U = T
<1>1. IsWellFoundedOn(StrictSubsetOrdering(S), SUBSET S)
  BY FS_StrictSubsetOrderingWellFounded, FS_FiniteSubsetsOfFinite
<1>2. PICK T \in Bad : \A U \in Bad : ~(<<U, T>> \in StrictSubsetOrdering(S))
  BY <1>1, WFMin
<1>3. ASSUME NEW U \in SUBSET T, U \in Bad, U # T PROVE FALSE
  BY <1>2, <1>3 DEF StrictSubsetOrdering
<1> QED BY <1>3

LEMMA PickIsIn ==
  ASSUME NEW T, T # {}
  PROVE  Pick(T) \in T /\ T \ {Pick(T)} \in SUBSET T /\ T \ {Pick(T)} # T
<1>1. Pick(T) \in T
  BY DEF Pick
<1> QED BY <1>1

LEMMA AddsAgree ==
  ASSUME NEW steps, NEW S, IsFiniteSet(S), NEW A \in SUBSET S, NEW B \in SUBSET S,
         NEW g, Adds(g, A, steps), NEW h, Adds(h, B, steps)
  PROVE  \A T \in SUBSET (A \cap B) : g[T] = h[T]
<1> DEFINE Bad == {T \in SUBSET (A \cap B) : g[T] # h[T]}
<1>1. SUFFICES ASSUME Bad # {} PROVE FALSE
  OBVIOUS
<1>2. PICK T \in Bad : \A U \in SUBSET T : U \in Bad => U = T
  <2>1. Bad \in SUBSET (SUBSET S)
    OBVIOUS
  <2> HIDE DEF Bad
  <2> QED BY <1>1, <2>1, SmallestSubset
<1>3. T \in SUBSET A /\ T \in SUBSET B /\ g[T] # h[T]
  OBVIOUS
<1>4. T # {}
  BY <1>3, AddsAt
<1>5. g[T \ {Pick(T)}] = h[T \ {Pick(T)}]
  BY <1>2, <1>3, <1>4, PickIsIn
<1>6. /\ g[T] = steps[Pick(T)].tokens + g[T \ {Pick(T)}]
      /\ h[T] = steps[Pick(T)].tokens + h[T \ {Pick(T)}]
  BY <1>3, <1>4, AddsAt
<1> QED BY <1>3, <1>5, <1>6

(* There is such a function: built from those of the smaller sets. *)
LEMMA AddsExists ==
  ASSUME NEW steps, NEW S, IsFiniteSet(S)
  PROVE  \E g : Adds(g, S, steps)
<1> DEFINE Bad == {T \in SUBSET S : ~\E g : Adds(g, T, steps)}
<1>1. SUFFICES ASSUME Bad # {} PROVE FALSE
  OBVIOUS
<1>2. PICK A \in Bad : \A U \in SUBSET A : U \in Bad => U = A
  <2>1. Bad \in SUBSET (SUBSET S)
    OBVIOUS
  <2> HIDE DEF Bad
  <2> QED BY <1>1, <2>1, SmallestSubset
<1> DEFINE of(T) == CHOOSE g : Adds(g, T, steps)
           value(T) == IF T = {} THEN 0
                       ELSE steps[Pick(T)].tokens + of(T \ {Pick(T)})[T \ {Pick(T)}]
           sum == [T \in SUBSET A |-> value(T)]
<1>3. ASSUME NEW T \in SUBSET A, T # A PROVE Adds(of(T), T, steps)
  <2>1. \E g : Adds(g, T, steps)
    BY <1>2, <1>3
  <2> QED BY <2>1
<1>4. ASSUME NEW T \in SUBSET A, T # A PROVE sum[T] = of(T)[T]
  <2>1. Adds(of(T), T, steps) /\ T \in SUBSET T
    BY <1>3, <1>4
  <2>2. of(T)[T] = IF T = {} THEN 0 ELSE steps[Pick(T)].tokens + of(T)[T \ {Pick(T)}]
    BY <2>1, AddsAt
  <2>3. CASE T = {}
    BY <2>2, <2>3
  <2>4. CASE T # {}
    <3> DEFINE U == T \ {Pick(T)}
    <3>1. U \in SUBSET T /\ U # A /\ U \in SUBSET A
      BY <1>4, <2>4, PickIsIn
    <3>2. Adds(of(U), U, steps)
      BY <1>3, <3>1
    <3>3. U \in SUBSET (T \cap U) /\ T \in SUBSET S /\ U \in SUBSET S
      BY <3>1
    <3> HIDE DEF U, of
    <3>4. of(T)[U] = of(U)[U]
      BY <2>1, <3>2, <3>3, AddsAgree
    <3>5. of(T)[T] = steps[Pick(T)].tokens + of(U)[U]
      BY <2>2, <2>4, <3>4 DEF U
    <3>6. sum[T] = value(T)
      OBVIOUS
    <3> QED BY <2>4, <3>5, <3>6 DEF U
  <2> QED BY <2>3, <2>4
<1>5. ASSUME NEW T \in SUBSET A
      PROVE  value(T) = IF T = {} THEN 0 ELSE steps[Pick(T)].tokens + sum[T \ {Pick(T)}]
  <2>1. CASE T = {}
    BY <2>1
  <2>2. CASE T # {}
    <3> DEFINE U == T \ {Pick(T)}
    <3>1. U \in SUBSET A /\ U # A
      BY <2>2, PickIsIn
    <3>2. sum[U] = of(U)[U]
      BY <1>4, <3>1
    <3> HIDE DEF of, sum
    <3> QED BY <2>2, <3>2
  <2> QED BY <2>1, <2>2
<1>6. Adds(sum, A, steps)
  <2> HIDE DEF value
  <2>1. sum = [T \in SUBSET A |-> value(T)]
    OBVIOUS
  <2> HIDE DEF sum
  <2> QED BY <1>5, <2>1 DEF Adds
<1> QED BY <1>2, <1>6

LEMMA AddsType ==
  ASSUME NEW steps, NEW S, IsFiniteSet(S), \A s \in S : steps[s].tokens \in Nat,
         NEW g, Adds(g, S, steps)
  PROVE  \A T \in SUBSET S : g[T] \in Nat
<1> DEFINE Bad == {T \in SUBSET S : g[T] \notin Nat}
<1>1. SUFFICES ASSUME Bad # {} PROVE FALSE
  OBVIOUS
<1>2. PICK T \in Bad : \A U \in SUBSET T : U \in Bad => U = T
  <2>1. Bad \in SUBSET (SUBSET S)
    OBVIOUS
  <2> HIDE DEF Bad
  <2> QED BY <1>1, <2>1, SmallestSubset
<1>3. g[T] = IF T = {} THEN 0 ELSE steps[Pick(T)].tokens + g[T \ {Pick(T)}]
  BY AddsAt
<1>4. T # {}
  BY <1>3
<1>5. g[T \ {Pick(T)}] \in Nat /\ Pick(T) \in S
  BY <1>2, <1>4, PickIsIn
<1> QED BY <1>3, <1>4, <1>5

LEMMA UsageType ==
  ASSUME NEW steps, \A s \in FlowSteps : steps[s].tokens \in Nat
  PROVE  UsageIn(steps) \in Nat /\ (InWindow(steps) = {} => UsageIn(steps) = 0)
<1> DEFINE S == InWindow(steps)
           g == CHOOSE g : Adds(g, S, steps)
<1>1. S \subseteq FlowSteps /\ IsFiniteSet(S)
  BY AgentAssumption, FS_Subset DEF InWindow
<1> HIDE DEF S
<1>2. \E h : Adds(h, S, steps)
  BY <1>1, AddsExists
<1>3. Adds(g, S, steps)
  BY <1>2
<1>4. UsageIn(steps) = g[S]
  BY UsageAdds DEF S
<1> HIDE DEF g
<1>5. g[S] \in Nat /\ (S = {} => g[S] = 0)
  BY <1>1, <1>3, AddsType, AddsAt
<1> QED BY <1>4, <1>5 DEF S

(***************************************************************************)
(* Types.                                                                  *)
(***************************************************************************)
Steps == [FlowSteps -> [at : Nat, tokens : Nat]]
Cache == [agent : Agent, deployment : Deployment, used : Steps, prompt : Nat]

(* AgentTypeOK, variable by variable, and the type of the caches. *)
TypesOK ==
  /\ agent \in Agent /\ deployment \in Deployment /\ desired \in Deployment /\ cache \in Cache
  /\ used \in Steps /\ copy \in AgentStatus
  /\ prompt \in Nat /\ now \in Nat /\ wakeAt \in Nat /\ version \in Nat /\ delay \in Nat
  /\ faults \in Nat
  /\ wanted \in BOOLEAN /\ pc \in {"idle", "apply", "sync"}

LEMMA LeastNumber ==
  ASSUME NEW T \in SUBSET Nat, T # {}
  PROVE  Min(T) \in T /\ \A y \in T : Min(T) <= y
<1>1. PICK x \in T : \A y \in T : ~ (<<y, x>> \in OpToRel(<, Nat))
  BY NatLessThanWellFounded, WFMin, Zenon
<1>2. \A y \in T : x <= y
  <2>1. \A y \in T : ~(y < x)
    BY <1>1 DEF OpToRel
  <2> QED BY <2>1
<1> QED BY <1>2 DEF Min

(* The controller asks for a wake-up exactly if it finds the budget used up. *)
LEMMA DelayType ==
  ASSUME NEW limit \in Nat, NEW steps \in Steps, now \in Nat
  PROVE  /\ RequeueDelay(limit, steps) \in Nat
         /\ Exceeds(limit, steps) => RequeueDelay(limit, steps) > 0
<1>1. CASE ~Exceeds(limit, steps)
  BY <1>1 DEF RequeueDelay
<1>2. CASE Exceeds(limit, steps)
  <2> DEFINE T == {steps[s].at : s \in InWindow(steps)}
             m == Min(T)
  <2>1. \A s \in FlowSteps : steps[s].at \in Nat /\ steps[s].tokens \in Nat
    BY DEF Steps
  <2>2. InWindow(steps) # {}
    <3>1. UsageIn(steps) \in Nat /\ (InWindow(steps) = {} => UsageIn(steps) = 0)
      BY <2>1, UsageType
    <3> QED BY <1>2, <3>1 DEF Exceeds
  <2>3. T # {} /\ T \in SUBSET Nat /\ \A t \in T : t >= now - Window
    BY <2>1, <2>2 DEF InWindow
  <2>4. RequeueDelay(limit, steps) = m + Window - now + Buffer
    BY <1>2 DEF RequeueDelay
  <2> HIDE DEF T
  <2>5. m \in Nat /\ m >= now - Window
    BY <2>3, LeastNumber
  <2> HIDE DEF m
  <2>6. Window \in Nat /\ Buffer \in Nat /\ Buffer > 0
    BY AgentAssumption
  <2>7. m + Window - now + Buffer \in Nat /\ m + Window - now + Buffer > 0
    BY <2>5, <2>6
  <2> QED BY <2>4, <2>7
<1> QED BY <1>1, <1>2

LEMMA BudgetedType ==
  ASSUME NEW status \in AgentStatus, NEW limit \in Nat, NEW steps \in Steps
  PROVE  /\ Budgeted(status, limit, steps) \in AgentStatus
         /\ Budgeted(status, limit, steps).exceeded <=> Exceeds(limit, steps)
<1>1. UsageIn(steps) \in Nat
  BY UsageType DEF Steps
<1>2. Exceeds(limit, steps) \in BOOLEAN
  BY DEF Exceeds
<1> DEFINE usage == IF limit > 0 THEN UsageIn(steps) ELSE 0
           exceeded == Exceeds(limit, steps)
<1>3. Budgeted(status, limit, steps) = [status EXCEPT !.usage = usage, !.exceeded = exceeded]
  BY DEF Budgeted
<1>4. usage \in Nat /\ exceeded \in BOOLEAN
  BY <1>1, <1>2
<1> HIDE DEF usage, exceeded
<1>5. /\ Budgeted(status, limit, steps) \in AgentStatus
      /\ Budgeted(status, limit, steps).exceeded = exceeded
  BY <1>3, <1>4 DEF AgentStatus
<1> QED BY <1>5, Zenon DEF exceeded

LEMMA StoredType ==
  ASSUME agent \in Agent, NEW status \in AgentStatus
  PROVE  /\ StoredStatus(status) \in Agent /\ StoredStatus(status).status = status
         /\ StoredStatus(status).gone <=> agent.gone
         /\ \/ StoredStatus(status) = agent
            \/ StoredStatus(status).version = agent.version + 1
<1> DEFINE new == [agent EXCEPT !.version = agent.version + 1, !.status = status]
<1>1. agent.version + 1 \in Nat
  BY DEF Agent
<1>2. new \in Agent
  BY <1>1 DEF Agent
<1>3. new.status = status /\ new.version = agent.version + 1 /\ (new.gone <=> agent.gone)
  BY DEF Agent
<1>4. StoredStatus(status) = IF status = agent.status THEN agent ELSE new
  BY DEF StoredStatus
<1> HIDE DEF new
<1>5. CASE status = agent.status
  BY <1>4, <1>5
<1>6. CASE status # agent.status
  BY <1>2, <1>3, <1>4, <1>6
<1> QED BY <1>5, <1>6

LEMMA WrittenType ==
  ASSUME deployment \in Deployment, NEW d \in Deployment
  PROVE  /\ Written(d) \in Deployment
         /\ Written(d) = deployment \/ Written(d).version = deployment.version + 1
         /\ Written(d).exists <=> d.exists
  BY DEF Written, Deployment

LEMMA PatchedType ==
  ASSUME cache \in Cache, desired \in Deployment, deployment \in Deployment
  PROVE  Patched(deployment) \in Deployment
  BY DEF Patched, Deployment, Cache

LEMMA DesiredType ==
  ASSUME cache \in Cache, NEW a \in Agent, NEW exceeded \in BOOLEAN
  PROVE  Desired(a, exceeded) \in Deployment
  BY AgentAssumption DEF Desired, Deployment, Cache, Agent

LEMMA WakeUpType ==
  ASSUME wakeAt \in Nat, now \in Nat, delay \in Nat
  PROVE  WakeUp \in Nat /\ (delay > 0 \/ wakeAt > 0 => WakeUp > 0)
<1> DEFINE T == ({wakeAt} \ {0}) \cup (IF delay > 0 THEN {now + delay} ELSE {})
<1>1. T \in SUBSET (Nat \ {0}) /\ (delay > 0 \/ wakeAt > 0 => T # {})
  OBVIOUS
<1>2. WakeUp = IF T = {} THEN 0 ELSE Min(T)
  BY DEF WakeUp
<1> HIDE DEF T
<1>3. ASSUME T # {} PROVE Min(T) \in Nat /\ Min(T) > 0
  <2>1. Min(T) \in T
    BY <1>1, <1>3, LeastNumber
  <2>2. \A t \in T : t \in Nat /\ t > 0
    BY <1>1
  <2> QED BY <2>1, <2>2, Zenon
<1>4. CASE T = {}
  BY <1>1, <1>2, <1>4
<1>5. CASE T # {}
  BY <1>2, <1>3, <1>5
<1> QED BY <1>4, <1>5

LEMMA NewType == NewStatus \in AgentStatus /\ NoDeployment \in Deployment
  BY DEF NewStatus, AgentStatus, NoDeployment, Deployment

LEMMA InitTypes == Init => TypesOK
<1> SUFFICES ASSUME Init PROVE TypesOK
  OBVIOUS
<1>1. agent \in Agent
  <2>1. NewStatus \in AgentStatus
    BY NewType
  <2>2. agent \in [version : {0}, gone : {FALSE}, limit : Limits, replicas : Replicas,
                  status : {NewStatus}]
    BY DEF Init
  <2>3. FALSE \in BOOLEAN /\ 0 \in Nat
    OBVIOUS
  <2> QED BY <2>1, <2>2, <2>3 DEF Agent
<1>2. deployment \in Deployment /\ desired \in Deployment /\ copy \in AgentStatus
  BY NewType DEF Init
<1>3. used \in Steps /\ prompt \in Nat
  BY DEF Init, Steps
<1>4. cache = [agent |-> agent, deployment |-> deployment, used |-> used, prompt |-> prompt]
  BY DEF Init, Current
<1>5. cache \in Cache /\ cache.agent \in Agent /\ cache.deployment \in Deployment
  BY <1>1, <1>2, <1>3, <1>4 DEF Cache
<1>6. {prompt, now, wakeAt, version, delay, faults} \subseteq Nat /\ wanted \in BOOLEAN /\ pc = "idle"
  BY DEF Init
<1> QED BY <1>1, <1>2, <1>3, <1>5, <1>6 DEF TypesOK

LEMMA FaultType ==
  ASSUME TypesOK, NEW kind, NoFault \/ Fault(kind)
  PROVE  faults' \in Nat
  BY DEF NoFault, Fault, TypesOK

LEMMA ReturnType ==
  ASSUME Return
  PROVE  /\ pc' = "idle" /\ copy' \in AgentStatus /\ version' \in Nat /\ desired' \in Deployment
         /\ delay' \in Nat
  BY NewType DEF Return

(* What a reconcile leaves alone, and what it may do to the agent. *)
LEMMA ReconcileTypes ==
  ASSUME TypesOK, Reconcile
  PROVE  TypesOK'
<1>0. /\ agent \in Agent /\ deployment \in Deployment /\ desired \in Deployment /\ cache \in Cache
      /\ used \in Steps /\ copy \in AgentStatus
      /\ prompt \in Nat /\ now \in Nat /\ wakeAt \in Nat /\ version \in Nat /\ delay \in Nat
      /\ faults \in Nat
      /\ wanted \in BOOLEAN /\ pc \in {"idle", "apply", "sync"}
  BY DEF TypesOK
<1>1. CASE ReconcileGone \/ PromptFails
  BY <1>0, <1>1 DEF TypesOK, ReconcileGone, PromptFails, worldVars, queueVars, reconcileVars
<1>2. CASE StartReconcile
  <2> DEFINE a == cache.agent
             status == Budgeted(a.status, a.limit, cache.used)
  <2>1. /\ copy' = status /\ version' = a.version /\ desired' = Desired(a, status.exceeded)
        /\ delay' = RequeueDelay(a.limit, cache.used) /\ wanted' = FALSE /\ pc' = "apply"
        /\ UNCHANGED <<agent, deployment, used, prompt, cache, now, wakeAt, faults>>
    BY <1>2 DEF StartReconcile, worldVars
  <2>2. /\ a \in Agent /\ a.status \in AgentStatus /\ a.limit \in Nat /\ a.version \in Nat
        /\ cache.used \in Steps
    BY <1>0, AgentAssumption DEF Cache, Agent
  <2> HIDE DEF a
  <2>3. status \in AgentStatus
    BY <2>2, BudgetedType
  <2> HIDE DEF status
  <2>4. status.exceeded \in BOOLEAN
    BY <2>3 DEF AgentStatus
  <2>5. desired' \in Deployment /\ delay' \in Nat
    BY <1>0, <2>1, <2>2, <2>4, DesiredType, DelayType
  <2> QED BY <1>0, <2>1, <2>2, <2>3, <2>5 DEF TypesOK
<1>3. CASE ReconcileDeployment
  <2>1. deployment' \in Deployment
    BY <1>0, <1>3, WrittenType, PatchedType DEF ReconcileDeployment, CreateOrPatch
  <2> QED BY <1>0, <1>3, <2>1 DEF TypesOK, ReconcileDeployment, queueVars
<1>4. CASE DeploymentFails
  <2>1. agent' \in Agent /\ deployment' \in Deployment
    BY <1>0, <1>4, StoredType, WrittenType, PatchedType DEF DeploymentFails, CreateOrPatch
  <2>2. faults' \in Nat
    BY <1>4, FaultType DEF DeploymentFails
  <2> QED BY <1>0, <1>4, <2>1, <2>2, ReturnType DEF TypesOK, DeploymentFails
<1>5. CASE SyncStatus
  <2>1. [copy EXCEPT !.pods = cache.deployment.pods] \in AgentStatus
    BY <1>0 DEF AgentStatus, Cache, Deployment
  <2>2. agent' \in Agent
    BY <1>0, <1>5, <2>1, StoredType DEF SyncStatus, Synced
  <2>3. wakeAt' \in Nat
    BY <1>0, <1>5, WakeUpType DEF SyncStatus
  <2> QED BY <1>0, <1>5, <2>2, <2>3, ReturnType DEF TypesOK, SyncStatus
<1>6. CASE SyncFails
  <2>1. faults' \in Nat
    BY <1>6, FaultType DEF SyncFails
  <2>2. [copy EXCEPT !.pods = cache.deployment.pods] \in AgentStatus
    BY <1>0 DEF AgentStatus, Cache, Deployment
  <2>3. agent' \in Agent
    BY <1>0, <1>6, <2>2, StoredType DEF SyncFails, Synced
  <2> QED BY <1>0, <1>6, <2>1, <2>3, ReturnType DEF TypesOK, SyncFails
<1> QED BY <1>1, <1>2, <1>3, <1>4, <1>5, <1>6 DEF Reconcile

(* An informer brings one object of the cache up to date. *)
LEMMA WatchType ==
  ASSUME TypesOK, NEW object \in {"agent", "deployment", "used", "prompt"}, WatchOne(object)
  PROVE  /\ cache' \in Cache
         /\ cache'.agent = IF object = "agent" THEN agent ELSE cache.agent
         /\ cache'.deployment = IF object = "deployment" THEN deployment ELSE cache.deployment
<1>0. /\ agent \in Agent /\ deployment \in Deployment /\ cache \in Cache /\ used \in Steps
      /\ prompt \in Nat
  BY DEF TypesOK
<1>1. cache' = [cache EXCEPT ![object] = Current[object]]
  BY DEF WatchOne
<1>2. /\ Current.agent = agent /\ Current.deployment = deployment /\ Current.used = used
      /\ Current.prompt = prompt
  BY DEF Current
<1>3. CASE object = "agent"
  BY <1>0, <1>1, <1>2, <1>3 DEF Cache
<1>4. CASE object = "deployment"
  BY <1>0, <1>1, <1>2, <1>4 DEF Cache
<1>5. CASE object = "used"
  BY <1>0, <1>1, <1>2, <1>5 DEF Cache
<1>6. CASE object = "prompt"
  BY <1>0, <1>1, <1>2, <1>6 DEF Cache
<1> QED BY <1>3, <1>4, <1>5, <1>6

LEMMA CurrentType ==
  ASSUME TypesOK
  PROVE  Current \in Cache /\ Current.agent = agent /\ Current.deployment = deployment
  BY DEF TypesOK, Current, Cache

(* Whoever edits the agent makes a version of it. *)
LEMMA EditAgentType ==
  ASSUME TypesOK, EditAgent
  PROVE  /\ agent' \in Agent /\ agent'.version = agent.version + 1 /\ agent'.status = agent.status
         /\ ~agent.gone
<1>0. agent \in Agent
  BY DEF TypesOK
<1>1. PICK gone \in BOOLEAN, limit \in Limits, replicas \in Replicas :
        agent' = [agent EXCEPT !.version = agent.version + 1, !.gone = gone, !.limit = limit,
                               !.replicas = replicas]
  BY DEF EditAgent
<1>2. agent.version + 1 \in Nat
  BY <1>0 DEF Agent
<1> QED BY <1>0, <1>1, <1>2 DEF Agent, EditAgent

LEMMA DeploymentWrites ==
  ASSUME TypesOK, PodsFollow \/ EditDeployment
  PROVE  \E d \in Deployment : deployment' = Written(d)
<1>0. deployment \in Deployment
  BY DEF TypesOK
<1>1. CASE PodsFollow
  <2>1. [deployment EXCEPT !.pods = deployment.replicas] \in Deployment
    BY <1>0 DEF Deployment
  <2> QED BY <1>1, <2>1 DEF PodsFollow
<1>2. CASE EditDeployment
  <2>1. \A n \in Replicas \cup {0} : [deployment EXCEPT !.replicas = n] \in Deployment
    BY <1>0, AgentAssumption DEF Deployment
  <2> QED BY <1>2, <2>1, NewType DEF EditDeployment
<1> QED BY <1>1, <1>2

LEMMA EnvironmentTypes ==
  ASSUME TypesOK, Environment
  PROVE  TypesOK'
<1>0. /\ agent \in Agent /\ deployment \in Deployment /\ desired \in Deployment /\ cache \in Cache
      /\ used \in Steps /\ copy \in AgentStatus
      /\ prompt \in Nat /\ now \in Nat /\ wakeAt \in Nat /\ version \in Nat /\ delay \in Nat
      /\ faults \in Nat
      /\ wanted \in BOOLEAN /\ pc \in {"idle", "apply", "sync"}
  BY DEF TypesOK
<1>1. CASE Watch
  <2>1. PICK object \in {"agent", "deployment", "used", "prompt"} : WatchOne(object)
    BY <1>1 DEF Watch
  <2>2. cache' \in Cache
    BY <2>1, WatchType
  <2> QED BY <1>0, <2>1, <2>2 DEF TypesOK, WatchOne, worldVars, reconcileVars
<1>2. CASE Wake \/ Tick
  <2>1. CASE Wake
    BY <1>0, <2>1 DEF TypesOK, Wake, worldVars, reconcileVars
  <2>2. CASE Tick
    <3>1. now' \in Nat
      BY <1>0, <2>2 DEF Tick
    <3> QED BY <1>0, <2>2, <3>1 DEF TypesOK, Tick, worldVars, reconcileVars, queueVars
  <2> QED BY <1>2, <2>1, <2>2
<1>3. CASE PodsFollow \/ EditDeployment
  <2>1. deployment' \in Deployment
    BY <1>0, <1>3, DeploymentWrites, WrittenType
  <2>2. faults' \in Nat
    BY <1>0, <1>3 DEF PodsFollow, EditDeployment, Fault
  <2> QED BY <1>0, <1>3, <2>1, <2>2
      DEF TypesOK, PodsFollow, EditDeployment, environmentRest, queueVars, reconcileVars
<1>4. ASSUME NEW s \in FlowSteps, StepCompletes(s) \/ StepLoops(s) PROVE TypesOK'
  <2>1. used' \in Steps
    <3>1. \A cost \in Costs : [at |-> now, tokens |-> cost] \in [at : Nat, tokens : Nat]
      BY <1>0, AgentAssumption
    <3>2. [used[s] EXCEPT !.at = 0] \in [at : Nat, tokens : Nat]
      BY <1>0 DEF Steps
    <3>3. used' = [used EXCEPT ![s] = [used[s] EXCEPT !.at = 0]] \/
          \E cost \in Costs : used' = [used EXCEPT ![s] = [at |-> now, tokens |-> cost]]
      BY <1>4 DEF StepCompletes, StepLoops
    <3> QED BY <1>0, <3>1, <3>2, <3>3 DEF Steps
  <2>2. faults' \in Nat
    BY <1>0, <1>4 DEF StepCompletes, StepLoops, Fault
  <2> QED BY <1>0, <1>4, <2>1, <2>2
      DEF TypesOK, StepCompletes, StepLoops, environmentRest, queueVars, reconcileVars
<1>5. CASE EditAgent
  <2>1. agent' \in Agent
    BY <1>5, EditAgentType
  <2>2. faults' \in Nat
    BY <1>0, <1>5 DEF EditAgent, Fault
  <2> QED BY <1>0, <1>5, <2>1, <2>2 DEF TypesOK, EditAgent, environmentRest, queueVars, reconcileVars
<1>6. CASE EditPrompt
  <2>1. prompt' \in Nat /\ faults' \in Nat
    BY <1>0, <1>6 DEF EditPrompt, Fault
  <2> QED BY <1>0, <1>6, <2>1 DEF TypesOK, EditPrompt, environmentRest, queueVars, reconcileVars
<1>7. CASE RestartOperator
  <2>1. cache' \in Cache /\ faults' \in Nat
    BY <1>0, <1>7, CurrentType DEF RestartOperator, Fault
  <2> QED BY <1>0, <1>7, <2>1, ReturnType DEF TypesOK, RestartOperator, worldVars
<1> QED BY <1>1, <1>2, <1>3, <1>4, <1>5, <1>6, <1>7 DEF Environment

LEMMA TypesPreserved == TypesOK /\ [Next]_vars => TypesOK'
<1>1. TypesOK /\ UNCHANGED vars => TypesOK'
  <2> SUFFICES ASSUME TypesOK, UNCHANGED vars PROVE TypesOK'
    OBVIOUS
  <2> QED BY DEF TypesOK, vars, worldVars, queueVars, reconcileVars
<1> QED BY <1>1, ReconcileTypes, EnvironmentTypes DEF Next

(* For any steps, limits and costs every variable keeps its type: no budget, patch
   or timer ever leads to a negative number of replicas, tokens or seconds. *)
THEOREM AgentTypesCorrect == Spec => []AgentTypeOK
<1>1. TypesOK => AgentTypeOK
  <2> SUFFICES ASSUME TypesOK PROVE AgentTypeOK
    OBVIOUS
  <2>1. cache.agent \in Agent /\ cache.deployment \in Deployment
    BY DEF TypesOK, Cache
  <2> QED BY <2>1 DEF TypesOK, AgentTypeOK, Steps
<1> QED BY InitTypes, TypesPreserved, <1>1, PTL DEF Spec

(***************************************************************************)
(* The budget's timer.  A version only ever grows, and the cache only ever *)
(* holds an object as it once was, so that whatever changed since the      *)
(* cache was filled will come to it and enqueue the agent.                 *)
(***************************************************************************)
CacheBehind ==
  /\ cache.agent.version <= agent.version
  /\ cache.agent.version = agent.version => cache.agent = agent
  /\ cache.agent.gone => agent.gone
  /\ cache.deployment.version <= deployment.version
  /\ cache.deployment.version = deployment.version => cache.deployment = deployment

(* Who is going to look at a budget that is used up: a timer, a reconcile that is
   going to set one, or the event of a change the cache has not seen.  A created
   Deployment is such a change, which is what lets the status be left alone. *)
TimerSet ==
  /\ pc = "idle" /\ ~wanted /\ agent.status.exceeded =>
       \/ wakeAt > 0 \/ agent.gone
       \/ cache.agent.version < agent.version
       \/ cache.deployment.version < deployment.version
  /\ pc # "idle" /\ copy.exceeded => delay > 0
  /\ pc = "apply" => desired.exists
  /\ pc = "sync" /\ ~wanted /\ ~cache.deployment.exists =>
       cache.deployment.version < deployment.version

AgentMoves ==
  /\ agent' = agent \/ agent'.version = agent.version + 1
  /\ agent.gone => agent'.gone

DeploymentMoves == deployment' = deployment \/ deployment'.version = deployment.version + 1

(* Who writes either object. *)
LEMMA ObjectsMove ==
  ASSUME TypesOK, Next
  PROVE  AgentMoves /\ DeploymentMoves
<1>0. /\ agent \in Agent /\ deployment \in Deployment /\ desired \in Deployment /\ cache \in Cache
      /\ copy \in AgentStatus
  BY DEF TypesOK
<1>1. CASE DeploymentFails
  <2>1. AgentMoves
    BY <1>0, <1>1, StoredType DEF DeploymentFails, AgentMoves
  <2>2. deployment' = deployment \/ \E d \in Deployment : deployment' = Written(d)
    BY <1>0, <1>1, PatchedType DEF DeploymentFails, CreateOrPatch
  <2> QED BY <1>0, <2>1, <2>2, WrittenType DEF DeploymentMoves
<1>2. CASE SyncStatus \/ SyncFails
  <2>1. [copy EXCEPT !.pods = cache.deployment.pods] \in AgentStatus
    BY <1>0 DEF AgentStatus, Cache, Deployment
  <2> QED BY <1>0, <1>2, <2>1, StoredType
          DEF SyncStatus, SyncFails, Synced, AgentMoves, DeploymentMoves
<1>3. CASE ReconcileDeployment
  <2>1. \E d \in Deployment : deployment' = Written(d)
    BY <1>0, <1>3, PatchedType DEF ReconcileDeployment, CreateOrPatch
  <2> QED BY <1>0, <1>3, <2>1, WrittenType DEF ReconcileDeployment, AgentMoves, DeploymentMoves
<1>4. CASE PodsFollow \/ EditDeployment
  <2>1. \E d \in Deployment : deployment' = Written(d)
    BY <1>4, DeploymentWrites
  <2>2. agent' = agent
    BY <1>4 DEF PodsFollow, EditDeployment
  <2> QED BY <1>0, <2>1, <2>2, WrittenType DEF AgentMoves, DeploymentMoves
<1>5. CASE EditAgent
  BY <1>5, EditAgentType DEF EditAgent, AgentMoves, DeploymentMoves
<1>6. ASSUME UNCHANGED <<agent, deployment>> PROVE AgentMoves /\ DeploymentMoves
  BY <1>6 DEF AgentMoves, DeploymentMoves
<1>7. CASE ReconcileGone \/ PromptFails \/ StartReconcile
  BY <1>6, <1>7 DEF ReconcileGone, PromptFails, StartReconcile, worldVars
<1>8. CASE Watch \/ Wake \/ Tick \/ EditPrompt \/ RestartOperator
  BY <1>6, <1>8 DEF Watch, WatchOne, Wake, Tick, EditPrompt, RestartOperator, worldVars
<1>9. ASSUME NEW s \in FlowSteps, StepCompletes(s) \/ StepLoops(s)
      PROVE  AgentMoves /\ DeploymentMoves
  BY <1>6, <1>9 DEF StepCompletes, StepLoops
<1> QED BY <1>1, <1>2, <1>3, <1>4, <1>5, <1>7, <1>8, <1>9 DEF Next, Reconcile, Environment

(* Only the informers and a restart fill the cache, and with what there is. *)
LEMMA CacheMoves ==
  ASSUME TypesOK, Next
  PROVE  \/ cache' = cache
         \/ /\ UNCHANGED <<agent, deployment>>
            /\ cache'.agent = agent \/ cache'.agent = cache.agent
            /\ cache'.deployment = deployment \/ cache'.deployment = cache.deployment
<1>1. CASE Watch
  <2>1. PICK object \in {"agent", "deployment", "used", "prompt"} : WatchOne(object)
    BY <1>1 DEF Watch
  <2>2. UNCHANGED <<agent, deployment>>
    BY <2>1 DEF WatchOne, worldVars
  <2>3. /\ cache'.agent = IF object = "agent" THEN agent ELSE cache.agent
        /\ cache'.deployment = IF object = "deployment" THEN deployment ELSE cache.deployment
    BY <2>1, WatchType
  <2> QED BY <2>2, <2>3
<1>2. CASE RestartOperator
  <2>1. cache' = Current /\ UNCHANGED <<agent, deployment>>
    BY <1>2 DEF RestartOperator, worldVars
  <2> QED BY <2>1, CurrentType
<1>3. CASE Reconcile
  BY <1>3 DEF Reconcile, ReconcileGone, PromptFails, StartReconcile, ReconcileDeployment,
              DeploymentFails, SyncStatus, SyncFails
<1>4. CASE Wake \/ Tick \/ PodsFollow \/ EditAgent \/ EditPrompt \/ EditDeployment
  BY <1>4 DEF Wake, Tick, PodsFollow, EditAgent, EditPrompt, EditDeployment, environmentRest
<1>5. ASSUME NEW s \in FlowSteps, StepCompletes(s) \/ StepLoops(s) PROVE cache' = cache
  BY <1>5 DEF StepCompletes, StepLoops, environmentRest
<1> QED BY <1>1, <1>2, <1>3, <1>4, <1>5 DEF Next, Environment

LEMMA CacheBehindPreserved ==
  ASSUME TypesOK, CacheBehind, Next
  PROVE  CacheBehind'
<1>1. /\ agent.version \in Nat /\ deployment.version \in Nat
      /\ cache.agent.version \in Nat /\ cache.deployment.version \in Nat
  BY DEF TypesOK, Cache, Agent, Deployment
<1>2. AgentMoves /\ DeploymentMoves
  BY ObjectsMove
<1>3. CASE cache' = cache
  BY <1>1, <1>2, <1>3 DEF CacheBehind, AgentMoves, DeploymentMoves
<1>4. CASE /\ UNCHANGED <<agent, deployment>>
           /\ cache'.agent = agent \/ cache'.agent = cache.agent
           /\ cache'.deployment = deployment \/ cache'.deployment = cache.deployment
  BY <1>1, <1>4 DEF CacheBehind
<1> QED BY <1>3, <1>4, CacheMoves

(* A reconcile sets the timer, or leaves the key queued, or leaves a change that
   the cache has not seen. *)
LEMMA ReconcileSetsTimer ==
  ASSUME TypesOK, CacheBehind, TimerSet, Reconcile
  PROVE  TimerSet'
<1>0. /\ agent \in Agent /\ deployment \in Deployment /\ desired \in Deployment /\ cache \in Cache
      /\ copy \in AgentStatus /\ wakeAt \in Nat /\ now \in Nat /\ delay \in Nat
  BY DEF TypesOK
<1>1. CASE ReconcileGone
  BY <1>1 DEF ReconcileGone, CacheBehind, TimerSet, worldVars, reconcileVars
<1>2. CASE PromptFails
  BY <1>2 DEF PromptFails, TimerSet, worldVars, queueVars, reconcileVars
<1>3. CASE StartReconcile
  <2> DEFINE a == cache.agent
             status == Budgeted(a.status, a.limit, cache.used)
  <2>1. /\ copy' = status /\ desired' = Desired(a, status.exceeded)
        /\ delay' = RequeueDelay(a.limit, cache.used) /\ pc' = "apply"
    BY <1>3 DEF StartReconcile
  <2>2. a.status \in AgentStatus /\ a.limit \in Nat /\ cache.used \in Steps /\ now \in Nat
    BY <1>0, AgentAssumption DEF Cache, Agent
  <2> HIDE DEF a
  <2>3. status.exceeded <=> Exceeds(a.limit, cache.used)
    BY <2>2, BudgetedType
  <2>4. Exceeds(a.limit, cache.used) => RequeueDelay(a.limit, cache.used) > 0
    BY <2>2, DelayType
  <2>5. desired'.exists
    BY <2>1 DEF Desired
  <2> HIDE DEF status
  <2>6. copy'.exceeded => delay' > 0
    BY <2>1, <2>3, <2>4
  <2> QED BY <2>1, <2>5, <2>6 DEF TimerSet
<1>4. CASE ReconcileDeployment
  <2>1. pc = "apply" /\ pc' = "sync" /\ UNCHANGED <<copy, delay, cache, wanted>>
    BY <1>4 DEF ReconcileDeployment, queueVars
  <2>2. ASSUME ~cache.deployment.exists PROVE cache.deployment.version < deployment'.version
    <3>1. ~deployment.exists /\ deployment' = Written(desired)
      BY <1>4, <2>2 DEF ReconcileDeployment, CreateOrPatch
    <3>2. desired.exists
      BY <2>1 DEF TimerSet
    <3>3. deployment' # deployment
      BY <1>0, <3>1, <3>2, WrittenType
    <3>4. deployment'.version = deployment.version + 1
      BY <1>0, <3>1, <3>3, WrittenType
    <3>5. deployment.version \in Nat /\ cache.deployment.version \in Nat
      BY <1>0 DEF Deployment, Cache
    <3> QED BY <3>4, <3>5 DEF CacheBehind
  <2>3. copy'.exceeded => delay' > 0
    BY <2>1 DEF TimerSet
  <2> QED BY <2>1, <2>2, <2>3 DEF TimerSet
<1>5. CASE DeploymentFails
  BY <1>5 DEF DeploymentFails, Return, TimerSet
<1>6. CASE SyncStatus
  <2>1. pc = "sync" /\ pc' = "idle" /\ wakeAt' = WakeUp /\ UNCHANGED <<deployment, cache, wanted>>
    BY <1>6 DEF SyncStatus, Return
  <2>2. CASE ~cache.deployment.exists /\ UNCHANGED agent
    BY <2>1, <2>2 DEF TimerSet
  <2>3. CASE cache.deployment.exists /\ agent' = StoredStatus([copy EXCEPT !.pods = cache.deployment.pods])
    <3> DEFINE status == [copy EXCEPT !.pods = cache.deployment.pods]
    <3>1. status \in AgentStatus /\ status.exceeded = copy.exceeded
      BY <1>0 DEF AgentStatus, Cache, Deployment
    <3>2. agent' = StoredStatus(status)
      BY <2>3
    <3> HIDE DEF status
    <3>3. agent'.status = status
      BY <1>0, <3>1, <3>2, StoredType
    <3>4. agent'.status.exceeded => delay > 0
      BY <2>1, <3>1, <3>3 DEF TimerSet
    <3>5. delay > 0 => wakeAt' > 0
      BY <1>0, <2>1, WakeUpType
    <3> QED BY <2>1, <3>4, <3>5 DEF TimerSet
  <2> QED BY <1>6, <2>2, <2>3 DEF SyncStatus, Synced
<1>7. CASE SyncFails
  BY <1>7 DEF SyncFails, Return, TimerSet
<1> QED BY <1>1, <1>2, <1>3, <1>4, <1>5, <1>6, <1>7 DEF Reconcile

LEMMA EnvironmentKeepsTimer ==
  ASSUME TypesOK, CacheBehind, TimerSet, Environment
  PROVE  TimerSet'
<1>0. /\ agent.version \in Nat /\ deployment.version \in Nat /\ cache.agent.version \in Nat
      /\ cache.deployment.version \in Nat
  BY DEF TypesOK, Cache, Agent, Deployment
<1>1. CASE Watch
  BY <1>1 DEF Watch, WatchOne, TimerSet, worldVars, reconcileVars
<1>2. CASE Wake
  BY <1>2 DEF Wake, TimerSet, worldVars, reconcileVars
<1>3. ASSUME UNCHANGED <<agent, deployment, cache, queueVars, reconcileVars>> PROVE TimerSet'
  BY <1>3 DEF TimerSet, queueVars, reconcileVars
<1>4. CASE Tick \/ EditPrompt
  BY <1>3, <1>4 DEF Tick, EditPrompt, worldVars, environmentRest
<1>5. ASSUME NEW s \in FlowSteps, StepCompletes(s) \/ StepLoops(s) PROVE TimerSet'
  BY <1>3, <1>5 DEF StepCompletes, StepLoops, environmentRest
<1>6. CASE PodsFollow \/ EditDeployment
  <2>1. DeploymentMoves
    BY <1>6, ObjectsMove DEF Next, Environment
  <2>2. UNCHANGED <<agent, environmentRest>>
    BY <1>6 DEF PodsFollow, EditDeployment
  <2> QED BY <1>0, <2>1, <2>2
      DEF TimerSet, DeploymentMoves, environmentRest, queueVars, reconcileVars
<1>7. CASE EditAgent
  <2>1. agent'.version = agent.version + 1 /\ UNCHANGED <<deployment, environmentRest>>
    BY <1>7, EditAgentType DEF EditAgent
  <2>2. cache'.agent.version < agent'.version
    BY <1>0, <2>1 DEF CacheBehind, environmentRest
  <2> QED BY <2>1, <2>2 DEF TimerSet, environmentRest, queueVars, reconcileVars
<1>8. CASE RestartOperator
  BY <1>8 DEF RestartOperator, Return, TimerSet
<1> QED BY <1>1, <1>2, <1>4, <1>5, <1>6, <1>7, <1>8 DEF Environment

AgentInv == TypesOK /\ CacheBehind /\ TimerSet

LEMMA InitAgentInv == Init => AgentInv
<1> SUFFICES ASSUME Init PROVE AgentInv
  OBVIOUS
<1>1. TypesOK /\ Current.agent = agent /\ Current.deployment = deployment
  BY InitTypes, CurrentType
<1>2. CacheBehind
  <2>1. cache.agent = agent /\ cache.deployment = deployment
    BY <1>1 DEF Init
  <2>2. agent.version \in Nat /\ deployment.version \in Nat
    BY <1>1 DEF TypesOK, Agent, Deployment
  <2> QED BY <2>1, <2>2 DEF CacheBehind
<1>3. TimerSet
  BY DEF Init, TimerSet
<1> QED BY <1>1, <1>2, <1>3 DEF AgentInv

LEMMA AgentInvPreserved == AgentInv /\ [Next]_vars => AgentInv'
<1>1. AgentInv /\ UNCHANGED vars => AgentInv'
  <2> SUFFICES ASSUME AgentInv, UNCHANGED vars PROVE AgentInv'
    OBVIOUS
  <2>1. TypesOK'
    BY TypesPreserved DEF AgentInv
  <2> QED BY <2>1
      DEF AgentInv, CacheBehind, TimerSet, vars, worldVars, queueVars, reconcileVars
<1>2. AgentInv /\ Next => AgentInv'
  BY TypesPreserved, CacheBehindPreserved, ReconcileSetsTimer, EnvironmentKeepsTimer
     DEF AgentInv, Next
<1> QED BY <1>1, <1>2

(* A used up budget is never forgotten, for any limits, costs, window and faults:
   whatever was edited, lost or restarted while the reconcile ran, one that ends
   with nothing left to see has set the timer that gives the budget back. *)
THEOREM BudgetAlwaysHasTimer == Spec => []BudgetHasTimer
<1>1. AgentInv => BudgetHasTimer
  <2> SUFFICES ASSUME AgentInv, pc = "idle", ~wanted, cache = Current, ~agent.gone,
                      agent.status.exceeded
               PROVE  wakeAt > 0
    BY DEF BudgetHasTimer, AtRest
  <2>1. cache.agent = agent /\ cache.deployment = deployment
    BY CurrentType DEF AgentInv
  <2>2. agent.version \in Nat /\ deployment.version \in Nat
    BY DEF AgentInv, TypesOK, Agent, Deployment
  <2> QED BY <2>1, <2>2 DEF AgentInv, TimerSet
<1> QED BY InitAgentInv, AgentInvPreserved, <1>1, PTL DEF Spec

(***************************************************************************)
(* Nothing is left to do at rest.  While a reconcile runs and the key is   *)
(* not queued again, nothing has come to the cache since it started; so    *)
(* what it wrote is about the objects the cache shows now, and whoever     *)
(* has changed them since has made a version that is still to come.        *)
(***************************************************************************)
Noticed(status) ==
  /\ Exceeds(cache.agent.limit, cache.used) => status.exceeded
  /\ cache.agent.limit > 0 => UsageIn(cache.used) <= status.usage

Wanted(exceeded) == IF exceeded THEN 0 ELSE cache.agent.replicas
DeploymentSeen == cache.deployment.version = deployment.version

ReconcileAgrees ==
  pc # "idle" /\ ~wanted =>
    /\ version = cache.agent.version
    /\ desired.replicas = Wanted(copy.exceeded) /\ desired.prompt = cache.prompt
    /\ Noticed(copy)
    /\ pc = "sync" /\ DeploymentSeen =>
         /\ deployment.exists
         /\ deployment.replicas = desired.replicas /\ deployment.prompt = desired.prompt

RestAgrees ==
  pc = "idle" /\ ~wanted /\ ~cache.agent.gone /\ cache.agent.version = agent.version
    /\ DeploymentSeen =>
       /\ deployment.exists /\ deployment.prompt = cache.prompt
       /\ deployment.replicas = Wanted(agent.status.exceeded)
       /\ agent.status.pods = deployment.pods
       /\ Noticed(agent.status)

(* The sum does not depend on which step is added first. *)
LEMMA AddsAny ==
  ASSUME NEW steps, NEW S, IsFiniteSet(S), \A s \in S : steps[s].tokens \in Nat,
         NEW g, Adds(g, S, steps)
  PROVE  \A T \in SUBSET S : \A x \in T : g[T] = steps[x].tokens + g[T \ {x}]
<1> DEFINE Bad == {T \in SUBSET S : \E x \in T : g[T] # steps[x].tokens + g[T \ {x}]}
<1>1. SUFFICES ASSUME Bad # {} PROVE FALSE
  OBVIOUS
<1>2. PICK T \in Bad : \A U \in SUBSET T : U \in Bad => U = T
  <2>1. Bad \in SUBSET (SUBSET S)
    OBVIOUS
  <2> HIDE DEF Bad
  <2> QED BY <1>1, <2>1, SmallestSubset
<1>3. PICK x \in T : g[T] # steps[x].tokens + g[T \ {x}]
  OBVIOUS
<1>0. \A U \in SUBSET T : U # T => \A y \in U : g[U] = steps[y].tokens + g[U \ {y}]
  BY <1>2
<1> DEFINE p == Pick(T)
<1>4. p \in T /\ T \in SUBSET S /\ g[T] = steps[p].tokens + g[T \ {p}]
  <2>1. T # {}
    OBVIOUS
  <2> QED BY <2>1, AddsAt, PickIsIn
<1> HIDE DEF p
<1>5. x # p
  BY <1>3, <1>4
<1>6. g[T \ {p}] = steps[x].tokens + g[(T \ {p}) \ {x}]
  <2>1. T \ {p} \in SUBSET T /\ T \ {p} # T /\ x \in T \ {p}
    BY <1>4, <1>5
  <2> QED BY <1>0, <2>1
<1>7. g[T \ {x}] = steps[p].tokens + g[(T \ {x}) \ {p}]
  <2>1. T \ {x} \in SUBSET T /\ T \ {x} # T /\ p \in T \ {x}
    BY <1>4, <1>5
  <2> QED BY <1>0, <2>1
<1>8. (T \ {x}) \ {p} \in SUBSET S
  BY <1>4
<1>10. g[(T \ {x}) \ {p}] = g[(T \ {p}) \ {x}]
  <2>1. (T \ {x}) \ {p} = (T \ {p}) \ {x}
    OBVIOUS
  <2> QED BY <2>1
<1>9. steps[x].tokens \in Nat /\ steps[p].tokens \in Nat /\ g[(T \ {x}) \ {p}] \in Nat
  BY <1>4, <1>8, AddsType
<1>11. steps[p].tokens + g[T \ {p}] # steps[x].tokens + g[T \ {x}]
  BY <1>3, <1>4
<1> QED BY <1>6, <1>7, <1>9, <1>10, <1>11

(* Fewer steps use no more. *)
LEMMA AddsGrows ==
  ASSUME NEW steps, NEW S, IsFiniteSet(S), \A s \in S : steps[s].tokens \in Nat,
         NEW g, Adds(g, S, steps)
  PROVE  \A T \in SUBSET S : g[T] <= g[S]
<1> DEFINE Bad == {U \in SUBSET S : \E T \in SUBSET U : ~(g[T] <= g[U])}
<1>1. SUFFICES ASSUME Bad # {} PROVE FALSE
  <2>1. S \in SUBSET S
    OBVIOUS
  <2> QED BY <2>1
<1>2. PICK U \in Bad : \A V \in SUBSET U : V \in Bad => V = U
  <2>1. Bad \in SUBSET (SUBSET S)
    OBVIOUS
  <2> HIDE DEF Bad
  <2> QED BY <1>1, <2>1, SmallestSubset
<1>3. PICK T \in SUBSET U : ~(g[T] <= g[U])
  OBVIOUS
<1>4. \A V \in SUBSET S : g[V] \in Nat
  BY AddsType
<1>5. U \in SUBSET S
  OBVIOUS
<1>6. PICK x \in U : x \notin T
  <2>1. T # U
    BY <1>3, <1>4, <1>5
  <2> QED BY <2>1
<1>7. U \ {x} \in SUBSET U /\ U \ {x} # U /\ T \in SUBSET (U \ {x})
  BY <1>6
<1>8. g[T] <= g[U \ {x}]
  BY <1>2, <1>5, <1>7
<1>9. g[U] = steps[x].tokens + g[U \ {x}] /\ steps[x].tokens \in Nat
  BY <1>5, <1>6, AddsAny
<1>10. g[T] \in Nat /\ g[U] \in Nat /\ g[U \ {x}] \in Nat
  BY <1>4, <1>5, <1>7
<1> QED BY <1>3, <1>8, <1>9, <1>10

TokensOf(steps, S) == MapThenSumSet(LAMBDA s : steps[s].tokens, S)

LEMMA TokensGrow ==
  ASSUME NEW steps, NEW S, IsFiniteSet(S), \A s \in S : steps[s].tokens \in Nat, NEW T \in SUBSET S
  PROVE  TokensOf(steps, T) <= TokensOf(steps, S) /\ TokensOf(steps, T) \in Nat
<1> DEFINE of(U) == CHOOSE g : Adds(g, U, steps)
<1>1. \A U : TokensOf(steps, U) = of(U)[U]
  BY DEF TokensOf, MapThenSumSet, MapThenFoldSet, Adds, Pick
<1>2. IsFiniteSet(T)
  BY FS_Subset
<1>3. Adds(of(S), S, steps) /\ Adds(of(T), T, steps)
  BY <1>2, AddsExists
<1> HIDE DEF of
<1>4. of(T)[T] = of(S)[T]
  <2>1. T \in SUBSET (T \cap S) /\ T \in SUBSET S /\ S \in SUBSET S
    OBVIOUS
  <2>2. PICK a, b : a = of(S) /\ b = of(T)
    OBVIOUS
  <2>3. \A U \in SUBSET (T \cap S) : b[U] = a[U]
    BY <1>3, <2>1, <2>2, AddsAgree
  <2> QED BY <2>1, <2>2, <2>3
<1>5. of(S)[T] <= of(S)[S] /\ of(S)[T] \in Nat
  BY <1>3, AddsGrows, AddsType
<1> QED BY <1>1, <1>4, <1>5

(* As time goes by, what was noticed is still true. *)
LEMMA UsageFalls ==
  ASSUME TypesOK, cache' = cache, now' = now + 1
  PROVE  UsageIn(cache.used)' <= UsageIn(cache.used) /\ UsageIn(cache.used)' \in Nat
<1> DEFINE steps == cache.used
           S == InWindow(steps)
           T == InWindow(steps)'
<1>1. \A s \in FlowSteps : steps[s].at \in Nat /\ steps[s].tokens \in Nat
  BY DEF TypesOK, Cache, Steps
<1>2. S \subseteq FlowSteps /\ T \subseteq S
  <2>1. now \in Nat /\ Window \in Nat
    BY AgentAssumption DEF TypesOK
  <2> QED BY <1>1, <2>1 DEF InWindow
<1>3. IsFiniteSet(S)
  BY <1>2, AgentAssumption, FS_Subset
<1>4. UsageIn(cache.used) = TokensOf(steps, S) /\ UsageIn(cache.used)' = TokensOf(steps, T)
  BY DEF UsageIn, TokensOf, MapThenSumSet, MapThenFoldSet
<1> QED BY <1>1, <1>2, <1>3, <1>4, TokensGrow

LEMMA NoticedLasts ==
  ASSUME TypesOK, NEW status \in AgentStatus, Noticed(status), cache' = cache,
         now' = now \/ now' = now + 1
  PROVE  Noticed(status)'
<1>1. cache.agent.limit \in Nat /\ status.usage \in Nat /\ UsageIn(cache.used) \in Nat
  <2>1. cache.agent.limit \in Nat
    BY AgentAssumption DEF TypesOK, Cache, Agent
  <2>2. \A s \in FlowSteps : cache.used[s].tokens \in Nat
    BY DEF TypesOK, Cache, Steps
  <2> QED BY <2>1, <2>2, UsageType DEF AgentStatus
<1>2. UsageIn(cache.used)' \in Nat /\ UsageIn(cache.used)' <= UsageIn(cache.used)
  <2>1. CASE now' = now
    <3>1. UsageIn(cache.used)' = UsageIn(cache.used)
      BY <2>1 DEF UsageIn, InWindow, MapThenSumSet, MapThenFoldSet
    <3> QED BY <1>1, <3>1
  <2>2. CASE now' = now + 1
    BY <2>2, UsageFalls
  <2> QED BY <2>1, <2>2
<1>3. cache'.agent.limit = cache.agent.limit
  OBVIOUS
<1>4. ASSUME cache.agent.limit > 0 PROVE UsageIn(cache.used)' <= status.usage
  BY <1>1, <1>2, <1>4 DEF Noticed
<1>5. ASSUME Exceeds(cache.agent.limit, cache.used)' PROVE status.exceeded
  <2>1. cache.agent.limit > 0 /\ UsageIn(cache.used)' >= cache.agent.limit
    BY <1>3, <1>5 DEF Exceeds
  <2>2. UsageIn(cache.used) >= cache.agent.limit
    BY <1>1, <1>2, <2>1
  <2> QED BY <2>1, <2>2 DEF Exceeds, Noticed
<1> QED BY <1>3, <1>4, <1>5 DEF Noticed

(* What reconcileDailyBudget computes has noticed everything. *)
LEMMA BudgetedNotices ==
  ASSUME TypesOK, NEW status \in AgentStatus
  PROVE  Noticed(Budgeted(status, cache.agent.limit, cache.used))
<1>1. cache.agent.limit \in Nat /\ cache.used \in Steps
  BY AgentAssumption DEF TypesOK, Cache, Agent
<1>2. UsageIn(cache.used) \in Nat
  BY <1>1, UsageType DEF Steps
<1>3. Budgeted(status, cache.agent.limit, cache.used).exceeded <=> Exceeds(cache.agent.limit, cache.used)
  BY <1>1, BudgetedType
<1>4. cache.agent.limit > 0 =>
        Budgeted(status, cache.agent.limit, cache.used).usage = UsageIn(cache.used)
  BY DEF Budgeted, AgentStatus
<1> QED BY <1>2, <1>3, <1>4 DEF Noticed

RestInv == AgentInv /\ ReconcileAgrees /\ RestAgrees

(* A patch that changes nothing finds the Deployment as it should be, if the cache
   shows it as it is; any other makes a version. *)
LEMMA PatchAgrees ==
  ASSUME TypesOK, CacheBehind, TimerSet, ReconcileDeployment, DeploymentSeen'
  PROVE  /\ deployment'.exists
         /\ deployment'.replicas = desired.replicas /\ deployment'.prompt = desired.prompt
<1>0. deployment \in Deployment /\ cache \in Cache /\ desired \in Deployment
  BY DEF TypesOK
<1>1. pc = "apply" /\ CreateOrPatch /\ cache' = cache
  BY DEF ReconcileDeployment
<1>2. deployment.version \in Nat /\ cache.deployment.version \in Nat
  BY <1>0 DEF Deployment, Cache
<1>3. cache.deployment.version = deployment'.version
  BY <1>1 DEF DeploymentSeen
<1>4. DeploymentMoves
  BY ObjectsMove DEF Next, Reconcile
<1>5. deployment' = deployment /\ cache.deployment = deployment
  BY <1>2, <1>3, <1>4 DEF DeploymentMoves, CacheBehind
<1>6. CASE ~cache.deployment.exists /\ ~deployment.exists /\ deployment' = Written(desired)
  BY <1>0, <1>1, <1>5, <1>6, WrittenType DEF TimerSet
<1>7. CASE cache.deployment.exists /\ deployment.exists /\ deployment' = Written(Patched(deployment))
  <2>1. Patched(deployment) = deployment
    <3>1. Patched(deployment) \in Deployment
      BY <1>0, PatchedType
    <3>2. CASE Patched(deployment) # deployment
      <4>1. deployment'.version = deployment.version + 1
        BY <1>0, <1>7, <3>1, <3>2 DEF Written, Deployment
      <4> QED BY <1>2, <1>5, <4>1
    <3> QED BY <3>2
  <2>2. /\ Patched(deployment).replicas = desired.replicas
        /\ Patched(deployment).prompt = desired.prompt
    BY <1>0, <1>5 DEF Patched, Deployment
  <2> QED BY <1>5, <1>7, <2>1, <2>2
<1> QED BY <1>1, <1>6, <1>7 DEF CreateOrPatch

LEMMA ReconcileKeepsRest ==
  ASSUME RestInv, Reconcile
  PROVE  ReconcileAgrees' /\ RestAgrees'
<1>0. /\ TypesOK /\ CacheBehind /\ TimerSet /\ agent \in Agent /\ deployment \in Deployment
      /\ desired \in Deployment /\ cache \in Cache /\ copy \in AgentStatus
  BY DEF RestInv, AgentInv, TypesOK
<1>1. /\ agent.version \in Nat /\ cache.agent.version \in Nat /\ deployment.version \in Nat
      /\ cache.deployment.version \in Nat
  BY <1>0 DEF Agent, Deployment, Cache
<1>2. CASE ReconcileGone
  BY <1>2 DEF ReconcileGone, worldVars, reconcileVars, ReconcileAgrees, RestAgrees
<1>3. CASE PromptFails
  BY <1>3 DEF PromptFails, worldVars, queueVars, reconcileVars, ReconcileAgrees, RestAgrees
<1>4. CASE StartReconcile
  <2> DEFINE status == Budgeted(cache.agent.status, cache.agent.limit, cache.used)
  <2>1. /\ copy' = status /\ version' = cache.agent.version
        /\ desired' = Desired(cache.agent, status.exceeded)
        /\ pc' = "apply" /\ UNCHANGED <<cache, now>>
    BY <1>4 DEF StartReconcile
  <2>2. cache.agent.status \in AgentStatus /\ cache.agent.limit \in Nat /\ cache.used \in Steps
    BY <1>0, AgentAssumption DEF Cache, Agent
  <2>3. status \in AgentStatus /\ Noticed(status)
    BY <1>0, <2>2, BudgetedType, BudgetedNotices
  <2>4. /\ desired'.replicas = Wanted(status.exceeded) /\ desired'.prompt = cache.prompt
    BY <2>1 DEF Desired, Wanted
  <2> HIDE DEF status
  <2>5. PICK start \in AgentStatus : start = status
    BY <2>3
  <2>6. Noticed(copy)'
    <3>1. Noticed(start)'
      BY <1>0, <2>1, <2>3, <2>5, NoticedLasts
    <3>2. copy' = start
      BY <2>1, <2>5
    <3> QED BY <3>1, <3>2 DEF Noticed
  <2> QED BY <2>1, <2>4, <2>6 DEF ReconcileAgrees, RestAgrees, Wanted
<1>5. CASE ReconcileDeployment
  <2>1. pc = "apply" /\ pc' = "sync" /\ UNCHANGED <<agent, cache, now, wanted, copy, version, desired>>
    BY <1>5 DEF ReconcileDeployment, queueVars
  <2>2. Noticed(copy) => Noticed(copy)'
    BY <1>0, <2>1, NoticedLasts
  <2>3. DeploymentSeen' => /\ deployment'.exists
                           /\ deployment'.replicas = desired.replicas
                           /\ deployment'.prompt = desired.prompt
    BY <1>0, <1>5, PatchAgrees
  <2> QED BY <2>1, <2>2, <2>3 DEF RestInv, ReconcileAgrees, RestAgrees, Wanted
<1>6. CASE DeploymentFails \/ SyncFails
  BY <1>6 DEF DeploymentFails, SyncFails, Return, ReconcileAgrees, RestAgrees
<1>7. CASE SyncStatus
  <2>1. pc = "sync" /\ pc' = "idle" /\ UNCHANGED <<deployment, cache, now, wanted>>
    BY <1>7 DEF SyncStatus, Return
  <2>2. ReconcileAgrees'
    BY <2>1 DEF ReconcileAgrees
  <2>3. SUFFICES ASSUME ~wanted, DeploymentSeen PROVE RestAgrees'
    BY <2>1, <2>2 DEF RestAgrees, DeploymentSeen
  <2>4. cache.deployment = deployment /\ cache.deployment.exists
    BY <1>0, <1>1, <2>1, <2>3 DEF CacheBehind, TimerSet, DeploymentSeen
  <2>5. CanUpdate /\ agent' = StoredStatus([copy EXCEPT !.pods = cache.deployment.pods])
    BY <1>7, <2>4 DEF SyncStatus, Synced
  <2> DEFINE status == [copy EXCEPT !.pods = cache.deployment.pods]
  <2>6. /\ status \in AgentStatus /\ status.exceeded = copy.exceeded /\ status.usage = copy.usage
        /\ status.pods = deployment.pods
    BY <1>0, <2>4 DEF AgentStatus, Deployment
  <2>7. agent' = StoredStatus(status)
    BY <2>5
  <2> HIDE DEF status
  <2>8. agent'.status = status
    BY <1>0, <2>6, <2>7, StoredType
  <2>9. Noticed(copy) /\ deployment.exists /\ deployment.prompt = cache.prompt
        /\ deployment.replicas = Wanted(copy.exceeded)
    BY <2>1, <2>3 DEF RestInv, ReconcileAgrees
  <2>10. Noticed(status)
    BY <2>6, <2>9 DEF Noticed
  <2>11. PICK end \in AgentStatus : end = status
    BY <2>6
  <2>12. Noticed(agent.status)'
    <3>1. Noticed(end)'
      BY <1>0, <2>1, <2>10, <2>11, NoticedLasts
    <3>2. agent'.status = end
      BY <2>8, <2>11
    <3> QED BY <3>1, <3>2 DEF Noticed
  <2> QED BY <2>1, <2>6, <2>8, <2>9, <2>12 DEF RestAgrees, Wanted
<1> QED BY <1>2, <1>3, <1>4, <1>5, <1>6, <1>7 DEF Reconcile

LEMMA EnvironmentKeepsRest ==
  ASSUME RestInv, Environment
  PROVE  ReconcileAgrees' /\ RestAgrees'
<1>0. /\ TypesOK /\ CacheBehind /\ agent \in Agent /\ deployment \in Deployment
      /\ cache \in Cache /\ copy \in AgentStatus /\ agent.status \in AgentStatus
  BY DEF RestInv, AgentInv, TypesOK, Agent
<1>1. /\ agent.version \in Nat /\ cache.agent.version \in Nat /\ deployment.version \in Nat
      /\ cache.deployment.version \in Nat
  BY <1>0 DEF Agent, Deployment, Cache
<1>2. CASE Watch \/ Wake \/ RestartOperator
  BY <1>2 DEF Watch, WatchOne, Wake, RestartOperator, Return, reconcileVars, ReconcileAgrees,
              RestAgrees
<1>3. ASSUME UNCHANGED <<agent, deployment, cache, wanted, reconcileVars>>, now' = now \/ now' = now + 1
      PROVE  ReconcileAgrees' /\ RestAgrees'
  <2>1. UNCHANGED <<agent, deployment, cache, wanted, pc, copy, version, desired>>
    BY <1>3 DEF reconcileVars
  <2>2. Noticed(copy) => Noticed(copy)'
    <3>1. PICK status \in AgentStatus : status = copy
      BY <1>0
    <3>2. Noticed(status) => Noticed(status)'
      BY <1>0, <1>3, <2>1, NoticedLasts
    <3> QED BY <2>1, <3>1, <3>2 DEF Noticed
  <2>3. Noticed(agent.status) => Noticed(agent.status)'
    <3>1. PICK status \in AgentStatus : status = agent.status
      BY <1>0
    <3>2. Noticed(status) => Noticed(status)'
      BY <1>0, <1>3, <2>1, NoticedLasts
    <3> QED BY <2>1, <3>1, <3>2 DEF Noticed
  <2> QED BY <2>1, <2>2, <2>3 DEF RestInv, ReconcileAgrees, RestAgrees, Wanted, DeploymentSeen
<1>4. CASE Tick \/ EditPrompt
  BY <1>3, <1>4 DEF Tick, EditPrompt, worldVars, environmentRest, queueVars
<1>5. ASSUME NEW s \in FlowSteps, StepCompletes(s) \/ StepLoops(s)
      PROVE  ReconcileAgrees' /\ RestAgrees'
  BY <1>3, <1>5 DEF StepCompletes, StepLoops, environmentRest, queueVars
<1>6. CASE PodsFollow \/ EditDeployment
  <2>1. UNCHANGED <<agent, environmentRest>>
    BY <1>6 DEF PodsFollow, EditDeployment
  <2>2. DeploymentMoves
    BY <1>0, <1>6, ObjectsMove DEF Next, Environment
  <2>3. CASE deployment' = deployment
    BY <1>3, <2>1, <2>3 DEF environmentRest, queueVars
  <2>4. CASE deployment'.version = deployment.version + 1
    <3>1. ~DeploymentSeen'
      BY <1>0, <1>1, <2>1, <2>4 DEF DeploymentSeen, CacheBehind, environmentRest
    <3>2. UNCHANGED <<cache, now, wanted, pc, copy, version, desired>>
      BY <2>1 DEF environmentRest, queueVars, reconcileVars
    <3>3. Noticed(copy) => Noticed(copy)'
      BY <1>0, <3>2, NoticedLasts
    <3> QED BY <3>1, <3>2, <3>3 DEF RestInv, ReconcileAgrees, RestAgrees, Wanted
  <2> QED BY <2>2, <2>3, <2>4 DEF DeploymentMoves
<1>7. CASE EditAgent
  <2>1. agent'.version = agent.version + 1 /\ UNCHANGED <<deployment, environmentRest>>
    BY <1>0, <1>7, EditAgentType DEF EditAgent
  <2>2. cache'.agent.version # agent'.version
    BY <1>0, <1>1, <2>1 DEF CacheBehind, environmentRest
  <2>3. UNCHANGED <<deployment, cache, now, wanted, pc, copy, version, desired>>
    BY <2>1 DEF environmentRest, queueVars, reconcileVars
  <2>4. Noticed(copy) => Noticed(copy)'
    BY <1>0, <2>3, NoticedLasts
  <2> QED BY <2>2, <2>3, <2>4 DEF RestInv, ReconcileAgrees, RestAgrees, Wanted, DeploymentSeen
<1> QED BY <1>2, <1>4, <1>5, <1>6, <1>7 DEF Environment

LEMMA RestInvPreserved == RestInv /\ [Next]_vars => RestInv'
<1>1. RestInv /\ UNCHANGED vars => RestInv'
  <2> SUFFICES ASSUME RestInv, UNCHANGED vars PROVE RestInv'
    OBVIOUS
  <2>1. AgentInv'
    BY AgentInvPreserved DEF RestInv
  <2>2. UNCHANGED <<agent, deployment, used, prompt, cache, now, wanted, pc, copy, version, desired>>
    BY DEF vars, worldVars, queueVars, reconcileVars
  <2> QED BY <2>1, <2>2
      DEF RestInv, ReconcileAgrees, RestAgrees, DeploymentSeen, Wanted, Noticed, Exceeds, UsageIn,
          InWindow, MapThenSumSet, MapThenFoldSet
<1>2. RestInv /\ Next => RestInv'
  BY AgentInvPreserved, ReconcileKeepsRest, EnvironmentKeepsRest DEF RestInv, Next
<1> QED BY <1>1, <1>2

(* The controller never rests with work left over, for any limits, costs, replicas
   and steps, and any faults and edits: what a stale cache, a conflict or an error
   kept it from doing, it has queued itself to do again or will be told of. *)
THEOREM AgentAlwaysRestsInAgreement == Spec => []RestsInAgreement
<1>1. Init => RestInv
  BY InitAgentInv DEF Init, RestInv, ReconcileAgrees, RestAgrees
<1>2. RestInv => WorkIsDone
  <2> SUFFICES ASSUME RestInv, AtRest, Settled PROVE WorkIsDone
    BY DEF WorkIsDone
  <2>1. cache.agent = agent /\ cache.deployment = deployment /\ cache.used = used /\ cache.prompt = prompt
    BY DEF AtRest, Current
  <2>2. /\ deployment.exists /\ deployment.prompt = cache.prompt
        /\ deployment.replicas = Wanted(agent.status.exceeded)
        /\ agent.status.pods = deployment.pods
        /\ Noticed(agent.status)
    BY <2>1 DEF RestInv, RestAgrees, AtRest, Settled, DeploymentSeen
  <2> QED BY <2>1, <2>2 DEF WorkIsDone, Wanted, Noticed
<1> QED BY <1>1, <1>2, RestInvPreserved, BudgetAlwaysHasTimer, PTL DEF Spec, RestsInAgreement
====
