------------------------------ MODULE ArkService ------------------------------
(***************************************************************************)
(* The ArkService controller (internal/controller/arkservice_controller):  *)
(* it keeps a Kubernetes Service in front of the pods of the agent that    *)
(* the ArkService selects, and reports how many of them are ready.         *)
(*                                                                         *)
(* Each object is read from an informer cache that lags behind the API     *)
(* server: the ArkService, the agents, the Service.                        *)
(***************************************************************************)
EXTENDS Integers

CONSTANTS
  Agents,       \* the names of agents
  NoAgent,      \* Selector.ArkAgent = ""
  PortLists,    \* what users set Spec.Ports to
  Refused,      \* those the API server takes in an ArkService but not in a Service
  FaultKinds,   \* what may go wrong, or be edited
  MaxFaults     \* bound: how often

ASSUME ServiceAssumption ==
  /\ Refused \subseteq PortLists /\ PortLists \ Refused # {}
  /\ NoAgent \notin Agents /\ MaxFaults \in Nat

VARIABLES
  ark,       \* the ArkService in the API server
  agents,    \* the agents there
  service,   \* the Service there
  news,      \* the events of the Service that are on their way: none, foreign, owned
  cache,     \* the informer caches: [ark, agents, service]
  wanted,    \* the key is in the work queue
  pc,        \* where the reconcile is: idle, apply, status
  copy,      \* the ArkService it has read
  backend,   \* the agent it has read
  lost,      \* history: a status update whose error is ignored has failed
  faults

reconcileVars == <<pc, copy, backend>>
worldVars == <<ark, agents, service, news>>
vars == <<worldVars, cache, wanted, reconcileVars, lost, faults>>

(* ready is ReadyReplicas, observed ObservedGeneration, reason that of the Ready
   condition, which is true for Reconciled only. *)
Status == [ready : Nat, observed : Nat,
           reason : {"", "NoSelector", "DeploymentNotFound", "ReconcileError", "Reconciled"}]
Ark == [version : Nat, gone : BOOLEAN, generation : Nat, selector : Agents \cup {NoAgent},
        ports : PortLists, status : Status]
Agent == [exists : BOOLEAN, ready : Nat]

(* agent is the selector of the Service, owned that it has a controller reference. *)
Service == [exists : BOOLEAN, owned : BOOLEAN,
            agent : Agents \cup {NoAgent}, ports : PortLists]

NewStatus == [ready |-> 0, observed |-> 0, reason |-> ""]
SomePorts == CHOOSE p \in PortLists \ Refused : TRUE
NoArk == [version |-> 0, gone |-> TRUE, generation |-> 0, selector |-> NoAgent,
          ports |-> SomePorts, status |-> NewStatus]
NoBackend == [exists |-> FALSE, ready |-> 0]
Current == [ark |-> ark, agents |-> agents, service |-> service]

Init ==
  /\ ark \in [version : {0}, gone : {FALSE}, generation : {1}, selector : Agents \cup {NoAgent},
              ports : PortLists, status : {NewStatus}]
  /\ agents \in [Agents -> [exists : BOOLEAN, ready : {0}]]
  /\ service \in [exists : BOOLEAN, owned : {FALSE}, agent : {NoAgent}, ports : {SomePorts}]
  /\ news = "none"
  /\ cache = Current
  /\ wanted = TRUE
  /\ pc = "idle" /\ copy = NoArk /\ backend = NoBackend
  /\ lost = FALSE
  /\ faults = 0

(* A status is never of a generation that is still to come. *)
ServiceTypeOK ==
  /\ ark.status.observed <= ark.generation
  /\ ark \in Ark /\ copy \in Ark /\ cache.ark \in Ark
  /\ agents \in [Agents -> Agent] /\ cache.agents \in [Agents -> Agent]
  /\ service \in Service /\ cache.service \in Service
  /\ news \in {"none", "foreign", "owned"}
  /\ wanted \in BOOLEAN /\ lost \in BOOLEAN
  /\ pc \in {"idle", "apply", "status"}
  /\ backend \in Agent
  /\ faults \in 0 .. MaxFaults

NoFault == UNCHANGED faults
Fault(kind) == kind \in FaultKinds /\ faults < MaxFaults /\ faults' = faults + 1
-----------------------------------------------------------------------------
(* Status().Update of what was read as a: it needs the version that is stored. *)
CanUpdate(a) == a.version = ark.version /\ ~ark.gone
Stored(status) ==
  IF status = ark.status THEN ark ELSE [ark EXCEPT !.version = @ + 1, !.status = status]

(* The updates whose error the code drops.  One that took effect although the API
   server failed is no different from one that did not fail. *)
TryUpdate(a, status) ==
  \/ CanUpdate(a) /\ ark' = Stored(status) /\ UNCHANGED lost /\ NoFault
  \/ ~CanUpdate(a) /\ UNCHANGED <<ark, lost>> /\ NoFault
  \/ Fault("apiError") /\ lost' = TRUE /\ UNCHANGED ark

Return == pc' = "idle" /\ copy' = NoArk /\ backend' = NoBackend

(* Not found, or being deleted. *)
ReconcileGone ==
  /\ pc = "idle" /\ wanted /\ cache.ark.gone
  /\ wanted' = FALSE
  /\ UNCHANGED <<worldVars, cache, reconcileVars, lost, faults>>

(* No selector, or no such agent: the condition says so, ReadyReplicas stays. *)
ReconcileUnbacked ==
  LET a == cache.ark IN
  /\ pc = "idle" /\ wanted /\ ~a.gone
  /\ \/ a.selector = NoAgent /\ TryUpdate(a, [a.status EXCEPT !.reason = "NoSelector"])
     \/ /\ a.selector # NoAgent /\ ~cache.agents[a.selector].exists
        /\ TryUpdate(a, [a.status EXCEPT !.reason = "DeploymentNotFound"])
  /\ wanted' = FALSE
  /\ UNCHANGED <<agents, service, news, cache, reconcileVars>>

StartReconcile ==
  LET a == cache.ark IN
  /\ pc = "idle" /\ wanted /\ ~a.gone
  /\ a.selector # NoAgent /\ cache.agents[a.selector].exists
  /\ copy' = a /\ backend' = cache.agents[a.selector]
  /\ wanted' = FALSE
  /\ pc' = "apply"
  /\ UNCHANGED <<worldVars, cache, lost, faults>>

(* buildService and SetControllerReference. *)
Desired ==
  [exists |-> TRUE, owned |-> TRUE, agent |-> copy.selector, ports |-> copy.ports]

(* A merge patch holds what differs from the cached Service; the owner does not
   change with it. *)
Patched ==
  [service EXCEPT !.agent = IF Desired.agent # cache.service.agent THEN Desired.agent ELSE @,
                  !.ports = IF Desired.ports # cache.service.ports THEN Desired.ports ELSE @]

(* A write that changes the Service makes an event. *)
Write(s) ==
  /\ service' = s
  /\ news' = IF s = service THEN news
             ELSE IF news = "owned" \/ service.owned \/ s.owned THEN "owned" ELSE "foreign"

CanApply == cache.service.exists = service.exists /\ copy.ports \notin Refused

ApplyService == CanApply /\ Write(IF service.exists THEN Patched ELSE Desired)

ReconcileService ==
  /\ pc = "apply" /\ ApplyService
  /\ pc' = "status"
  /\ UNCHANGED <<ark, agents, cache, wanted, copy, backend, lost, faults>>

(* The create or the patch fails: the status says so, if it can, and the key
   goes back to the queue.  When it is the API server that fails, either write may
   or may not have taken effect. *)
ServiceFails ==
  LET reported == IF CanUpdate(copy)
                  THEN Stored([copy.status EXCEPT !.reason = "ReconcileError"]) ELSE ark
  IN /\ pc = "apply"
     /\ \/ /\ ~CanApply /\ NoFault
           /\ ark' = reported /\ UNCHANGED <<service, news>>
        \/ /\ Fault("apiError")
           /\ ark' \in {ark, reported}
           /\ UNCHANGED <<service, news>> \/ ApplyService
     /\ wanted' = TRUE /\ Return
     /\ UNCHANGED <<agents, cache, lost>>

(* Mutant: the generation is mistaken for the version. *)
ReadyStatus_Version ==
  [ready |-> backend.ready, observed |-> copy.version, reason |-> "Reconciled"]

ReadyStatus ==
  [ready |-> backend.ready, observed |-> copy.generation, reason |-> "Reconciled"]

UpdateStatus ==
  /\ pc = "status" /\ CanUpdate(copy)
  /\ ark' = Stored(ReadyStatus)
  /\ Return
  /\ UNCHANGED <<agents, service, news, cache, wanted, lost, faults>>

(* Mutant: this error is dropped as well. *)
UpdateFails_Dropped ==
  /\ pc = "status"
  /\ \/ ~CanUpdate(copy) /\ NoFault /\ UNCHANGED ark
     \/ Fault("apiError") /\ (UNCHANGED ark \/ (CanUpdate(copy) /\ ark' = Stored(ReadyStatus)))
  /\ Return
  /\ UNCHANGED <<agents, service, news, cache, wanted, lost>>

UpdateFails ==
  /\ pc = "status"
  /\ \/ ~CanUpdate(copy) /\ NoFault /\ UNCHANGED ark
     \/ Fault("apiError") /\ (UNCHANGED ark \/ (CanUpdate(copy) /\ ark' = Stored(ReadyStatus)))
  /\ wanted' = TRUE /\ Return
  /\ UNCHANGED <<agents, service, news, cache, lost>>

Reconcile ==
  \/ ReconcileGone \/ ReconcileUnbacked \/ StartReconcile
  \/ ReconcileService \/ ServiceFails \/ UpdateStatus \/ UpdateFails
-----------------------------------------------------------------------------
WatchArk ==
  /\ cache.ark # ark
  /\ cache' = [cache EXCEPT !.ark = ark]
  /\ wanted' = TRUE
  /\ UNCHANGED <<worldVars, reconcileVars, lost, faults>>

(* Owns: the events of a Service that has, or had, the controller reference. *)
WatchService ==
  /\ news # "none"
  /\ cache' = [cache EXCEPT !.service = service] /\ news' = "none"
  /\ wanted' = (wanted \/ news = "owned")
  /\ UNCHANGED <<ark, agents, service, reconcileVars, lost, faults>>

(* Mutant: an event is mapped through the status, to what was reconciled. *)
FindServices_Reconciled(a) ==
  ~cache.ark.gone /\ cache.ark.selector = a /\ cache.ark.status.reason = "Reconciled"

(* findServicesForAgent lists the cached ArkServices. *)
FindServices(a) == ~cache.ark.gone /\ cache.ark.selector = a

WatchAgent(a) ==
  /\ cache.agents[a] # agents[a]
  /\ cache' = [cache EXCEPT !.agents[a] = agents[a]]
  /\ wanted' = (wanted \/ FindServices(a))
  /\ UNCHANGED <<worldVars, reconcileVars, lost, faults>>

Watch == WatchArk \/ WatchService \/ \E a \in Agents : WatchAgent(a)

environmentRest == <<cache, wanted, reconcileVars, lost>>

(* Users edit the ArkService; its generation counts the changes of the spec. *)
EditArk ==
  /\ Fault("serviceEdit") /\ ~ark.gone
  /\ \/ ark' = [ark EXCEPT !.version = @ + 1, !.gone = TRUE]
     \/ \E selector \in Agents \cup {NoAgent}, ports \in PortLists :
          /\ <<selector, ports>> # <<ark.selector, ark.ports>>
          /\ ark' = [ark EXCEPT !.version = @ + 1, !.generation = @ + 1, !.selector = selector,
                                !.ports = ports]
  /\ UNCHANGED <<agents, service, news, environmentRest>>

(* An agent is created or deleted, or its pods become ready or fail. *)
ChangeAgent(a) ==
  /\ Fault("agentChange")
  /\ \/ agents' = [agents EXCEPT ![a] = [exists |-> ~@.exists, ready |-> 0]]
     \/ agents[a].exists /\ agents' = [agents EXCEPT ![a].ready = 1 - @]
  /\ UNCHANGED <<ark, service, news, environmentRest>>

(* Somebody else edits or deletes the Service. *)
NoService == [service EXCEPT !.exists = FALSE, !.owned = FALSE, !.agent = NoAgent]

EditService ==
  /\ Fault("foreignEdit") /\ service.exists
  /\ \/ Write(NoService)
     \/ \E a \in Agents \cup {NoAgent} : Write([service EXCEPT !.agent = a])
  /\ UNCHANGED <<ark, agents, environmentRest>>

(* Kubernetes deletes what is owned by an object that is gone. *)
CollectGarbage ==
  /\ ark.gone /\ service.exists /\ service.owned
  /\ Write(NoService)
  /\ UNCHANGED <<ark, agents, environmentRest, faults>>

RestartOperator ==
  /\ Fault("operatorCrash")
  /\ cache' = Current /\ news' = "none"
  /\ wanted' = TRUE /\ Return
  /\ UNCHANGED <<ark, agents, service, lost>>

Next ==
  \/ Reconcile \/ Watch \/ CollectGarbage
  \/ EditArk \/ EditService \/ RestartOperator
  \/ \E a \in Agents : ChangeAgent(a)

(* The worker, each informer and the garbage collector make progress.  The
   resync of the informers, hours apart, is not counted on. *)
Spec ==
  /\ Init /\ [][Next]_vars
  /\ WF_vars(Reconcile) /\ WF_vars(CollectGarbage)
  /\ WF_vars(WatchArk) /\ WF_vars(WatchService) /\ \A a \in Agents : WF_vars(WatchAgent(a))
-----------------------------------------------------------------------------
Backed == ~ark.gone /\ \E a \in Agents : a = ark.selector /\ agents[a].exists
Unbacked == ~ark.gone /\ ark.selector # NoAgent /\ ~Backed
Accepted == ark.ports \notin Refused

(* Once the selected agent is there for good, the Service comes to select its
   pods at the wanted ports, whoever edited it and whichever cache lagged when
   the patch was computed; and it does not outlive the ArkService.  This is not
   promised of a Service that was there before. *)
ServiceFollows ==
  ~service.exists =>
    /\ <>[](Backed /\ Accepted) =>
         <>[](service.exists /\ service.agent = ark.selector /\ service.ports = ark.ports)
    /\ <>[]ark.gone => <>[]~service.exists

(* Once everything is at rest, the status tells the truth: the ready replicas of
   the selected agent, the error the API server gives, or that there is no such
   agent, provided no update of that failed for good. *)
StatusFollows ==
  /\ <>[](Backed /\ Accepted) =>
       <>[](\E a \in Agents :
              /\ a = ark.selector
              /\ ark.status = [ready |-> agents[a].ready, observed |-> ark.generation,
                               reason |-> "Reconciled"])
  /\ <>[](Backed /\ ~Accepted) => <>[](ark.status.reason = "ReconcileError")
  /\ <>[]Unbacked /\ []~lost => <>[](ark.status.reason = "DeploymentNotFound")

(* Whatever happens on the way, both come to agree with the ArkService. *)
ComesToAgree == ServiceFollows /\ StatusFollows

(* Nothing is left to do: no reconcile runs, the key is not queued and every event
   has been delivered. *)
AtRest == pc = "idle" /\ ~wanted /\ cache = Current /\ news = "none"

(* The controller never rests with work left over: whatever failed, conflicted or
   was read too early on the way there, at rest the Service is the one the
   ArkService asks for and the status tells how many pods are behind it, or that
   the agent is missing.  A Service that was there before is not promised. *)
RestsInAgreement ==
  ~service.exists =>
    [](AtRest =>
         /\ \A a \in Agents : ~ark.gone /\ a = ark.selector /\ agents[a].exists =>
              /\ service = [exists |-> TRUE, owned |-> TRUE, agent |-> a, ports |-> ark.ports]
              /\ ark.status = [ready |-> agents[a].ready, observed |-> ark.generation,
                               reason |-> "Reconciled"]
         /\ Unbacked /\ ~lost => ark.status.reason = "DeploymentNotFound")
=============================================================================
