--------------------------- MODULE ArkServiceProofs ---------------------------
(***************************************************************************)
(* Proofs about ArkService, for any agents, ports, faults and edits.       *)
(***************************************************************************)
EXTENDS ArkService, TLAPS

(***************************************************************************)
(* Types.  What is written at the version that is stored was computed from *)
(* what is stored, so no status is of a generation that is still to come.  *)
(***************************************************************************)
Pods == [exists : BOOLEAN, ready : {0, 1}]
Cache == [ark : Ark, agents : [Agents -> Pods], service : Service]

TypesOK ==
  /\ ark \in Ark /\ copy \in Ark /\ cache \in Cache
  /\ agents \in [Agents -> Pods] /\ backend \in Pods
  /\ service \in Service
  /\ news \in {"none", "foreign", "owned"}
  /\ wanted \in BOOLEAN /\ lost \in BOOLEAN
  /\ pc \in {"idle", "apply", "status"}
  /\ faults \in 0 .. MaxFaults

(* A version is never changed, only followed by the next; so what was read at the
   stored version is what is stored. *)
Behind(a) ==
  /\ a.version <= ark.version
  /\ a.version = ark.version => a = ark

VersionsOK ==
  /\ ark.status.observed <= ark.generation
  /\ Behind(cache.ark)
  /\ cache.ark.gone => ark.gone
  /\ pc # "idle" => Behind(copy)

LEMMA SomePortsType == SomePorts \in PortLists
  BY ServiceAssumption DEF SomePorts

LEMMA NewTypes == NewStatus \in Status /\ NoArk \in Ark /\ NoBackend \in Pods
<1>1. NewStatus \in Status
  BY DEF NewStatus, Status
<1>2. NoArk \in Ark
  BY <1>1, SomePortsType DEF NoArk, Ark
<1> QED BY <1>1, <1>2 DEF NoBackend, Pods

LEMMA InitTypes == Init => TypesOK /\ VersionsOK
<1> SUFFICES ASSUME Init PROVE TypesOK /\ VersionsOK
  OBVIOUS
<1>1. ark \in Ark /\ ark.version = 0 /\ ~ark.gone /\ ark.status = NewStatus /\ ark.generation = 1
  <2>1. ark \in [version : {0}, gone : {FALSE}, generation : {1}, selector : Agents \cup {NoAgent},
                 ports : PortLists, status : {NewStatus}]
    BY DEF Init
  <2>2. 0 \in Nat /\ 1 \in Nat /\ FALSE \in BOOLEAN
    OBVIOUS
  <2> QED BY <2>1, <2>2, NewTypes DEF Ark
<1>2. agents \in [Agents -> Pods]
  <2>1. \A a \in Agents : agents[a] \in [exists : BOOLEAN, ready : {0}]
    BY DEF Init
  <2>2. \A a \in Agents : agents[a] \in Pods
    BY <2>1 DEF Pods
  <2> QED BY <2>2 DEF Init
<1>3. service \in Service
  <2>1. service \in [exists : BOOLEAN, owned : {FALSE}, agent : {NoAgent}, ports : {SomePorts}]
    BY DEF Init
  <2> QED BY <2>1, SomePortsType DEF Service
<1>4. cache = [ark |-> ark, agents |-> agents, service |-> service]
  BY DEF Init, Current
<1>5. cache \in Cache /\ cache.ark = ark
  BY <1>1, <1>2, <1>3, <1>4 DEF Cache
<1>6. TypesOK
  <2>1. /\ news = "none" /\ wanted \in BOOLEAN /\ lost \in BOOLEAN /\ pc = "idle"
        /\ copy = NoArk /\ backend = NoBackend
    BY Zenon DEF Init
  <2>2. faults \in 0 .. MaxFaults
    BY ServiceAssumption DEF Init
  <2> QED BY <1>1, <1>2, <1>3, <1>5, <2>1, <2>2, NewTypes DEF TypesOK
<1>7. ark.status.observed <= ark.generation
  <2>1. NewStatus.observed = 0 /\ ark.status = NewStatus /\ ark.generation = 1
    BY <1>1 DEF NewStatus
  <2> QED BY <2>1
<1>8. VersionsOK
  <2>1. pc = "idle" /\ cache.ark = ark /\ ark.version \in Nat
    BY <1>1, <1>5 DEF Init
  <2> QED BY <1>7, <2>1 DEF VersionsOK, Behind
<1> QED BY <1>6, <1>8

LEMMA FaultType ==
  ASSUME TypesOK, NEW kind, NoFault \/ Fault(kind)
  PROVE  faults' \in 0 .. MaxFaults
  BY ServiceAssumption DEF NoFault, Fault, TypesOK

LEMMA StoredType ==
  ASSUME ark \in Ark, NEW status \in Status
  PROVE  /\ Stored(status) \in Ark /\ Stored(status).status = status
         /\ Stored(status).gone = ark.gone /\ Stored(status).generation = ark.generation
         /\ Stored(status).selector = ark.selector /\ Stored(status).ports = ark.ports
         /\ \/ Stored(status) = ark
            \/ Stored(status).version = ark.version + 1
<1> DEFINE new == [ark EXCEPT !.version = ark.version + 1, !.status = status]
<1>1. ark.version + 1 \in Nat
  BY DEF Ark
<1>2. /\ new \in Ark /\ new.status = status /\ new.version = ark.version + 1
      /\ new.gone = ark.gone /\ new.generation = ark.generation
      /\ new.selector = ark.selector /\ new.ports = ark.ports
  BY <1>1 DEF Ark
<1>3. Stored(status) = IF status = ark.status THEN ark ELSE new
  BY DEF Stored
<1> HIDE DEF new
<1> QED BY <1>2, <1>3

(* The ArkService stays, or a status of its own generation or an older one, or a
   user, makes the next version of it. *)
ArkMoves ==
  /\ ark' \in Ark /\ ark'.status.observed <= ark'.generation
  /\ ark' = ark \/ ark'.version = ark.version + 1
  /\ ark.gone => ark'.gone

LEMMA StoredMoves ==
  ASSUME TypesOK, VersionsOK, NEW status \in Status, status.observed <= ark.generation,
         ark' = Stored(status)
  PROVE  ArkMoves
<1>1. ark \in Ark
  BY DEF TypesOK
<1> QED BY <1>1, StoredType DEF ArkMoves

LEMMA UnchangedMoves ==
  ASSUME TypesOK, VersionsOK, ark' = ark
  PROVE  ArkMoves
  BY DEF TypesOK, VersionsOK, ArkMoves

LEMMA TryUpdateMoves ==
  ASSUME TypesOK, VersionsOK, NEW reason \in {"NoSelector", "DeploymentNotFound"},
         TryUpdate(cache.ark, [cache.ark.status EXCEPT !.reason = reason])
  PROVE  ArkMoves /\ lost' \in BOOLEAN /\ faults' \in 0 .. MaxFaults
<1> DEFINE status == [cache.ark.status EXCEPT !.reason = reason]
<1>1. /\ ark \in Ark /\ cache.ark \in Ark /\ lost \in BOOLEAN
  BY DEF TypesOK, Cache
<1>2. cache.ark.status \in Status
  BY <1>1 DEF Ark
<1>3. status \in Status /\ status.observed = cache.ark.status.observed
  BY <1>2 DEF Status
<1>4. CASE CanUpdate(cache.ark) /\ ark' = Stored(status) /\ UNCHANGED lost /\ NoFault
  <2>1. cache.ark = ark
    BY <1>4 DEF CanUpdate, VersionsOK, Behind
  <2>2. status.observed <= ark.generation
    BY <1>3, <2>1 DEF VersionsOK
  <2> HIDE DEF status
  <2>3. ArkMoves
    BY <1>3, <1>4, <2>2, StoredMoves
  <2> QED BY <1>1, <1>4, <2>3, FaultType
<1>5. CASE ~CanUpdate(cache.ark) /\ UNCHANGED <<ark, lost>> /\ NoFault
  BY <1>1, <1>5, UnchangedMoves, FaultType
<1>6. CASE Fault("apiError") /\ lost' = TRUE /\ UNCHANGED ark
  BY <1>6, UnchangedMoves, FaultType
<1> QED BY <1>4, <1>5, <1>6 DEF TryUpdate

LEMMA ReturnType ==
  ASSUME Return
  PROVE  pc' = "idle" /\ copy' \in Ark /\ backend' \in Pods
  BY NewTypes DEF Return

LEMMA WriteType ==
  ASSUME TypesOK, NEW s \in Service, Write(s)
  PROVE  service' = s /\ service' \in Service /\ news' \in {"none", "foreign", "owned"}
  BY DEF Write, TypesOK

LEMMA DesiredType ==
  ASSUME TypesOK
  PROVE  Desired \in Service /\ Patched \in Service
<1>1. copy \in Ark /\ service \in Service
  BY DEF TypesOK
<1>2. Desired \in Service /\ Desired.agent = copy.selector /\ Desired.ports = copy.ports
  BY <1>1 DEF Desired, Service, Ark
<1>3. Patched \in Service
  BY <1>1, <1>2 DEF Patched, Service
<1> QED BY <1>2, <1>3

LEMMA ReconcileTypes ==
  ASSUME TypesOK, VersionsOK, Reconcile
  PROVE  TypesOK' /\ ArkMoves
<1>0. /\ ark \in Ark /\ copy \in Ark /\ cache \in Cache /\ agents \in [Agents -> Pods]
      /\ backend \in Pods /\ service \in Service /\ news \in {"none", "foreign", "owned"}
      /\ wanted \in BOOLEAN /\ lost \in BOOLEAN /\ pc \in {"idle", "apply", "status"}
      /\ faults \in 0 .. MaxFaults
  BY DEF TypesOK
<1>1. CASE ReconcileGone
  BY <1>0, <1>1, UnchangedMoves DEF ReconcileGone, TypesOK, worldVars, reconcileVars
<1>2. CASE ReconcileUnbacked
  <2>1. PICK reason \in {"NoSelector", "DeploymentNotFound"} :
          TryUpdate(cache.ark, [cache.ark.status EXCEPT !.reason = reason])
    BY <1>2 DEF ReconcileUnbacked
  <2>2. ArkMoves /\ lost' \in BOOLEAN /\ faults' \in 0 .. MaxFaults
    BY <2>1, TryUpdateMoves
  <2>3. wanted' = FALSE /\ UNCHANGED <<agents, service, news, cache, pc, copy, backend>>
    BY <1>2 DEF ReconcileUnbacked, reconcileVars
  <2> QED BY <1>0, <2>2, <2>3 DEF TypesOK, ArkMoves
<1>3. CASE StartReconcile
  <2>1. cache.ark \in Ark /\ cache.ark.selector \in Agents
    BY <1>0, <1>3 DEF StartReconcile, Cache, Ark
  <2>2. cache.agents[cache.ark.selector] \in Pods
    BY <1>0, <2>1 DEF Cache
  <2>3. /\ copy' = cache.ark /\ backend' = cache.agents[cache.ark.selector] /\ wanted' = FALSE
        /\ pc' = "apply" /\ UNCHANGED <<ark, agents, service, news, cache, lost, faults>>
    BY <1>3 DEF StartReconcile, worldVars
  <2> QED BY <1>0, <2>1, <2>2, <2>3, UnchangedMoves DEF TypesOK
<1>4. CASE ReconcileService
  <2>1. \E s \in Service : Write(s)
    BY <1>4, DesiredType DEF ReconcileService, ApplyService
  <2>2. service' \in Service /\ news' \in {"none", "foreign", "owned"}
    BY <2>1, WriteType
  <2>3. pc' = "status" /\ UNCHANGED <<ark, agents, cache, wanted, copy, backend, lost, faults>>
    BY <1>4 DEF ReconcileService
  <2> QED BY <1>0, <2>2, <2>3, UnchangedMoves DEF TypesOK
<1>5. CASE ServiceFails
  <2> DEFINE status == [copy.status EXCEPT !.reason = "ReconcileError"]
  <2>1. status \in Status /\ status.observed = copy.status.observed
    BY <1>0 DEF Ark, Status
  <2>2. ArkMoves
    <3>1. CASE CanUpdate(copy) /\ ark' = Stored(status)
      <4>1. copy = ark
        BY <1>5, <3>1 DEF ServiceFails, CanUpdate, VersionsOK, Behind
      <4>2. ark' = Stored(status) /\ status.observed <= ark.generation
        BY <2>1, <3>1, <4>1 DEF VersionsOK
      <4> HIDE DEF status
      <4> QED BY <2>1, <4>2, StoredMoves
    <3>2. CASE ark' = ark
      BY <3>2, UnchangedMoves
    <3> QED BY <1>5, <3>1, <3>2 DEF ServiceFails
  <2>3. faults' \in 0 .. MaxFaults /\ copy' \in Ark /\ backend' \in Pods /\ pc' = "idle"
    BY <1>5, FaultType, ReturnType DEF ServiceFails
  <2>4. wanted' = TRUE /\ UNCHANGED <<agents, cache, lost>>
    BY <1>5 DEF ServiceFails
  <2>5. UNCHANGED <<service, news>> \/ \E s \in Service : Write(s)
    BY <1>5, DesiredType DEF ServiceFails, ApplyService
  <2>6. service' \in Service /\ news' \in {"none", "foreign", "owned"}
    BY <1>0, <2>5, WriteType
  <2> QED BY <1>0, <2>2, <2>3, <2>4, <2>6 DEF TypesOK, ArkMoves
<1>6. ASSUME pc = "status", CanUpdate(copy), ark' = Stored(ReadyStatus) PROVE ArkMoves
  <2>1. copy = ark
    BY <1>6 DEF CanUpdate, VersionsOK, Behind
  <2>2. ReadyStatus \in Status /\ ReadyStatus.observed = ark.generation /\ ark.generation \in Nat
    <3>1. backend.ready \in Nat
      BY <1>0 DEF Pods
    <3>2. ark.generation \in Nat
      BY <1>0 DEF Ark
    <3>3. ReadyStatus = [ready |-> backend.ready, observed |-> ark.generation, reason |-> "Reconciled"]
      BY <2>1 DEF ReadyStatus
    <3> QED BY <3>1, <3>2, <3>3 DEF Status
  <2> QED BY <1>6, <2>2, StoredMoves
<1>7. CASE UpdateStatus
  <2>1. ArkMoves
    BY <1>6, <1>7 DEF UpdateStatus
  <2>2. copy' \in Ark /\ backend' \in Pods /\ pc' = "idle"
    BY <1>7, ReturnType DEF UpdateStatus
  <2>3. UNCHANGED <<agents, service, news, cache, wanted, lost, faults>>
    BY <1>7 DEF UpdateStatus
  <2> QED BY <1>0, <2>1, <2>2, <2>3 DEF TypesOK, ArkMoves
<1>8. CASE UpdateFails
  <2>1. ArkMoves
    BY <1>6, <1>8, UnchangedMoves DEF UpdateFails
  <2>2. faults' \in 0 .. MaxFaults /\ copy' \in Ark /\ backend' \in Pods /\ pc' = "idle"
    BY <1>8, FaultType, ReturnType DEF UpdateFails
  <2>3. wanted' = TRUE /\ UNCHANGED <<agents, service, news, cache, lost>>
    BY <1>8 DEF UpdateFails
  <2> QED BY <1>0, <2>1, <2>2, <2>3 DEF TypesOK, ArkMoves
<1> QED BY <1>1, <1>2, <1>3, <1>4, <1>5, <1>7, <1>8 DEF Reconcile

LEMMA EditArkMoves ==
  ASSUME TypesOK, VersionsOK, EditArk
  PROVE  ArkMoves /\ ark'.version = ark.version + 1 /\ ~ark.gone
<1>0. ark \in Ark /\ ark.status.observed <= ark.generation
  BY DEF TypesOK, VersionsOK
<1>1. /\ ark.version + 1 \in Nat /\ ark.generation + 1 \in Nat /\ ark.status.observed \in Nat
      /\ ark.generation \in Nat /\ ~ark.gone
  <2>1. ark.version \in Nat /\ ark.generation \in Nat /\ ark.status \in Status
    BY <1>0 DEF Ark
  <2>2. ark.status.observed \in Nat
    BY <2>1 DEF Status
  <2>3. ~ark.gone
    BY DEF EditArk
  <2> QED BY <2>1, <2>2, <2>3
<1>2. CASE ark' = [ark EXCEPT !.version = @ + 1, !.gone = TRUE]
  <2>1. /\ ark' \in Ark /\ ark'.generation = ark.generation /\ ark'.status = ark.status
        /\ ark'.version = ark.version + 1
    BY <1>0, <1>1, <1>2 DEF Ark
  <2> QED BY <1>0, <1>1, <2>1 DEF ArkMoves
<1>3. ASSUME NEW selector \in Agents \cup {NoAgent}, NEW ports \in PortLists,
             ark' = [ark EXCEPT !.version = @ + 1, !.generation = @ + 1, !.selector = selector,
                                !.ports = ports]
      PROVE  ArkMoves /\ ark'.version = ark.version + 1 /\ ~ark.gone
  <2>1. /\ ark' \in Ark /\ ark'.generation = ark.generation + 1 /\ ark'.status = ark.status
        /\ ark'.version = ark.version + 1
    BY <1>0, <1>1, <1>3 DEF Ark
  <2> QED BY <1>0, <1>1, <2>1 DEF ArkMoves
<1> QED BY <1>2, <1>3 DEF EditArk

LEMMA NoServiceType ==
  ASSUME TypesOK
  PROVE  NoService \in Service /\ \A a \in Agents \cup {NoAgent} : [service EXCEPT !.agent = a] \in Service
<1>1. service \in Service
  BY DEF TypesOK
<1> QED BY <1>1 DEF NoService, Service

LEMMA ServiceWrites ==
  ASSUME TypesOK, EditService \/ CollectGarbage
  PROVE  \E s \in Service : Write(s)
  BY NoServiceType DEF EditService, CollectGarbage

LEMMA EnvironmentTypes ==
  ASSUME TypesOK, VersionsOK,
         Watch \/ CollectGarbage \/ EditArk \/ EditService \/ RestartOperator
           \/ \E a \in Agents : ChangeAgent(a)
  PROVE  TypesOK' /\ ArkMoves
<1>0. /\ ark \in Ark /\ copy \in Ark /\ cache \in Cache /\ agents \in [Agents -> Pods]
      /\ backend \in Pods /\ service \in Service /\ news \in {"none", "foreign", "owned"}
      /\ wanted \in BOOLEAN /\ lost \in BOOLEAN /\ pc \in {"idle", "apply", "status"}
      /\ faults \in 0 .. MaxFaults
  BY DEF TypesOK
<1>1. CASE WatchArk
  <2>1. cache' \in Cache
    BY <1>0, <1>1 DEF WatchArk, Cache
  <2> QED BY <1>0, <1>1, <2>1, UnchangedMoves DEF WatchArk, TypesOK, worldVars, reconcileVars
<1>2. CASE WatchService
  <2>1. cache' \in Cache
    BY <1>0, <1>2 DEF WatchService, Cache
  <2> QED BY <1>0, <1>2, <2>1, UnchangedMoves DEF WatchService, TypesOK, reconcileVars
<1>3. ASSUME NEW a \in Agents, WatchAgent(a) PROVE TypesOK' /\ ArkMoves
  <2>1. [cache.agents EXCEPT ![a] = agents[a]] \in [Agents -> Pods]
    BY <1>0 DEF Cache
  <2>2. cache' = [cache EXCEPT !.agents = [cache.agents EXCEPT ![a] = agents[a]]]
    BY <1>3 DEF WatchAgent
  <2>3. cache' \in Cache
    BY <1>0, <2>1, <2>2 DEF Cache
  <2> QED BY <1>0, <1>3, <2>3, UnchangedMoves
      DEF WatchAgent, FindServices, TypesOK, worldVars, reconcileVars
<1>4. CASE CollectGarbage \/ EditService
  <2>1. service' \in Service /\ news' \in {"none", "foreign", "owned"}
    BY <1>4, ServiceWrites, WriteType
  <2>2. UNCHANGED <<ark, agents, cache, wanted, pc, copy, backend, lost>>
    BY <1>4 DEF CollectGarbage, EditService, environmentRest, reconcileVars
  <2>3. faults' \in 0 .. MaxFaults
    BY <1>0, <1>4, FaultType DEF CollectGarbage, EditService
  <2> QED BY <1>0, <2>1, <2>2, <2>3, UnchangedMoves DEF TypesOK
<1>5. CASE EditArk
  <2>1. UNCHANGED <<agents, service, news, cache, wanted, pc, copy, backend, lost>>
    BY <1>5 DEF EditArk, environmentRest, reconcileVars
  <2>2. faults' \in 0 .. MaxFaults
    BY <1>5, FaultType DEF EditArk
  <2> QED BY <1>0, <1>5, <2>1, <2>2, EditArkMoves DEF TypesOK, ArkMoves
<1>6. CASE RestartOperator
  <2>1. cache' = [ark |-> ark, agents |-> agents, service |-> service]
    BY <1>6 DEF RestartOperator, Current
  <2>2. cache' \in Cache
    BY <1>0, <2>1 DEF Cache
  <2>3. faults' \in 0 .. MaxFaults /\ copy' \in Ark /\ backend' \in Pods /\ pc' = "idle"
    BY <1>6, FaultType, ReturnType DEF RestartOperator
  <2>4. wanted' = TRUE /\ news' = "none" /\ UNCHANGED <<ark, agents, service, lost>>
    BY <1>6 DEF RestartOperator
  <2> QED BY <1>0, <2>2, <2>3, <2>4, UnchangedMoves DEF TypesOK
<1>7. ASSUME NEW a \in Agents, ChangeAgent(a) PROVE TypesOK' /\ ArkMoves
  <2>1. agents[a].exists \in BOOLEAN /\ agents[a].ready \in {0, 1}
    BY <1>0 DEF Pods
  <2>2. PICK p \in Pods : agents' = [agents EXCEPT ![a] = p]
    <3>1. CASE agents' = [agents EXCEPT ![a] = [exists |-> ~@.exists, ready |-> 0]]
      <4>1. [exists |-> ~agents[a].exists, ready |-> 0] \in Pods
        BY DEF Pods
      <4> QED BY <3>1, <4>1
    <3>2. CASE agents' = [agents EXCEPT ![a].ready = 1 - @]
      <4>1. [agents[a] EXCEPT !.ready = 1 - agents[a].ready] \in Pods
        BY <1>0, <2>1 DEF Pods
      <4> QED BY <3>2, <4>1
    <3> QED BY <1>7, <3>1, <3>2 DEF ChangeAgent
  <2>3. agents' \in [Agents -> Pods]
    BY <1>0, <2>2
  <2>4. faults' \in 0 .. MaxFaults
    BY <1>7, FaultType DEF ChangeAgent
  <2>5. UNCHANGED <<ark, service, news, cache, wanted, pc, copy, backend, lost>>
    BY <1>7 DEF ChangeAgent, environmentRest, reconcileVars
  <2> QED BY <1>0, <2>3, <2>4, <2>5, UnchangedMoves DEF TypesOK
<1> QED BY <1>1, <1>2, <1>3, <1>4, <1>5, <1>6, <1>7 DEF Watch

LEMMA StaysBehind ==
  ASSUME TypesOK, ArkMoves, NEW a \in Ark, Behind(a)
  PROVE  a.version <= ark'.version /\ (a.version = ark'.version => a = ark')
<1>1. a.version \in Nat /\ ark.version \in Nat
  BY DEF TypesOK, Ark
<1> QED BY <1>1 DEF ArkMoves, Behind

(* What the caches and the reconcile show is what they showed, or what is stored. *)
LEMMA ViewMoves ==
  ASSUME TypesOK, Next
  PROVE  /\ cache'.ark = cache.ark \/ (cache'.ark = ark /\ ark' = ark)
         /\ pc' # "idle" => copy' = cache.ark \/ (pc # "idle" /\ copy' = copy)
<1>0. cache \in Cache
  BY DEF TypesOK
<1>1. CASE Reconcile
  BY <1>1 DEF Reconcile, ReconcileGone, ReconcileUnbacked, StartReconcile, ReconcileService,
              ServiceFails, UpdateStatus, UpdateFails, Return, worldVars, reconcileVars
<1>2. CASE WatchArk
  BY <1>0, <1>2 DEF WatchArk, worldVars, reconcileVars, Cache
<1>3. CASE WatchService \/ \E a \in Agents : WatchAgent(a)
  <2>1. cache'.ark = cache.ark
    BY <1>0, <1>3 DEF WatchService, WatchAgent, Cache
  <2> QED BY <1>3, <2>1 DEF WatchService, WatchAgent, reconcileVars
<1>4. CASE CollectGarbage \/ EditArk \/ EditService \/ \E a \in Agents : ChangeAgent(a)
  BY <1>4 DEF CollectGarbage, EditArk, EditService, ChangeAgent, environmentRest, reconcileVars
<1>5. CASE RestartOperator
  BY <1>5 DEF RestartOperator, Return, Current
<1> QED BY <1>1, <1>2, <1>3, <1>4, <1>5 DEF Next, Watch

LEMMA TypesPreserved ==
  ASSUME TypesOK, VersionsOK, [Next]_vars
  PROVE  TypesOK' /\ VersionsOK'
<1>1. CASE UNCHANGED vars
  BY <1>1 DEF vars, worldVars, reconcileVars, TypesOK, VersionsOK, Behind
<1>2. CASE Next
  <2>1. TypesOK' /\ ArkMoves
    BY <1>2, ReconcileTypes, EnvironmentTypes DEF Next
  <2>2. /\ cache.ark \in Ark /\ copy \in Ark /\ Behind(cache.ark) /\ (pc # "idle" => Behind(copy))
        /\ cache.ark.gone => ark.gone
    BY DEF TypesOK, Cache, VersionsOK
  <2>3. ark \in Ark /\ ark.version \in Nat
    BY DEF TypesOK, Ark
  <2>4. Behind(cache.ark)'
    BY <1>2, <2>1, <2>2, <2>3, ViewMoves, StaysBehind DEF Behind
  <2>5. (pc # "idle" => Behind(copy))'
    BY <1>2, <2>1, <2>2, ViewMoves, StaysBehind DEF Behind
  <2>6. (cache.ark.gone => ark.gone)'
    BY <1>2, <2>1, <2>2, ViewMoves DEF ArkMoves
  <2> QED BY <2>1, <2>4, <2>5, <2>6 DEF ArkMoves, VersionsOK
<1> QED BY <1>1, <1>2

(* Types are kept, and no status of the ArkService is of a generation that is still
   to come: whoever writes one has read the generation that is stored. *)
THEOREM ServiceTypesCorrect == Spec => []ServiceTypeOK
<1>1. TypesOK /\ VersionsOK => ServiceTypeOK
  <2> SUFFICES ASSUME TypesOK, VersionsOK PROVE ServiceTypeOK
    OBVIOUS
  <2>1. Pods \subseteq Agent
    BY DEF Pods, Agent
  <2>2. /\ agents \in [Agents -> Agent] /\ cache.agents \in [Agents -> Agent] /\ backend \in Agent
        /\ cache.ark \in Ark /\ cache.service \in Service
    BY <2>1 DEF TypesOK, Cache
  <2> QED BY <2>2 DEF TypesOK, VersionsOK, ServiceTypeOK
<1> QED BY InitTypes, TypesPreserved, <1>1, PTL DEF Spec

(***************************************************************************)
(* Nothing is left to do at rest.  Where the Service was not there before, *)
(* every event of it is of an owned one; so while the key is not queued    *)
(* again, nothing has come to the caches since the reconcile started, and  *)
(* what it wrote is about the objects they show.                           *)
(***************************************************************************)
Wants(a) == [exists |-> TRUE, owned |-> TRUE, agent |-> a.selector, ports |-> a.ports]
CachedAgent == cache.agents[cache.ark.selector]
HasAgent == cache.ark.selector \in Agents /\ CachedAgent.exists
InPlace == news = "none" => service = Wants(cache.ark)
ArkSeen == cache.ark.version = ark.version

OwnedOK ==
  /\ service.exists => service.owned
  /\ news # "foreign"
  /\ news = "none" => cache.service = service

BusyOK ==
  pc # "idle" /\ ~wanted =>
    /\ copy = cache.ark /\ ~cache.ark.gone
    /\ HasAgent /\ backend = CachedAgent
    /\ pc = "status" => InPlace

IdleOK ==
  pc = "idle" /\ ~wanted /\ ~cache.ark.gone =>
    /\ HasAgent =>
         /\ InPlace
         /\ ArkSeen => ark.status = [ready |-> CachedAgent.ready,
                                     observed |-> cache.ark.generation, reason |-> "Reconciled"]
    /\ cache.ark.selector # NoAgent /\ ~HasAgent /\ ArkSeen /\ ~lost =>
         ark.status.reason = "DeploymentNotFound"

RestOK == OwnedOK /\ BusyOK /\ IdleOK
RestInv == TypesOK /\ VersionsOK /\ RestOK

LEMMA InitRest == Init /\ ~service.exists => RestOK
<1> SUFFICES ASSUME Init, ~service.exists PROVE RestOK
  OBVIOUS
<1>1. news = "none" /\ wanted = TRUE /\ cache.service = service
  BY DEF Init, Current
<1> QED BY <1>1 DEF RestOK, OwnedOK, BusyOK, IdleOK

(* No event says nothing has changed. *)
LEMMA WriteIsNews ==
  ASSUME OwnedOK, NEW s, Write(s), UNCHANGED cache,
         s.exists => s.owned, service.exists \/ s.owned \/ s = service
  PROVE  OwnedOK' /\ (news' = "none" => news = "none" /\ service' = service)
<1>1. CASE s = service
  BY <1>1 DEF Write, OwnedOK
<1>2. CASE s # service
  BY <1>2 DEF Write, OwnedOK
<1> QED BY <1>1, <1>2

(* What the reconcile relies on is untouched. *)
LEMMA WantedRests ==
  ASSUME OwnedOK', wanted'
  PROVE  RestOK'
  BY DEF RestOK, BusyOK, IdleOK

LEMMA UnbackedRests ==
  ASSUME RestInv, ReconcileUnbacked
  PROVE  RestOK'
<1>1. /\ OwnedOK' /\ pc' = "idle" /\ cache' = cache
  BY DEF ReconcileUnbacked, reconcileVars, RestInv, RestOK, OwnedOK
<1>2. ~HasAgent /\ ~cache.ark.gone
  BY ServiceAssumption DEF ReconcileUnbacked, HasAgent, CachedAgent
<1>3. ASSUME cache.ark.selector # NoAgent, cache.ark.version = ark'.version, ~lost'
      PROVE  ark'.status.reason = "DeploymentNotFound"
  <2> DEFINE status == [cache.ark.status EXCEPT !.reason = "DeploymentNotFound"]
  <2>1. TryUpdate(cache.ark, status)
    BY <1>3 DEF ReconcileUnbacked
  <2>2. ark \in Ark /\ cache.ark \in Ark
    BY DEF RestInv, TypesOK, Cache
  <2>3. status \in Status /\ status.reason = "DeploymentNotFound"
    BY <2>2 DEF Ark, Status
  <2>4. ark.version \in Nat
    BY <2>2 DEF Ark
  <2>5. Behind(cache.ark) /\ (cache.ark.gone => ark.gone)
    BY DEF RestInv, VersionsOK
  <2> HIDE DEF status
  <2>6. CASE CanUpdate(cache.ark) /\ ark' = Stored(status)
    BY <2>2, <2>3, <2>6, StoredType
  <2>7. CASE ~CanUpdate(cache.ark) /\ ark' = ark
    BY <1>2, <1>3, <2>5, <2>7 DEF CanUpdate, Behind
  <2>8. CASE lost'
    BY <1>3, <2>8
  <2> QED BY <2>1, <2>6, <2>7, <2>8 DEF TryUpdate
<1> QED BY <1>1, <1>2, <1>3 DEF RestOK, BusyOK, IdleOK, HasAgent, CachedAgent, ArkSeen

LEMMA StartRests ==
  ASSUME RestInv, StartReconcile
  PROVE  RestOK'
<1>1. OwnedOK'
  BY DEF StartReconcile, worldVars, RestInv, RestOK, OwnedOK
<1>2. /\ cache' = cache /\ pc' = "apply" /\ copy' = cache.ark /\ backend' = CachedAgent
      /\ ~cache.ark.gone /\ CachedAgent.exists /\ cache.ark.selector # NoAgent
  BY DEF StartReconcile, CachedAgent
<1>3. cache.ark.selector \in Agents
  BY <1>2 DEF RestInv, TypesOK, Cache, Ark
<1> QED BY <1>1, <1>2, <1>3 DEF RestOK, BusyOK, IdleOK, HasAgent, CachedAgent

(* Whatever the create or the patch changes makes an event. *)
LEMMA ApplyIsNews ==
  ASSUME RestInv, ApplyService, UNCHANGED cache
  PROVE  OwnedOK' /\ (news' = "none" => news = "none" /\ service' = service)
<1> DEFINE s == IF service.exists THEN Patched ELSE Desired
<1>1. OwnedOK /\ service \in Service /\ Write(s)
  BY DEF RestInv, RestOK, TypesOK, ApplyService
<1>2. Desired.owned /\ Patched.exists = service.exists /\ Patched.owned = service.owned
  BY <1>1 DEF Desired, Patched, Service
<1>3. (s.exists => s.owned) /\ (service.exists \/ s.owned)
  BY <1>1, <1>2 DEF OwnedOK
<1> HIDE DEF s
<1> QED BY <1>1, <1>3, WriteIsNews

(* A patch that changes nothing has found what is wanted. *)
LEMMA ServiceRests ==
  ASSUME RestInv, ReconcileService
  PROVE  RestOK'
<1> DEFINE s == IF service.exists THEN Patched ELSE Desired
<1>1. /\ copy \in Ark /\ service \in Service /\ cache.service \in Service
  BY DEF RestInv, TypesOK, Cache
<1>2. OwnedOK /\ BusyOK /\ pc = "apply"
  BY DEF RestInv, RestOK, ReconcileService
<1>3. /\ Write(s) /\ pc' = "status"
      /\ UNCHANGED <<ark, agents, cache, wanted, copy, backend, lost, faults>>
  BY DEF ReconcileService, ApplyService
<1>4. /\ Desired = Wants(copy) /\ Desired.exists /\ Desired.owned
      /\ Desired.agent = copy.selector /\ Desired.ports = copy.ports
  BY DEF Desired, Wants
<1>5. ASSUME cache.service = service, service.exists, Patched = service
      PROVE  service = Wants(copy)
  <2>1. service.owned
    BY <1>2, <1>5 DEF OwnedOK
  <2>2. Patched.agent = Desired.agent /\ Patched.ports = Desired.ports
    <3>1. Patched = [service EXCEPT !.agent = Desired.agent, !.ports = Desired.ports]
      BY <1>1, <1>5 DEF Patched, Service
    <3> QED BY <1>1, <3>1 DEF Service
  <2> QED BY <1>1, <1>4, <1>5, <2>1, <2>2 DEF Service, Wants
<1>6. OwnedOK' /\ (news' = "none" => news = "none" /\ service' = service)
  BY <1>3, ApplyIsNews DEF ReconcileService
<1>7. ASSUME news' = "none" PROVE service' = Wants(copy)
  <2>1. service' = s /\ service' = service /\ cache.service = service
    BY <1>2, <1>3, <1>6, <1>7 DEF Write, OwnedOK
  <2>2. service.exists
    BY <1>4, <2>1
  <2> QED BY <1>5, <2>1, <2>2
<1> HIDE DEF s
<1> QED BY <1>2, <1>3, <1>6, <1>7 DEF RestOK, BusyOK, IdleOK, HasAgent, CachedAgent, InPlace

LEMMA UpdateRests ==
  ASSUME RestInv, UpdateStatus
  PROVE  RestOK'
<1>1. /\ OwnedOK' /\ BusyOK /\ pc = "status" /\ pc' = "idle"
      /\ UNCHANGED <<agents, service, news, cache, wanted, lost, faults>>
  BY DEF UpdateStatus, Return, RestInv, RestOK, OwnedOK
<1>2. ASSUME ~wanted, cache.ark.version = ark'.version
      PROVE  ark'.status = [ready |-> CachedAgent.ready, observed |-> cache.ark.generation,
                            reason |-> "Reconciled"]
  <2>1. ark \in Ark /\ ark.version \in Nat /\ copy \in Ark /\ backend.ready \in Nat
    BY DEF RestInv, TypesOK, Ark, Pods
  <2>2. ReadyStatus \in Status
    BY <2>1 DEF ReadyStatus, Status, Ark
  <2>3. ReadyStatus = [ready |-> CachedAgent.ready, observed |-> cache.ark.generation,
                       reason |-> "Reconciled"]
    BY <1>1, <1>2 DEF ReadyStatus, BusyOK
  <2>4. ark' = Stored(ReadyStatus)
    BY DEF UpdateStatus
  <2> QED BY <2>1, <2>2, <2>3, <2>4, StoredType
<1>3. ~wanted => InPlace /\ HasAgent
  BY <1>1 DEF BusyOK
<1> QED BY <1>1, <1>2, <1>3 DEF RestOK, BusyOK, IdleOK, HasAgent, CachedAgent, ArkSeen, InPlace

LEMMA WatchAgentRests ==
  ASSUME RestInv, NEW a \in Agents, WatchAgent(a)
  PROVE  RestOK'
<1>1. cache \in Cache
  BY DEF RestInv, TypesOK
<1>2. /\ cache'.ark = cache.ark /\ cache'.service = cache.service
      /\ cache'.agents = [cache.agents EXCEPT ![a] = agents[a]]
      /\ UNCHANGED <<ark, service, news, pc, copy, backend, lost>>
  BY <1>1 DEF WatchAgent, Cache, worldVars, reconcileVars
<1>3. OwnedOK'
  BY <1>2 DEF RestInv, RestOK, OwnedOK
<1>4. CASE wanted'
  BY <1>3, <1>4, WantedRests
<1>5. CASE ~wanted'
  <2>1. ~wanted /\ ~FindServices(a)
    BY <1>5 DEF WatchAgent
  <2>2. CASE cache.ark.gone
    BY <1>2, <1>3, <2>1, <2>2 DEF RestInv, RestOK, BusyOK, IdleOK
  <2>3. CASE cache.ark.selector # a
    <3>1. cache.ark.selector \in Agents => CachedAgent' = CachedAgent
      BY <1>1, <1>2, <2>3 DEF CachedAgent, Cache
    <3>2. HasAgent' = HasAgent
      BY <1>2, <3>1 DEF HasAgent
    <3> QED BY <1>2, <1>3, <2>1, <3>1, <3>2
        DEF RestInv, RestOK, BusyOK, IdleOK, HasAgent, InPlace, Wants, ArkSeen
  <2> QED BY <2>1, <2>2, <2>3 DEF FindServices
<1> QED BY <1>4, <1>5

LEMMA ForeignRests ==
  ASSUME RestInv, EditService \/ CollectGarbage
  PROVE  RestOK'
<1>1. OwnedOK /\ BusyOK /\ IdleOK /\ service \in Service
  BY DEF RestInv, RestOK, TypesOK
<1>2. PICK s : Write(s) /\ (s.exists => s.owned) /\ service.exists
  <2>1. CASE Write(NoService) /\ service.exists
    BY <1>1, <2>1 DEF NoService, Service
  <2>2. ASSUME NEW a \in Agents \cup {NoAgent}, Write([service EXCEPT !.agent = a]), service.exists
        PROVE  \E s : Write(s) /\ (s.exists => s.owned) /\ service.exists
    <3>1. [service EXCEPT !.agent = a].owned = service.owned
      BY <1>1 DEF Service
    <3> QED BY <1>1, <2>2, <3>1 DEF OwnedOK
  <2> QED BY <2>1, <2>2 DEF EditService, CollectGarbage
<1>3. UNCHANGED <<ark, agents, cache, wanted, pc, copy, backend, lost>>
  BY DEF CollectGarbage, EditService, environmentRest, reconcileVars
<1>4. OwnedOK' /\ (news' = "none" => news = "none" /\ service' = service)
  BY <1>1, <1>2, <1>3, WriteIsNews
<1> QED BY <1>1, <1>3, <1>4 DEF RestOK, BusyOK, IdleOK, HasAgent, CachedAgent, InPlace, ArkSeen

LEMMA RestPreserved ==
  ASSUME RestInv, [Next]_vars
  PROVE  RestInv'
<1>1. TypesOK' /\ VersionsOK'
  BY TypesPreserved DEF RestInv
<1> SUFFICES RestOK'
  BY <1>1 DEF RestInv
<1>2. OwnedOK /\ BusyOK /\ IdleOK /\ cache \in Cache
  BY DEF RestInv, RestOK, TypesOK
<1>3. CASE UNCHANGED vars
  BY <1>2, <1>3 DEF vars, worldVars, reconcileVars, RestOK, OwnedOK, BusyOK, IdleOK, HasAgent,
                    CachedAgent, InPlace, ArkSeen, Wants
<1>4. CASE ReconcileGone
  BY <1>2, <1>4 DEF ReconcileGone, worldVars, reconcileVars, RestOK, OwnedOK, BusyOK, IdleOK
<1>5. CASE ServiceFails \/ UpdateFails
  <2>1. wanted' /\ UNCHANGED cache /\ (UNCHANGED <<service, news>> \/ ApplyService)
    BY <1>5 DEF ServiceFails, UpdateFails
  <2>2. OwnedOK'
    BY <1>2, <2>1, ApplyIsNews DEF OwnedOK
  <2> QED BY <2>1, <2>2, WantedRests
<1>6. CASE WatchArk
  <2>1. wanted' /\ UNCHANGED <<service, news>> /\ cache'.service = cache.service
    BY <1>2, <1>6 DEF WatchArk, worldVars, Cache
  <2> QED BY <1>2, <2>1, WantedRests DEF OwnedOK
<1>7. CASE WatchService
  <2>1. wanted' /\ UNCHANGED service /\ news' = "none" /\ cache'.service = service
    BY <1>2, <1>7 DEF WatchService, Cache, OwnedOK, RestInv, TypesOK
  <2> QED BY <1>2, <2>1, WantedRests DEF OwnedOK
<1>8. CASE RestartOperator
  <2>1. wanted' /\ UNCHANGED service /\ news' = "none" /\ cache'.service = service
    BY <1>8 DEF RestartOperator, Current
  <2> QED BY <1>2, <2>1, WantedRests DEF OwnedOK
<1>9. CASE EditArk
  <2>1. ark'.version = ark.version + 1 /\ cache.ark.version <= ark.version
    BY <1>9, EditArkMoves DEF RestInv, VersionsOK, Behind
  <2>2. cache.ark.version \in Nat /\ ark.version \in Nat
    BY DEF RestInv, TypesOK, Cache, Ark
  <2>3. UNCHANGED <<agents, service, news, cache, wanted, pc, copy, backend, lost>>
    BY <1>9 DEF EditArk, environmentRest, reconcileVars
  <2>4. cache'.ark.version # ark'.version
    BY <2>1, <2>2, <2>3
  <2> QED BY <1>2, <2>3, <2>4 DEF RestOK, OwnedOK, BusyOK, IdleOK, HasAgent, CachedAgent,
                                  InPlace, ArkSeen, Wants
<1>10. CASE \E a \in Agents : ChangeAgent(a)
  <2>1. UNCHANGED <<ark, service, news, cache, wanted, pc, copy, backend, lost>>
    BY <1>10 DEF ChangeAgent, environmentRest, reconcileVars
  <2> QED BY <1>2, <2>1 DEF RestOK, OwnedOK, BusyOK, IdleOK, HasAgent, CachedAgent,
                            InPlace, ArkSeen, Wants
<1> QED
  BY <1>3, <1>4, <1>5, <1>6, <1>7, <1>8, <1>9, <1>10, UnbackedRests, StartRests, ServiceRests,
     UpdateRests, WatchAgentRests, ForeignRests DEF Next, Reconcile, Watch

(* Whatever failed, conflicted or was read too early on the way there, a controller
   with nothing left to see has put the Service in place that the ArkService asks
   for and reported the pods behind it, or that the agent is missing. *)
THEOREM ServiceAlwaysRestsInAgreement == Spec => RestsInAgreement
<1> DEFINE Agrees ==
      AtRest =>
        /\ \A a \in Agents : ~ark.gone /\ a = ark.selector /\ agents[a].exists =>
             /\ service = [exists |-> TRUE, owned |-> TRUE, agent |-> a, ports |-> ark.ports]
             /\ ark.status = [ready |-> agents[a].ready, observed |-> ark.generation,
                              reason |-> "Reconciled"]
        /\ Unbacked /\ ~lost => ark.status.reason = "DeploymentNotFound"
<1>1. Init /\ ~service.exists => RestInv
  BY InitTypes, InitRest DEF RestInv
<1>2. RestInv => Agrees
  <2> SUFFICES ASSUME RestInv, AtRest, ~ark.gone PROVE Agrees
    BY DEF Unbacked
  <2>1. /\ pc = "idle" /\ ~wanted /\ news = "none"
        /\ cache.ark = ark /\ cache.agents = agents /\ cache.service = service
    BY DEF AtRest, Current
  <2>2. HasAgent <=> \E a \in Agents : a = ark.selector /\ agents[a].exists
    BY <2>1 DEF HasAgent, CachedAgent
  <2>3. HasAgent => service = Wants(ark)
                    /\ ark.status = [ready |-> agents[ark.selector].ready,
                                     observed |-> ark.generation, reason |-> "Reconciled"]
    BY <2>1 DEF RestInv, RestOK, IdleOK, InPlace, ArkSeen, CachedAgent
  <2>4. Unbacked /\ ~lost => ark.status.reason = "DeploymentNotFound"
    BY <2>1, <2>2 DEF RestInv, RestOK, IdleOK, ArkSeen, Unbacked, Backed
  <2> QED BY <2>2, <2>3, <2>4 DEF Wants
<1> HIDE DEF Agrees
<1>3. Spec => (~service.exists => []Agrees)
  BY <1>1, <1>2, RestPreserved, PTL DEF Spec
<1> QED BY <1>3 DEF RestsInAgreement, Agrees
====
