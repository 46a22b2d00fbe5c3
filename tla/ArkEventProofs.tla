--------------------------- MODULE ArkEventProofs ---------------------------
(***************************************************************************)
(* Proofs about ArkEvent, for any events, schedules, requests and faults.  *)
(***************************************************************************)
EXTENDS ArkEvent, WellFoundedInduction, TLAPS

(***************************************************************************)
(* The least and the greatest of some numbers.                             *)
(***************************************************************************)
LEMMA LeastNumber ==
  ASSUME NEW T \in SUBSET Nat, T # {}
  PROVE  Min(T) \in T /\ \A y \in T : Min(T) <= y
<1>1. PICK x \in T : \A y \in T : ~ (<<y, x>> \in OpToRel(<, Nat))
  BY NatLessThanWellFounded, WFMin, Zenon
<1>2. \A y \in T : x <= y
  <2>1. \A y \in T : ~(y < x)
    BY <1>1 DEF OpToRel
  <2> QED BY <2>1
<1> QED BY <1>2 DEF Min

(* What is farthest below a bound is least. *)
LEMMA GreatestNumber ==
  ASSUME NEW T \in SUBSET Nat, T # {}, NEW bound \in Nat, \A y \in T : y <= bound
  PROVE  Max(T) \in T /\ \A y \in T : Max(T) >= y
<1> DEFINE U == {bound - y : y \in T}
<1>1. U \in SUBSET Nat /\ U # {}
  OBVIOUS
<1> HIDE DEF U
<1>2. Min(U) \in U /\ \A u \in U : Min(U) <= u
  BY <1>1, LeastNumber
<1>3. PICK x \in T : Min(U) = bound - x
  BY <1>2 DEF U
<1>4. \A y \in T : bound - y \in U
  BY DEF U
<1>5. \A y \in T : x >= y
  BY <1>2, <1>3, <1>4
<1> QED BY <1>5 DEF Max

LEMMA GreaterOfTwo ==
  ASSUME NEW a \in Int, NEW b \in Int
  PROVE  Max({a, b}) \in Int /\ Max({a, b}) >= a
<1>1. \E x \in {a, b} : \A y \in {a, b} : x >= y
  OBVIOUS
<1>2. Max({a, b}) \in {a, b} /\ \A y \in {a, b} : Max({a, b}) >= y
  BY <1>1 DEF Max
<1> QED BY <1>2

(***************************************************************************)
(* Types.                                                                  *)
(***************************************************************************)
Key == Range(spec.targets) \X Nat
RequestRecord ==
  [pc : {"none", "fire", "create", "save", "wait", "done"},
   copy : [version : Nat, status : EventStatus], fired : Nat, target : DOMAIN spec.targets,
   created : Nat, run : Key \cup {<<>>}, deadline : Nat, answer : Answer]
Table(R) == DOMAIN R \subseteq Key /\ R \in [DOMAIN R -> Run]

TypesOK ==
  /\ spec \in Cases /\ event \in Event /\ cachedEvent \in Event
  /\ Table(runs) /\ upstream \in Upstream
  /\ Table(seen.runs) /\ seen.upstream \in Upstream
  /\ now \in Nat /\ wakeAt \in Nat /\ startedAt \in Nat /\ cause \in Nat /\ faults \in Nat
  /\ wanted \in BOOLEAN /\ secret \in BOOLEAN /\ pc \in {"idle", "create", "save"}
  /\ trig \in EventStatus /\ target \in DOMAIN spec.targets
  /\ requests \in [Requests -> RequestRecord]

LEMMA TargetsType ==
  ASSUME spec \in Cases
  PROVE  /\ DOMAIN spec.targets = 1 .. Len(spec.targets) /\ Len(spec.targets) \in Nat \ {0}
         /\ \A i \in DOMAIN spec.targets : spec.targets[i] \in Range(spec.targets)
<1> DEFINE T == Range(spec.targets)
           seq == spec.targets
<1>1. seq \in Seq(T) \ {<<>>}
  BY EventAssumption
<1>2. \A i \in DOMAIN seq : seq[i] \in T
  BY DEF Range
<1> HIDE DEF T, seq
<1>3. DOMAIN seq = 1 .. Len(seq) /\ Len(seq) \in Nat \ {0}
  BY <1>1
<1> QED BY <1>2, <1>3 DEF T, seq

(* What a reconcile fires for. *)
Cause(status) == IF Fires(status) THEN FireCause(status) ELSE 0

(* The completion of the watched flow lies in the past, and so does what the cache
   shows of it. *)
CompletedByNow ==
  /\ now > 0 /\ upstream.completed <= now /\ seen.upstream.completed <= now
  /\ upstream.phase \in Ended => upstream.completed > 0
  /\ seen.upstream.phase \in Ended => seen.upstream.completed > 0

(* What an event fires for lies in the past, and after its last fire; an event that
   waits for the end of a flow has such a cause whenever it fires. *)
LEMMA DueType ==
  ASSUME TypesOK, NEW status \in EventStatus
  PROVE  /\ Cause(status) \in Nat
         /\ Cause(status) # 0 => Fires(status) /\ Cause(status) > status.last
         /\ Cause(status) # 0 /\ seen.upstream.completed <= now => Cause(status) <= now
         /\ Fires(status) /\ CompletedByNow /\ AwaitsEnd => Cause(status) # 0
<1> DEFINE D == Due(status.last)
           low == Max({status.last, now - Lookback})
<1>0. status.last \in Nat /\ now \in Nat /\ Lookback \in Nat /\ DueTimes \subseteq Nat \ {0}
  BY EventAssumption DEF TypesOK, EventStatus
<1>1. low \in Int /\ low >= status.last
  BY <1>0, GreaterOfTwo
<1>2. D = {d \in DueTimes : d > low /\ d <= now}
  BY DEF Due
<1> HIDE DEF low, D
<1>3. D \in SUBSET Nat /\ \A d \in D : d > status.last /\ d <= now
  BY <1>0, <1>1, <1>2
<1>4. D # {} => Max(D) \in D
  BY <1>0, <1>3, GreatestNumber
<1>5. seen.upstream.completed \in Nat
  BY DEF TypesOK, Upstream
<1>6. CASE spec.source = "cron"
  <2>1. /\ Fires(status) <=> D # {}
        /\ Cause(status) = IF D # {} THEN Max(D) ELSE 0
    BY <1>6 DEF Fires, CronDue, PhaseReached, Cause, FireCause, D
  <2>2. D # {} => Max(D) \in Nat /\ Max(D) > status.last /\ Max(D) <= now /\ Max(D) # 0
    <3>1. ASSUME NEW m \in D PROVE m \in Nat /\ m > status.last /\ m <= now /\ m # 0
      BY <1>0, <1>3
    <3> QED BY <1>4, <3>1
  <2> QED BY <2>1, <2>2
<1>7. CASE spec.source # "cron"
  <2>1. Fires(status) <=> PhaseReached(status)
    BY <1>7 DEF Fires, CronDue
  <2>2. Cause(status) = IF PhaseReached(status) THEN seen.upstream.completed ELSE 0
    BY <1>7, <2>1 DEF Cause, FireCause
  <2>3. PhaseReached(status) =>
          seen.upstream.completed = 0 \/ seen.upstream.completed > status.last
    BY DEF PhaseReached
  <2>4. PhaseReached(status) /\ CompletedByNow /\ AwaitsEnd => seen.upstream.completed > 0
    BY DEF PhaseReached, CompletedByNow, AwaitsEnd
  <2> QED BY <1>0, <1>5, <2>1, <2>2, <2>3, <2>4
<1> QED BY <1>6, <1>7

LEMMA StoredType ==
  ASSUME event \in Event, NEW status \in EventStatus
  PROVE  /\ Stored(status) \in Event /\ Stored(status).status = status
<1> DEFINE new == [event EXCEPT !.version = event.version + 1, !.status = status]
<1>1. event.version + 1 \in Nat
  BY DEF Event
<1>2. new \in Event /\ new.status = status
  BY <1>1 DEF Event
<1>3. Stored(status) = IF status = event.status THEN event ELSE new
  BY DEF Stored
<1> HIDE DEF new
<1>4. CASE status = event.status
  BY <1>3, <1>4
<1>5. CASE status # event.status
  BY <1>2, <1>3, <1>5
<1> QED BY <1>4, <1>5

LEMMA TouchedType ==
  ASSUME event \in Event
  PROVE  Touched \in Event
  BY DEF Touched, Event

LEMMA WakeUpType ==
  ASSUME wakeAt \in Nat, startedAt \in Nat
  PROVE  WakeUp \in Nat
<1> DEFINE T == ({wakeAt} \ {0}) \cup {d + 1 : d \in {d \in DueTimes : d > startedAt}}
<1>0. DueTimes \subseteq Nat
  BY EventAssumption
<1>1. T \in SUBSET Nat
  BY <1>0
<1>2. WakeUp = IF spec.source = "cron" /\ T # {} THEN Min(T) ELSE wakeAt
  BY DEF WakeUp
<1> HIDE DEF T
<1>3. T # {} => Min(T) \in Nat
  BY <1>1, LeastNumber
<1> QED BY <1>2, <1>3

LEMMA NewTypes ==
  ASSUME spec \in Cases
  PROVE  NewStatus \in EventStatus /\ NewRequest \in RequestRecord /\ 1 \in DOMAIN spec.targets
<1>1. NewStatus \in EventStatus /\ 1 \in DOMAIN spec.targets
  BY TargetsType DEF NewStatus, EventStatus
<1> QED BY <1>1 DEF NewRequest, RequestRecord, Answer

(* A dispatch adds a flow under a new name. *)
LEMMA DispatchAdds ==
  ASSUME TypesOK, NEW i \in DOMAIN spec.targets, NEW why \in Nat \cup Requests, Dispatch(i, why)
  PROVE  /\ Name(i) \in Key /\ Name(i) \notin DOMAIN runs
         /\ DOMAIN runs' = DOMAIN runs \cup {Name(i)}
         /\ runs'[Name(i)].cause = why
         /\ \A k \in DOMAIN runs : runs'[k] = runs[k]
         /\ DOMAIN runs' \subseteq Key /\ runs' \in [DOMAIN runs' -> Run]
<1> DEFINE name == Name(i)
           new == [phase |-> "", cause |-> why]
<1>1. name \in Key
  BY TargetsType DEF TypesOK, Name, Key
<1>2. DOMAIN runs \subseteq Key /\ \A k \in DOMAIN runs : runs[k] \in Run
  BY DEF TypesOK, Table
<1>3. name \notin DOMAIN runs
      /\ runs' = [k \in DOMAIN runs \cup {name} |-> IF k = name THEN new ELSE runs[k]]
  BY DEF Dispatch
<1>4. new \in Run
  BY DEF Run, RunPhase
<1>5. new.cause = why
  BY Zenon
<1> HIDE DEF name, new
<1>6. DOMAIN runs' = DOMAIN runs \cup {name} /\ runs'[name] = new
      /\ \A k \in DOMAIN runs : runs'[k] = runs[k]
  BY <1>3
<1>7. DOMAIN runs' \subseteq Key /\ runs' \in [DOMAIN runs' -> Run]
  BY <1>1, <1>2, <1>3, <1>4
<1> QED BY <1>1, <1>3, <1>5, <1>6, <1>7 DEF name

LEMMA FaultType ==
  ASSUME TypesOK, NEW kind, NoFault \/ Fault(kind)
  PROVE  faults' \in Nat /\ (faults' = 0 => faults = 0 /\ NoFault)
  BY DEF NoFault, Fault, TypesOK

LEMMA IdleType ==
  ASSUME spec \in Cases, Idle
  PROVE  pc' = "idle" /\ trig' \in EventStatus /\ startedAt' \in Nat /\ cause' \in Nat
         /\ target' \in DOMAIN spec.targets
  BY NewTypes DEF Idle

(* What a failed dispatch may have done. *)
LEMMA DispatchFailsType ==
  ASSUME TypesOK, NEW i \in DOMAIN spec.targets, NEW why \in Nat \cup Requests,
         DispatchFails(i, why)
  PROVE  /\ DOMAIN runs' \subseteq Key /\ runs' \in [DOMAIN runs' -> Run]
         /\ faults' \in Nat
<1>1. faults' \in Nat
  BY FaultType DEF DispatchFails
<1>2. CASE UNCHANGED runs
  BY <1>1, <1>2 DEF TypesOK, Table
<1>3. CASE Dispatch(i, why)
  BY <1>1, <1>3, DispatchAdds
<1> QED BY <1>2, <1>3 DEF DispatchFails

(* The types of the step's results, given that the event stays what it is. *)
LEMMA TypesFrom ==
  ASSUME TypesOK, spec' = spec,
         event' \in Event, cachedEvent' \in Event,
         DOMAIN runs' \subseteq Key, runs' \in [DOMAIN runs' -> Run],
         upstream' \in Upstream,
         seen' = seen \/ seen' = [runs |-> runs, upstream |-> upstream],
         now' \in Nat, wakeAt' \in Nat, startedAt' \in Nat, cause' \in Nat, faults' \in Nat,
         wanted' \in BOOLEAN, secret' \in BOOLEAN, pc' \in {"idle", "create", "save"},
         trig' \in EventStatus, target' \in DOMAIN spec.targets,
         requests' \in [Requests -> RequestRecord]
  PROVE  TypesOK'
<1>1. Key' = Key /\ RequestRecord' = RequestRecord
  BY DEF Key, RequestRecord
<1>2. spec' \in Cases
  BY DEF TypesOK
<1>3. \/ seen'.runs = seen.runs /\ seen'.upstream = seen.upstream
      \/ seen'.runs = runs /\ seen'.upstream = upstream
  OBVIOUS
<1> HIDE DEF Key, RequestRecord
<1> QED BY <1>1, <1>2, <1>3 DEF TypesOK, Table

LEMMA ReconcileTypes ==
  ASSUME TypesOK, Reconcile
  PROVE  TypesOK'
<1>0. /\ spec \in Cases /\ event \in Event /\ cachedEvent \in Event
      /\ DOMAIN runs \subseteq Key /\ runs \in [DOMAIN runs -> Run] /\ upstream \in Upstream
      /\ now \in Nat /\ wakeAt \in Nat /\ startedAt \in Nat /\ cause \in Nat /\ faults \in Nat
      /\ wanted \in BOOLEAN /\ secret \in BOOLEAN /\ pc \in {"idle", "create", "save"}
      /\ trig \in EventStatus /\ target \in DOMAIN spec.targets
      /\ requests \in [Requests -> RequestRecord]
  BY DEF TypesOK, Table
<1>1. CASE ReconcileSuspended
  <2>1. faults' \in Nat
    BY <1>1, FaultType DEF ReconcileSuspended, ReadEvent
  <2> QED BY <1>0, <1>1, <2>1, TypesFrom DEF ReconcileSuspended, eventVars, flowVars
<1>2. CASE StartReconcile
  <2> DEFINE status == cachedEvent.status
             why == Cause(status)
  <2>1. faults' \in Nat
    BY <1>2, FaultType DEF StartReconcile, ReadEvent
  <2>2. /\ pc' = IF Fires(status) /\ ~Forbidden THEN "create" ELSE "save"
        /\ trig' = IF Fires(status) THEN Fired(status) ELSE status
        /\ cause' = why /\ startedAt' = now
        /\ secret' = (secret \/ spec.source = "webhook") /\ wanted' = FALSE
        /\ UNCHANGED <<spec, eventVars, flowVars, now, wakeAt, target, requests>>
    BY <1>2 DEF StartReconcile, Cause
  <2>3. status \in EventStatus
    BY <1>0 DEF Event
  <2> HIDE DEF status
  <2>4. why \in Nat
    BY <2>3, DueType
  <2> HIDE DEF why
  <2>5. trig' \in EventStatus
    BY <1>0, <2>2, <2>3 DEF Fired, EventStatus
  <2>6. secret' \in BOOLEAN /\ pc' \in {"idle", "create", "save"}
    BY <2>2
  <2> QED BY <1>0, <2>1, <2>2, <2>4, <2>5, <2>6, TypesFrom DEF eventVars, flowVars
<1>3. CASE CreateRun
  <2>1. DOMAIN runs' \subseteq Key /\ runs' \in [DOMAIN runs' -> Run]
    BY <1>0, <1>3, DispatchAdds DEF CreateRun
  <2>2. pc' \in {"idle", "create", "save"} /\ target' \in DOMAIN spec.targets
    BY <1>0, <1>3, TargetsType DEF CreateRun
  <2> QED BY <1>0, <1>3, <2>1, <2>2, TypesFrom DEF CreateRun, eventVars
<1>4. CASE CreateFails
  <2>1. DOMAIN runs' \subseteq Key /\ runs' \in [DOMAIN runs' -> Run] /\ faults' \in Nat
    BY <1>0, <1>4, DispatchFailsType DEF CreateFails
  <2> QED BY <1>0, <1>4, <2>1, IdleType, TypesFrom DEF CreateFails, Retry, eventVars
<1>5. CASE SaveStatus
  <2>1. faults' \in Nat
    BY <1>5, FaultType DEF SaveStatus
  <2>2. event' \in Event
    BY <1>0, <1>5, StoredType, TouchedType DEF SaveStatus
  <2>3. wakeAt' \in Nat
    BY <1>0, <1>5, WakeUpType DEF SaveStatus
  <2> QED BY <1>0, <1>5, <2>1, <2>2, <2>3, IdleType, TypesFrom DEF SaveStatus, flowVars
<1>6. CASE SaveFails
  <2>1. faults' \in Nat
    BY <1>6, FaultType DEF SaveFails
  <2>2. event' \in Event
    BY <1>0, <1>6, StoredType DEF SaveFails
  <2> QED BY <1>0, <1>6, <2>1, <2>2, IdleType, TypesFrom DEF SaveFails, Retry, flowVars
<1> QED BY <1>1, <1>2, <1>3, <1>4, <1>5, <1>6 DEF Reconcile

LEMMA RespondType ==
  ASSUME TypesOK, NEW r \in Requests, NEW answer \in Answer, Respond(r, answer)
  PROVE  /\ requests' \in [Requests -> RequestRecord]
         /\ requests'[r].pc = "done" /\ requests'[r].answer = answer
         /\ requests'[r].run = requests[r].run /\ requests'[r].created = 0
         /\ \A q \in Requests \ {r} : requests'[q] = requests[q]
<1> DEFINE new == [NewRequest EXCEPT !.pc = "done", !.answer = answer, !.run = requests[r].run]
<1>1. NewRequest \in RequestRecord /\ requests \in [Requests -> RequestRecord]
  BY NewTypes DEF TypesOK
<1>2. requests[r].run \in Key \cup {<<>>}
  BY <1>1 DEF RequestRecord
<1>3. new \in RequestRecord
  BY <1>1, <1>2 DEF RequestRecord
<1>4. new.pc = "done" /\ new.answer = answer /\ new.run = requests[r].run /\ new.created = 0
  BY DEF NewRequest
<1>5. requests' = [requests EXCEPT ![r] = new]
  BY DEF Respond
<1> HIDE DEF new
<1> QED BY <1>1, <1>3, <1>4, <1>5

LEMMA HandleType ==
  ASSUME TypesOK, NEW r \in Requests, NEW new \in RequestRecord, Handle(r, new)
  PROVE  /\ requests' \in [Requests -> RequestRecord] /\ requests'[r] = new
         /\ \A q \in Requests \ {r} : requests'[q] = requests[q]
  BY DEF TypesOK, Handle

(* What a request becomes when it arrives. *)
LEMMA RequestArrivesType ==
  ASSUME TypesOK, NEW r \in Requests, RequestArrives(r)
  PROVE  /\ requests' \in [Requests -> RequestRecord]
         /\ \A q \in Requests \ {r} : requests'[q] = requests[q]
         /\ spec.source = "webhook"
         /\ requests'[r].created = 0
         /\ requests'[r].pc # "wait" /\ requests'[r].answer \notin {"succeeded", "failed"}
         /\ requests[r].pc = "none"
<1>0. /\ now \in Nat /\ cachedEvent \in Event /\ spec \in Cases
  BY DEF TypesOK
<1>1. requests[r].pc = "none" /\ spec.source = "webhook"
  BY DEF RequestArrives
<1>2. CASE \E answer \in {"unavailable", "unauthorized"} : Respond(r, answer)
  BY <1>1, <1>2, RespondType DEF Answer
<1>3. CASE ~\E answer \in {"unavailable", "unauthorized"} : Respond(r, answer)
  <2> DEFINE copy == [version |-> cachedEvent.version, status |-> cachedEvent.status]
             place == IF Forbidden THEN "save" ELSE "create"
             new == [NewRequest EXCEPT !.pc = place, !.fired = now, !.copy = copy]
  <2>1. copy \in [version : Nat, status : EventStatus]
    BY <1>0 DEF Event
  <2>2. Handle(r, new)
    BY <1>3 DEF RequestArrives
  <2>3. place \in {"create", "save"}
    OBVIOUS
  <2> HIDE DEF copy, place
  <2>4. new \in RequestRecord
    BY <1>0, <2>1, <2>3, NewTypes DEF RequestRecord
  <2>5. new.created = 0 /\ new.pc # "wait" /\ new.answer = ""
    BY <2>3 DEF NewRequest
  <2> HIDE DEF new
  <2> QED BY <1>1, <2>2, <2>4, <2>5, HandleType
<1> QED BY <1>2, <1>3

LEMMA RequestCreatesType ==
  ASSUME TypesOK, NEW r \in Requests, RequestCreates(r)
  PROVE  /\ requests' \in [Requests -> RequestRecord]
         /\ \A q \in Requests \ {r} : requests'[q] = requests[q]
         /\ requests[r].pc = "create" /\ requests[r].target \in DOMAIN spec.targets
         /\ Dispatch(requests[r].target, r)
         /\ requests'[r].pc = IF requests[r].target = Len(spec.targets) THEN "save" ELSE "create"
         /\ requests'[r].created = requests[r].target
         /\ requests'[r].run = Name(requests[r].target)
         /\ requests'[r].answer = requests[r].answer
<1> DEFINE i == requests[r].target
           place == IF i = Len(spec.targets) THEN "save" ELSE "create"
           then == IF i = Len(spec.targets) THEN i ELSE i + 1
           new == [requests[r] EXCEPT !.run = Name(i), !.created = i, !.pc = place, !.target = then]
<1>0. spec \in Cases /\ requests[r] \in RequestRecord /\ now \in Nat
  BY DEF TypesOK
<1>1. i \in DOMAIN spec.targets /\ i \in Nat /\ then \in DOMAIN spec.targets
  <2>1. i \in DOMAIN spec.targets
    BY <1>0 DEF RequestRecord
  <2> HIDE DEF i
  <2> QED BY <1>0, <2>1, TargetsType
<1>2. Handle(r, new) /\ Dispatch(i, r) /\ requests[r].pc = "create"
  BY DEF RequestCreates
<1>3. Name(i) \in Key
  BY <1>0, <1>1, <1>2, DispatchAdds
<1>4. place \in {"create", "save"}
  OBVIOUS
<1> HIDE DEF i, then, place
<1>5. new \in RequestRecord
  BY <1>0, <1>1, <1>3, <1>4 DEF RequestRecord
<1>6. /\ new.pc = place /\ new.created = i /\ new.run = Name(i) /\ new.answer = requests[r].answer
  BY <1>0 DEF RequestRecord
<1> HIDE DEF new
<1>7. /\ requests' \in [Requests -> RequestRecord] /\ requests'[r] = new
      /\ \A q \in Requests \ {r} : requests'[q] = requests[q]
  BY <1>2, <1>5, HandleType
<1> QED BY <1>1, <1>2, <1>6, <1>7 DEF i, place

LEMMA RequestSavesType ==
  ASSUME TypesOK, NEW r \in Requests, RequestSaves(r)
  PROVE  /\ requests' \in [Requests -> RequestRecord]
         /\ \A q \in Requests \ {r} : requests'[q] = requests[q]
         /\ requests[r].pc = "save"
         /\ \/ requests'[r].pc = "done" /\ requests'[r].created = 0
               /\ requests'[r].answer \in {"accepted", "badRequest"}
            \/ /\ requests'[r].pc = "wait" /\ requests[r].created = 1 /\ requests'[r].created = 1
               /\ requests'[r].run = requests[r].run /\ requests'[r].answer = requests[r].answer
         /\ event' \in Event /\ faults' \in Nat
<1>0. event \in Event /\ requests[r] \in RequestRecord /\ now \in Nat
  BY DEF TypesOK
<1>1. requests[r].pc = "save"
  BY DEF RequestSaves
<1>2. faults' \in Nat
  BY FaultType DEF RequestSaves
<1>3. event' \in Event
  <2> DEFINE old == requests[r].copy.status
             fired == requests[r].fired
             count == old.count + 1
             status == [old EXCEPT !.last = fired, !.count = count]
  <2>1. old \in EventStatus /\ fired \in Nat
    BY <1>0 DEF RequestRecord
  <2> HIDE DEF old, fired
  <2>2. count \in Nat
    BY <2>1 DEF EventStatus
  <2> HIDE DEF count
  <2>3. status \in EventStatus
    BY <2>1, <2>2 DEF EventStatus
  <2>4. event' = Stored(status) \/ UNCHANGED event
    BY DEF RequestSaves, old, fired, count
  <2> HIDE DEF status
  <2> QED BY <1>0, <2>3, <2>4, StoredType
<1>4. CASE \E answer \in {"accepted", "badRequest"} : Respond(r, answer)
  BY <1>1, <1>2, <1>3, <1>4, RespondType DEF Answer
<1>5. CASE ~\E answer \in {"accepted", "badRequest"} : Respond(r, answer)
  <2> DEFINE new == [requests[r] EXCEPT !.pc = "wait", !.deadline = now + SyncTimeout]
  <2>1. requests[r].created = 1 /\ Handle(r, new)
    BY <1>5 DEF RequestSaves
  <2>2. now + SyncTimeout \in Nat
    BY <1>0, EventAssumption
  <2>3. new \in RequestRecord
    BY <1>0, <2>2 DEF RequestRecord
  <2>4. /\ new.pc = "wait" /\ new.created = requests[r].created /\ new.run = requests[r].run
        /\ new.answer = requests[r].answer
    BY <1>0 DEF RequestRecord
  <2> HIDE DEF new
  <2> QED BY <1>1, <1>2, <1>3, <2>1, <2>3, <2>4, HandleType
<1> QED BY <1>4, <1>5

(* A handler that gives up, or hears or waits no more, dispatches nothing. *)
LEMMA RequestEndsType ==
  ASSUME TypesOK, NEW r \in Requests, RequestFails(r) \/ RequestPolls(r) \/ RequestTimesOut(r)
  PROVE  /\ requests' \in [Requests -> RequestRecord]
         /\ \A q \in Requests \ {r} : requests'[q] = requests[q]
         /\ requests[r].pc \in {"create", "wait"}
         /\ requests'[r].pc = "done" /\ requests'[r].created = 0
         /\ requests'[r].run = requests[r].run
<1>1. PICK answer \in Answer : Respond(r, answer) /\ requests[r].pc \in {"create", "wait"}
  BY DEF RequestFails, RequestPolls, RequestTimesOut, Answer
<1> QED BY <1>1, RespondType

LEMMA RequestTypes ==
  ASSUME TypesOK, NEW r \in Requests, RequestArrives(r) \/ ServeRequest(r)
  PROVE  TypesOK'
<1>0. /\ spec \in Cases /\ event \in Event /\ cachedEvent \in Event
      /\ DOMAIN runs \subseteq Key /\ runs \in [DOMAIN runs -> Run] /\ upstream \in Upstream
      /\ now \in Nat /\ wakeAt \in Nat /\ startedAt \in Nat /\ cause \in Nat /\ faults \in Nat
      /\ wanted \in BOOLEAN /\ secret \in BOOLEAN /\ pc \in {"idle", "create", "save"}
      /\ trig \in EventStatus /\ target \in DOMAIN spec.targets
      /\ requests[r] \in RequestRecord
  BY DEF TypesOK, Table
<1>1. UNCHANGED requestRest
  BY DEF RequestArrives, ServeRequest, RequestCreates, RequestFails, RequestSaves, RequestPolls,
         RequestTimesOut
<1>2. SUFFICES /\ requests' \in [Requests -> RequestRecord]
               /\ event' \in Event /\ faults' \in Nat
               /\ DOMAIN runs' \subseteq Key /\ runs' \in [DOMAIN runs' -> Run]
  BY <1>0, <1>1, TypesFrom DEF requestRest, reconcileVars
<1>3. CASE RequestArrives(r)
  BY <1>0, <1>3, RequestArrivesType DEF RequestArrives
<1>4. CASE RequestCreates(r)
  BY <1>0, <1>4, RequestCreatesType, DispatchAdds DEF RequestCreates
<1>5. CASE RequestFails(r)
  <2>1. requests[r].target \in DOMAIN spec.targets
    BY <1>0 DEF RequestRecord
  <2>2. DOMAIN runs' \subseteq Key /\ runs' \in [DOMAIN runs' -> Run] /\ faults' \in Nat
    BY <1>5, <2>1, DispatchFailsType DEF RequestFails
  <2> QED BY <1>0, <1>5, <2>2, RequestEndsType DEF RequestFails
<1>6. CASE RequestSaves(r)
  BY <1>0, <1>6, RequestSavesType DEF RequestSaves
<1>7. CASE RequestPolls(r) \/ RequestTimesOut(r)
  BY <1>0, <1>7, RequestEndsType DEF RequestPolls, RequestTimesOut
<1> QED BY <1>3, <1>4, <1>5, <1>6, <1>7 DEF ServeRequest

(* Only the phase of a flow ever changes, and only until it has ended. *)
Advances(k) ==
  /\ k \in DOMAIN runs /\ runs[k].phase \in {"", "Running"}
  /\ \E phase \in RunPhase : runs' = [runs EXCEPT ![k].phase = phase]

LEMMA AdvancesType ==
  ASSUME TypesOK, NEW k, Advances(k)
  PROVE  /\ DOMAIN runs' = DOMAIN runs /\ runs' \in [DOMAIN runs' -> Run]
         /\ \A l \in DOMAIN runs : runs'[l].cause = runs[l].cause
         /\ \A l \in DOMAIN runs : runs[l].phase \notin {"", "Running"} => runs'[l] = runs[l]
<1>1. runs \in [DOMAIN runs -> Run]
  BY DEF TypesOK, Table
<1>2. PICK phase \in RunPhase : runs' = [runs EXCEPT ![k] = [runs[k] EXCEPT !.phase = phase]]
  BY DEF Advances
<1> DEFINE new == [runs[k] EXCEPT !.phase = phase]
<1>3. k \in DOMAIN runs /\ runs[k] \in Run /\ runs[k].phase \in {"", "Running"}
  BY <1>1 DEF Advances
<1>4. new \in Run /\ new.cause = runs[k].cause
  BY <1>3 DEF Run
<1>5. runs' = [runs EXCEPT ![k] = new]
  BY <1>2
<1> HIDE DEF new
<1> QED BY <1>1, <1>3, <1>4, <1>5

LEMMA RunAdvances ==
  ASSUME NEW k \in DOMAIN runs, RunStarts(k) \/ RunEnds(k)
  PROVE  Advances(k) /\ UNCHANGED <<event, upstream, environmentRest, faults>>
  BY DEF RunStarts, RunEnds, Advances, RunPhase

LEMMA EnvironmentTypes ==
  ASSUME TypesOK, Environment
  PROVE  TypesOK'
<1>0. /\ spec \in Cases /\ event \in Event /\ cachedEvent \in Event
      /\ DOMAIN runs \subseteq Key /\ runs \in [DOMAIN runs -> Run] /\ upstream \in Upstream
      /\ now \in Nat /\ wakeAt \in Nat /\ startedAt \in Nat /\ cause \in Nat /\ faults \in Nat
      /\ wanted \in BOOLEAN /\ secret \in BOOLEAN /\ pc \in {"idle", "create", "save"}
      /\ trig \in EventStatus /\ target \in DOMAIN spec.targets
      /\ requests \in [Requests -> RequestRecord]
  BY DEF TypesOK, Table
<1>1. CASE Wake
  BY <1>0, <1>1, TypesFrom DEF Wake, eventVars, flowVars
<1>2. CASE WatchEvent
  BY <1>0, <1>2, TypesFrom DEF WatchEvent, flowVars
<1>3. CASE WatchFlows
  <2>1. wanted' \in BOOLEAN
    BY <1>0, <1>3, Zenon DEF WatchFlows
  <2> QED BY <1>0, <1>3, <2>1, TypesFrom DEF WatchFlows, eventVars
<1>4. CASE Tick
  <2>1. now' \in Nat
    BY <1>0, <1>4 DEF Tick
  <2> QED BY <1>0, <1>4, <2>1, TypesFrom DEF Tick, eventVars, flowVars, reconcileVars
<1>5. ASSUME NEW k \in DOMAIN runs, RunStarts(k) \/ RunEnds(k) PROVE TypesOK'
  <2>1. DOMAIN runs' \subseteq Key /\ runs' \in [DOMAIN runs' -> Run]
    BY <1>0, <1>5, RunAdvances, AdvancesType
  <2> QED BY <1>0, <1>5, <2>1, RunAdvances, TypesFrom DEF environmentRest, reconcileVars
<1>6. CASE UpstreamAdvances \/ UpstreamAgain
  <2>1. upstream' \in Upstream
    <3>1. \/ upstream' = [upstream EXCEPT !.phase = "Running"]
          \/ \E phase \in RunPhase : \E t \in {0, now} : upstream' = [phase |-> phase, completed |-> t]
      BY <1>6, Zenon DEF UpstreamAdvances, UpstreamAgain, RunPhase
    <3>2. "Running" \in RunPhase
      BY DEF RunPhase
    <3> QED BY <1>0, <3>1, <3>2 DEF Upstream
  <2>2. faults' \in Nat
    BY <1>0, <1>6, FaultType DEF UpstreamAdvances, UpstreamAgain
  <2> QED BY <1>0, <1>6, <2>1, <2>2, TypesFrom
      DEF UpstreamAdvances, UpstreamAgain, environmentRest, reconcileVars
<1>7. CASE EditSuspended
  <2>1. event' \in Event
    <3> DEFINE edited == ~event.suspended
    <3>1. event.version + 1 \in Nat /\ edited \in BOOLEAN
      BY <1>0 DEF Event
    <3>2. event' = [event EXCEPT !.version = event.version + 1, !.suspended = edited]
      BY <1>7 DEF EditSuspended
    <3> HIDE DEF edited
    <3> QED BY <1>0, <3>1, <3>2 DEF Event
  <2>2. faults' \in Nat
    BY <1>7, FaultType DEF EditSuspended
  <2> QED BY <1>0, <1>7, <2>1, <2>2, TypesFrom DEF EditSuspended, flowVars, reconcileVars
<1>8. CASE RestartOperator
  <2>1. requests' \in [Requests -> RequestRecord]
    <3>1. \A r \in Requests :
            [requests[r] EXCEPT !.pc = "done", !.answer = "lost"] \in RequestRecord
      BY <1>0 DEF RequestRecord, Answer
    <3> QED BY <1>0, <1>8, <3>1 DEF RestartOperator
  <2>2. faults' \in Nat
    BY <1>8, FaultType DEF RestartOperator
  <2> QED BY <1>0, <1>8, <2>1, <2>2, IdleType, TypesFrom DEF RestartOperator
<1> QED BY <1>1, <1>2, <1>3, <1>4, <1>5, <1>6, <1>7, <1>8 DEF Environment

LEMMA InitTypes == Init => TypesOK
<1> SUFFICES ASSUME Init PROVE TypesOK
  OBVIOUS
<1>1. spec \in Cases
  BY DEF Init
<1>2. event \in Event /\ cachedEvent \in Event
  BY <1>1, NewTypes DEF Init, Event
<1>3. DOMAIN runs = {} /\ runs \in [DOMAIN runs -> Run]
  BY DEF Init, NoRuns
<1>4. upstream \in Upstream
  BY DEF Init, Upstream, RunPhase
<1>5. seen.runs = runs /\ seen.upstream = upstream
  BY DEF Init
<1>6. requests \in [Requests -> RequestRecord]
  BY <1>1, NewTypes DEF Init
<1>7. trig \in EventStatus /\ target \in DOMAIN spec.targets
  BY <1>1, NewTypes DEF Init
<1> QED BY <1>1, <1>2, <1>3, <1>4, <1>5, <1>6, <1>7 DEF TypesOK, Table, Init

LEMMA TypesPreserved == TypesOK /\ [Next]_vars => TypesOK'
<1>1. TypesOK /\ UNCHANGED vars => TypesOK'
  <2> SUFFICES ASSUME TypesOK, UNCHANGED vars PROVE TypesOK'
    OBVIOUS
  <2>1. Key' = Key /\ RequestRecord' = RequestRecord
    BY DEF Key, RequestRecord, vars
  <2> HIDE DEF Key, RequestRecord
  <2> QED BY <2>1 DEF TypesOK, Table, vars, eventVars, flowVars, reconcileVars
<1> QED BY <1>1, ReconcileTypes, EnvironmentTypes, RequestTypes DEF Next

(* For any schedule, targets, requests and faults every variable keeps its type:
   no dispatch leaves the targets of the event, and every flow it creates is named
   after one of them and a second. *)
THEOREM EventTypesCorrect == Spec => []EventTypeOK
<1>1. TypesOK => EventTypeOK
  <2> SUFFICES ASSUME TypesOK PROVE EventTypeOK
    OBVIOUS
  <2>1. \A r \in Requests : requests[r] \in RequestRecord
    BY DEF TypesOK
  <2>2. \A r \in Requests :
          /\ requests[r].pc \in {"none", "fire", "create", "save", "wait", "done"}
          /\ requests[r].answer \in Answer /\ requests[r].target \in DOMAIN spec.targets
    BY <2>1 DEF RequestRecord
  <2>3. \A k \in DOMAIN runs : k \in Range(spec.targets) \X Nat /\ runs[k] \in Run
    BY DEF TypesOK, Table, Key
  <2> QED BY <2>2, <2>3 DEF TypesOK, EventTypeOK
<1> QED BY InitTypes, TypesPreserved, <1>1, PTL DEF Spec

(***************************************************************************)
(* The answers.  A flow that was dispatched keeps its cause, and one that  *)
(* has ended keeps its phase, so what the cache shows of an ended flow is  *)
(* true of it for ever.                                                    *)
(***************************************************************************)
SeenBehind ==
  \A k \in DOMAIN seen.runs :
    /\ k \in DOMAIN runs
    /\ seen.runs[k].phase \in Ended => runs[k].phase = seen.runs[k].phase

(* A handler that has dispatched something knows the last of it by name, and
   nobody waits who has not; AnswersAreOwn, of one request. *)
Owned(r) ==
  /\ requests[r].created > 0 =>
       requests[r].run \in DOMAIN runs /\ runs[requests[r].run].cause = r
  /\ requests[r].pc = "wait" => requests[r].created > 0
  /\ requests[r].answer \in {"succeeded", "failed"} =>
       /\ requests[r].pc = "done"
       /\ requests[r].run \in DOMAIN runs /\ runs[requests[r].run].cause = r
       /\ runs[requests[r].run].phase =
            IF requests[r].answer = "succeeded" THEN "Succeeded" ELSE "Failed"

AnswersInv == TypesOK /\ SeenBehind /\ \A r \in Requests : Owned(r)

(* Who writes the flows: whoever fires dispatches a target, whoever runs a flow
   takes it on. *)
LEMMA RunsMove ==
  ASSUME TypesOK, Next
  PROVE  \/ UNCHANGED runs
         \/ \E i \in DOMAIN spec.targets, why \in Nat \cup Requests : Dispatch(i, why)
         \/ \E k : Advances(k)
<1>0. /\ target \in DOMAIN spec.targets /\ cause \in Nat
      /\ \A r \in Requests : requests[r].target \in DOMAIN spec.targets
  <2>1. \A r \in Requests : requests[r] \in RequestRecord
    BY DEF TypesOK
  <2> QED BY <2>1 DEF TypesOK, RequestRecord
<1>1. CASE ReconcileSuspended \/ StartReconcile \/ SaveStatus \/ SaveFails
  BY <1>1 DEF ReconcileSuspended, StartReconcile, SaveStatus, SaveFails, flowVars
<1>2. CASE CreateRun \/ CreateFails
  BY <1>0, <1>2 DEF CreateRun, CreateFails, DispatchFails
<1>3. ASSUME NEW r \in Requests, RequestCreates(r) \/ RequestFails(r)
      PROVE  UNCHANGED runs \/ \E i \in DOMAIN spec.targets : Dispatch(i, r)
  BY <1>0, <1>3 DEF RequestCreates, RequestFails, DispatchFails
<1>4. ASSUME NEW r \in Requests,
             RequestArrives(r) \/ RequestSaves(r) \/ RequestPolls(r) \/ RequestTimesOut(r)
      PROVE  UNCHANGED runs
  BY <1>4 DEF RequestArrives, RequestSaves, RequestPolls, RequestTimesOut
<1>5. ASSUME NEW k \in DOMAIN runs, RunStarts(k) \/ RunEnds(k) PROVE Advances(k)
  BY <1>5, RunAdvances
<1>6. CASE Wake \/ WatchEvent \/ WatchFlows \/ Tick \/ UpstreamAdvances \/ UpstreamAgain
           \/ EditSuspended \/ RestartOperator
  BY <1>6 DEF Wake, WatchEvent, WatchFlows, Tick, UpstreamAdvances, UpstreamAgain, EditSuspended,
              RestartOperator, flowVars
<1> QED BY <1>1, <1>2, <1>3, <1>4, <1>5, <1>6 DEF Next, Reconcile, Environment, ServeRequest

LEMMA RunsStay ==
  ASSUME TypesOK, Next
  PROVE  \A k \in DOMAIN runs :
           /\ k \in DOMAIN runs' /\ runs'[k].cause = runs[k].cause
           /\ runs[k].phase \in Ended => runs'[k].phase = runs[k].phase
<1>1. CASE UNCHANGED runs
  BY <1>1
<1>2. ASSUME NEW i \in DOMAIN spec.targets, NEW why \in Nat \cup Requests, Dispatch(i, why)
      PROVE  \A k \in DOMAIN runs : k \in DOMAIN runs' /\ runs'[k] = runs[k]
  BY <1>2, DispatchAdds
<1>3. ASSUME NEW l, Advances(l)
      PROVE  \A k \in DOMAIN runs :
               /\ k \in DOMAIN runs' /\ runs'[k].cause = runs[k].cause
               /\ runs[k].phase \in Ended => runs'[k].phase = runs[k].phase
  <2>1. \A k \in DOMAIN runs : runs[k].phase \in Ended => runs[k].phase \notin {"", "Running"}
    BY DEF Ended
  <2> QED BY <1>3, <2>1, AdvancesType
<1> QED BY <1>1, <1>2, <1>3, RunsMove

(* Only the informers and a restart fill the cache of flows, with what there is. *)
LEMMA SeenMoves ==
  ASSUME Next
  PROVE  \/ UNCHANGED seen
         \/ seen' = [runs |-> runs, upstream |-> upstream] /\ UNCHANGED <<runs, upstream>>
<1>1. CASE Reconcile
  BY <1>1 DEF Reconcile, ReconcileSuspended, StartReconcile, CreateRun, CreateFails, SaveStatus,
              SaveFails, flowVars
<1>2. ASSUME NEW r \in Requests, RequestArrives(r) \/ ServeRequest(r) PROVE UNCHANGED seen
  BY <1>2 DEF RequestArrives, ServeRequest, RequestCreates, RequestFails, RequestSaves,
              RequestPolls, RequestTimesOut, requestRest
<1>3. ASSUME NEW k \in DOMAIN runs, RunStarts(k) \/ RunEnds(k) PROVE UNCHANGED seen
  BY <1>3 DEF RunStarts, RunEnds, environmentRest
<1>4. CASE WatchFlows \/ RestartOperator
  BY <1>4 DEF WatchFlows, RestartOperator
<1>5. CASE Wake \/ WatchEvent \/ Tick \/ UpstreamAdvances \/ UpstreamAgain \/ EditSuspended
  BY <1>5 DEF Wake, WatchEvent, Tick, UpstreamAdvances, UpstreamAgain, EditSuspended,
              environmentRest, flowVars
<1> QED BY <1>1, <1>2, <1>3, <1>4, <1>5 DEF Next, Environment

LEMMA SeenBehindPreserved ==
  ASSUME TypesOK, SeenBehind, Next
  PROVE  SeenBehind'
<1>1. CASE UNCHANGED seen
  BY <1>1, RunsStay DEF SeenBehind
<1>2. CASE seen' = [runs |-> runs, upstream |-> upstream] /\ UNCHANGED <<runs, upstream>>
  BY <1>2 DEF SeenBehind
<1> QED BY <1>1, <1>2, SeenMoves

(* Who writes the requests. *)
LEMMA RequestsMove ==
  ASSUME Next
  PROVE  \/ UNCHANGED requests
         \/ \E r \in Requests : RequestArrives(r) \/ ServeRequest(r)
         \/ RestartOperator
<1>1. CASE Reconcile
  BY <1>1 DEF Reconcile, ReconcileSuspended, StartReconcile, CreateRun, CreateFails, SaveStatus,
              SaveFails
<1>2. ASSUME NEW k \in DOMAIN runs, RunStarts(k) \/ RunEnds(k) PROVE UNCHANGED requests
  BY <1>2 DEF RunStarts, RunEnds, environmentRest
<1>3. CASE Wake \/ WatchEvent \/ WatchFlows \/ Tick \/ UpstreamAdvances \/ UpstreamAgain
           \/ EditSuspended
  BY <1>3 DEF Wake, WatchEvent, WatchFlows, Tick, UpstreamAdvances, UpstreamAgain, EditSuspended,
              environmentRest
<1> QED BY <1>1, <1>2, <1>3 DEF Next, Environment

LEMMA OwnedStays ==
  ASSUME TypesOK, Next, NEW r \in Requests, Owned(r),
         requests'[r].created = requests[r].created, requests'[r].run = requests[r].run,
         \/ requests'[r].pc = requests[r].pc /\ requests'[r].answer = requests[r].answer
         \/ requests'[r].pc = "done" /\ requests'[r].answer = "lost"
  PROVE  Owned(r)'
<1>1. \A k \in DOMAIN runs :
        /\ k \in DOMAIN runs' /\ runs'[k].cause = runs[k].cause
        /\ runs[k].phase \in {"Succeeded", "Failed"} => runs'[k].phase = runs[k].phase
  BY RunsStay DEF Ended
<1> QED BY <1>1 DEF Owned

LEMMA OwnedServed ==
  ASSUME TypesOK, SeenBehind, NEW r \in Requests, Owned(r), Next,
         RequestArrives(r) \/ ServeRequest(r)
  PROVE  Owned(r)'
<1>0. requests[r].run \in DOMAIN runs =>
        requests[r].run \in DOMAIN runs' /\ runs'[requests[r].run].cause = runs[requests[r].run].cause
  BY RunsStay
<1>1. CASE RequestArrives(r)
  BY <1>1, RequestArrivesType DEF Owned
<1>2. CASE RequestCreates(r)
  <2> DEFINE i == requests[r].target
  <2>1. /\ i \in DOMAIN spec.targets /\ Dispatch(i, r)
        /\ requests'[r].run = Name(i) /\ requests'[r].created = i
        /\ requests'[r].answer = requests[r].answer /\ requests'[r].pc \in {"create", "save"}
    BY <1>2, RequestCreatesType
  <2>2. i \in Nat /\ i > 0
    <3>1. spec \in Cases
      BY DEF TypesOK
    <3> HIDE DEF i
    <3> QED BY <2>1, <3>1, TargetsType
  <2> HIDE DEF i
  <2>3. Name(i) \in DOMAIN runs' /\ runs'[Name(i)].cause = r
    <3>1. i \in DOMAIN spec.targets /\ Dispatch(i, r) /\ r \in Nat \cup Requests
      BY <2>1
    <3>2. DOMAIN runs' = DOMAIN runs \cup {Name(i)} /\ runs'[Name(i)].cause = r
      BY <3>1, DispatchAdds
    <3> QED BY <3>2
  <2>4. requests[r].answer \notin {"succeeded", "failed"}
    BY <1>2 DEF Owned, RequestCreates
  <2> QED BY <2>1, <2>2, <2>3, <2>4 DEF Owned
<1>3. CASE RequestSaves(r)
  <2>1. CASE /\ requests'[r].pc = "done" /\ requests'[r].created = 0
             /\ requests'[r].answer \in {"accepted", "badRequest"}
    BY <2>1 DEF Owned
  <2>2. CASE /\ requests'[r].pc = "wait" /\ requests[r].created = 1 /\ requests'[r].created = 1
             /\ requests'[r].run = requests[r].run /\ requests'[r].answer = requests[r].answer
    <3>1. requests[r].answer \notin {"succeeded", "failed"}
      BY <1>3 DEF Owned, RequestSaves
    <3>2. requests[r].run \in DOMAIN runs /\ runs[requests[r].run].cause = r
      BY <2>2 DEF Owned
    <3> QED BY <1>0, <2>2, <3>1, <3>2 DEF Owned
  <2> QED BY <1>3, <2>1, <2>2, RequestSavesType
<1>4. CASE RequestFails(r) \/ RequestPolls(r) \/ RequestTimesOut(r)
  <2>1. /\ requests'[r].pc = "done" /\ requests'[r].created = 0
        /\ requests'[r].run = requests[r].run
    BY <1>4, RequestEndsType
  <2>2. PICK answer \in Answer : Respond(r, answer) /\
          (answer \in {"succeeded", "failed"} => RequestPolls(r))
    BY <1>4 DEF RequestFails, RequestPolls, RequestTimesOut, Answer
  <2>3. requests'[r].answer = answer
    BY <2>2, RespondType
  <2>4. ASSUME answer \in {"succeeded", "failed"}
        PROVE  /\ requests'[r].run \in DOMAIN runs' /\ runs'[requests'[r].run].cause = r
               /\ runs'[requests'[r].run].phase =
                    IF answer = "succeeded" THEN "Succeeded" ELSE "Failed"
    <3> DEFINE run == requests[r].run
               phase == IF answer = "succeeded" THEN "Succeeded" ELSE "Failed"
    <3>1. RequestPolls(r)
      BY <2>2, <2>4
    <3>2. run \in DOMAIN seen.runs /\ seen.runs[run].phase = phase
      <4>1. PICK told \in {"error", "succeeded", "failed"} :
              /\ Respond(r, told)
              /\ told = "succeeded" => run \in DOMAIN seen.runs /\ seen.runs[run].phase = "Succeeded"
              /\ told = "failed" => run \in DOMAIN seen.runs /\ seen.runs[run].phase = "Failed"
        BY <3>1 DEF RequestPolls
      <4>2. requests'[r].answer = told
        BY <4>1, RespondType DEF Answer
      <4> QED BY <2>3, <2>4, <4>1, <4>2
    <3>3. requests[r].pc = "wait" /\ UNCHANGED runs
      BY <3>1 DEF RequestPolls
    <3>4. requests[r].created > 0 /\ run \in DOMAIN runs /\ runs[run].cause = r
      BY <3>3 DEF Owned
    <3>5. runs[run].phase = phase
      BY <3>2 DEF SeenBehind, Ended
    <3> HIDE DEF run, phase
    <3>6. requests'[r].run = run
      BY <2>1 DEF run
    <3> QED BY <3>3, <3>4, <3>5, <3>6 DEF phase
  <2> QED BY <2>1, <2>3, <2>4 DEF Owned
<1> QED BY <1>1, <1>2, <1>3, <1>4 DEF ServeRequest

LEMMA AnswersInvPreserved == AnswersInv /\ [Next]_vars => AnswersInv'
<1>1. AnswersInv /\ UNCHANGED vars => AnswersInv'
  <2> SUFFICES ASSUME AnswersInv, UNCHANGED vars PROVE AnswersInv'
    OBVIOUS
  <2>1. TypesOK'
    BY TypesPreserved DEF AnswersInv
  <2> QED BY <2>1 DEF AnswersInv, SeenBehind, Owned, vars, flowVars
<1>2. ASSUME AnswersInv, Next PROVE AnswersInv'
  <2>0. TypesOK /\ SeenBehind /\ \A r \in Requests : Owned(r)
    BY <1>2 DEF AnswersInv
  <2>1. TypesOK' /\ SeenBehind'
    BY <1>2, <2>0, TypesPreserved, SeenBehindPreserved
  <2>2. ASSUME NEW r \in Requests PROVE Owned(r)'
    <3>1. CASE UNCHANGED requests
      BY <1>2, <2>0, <3>1, OwnedStays
    <3>2. ASSUME NEW q \in Requests, RequestArrives(q) \/ ServeRequest(q) PROVE Owned(r)'
      <4>1. CASE q = r
        BY <1>2, <2>0, <3>2, <4>1, OwnedServed
      <4>2. CASE q # r
        <5>1. requests'[r] = requests[r]
          BY <2>0, <3>2, <4>2, RequestArrivesType, RequestCreatesType, RequestSavesType,
             RequestEndsType DEF ServeRequest
        <5> QED BY <1>2, <2>0, <5>1, OwnedStays
      <4> QED BY <4>1, <4>2
    <3>3. CASE RestartOperator
      <4>1. requests[r] \in RequestRecord
        BY <2>0 DEF TypesOK
      <4>2. \/ requests'[r] = requests[r]
            \/ requests'[r] = [requests[r] EXCEPT !.pc = "done", !.answer = "lost"]
        BY <3>3 DEF RestartOperator
      <4>3. /\ requests'[r].created = requests[r].created /\ requests'[r].run = requests[r].run
            /\ \/ requests'[r].pc = requests[r].pc /\ requests'[r].answer = requests[r].answer
               \/ requests'[r].pc = "done" /\ requests'[r].answer = "lost"
        BY <4>1, <4>2 DEF RequestRecord
      <4> QED BY <1>2, <2>0, <4>3, OwnedStays
    <3> QED BY <1>2, <3>1, <3>2, <3>3, RequestsMove
  <2> QED BY <2>1, <2>2 DEF AnswersInv
<1> QED BY <1>1, <1>2

(* Whatever lags, fails or restarts, and however many requests share a second, a
   caller who is told how a flow ended is told of the flow its own request
   dispatched, and the truth about it. *)
THEOREM AnswersAlwaysOwn == Spec => []AnswersAreOwn
<1>1. Init => AnswersInv
  <2> SUFFICES ASSUME Init PROVE AnswersInv
    OBVIOUS
  <2>1. TypesOK
    BY InitTypes
  <2>2. SeenBehind
    BY DEF Init, SeenBehind, NoRuns
  <2>3. ASSUME NEW r \in Requests PROVE Owned(r)
    <3>1. requests[r].created = 0 /\ requests[r].pc = "none"
          /\ requests[r].answer \notin {"succeeded", "failed"}
      BY DEF Init, NewRequest
    <3> QED BY <3>1 DEF Owned
  <2> QED BY <2>1, <2>2, <2>3 DEF AnswersInv
<1>2. AnswersInv => AnswersAreOwn
  BY DEF AnswersInv, Owned, AnswersAreOwn
<1> QED BY <1>1, AnswersInvPreserved, <1>2, PTL DEF Spec

(***************************************************************************)
(* Once per cause.  The flows of the last target tell which causes were    *)
(* dealt with: each is recorded in the status, or is the cause of the      *)
(* reconcile that is about to record it, or a request that has gone on.    *)
(***************************************************************************)
Last == spec.targets[Len(spec.targets)]
LastRuns == {k \in DOMAIN runs : k[1] = Last}

LastUnique == \A k, l \in LastRuns : runs[k].cause = runs[l].cause => k = l

(* A request whose handler has the last target before it has dispatched none. *)
RequestsOnce ==
  spec.source = "webhook" =>
    /\ pc # "create"
    /\ \A k \in LastRuns, r \in Requests :
         runs[k].cause = r => requests[r].pc \notin {"none", "create"}

(* While a reconcile runs nobody writes the event, and it fires for something
   later than all that is recorded. *)
ReconcilesOnce ==
  spec.source # "webhook" =>
    /\ \A r \in Requests : requests[r].pc = "none"
    /\ pc # "idle" =>
         /\ cachedEvent = event
         /\ \/ pc = "save" /\ cause = 0 /\ trig = event.status
            \/ cause > event.status.last /\ trig.last >= cause
    /\ \A k \in LastRuns :
         \/ runs[k].cause \in Nat /\ runs[k].cause <= event.status.last
         \/ pc = "save" /\ runs[k].cause = cause

OnceInv ==
  /\ TypesOK /\ CompletedByNow
  /\ faults = 0 /\ LastTargetOnce /\ AwaitsEnd => LastUnique /\ RequestsOnce /\ ReconcilesOnce

(* How the flows of the last target change. *)
SameLast == LastRuns' = LastRuns /\ \A k \in LastRuns : runs'[k].cause = runs[k].cause
NewLast(why) ==
  \E name : /\ LastRuns' = LastRuns \cup {name} /\ runs'[name].cause = why
            /\ \A k \in LastRuns : runs'[k].cause = runs[k].cause

LEMMA SameRunsLast ==
  ASSUME UNCHANGED <<runs, spec>>
  PROVE  SameLast
  BY DEF SameLast, LastRuns, Last

LEMMA AdvancesLast ==
  ASSUME TypesOK, UNCHANGED spec, NEW k, Advances(k)
  PROVE  SameLast
<1>1. DOMAIN runs' = DOMAIN runs /\ \A l \in DOMAIN runs : runs'[l].cause = runs[l].cause
  BY AdvancesType
<1> QED BY <1>1 DEF SameLast, LastRuns, Last

LEMMA DispatchLast ==
  ASSUME LastTargetOnce, TypesOK, UNCHANGED spec,
         NEW i \in DOMAIN spec.targets, NEW why \in Nat \cup Requests, Dispatch(i, why)
  PROVE  IF i = Len(spec.targets) THEN NewLast(why) ELSE SameLast
<1>0. spec \in Cases
  BY DEF TypesOK
<1>1. /\ DOMAIN runs' = DOMAIN runs \cup {Name(i)} /\ runs'[Name(i)].cause = why
      /\ \A k \in DOMAIN runs : runs'[k] = runs[k]
  BY DispatchAdds
<1>2. Name(i)[1] = spec.targets[i] /\ Last' = Last
  BY DEF Name, Last
<1>3. CASE i = Len(spec.targets)
  <2>1. LastRuns' = LastRuns \cup {Name(i)}
    BY <1>1, <1>2, <1>3 DEF LastRuns, Last
  <2>2. \A k \in LastRuns : runs'[k].cause = runs[k].cause
    BY <1>1 DEF LastRuns
  <2> QED BY <1>1, <1>3, <2>1, <2>2 DEF NewLast
<1>4. CASE i # Len(spec.targets)
  <2>1. i \in 1 .. Len(spec.targets) - 1
    BY <1>0, <1>4, TargetsType
  <2>2. spec.targets[i] # Last
    BY <2>1 DEF LastTargetOnce, Last
  <2>3. LastRuns' = LastRuns
    BY <1>1, <1>2, <2>2 DEF LastRuns
  <2>4. \A k \in LastRuns : runs'[k].cause = runs[k].cause
    BY <1>1 DEF LastRuns
  <2> QED BY <1>4, <2>3, <2>4 DEF SameLast
<1> QED BY <1>3, <1>4

LEMMA UniqueStays ==
  ASSUME LastUnique, SameLast
  PROVE  LastUnique'
<1> HIDE DEF LastRuns
<1> QED BY DEF LastUnique, SameLast

LEMMA UniqueExtends ==
  ASSUME LastUnique, NEW why, NewLast(why), \A k \in LastRuns : runs[k].cause # why
  PROVE  LastUnique'
<1> HIDE DEF LastRuns
<1> QED BY DEF LastUnique, NewLast

LEMMA CompletedByNowPreserved ==
  ASSUME TypesOK, CompletedByNow, Next
  PROVE  CompletedByNow'
<1>0. now \in Nat /\ upstream.completed \in Nat /\ seen.upstream.completed \in Nat
  BY DEF TypesOK, Upstream
<1> DEFINE Moved == /\ upstream'.completed <= now
                    /\ upstream'.phase \in Ended => upstream'.completed > 0
<1>1. now' \in Nat /\ now' >= now /\ (UNCHANGED upstream \/ Moved)
  <2>1. CASE Reconcile
    BY <1>0, <2>1 DEF Reconcile, ReconcileSuspended, StartReconcile, CreateRun, CreateFails,
                      SaveStatus, SaveFails, flowVars
  <2>2. ASSUME NEW r \in Requests, RequestArrives(r) \/ ServeRequest(r)
        PROVE  UNCHANGED <<now, upstream>>
    BY <2>2 DEF RequestArrives, ServeRequest, RequestCreates, RequestFails, RequestSaves,
                RequestPolls, RequestTimesOut, requestRest
  <2>3. ASSUME NEW k \in DOMAIN runs, RunStarts(k) \/ RunEnds(k) PROVE UNCHANGED <<now, upstream>>
    BY <2>3 DEF RunStarts, RunEnds, environmentRest
  <2>4. CASE Wake \/ WatchEvent \/ WatchFlows \/ EditSuspended \/ RestartOperator
    <3>1. UNCHANGED <<now, upstream>>
      BY <2>4 DEF Wake, WatchEvent, WatchFlows, EditSuspended, RestartOperator, flowVars
    <3> QED BY <1>0, <3>1
  <2>5. CASE Tick
    BY <1>0, <2>5 DEF Tick, flowVars
  <2>6. CASE UpstreamAdvances
    <3>1. Moved
      <4>1. \/ upstream' = [upstream EXCEPT !.phase = "Running"]
            \/ \E end : upstream' = [phase |-> end, completed |-> now]
        BY <2>6, Zenon DEF UpstreamAdvances
      <4>2. upstream \in Upstream /\ now > 0 /\ upstream.completed <= now
        BY DEF TypesOK, CompletedByNow
      <4> QED BY <1>0, <4>1, <4>2 DEF Upstream, Ended
    <3>2. now' = now
      BY <2>6 DEF UpstreamAdvances, environmentRest
    <3> QED BY <1>0, <3>1, <3>2
  <2>7. CASE UpstreamAgain
    <3>1. upstream' = [phase |-> "", completed |-> 0]
      BY <2>7, Zenon DEF UpstreamAgain
    <3>2. Moved
      <4>1. upstream'.completed = 0
        BY <3>1
      <4>2. upstream'.phase \notin Ended
        <5>1. upstream'.phase = ""
          BY <3>1, Zenon
        <5> QED BY <5>1 DEF Ended
      <4> QED BY <1>0, <4>1, <4>2
    <3>3. now' = now
      BY <2>7 DEF UpstreamAgain, environmentRest
    <3> QED BY <1>0, <3>2, <3>3
  <2> QED BY <1>0, <2>1, <2>2, <2>3, <2>4, <2>5, <2>6, <2>7 DEF Next, Environment
<1>2. \/ seen'.upstream = seen.upstream
      \/ seen'.upstream = upstream /\ UNCHANGED upstream
  BY SeenMoves
<1>3. /\ upstream'.completed \in Nat /\ upstream'.completed <= now'
      /\ upstream'.phase \in Ended => upstream'.completed > 0
  <2>1. upstream'.completed \in Nat
    BY TypesPreserved DEF TypesOK, Upstream
  <2> QED BY <1>0, <1>1, <2>1 DEF CompletedByNow
<1> QED BY <1>0, <1>1, <1>2, <1>3 DEF CompletedByNow

OnceNow == LastUnique /\ RequestsOnce /\ ReconcilesOnce

LEMMA WebhookReconciles ==
  ASSUME TypesOK, OnceNow, spec.source = "webhook", Reconcile
  PROVE  OnceNow'
<1>1. UNCHANGED <<spec, runs, requests>>
  <2>1. pc # "create"
    BY DEF OnceNow, RequestsOnce
  <2> QED BY <2>1 DEF Reconcile, ReconcileSuspended, StartReconcile, CreateRun, CreateFails,
                      SaveStatus, SaveFails, flowVars
<1>2. pc' # "create"
  <2>1. pc # "create"
    BY DEF OnceNow, RequestsOnce
  <2>2. CASE StartReconcile
    <3>1. ~Fires(cachedEvent.status)
      BY DEF Fires, CronDue, PhaseReached
    <3> QED BY <2>2, <3>1 DEF StartReconcile
  <2>3. CASE ~StartReconcile
    BY <2>1, <2>3 DEF Reconcile, ReconcileSuspended, CreateRun, CreateFails, SaveStatus,
                      SaveFails, Retry, Idle
  <2> QED BY <2>2, <2>3
<1>3. SameLast
  BY <1>1, SameRunsLast
<1>4. LastUnique'
  BY <1>3, UniqueStays DEF OnceNow
<1>5. RequestsOnce'
  <2> HIDE DEF LastRuns
  <2> QED BY <1>1, <1>2, <1>3 DEF OnceNow, RequestsOnce, SameLast
<1>6. ReconcilesOnce'
  BY <1>1 DEF ReconcilesOnce
<1> QED BY <1>4, <1>5, <1>6 DEF OnceNow

(* A step that leaves alone what ReconcilesOnce says of a reconcile. *)
LEMMA ReconcilesOnceStays ==
  ASSUME OnceNow, spec.source # "webhook", SameLast,
         UNCHANGED <<spec, requests, event, pc, trig, cause>>,
         UNCHANGED cachedEvent \/ cachedEvent' = event
  PROVE  OnceNow'
<1>1. LastUnique'
  BY UniqueStays DEF OnceNow
<1>2. RequestsOnce'
  BY DEF RequestsOnce
<1>3. ReconcilesOnce'
  <2> HIDE DEF LastRuns
  <2> QED BY DEF OnceNow, ReconcilesOnce, SameLast
<1> QED BY <1>1, <1>2, <1>3 DEF OnceNow

(* A reconcile that ends: what its last dispatch was for is recorded. *)
LEMMA ReconcileEnds ==
  ASSUME OnceNow, spec.source # "webhook", SameLast, UNCHANGED <<spec, requests>>, pc' = "idle",
         \A k \in LastRuns : runs[k].cause \in Nat /\ runs[k].cause <= event'.status.last
  PROVE  OnceNow'
<1>1. LastUnique'
  BY UniqueStays DEF OnceNow
<1>2. RequestsOnce'
  BY DEF RequestsOnce
<1>3. ReconcilesOnce'
  <2> HIDE DEF LastRuns
  <2> QED BY DEF OnceNow, ReconcilesOnce, SameLast
<1> QED BY <1>1, <1>2, <1>3 DEF OnceNow

LEMMA OtherReconciles ==
  ASSUME LastTargetOnce, AwaitsEnd, TypesOK, CompletedByNow, OnceNow, spec.source # "webhook",
         faults' = 0, Reconcile
  PROVE  OnceNow'
<1>0. /\ event \in Event /\ cachedEvent \in Event /\ spec \in Cases
      /\ cause \in Nat /\ now \in Nat /\ trig \in EventStatus /\ target \in DOMAIN spec.targets
      /\ event.status \in EventStatus /\ event.status.last \in Nat /\ trig.last \in Nat
      /\ Len(spec.targets) \in Nat
  BY TargetsType DEF TypesOK, Event, EventStatus
<1>1. LastUnique /\ ReconcilesOnce
  BY DEF OnceNow
<1>2. \A k \in LastRuns :
        \/ runs[k].cause \in Nat /\ runs[k].cause <= event.status.last
        \/ pc = "save" /\ runs[k].cause = cause
  BY <1>1 DEF ReconcilesOnce
<1>3. pc # "idle" =>
        /\ cachedEvent = event
        /\ \/ pc = "save" /\ cause = 0 /\ trig = event.status
           \/ cause > event.status.last /\ trig.last >= cause
  BY <1>1 DEF ReconcilesOnce
<1>4. CASE ReconcileSuspended
  <2>1. SameLast
    BY <1>4, SameRunsLast DEF ReconcileSuspended, flowVars
  <2> QED BY <1>4, <2>1, ReconcilesOnceStays DEF ReconcileSuspended, eventVars
<1>5. CASE StartReconcile
  <2> DEFINE why == Cause(event.status)
  <2>1. pc = "idle" /\ cachedEvent = event
    <3>1. NoFault
      BY <1>5, FaultType DEF StartReconcile, ReadEvent
    <3>2. ~Fault("staleRead")
      BY <3>1 DEF NoFault, Fault, TypesOK
    <3> QED BY <1>5, <3>2 DEF StartReconcile, ReadEvent
  <2>2. why \in Nat /\ (why # 0 => why > event.status.last /\ why <= now)
    BY <1>0, DueType DEF CompletedByNow
  <2>3. /\ pc' = IF why # 0 /\ ~Forbidden THEN "create" ELSE "save"
        /\ trig' = IF why # 0 THEN Fired(event.status) ELSE event.status
        /\ cause' = why /\ UNCHANGED <<spec, event, cachedEvent, runs, requests>>
    <3>1. Fires(event.status) <=> why # 0
      BY <1>0, DueType
    <3> QED BY <1>5, <2>1, <3>1 DEF StartReconcile, Cause, eventVars, flowVars
  <2> HIDE DEF why
  <2>4. \/ pc' = "save" /\ cause' = 0 /\ trig' = event.status
        \/ cause' > event.status.last /\ trig'.last >= cause'
    <3>1. Fired(event.status).last = now
      BY DEF Fired
    <3> QED BY <1>0, <2>2, <2>3, <3>1
  <2>5. SameLast
    BY <2>3, SameRunsLast
  <2>6. LastUnique'
    BY <1>1, <2>5, UniqueStays
  <2>7. RequestsOnce'
    BY <2>3 DEF RequestsOnce
  <2>8. ReconcilesOnce'
    <3> HIDE DEF LastRuns
    <3> QED BY <1>1, <1>2, <2>1, <2>3, <2>4, <2>5 DEF ReconcilesOnce, SameLast
  <2> QED BY <2>6, <2>7, <2>8 DEF OnceNow
<1>6. CASE CreateRun
  <2>1. /\ pc = "create" /\ Dispatch(target, cause)
        /\ pc' = IF target = Len(spec.targets) THEN "save" ELSE "create"
        /\ UNCHANGED <<spec, event, cachedEvent, trig, cause, requests>>
    BY <1>6 DEF CreateRun, eventVars
  <2>2. cachedEvent = event /\ cause > event.status.last /\ trig.last >= cause
    BY <1>3, <2>1
  <2>3. CASE target # Len(spec.targets)
    <3>1. SameLast
      BY <1>0, <2>1, <2>3, DispatchLast
    <3> QED BY <2>1, <2>3, <3>1, ReconcilesOnceStays
  <2>4. CASE target = Len(spec.targets)
    <3>1. NewLast(cause)
      BY <1>0, <2>1, <2>4, DispatchLast
    <3>2. \A k \in LastRuns : runs[k].cause \in Nat /\ runs[k].cause <= event.status.last
      BY <1>2, <2>1
    <3>3. \A k \in LastRuns : runs[k].cause # cause
      BY <1>0, <2>2, <3>2
    <3>4. LastUnique'
      BY <1>1, <3>1, <3>3, UniqueExtends
    <3>5. RequestsOnce'
      BY <2>1 DEF RequestsOnce
    <3>6. ReconcilesOnce'
      <4> HIDE DEF LastRuns
      <4> QED BY <1>1, <2>1, <2>2, <2>4, <3>1, <3>2 DEF ReconcilesOnce, NewLast
    <3> QED BY <3>4, <3>5, <3>6 DEF OnceNow
  <2> QED BY <2>3, <2>4
<1>7. CASE CreateFails
  <2>1. UNCHANGED runs
    <3>1. NoFault
      BY <1>7, FaultType DEF CreateFails, DispatchFails
    <3>2. ~Fault("apiError")
      BY <3>1 DEF NoFault, Fault, TypesOK
    <3> QED BY <1>7, <3>2 DEF CreateFails, DispatchFails
  <2>2. pc = "create" /\ pc' = "idle" /\ UNCHANGED <<spec, event, requests>>
    BY <1>7 DEF CreateFails, Retry, Idle, eventVars
  <2>3. SameLast
    BY <2>1, <2>2, SameRunsLast
  <2> QED BY <1>2, <2>2, <2>3, ReconcileEnds
<1>8. CASE SaveStatus
  <2>1. event' = Stored(trig)
    <3>1. NoFault
      BY <1>8, FaultType DEF SaveStatus
    <3>2. ~Fault("touch")
      BY <3>1 DEF NoFault, Fault, TypesOK
    <3> QED BY <1>8, <3>2 DEF SaveStatus
  <2>2. event'.status = trig
    BY <1>0, <2>1, StoredType
  <2>3. pc = "save" /\ pc' = "idle" /\ UNCHANGED <<spec, runs, requests>>
    BY <1>8 DEF SaveStatus, Idle, flowVars
  <2>4. event.status.last <= trig.last /\ cause <= trig.last
    BY <1>0, <1>3, <2>3
  <2>5. SameLast
    BY <2>3, SameRunsLast
  <2>6. \A k \in LastRuns : runs[k].cause \in Nat /\ runs[k].cause <= event'.status.last
    BY <1>0, <1>2, <2>2, <2>4
  <2> QED BY <2>3, <2>5, <2>6, ReconcileEnds
<1>9. CASE SaveFails
  <2>1. pc = "save" /\ cachedEvent = event
    BY <1>3, <1>9 DEF SaveFails
  <2>2. NoFault
    BY <1>9, FaultType DEF SaveFails
  <2>3. ~Fault("apiError")
    BY <2>2 DEF NoFault, Fault, TypesOK
  <2> QED BY <1>9, <2>1, <2>3 DEF SaveFails
<1> QED BY <1>4, <1>5, <1>6, <1>7, <1>8, <1>9 DEF Reconcile

(* A handler dispatches the last target for its own request, and goes on. *)
LEMMA RequestsKeepOnce ==
  ASSUME LastTargetOnce, TypesOK, OnceNow, faults' = 0,
         NEW r \in Requests, RequestArrives(r) \/ ServeRequest(r)
  PROVE  OnceNow'
<1>0. /\ LastUnique /\ RequestsOnce
      /\ UNCHANGED <<spec, pc>> /\ spec.source = "webhook"
  <2>1. UNCHANGED <<spec, pc>>
    BY DEF RequestArrives, ServeRequest, RequestCreates, RequestFails, RequestSaves, RequestPolls,
           RequestTimesOut, requestRest, reconcileVars
  <2>2. CASE RequestArrives(r)
    BY <2>1, <2>2, RequestArrivesType DEF OnceNow
  <2>3. CASE ServeRequest(r)
    <3>1. requests[r].pc # "none"
      BY <2>3 DEF ServeRequest, RequestCreates, RequestFails, RequestSaves, RequestPolls,
                  RequestTimesOut
    <3> QED BY <2>1, <3>1 DEF OnceNow, ReconcilesOnce
  <2> QED BY <2>2, <2>3
<1>1. pc' # "create" /\ \A k \in LastRuns, q \in Requests :
        runs[k].cause = q => requests[q].pc \notin {"none", "create"}
  BY <1>0 DEF RequestsOnce
<1>2. ReconcilesOnce'
  BY <1>0 DEF ReconcilesOnce
<1>3. ASSUME SameLast, \A q \in Requests \ {r} : requests'[q] = requests[q],
             requests'[r].pc \notin {"none", "create"} \/ requests[r].pc \in {"none", "create"}
      PROVE  OnceNow'
  <2>1. LastUnique'
    BY <1>0, <1>3, UniqueStays
  <2>2. RequestsOnce'
    <3> HIDE DEF LastRuns
    <3>1. ASSUME NEW k \in LastRuns', NEW q \in Requests, runs'[k].cause = q
          PROVE  requests'[q].pc \notin {"none", "create"}
      <4>1. k \in LastRuns /\ runs[k].cause = q
        BY <1>3, <3>1 DEF SameLast
      <4>2. requests[q].pc \notin {"none", "create"}
        BY <1>1, <3>1, <4>1
      <4> QED BY <1>3, <4>2
    <3> QED BY <1>1, <3>1 DEF RequestsOnce
  <2> QED BY <1>2, <2>1, <2>2 DEF OnceNow
<1>4. CASE RequestArrives(r)
  <2>1. SameLast
    BY <1>0, <1>4, SameRunsLast DEF RequestArrives
  <2> QED BY <1>3, <1>4, <2>1, RequestArrivesType
<1>5. CASE RequestCreates(r)
  <2> DEFINE i == requests[r].target
  <2>1. /\ \A q \in Requests \ {r} : requests'[q] = requests[q]
        /\ requests[r].pc = "create" /\ i \in DOMAIN spec.targets /\ Dispatch(i, r)
        /\ requests'[r].pc = IF i = Len(spec.targets) THEN "save" ELSE "create"
    BY <1>5, RequestCreatesType
  <2> HIDE DEF i
  <2>2. CASE i # Len(spec.targets)
    <3>1. SameLast
      BY <1>0, <2>1, <2>2, DispatchLast
    <3> QED BY <1>3, <2>1, <2>2, <3>1
  <2>3. CASE i = Len(spec.targets)
    <3>1. NewLast(r)
      BY <1>0, <2>1, <2>3, DispatchLast
    <3>2. \A k \in LastRuns : runs[k].cause # r
      BY <1>1, <2>1
    <3>3. LastUnique'
      BY <1>0, <3>1, <3>2, UniqueExtends
    <3>4. RequestsOnce'
      <4> HIDE DEF LastRuns
      <4>1. ASSUME NEW k \in LastRuns', NEW q \in Requests, runs'[k].cause = q
            PROVE  requests'[q].pc \notin {"none", "create"}
        <5>1. CASE k \in LastRuns
          <6>1. runs[k].cause = q
            BY <3>1, <4>1, <5>1 DEF NewLast
          <6> QED BY <1>1, <2>1, <3>2, <5>1, <6>1
        <5>2. CASE k \notin LastRuns
          <6>1. q = r
            BY <3>1, <4>1, <5>2 DEF NewLast
          <6> QED BY <2>1, <2>3, <6>1
        <5> QED BY <5>1, <5>2
      <4> QED BY <1>1, <4>1 DEF RequestsOnce
    <3> QED BY <1>2, <3>3, <3>4 DEF OnceNow
  <2> QED BY <2>2, <2>3
<1>6. CASE RequestSaves(r)
  <2>1. SameLast
    BY <1>0, <1>6, SameRunsLast DEF RequestSaves
  <2> QED BY <1>3, <1>6, <2>1, RequestSavesType
<1>7. CASE RequestFails(r) \/ RequestPolls(r) \/ RequestTimesOut(r)
  <2>1. UNCHANGED runs
    <3>1. CASE RequestFails(r)
      <4>1. NoFault
        BY <3>1, FaultType DEF RequestFails, DispatchFails
      <4>2. ~Fault("apiError")
        BY <4>1 DEF NoFault, Fault, TypesOK
      <4> QED BY <3>1, <4>2 DEF RequestFails, DispatchFails
    <3>2. CASE RequestPolls(r) \/ RequestTimesOut(r)
      BY <3>2 DEF RequestPolls, RequestTimesOut
    <3> QED BY <1>7, <3>1, <3>2
  <2>2. SameLast
    BY <1>0, <2>1, SameRunsLast
  <2> QED BY <1>3, <1>7, <2>2, RequestEndsType
<1> QED BY <1>4, <1>5, <1>6, <1>7 DEF ServeRequest

LEMMA SameOnce ==
  ASSUME OnceNow, SameLast, UNCHANGED <<spec, requests, event, pc, trig, cause>>,
         UNCHANGED cachedEvent \/ cachedEvent' = event
  PROVE  OnceNow'
<1>1. CASE spec.source = "webhook"
  <2>1. LastUnique'
    BY UniqueStays DEF OnceNow
  <2>2. RequestsOnce'
    <3> HIDE DEF LastRuns
    <3> QED BY DEF OnceNow, RequestsOnce, SameLast
  <2>3. ReconcilesOnce'
    BY <1>1 DEF ReconcilesOnce
  <2> QED BY <2>1, <2>2, <2>3 DEF OnceNow
<1>2. CASE spec.source # "webhook"
  BY <1>2, ReconcilesOnceStays
<1> QED BY <1>1, <1>2

LEMMA EnvironmentKeepsOnce ==
  ASSUME TypesOK, OnceNow, faults' = 0, Environment
  PROVE  OnceNow'
<1>1. \A kind : ~Fault(kind)
  BY DEF Fault, TypesOK
<1>2. ASSUME NEW k \in DOMAIN runs, RunStarts(k) \/ RunEnds(k) PROVE OnceNow'
  <2>1. Advances(k) /\ UNCHANGED <<event, environmentRest>>
    BY <1>2, RunAdvances
  <2>2. SameLast
    BY <2>1, AdvancesLast DEF environmentRest
  <2> QED BY <2>1, <2>2, SameOnce DEF environmentRest, reconcileVars
<1>3. CASE Wake \/ WatchEvent \/ WatchFlows \/ Tick \/ UpstreamAdvances
  <2>1. UNCHANGED <<spec, requests, event, pc, trig, cause, runs>>
    BY <1>3 DEF Wake, WatchEvent, WatchFlows, Tick, UpstreamAdvances, eventVars, flowVars,
                reconcileVars, environmentRest
  <2>2. UNCHANGED cachedEvent \/ cachedEvent' = event
    BY <1>3 DEF Wake, WatchEvent, WatchFlows, Tick, UpstreamAdvances, eventVars, environmentRest
  <2>3. SameLast
    BY <2>1, SameRunsLast
  <2> QED BY <2>1, <2>2, <2>3, SameOnce
<1>4. ~(UpstreamAgain \/ EditSuspended \/ RestartOperator)
  BY <1>1 DEF UpstreamAgain, EditSuspended, RestartOperator
<1> QED BY <1>2, <1>3, <1>4 DEF Environment

(* Nobody edits the source, the policy or the targets. *)
LEMMA SpecStays ==
  ASSUME Next
  PROVE  UNCHANGED spec
<1>1. CASE Reconcile
  BY <1>1 DEF Reconcile, ReconcileSuspended, StartReconcile, CreateRun, CreateFails, SaveStatus,
              SaveFails
<1>2. ASSUME NEW r \in Requests, RequestArrives(r) \/ ServeRequest(r) PROVE UNCHANGED spec
  BY <1>2 DEF RequestArrives, ServeRequest, RequestCreates, RequestFails, RequestSaves,
              RequestPolls, RequestTimesOut, requestRest
<1>3. ASSUME NEW k \in DOMAIN runs, RunStarts(k) \/ RunEnds(k) PROVE UNCHANGED spec
  BY <1>3 DEF RunStarts, RunEnds, environmentRest
<1>4. CASE Wake \/ WatchEvent \/ WatchFlows \/ Tick \/ UpstreamAdvances \/ UpstreamAgain
           \/ EditSuspended \/ RestartOperator
  BY <1>4 DEF Wake, WatchEvent, WatchFlows, Tick, UpstreamAdvances, UpstreamAgain, EditSuspended,
              RestartOperator, environmentRest
<1> QED BY <1>1, <1>2, <1>3, <1>4 DEF Next, Environment

(* A fault that has happened has happened. *)
LEMMA FaultsGrow ==
  ASSUME TypesOK, Next, faults' = 0
  PROVE  faults = 0
<1>0. \A kind : ~Fault(kind)
  BY DEF Fault, TypesOK
<1>1. CASE Reconcile
  BY <1>0, <1>1 DEF Reconcile, ReconcileSuspended, StartReconcile, ReadEvent, CreateRun,
     CreateFails, DispatchFails, SaveStatus, SaveFails, NoFault
<1>2. ASSUME NEW r \in Requests, RequestArrives(r) \/ ServeRequest(r) PROVE faults = 0
  BY <1>0, <1>2 DEF RequestArrives, ServeRequest, RequestCreates, RequestFails, RequestSaves,
     RequestPolls, RequestTimesOut, DispatchFails, NoFault
<1>3. ASSUME NEW k \in DOMAIN runs, RunStarts(k) \/ RunEnds(k) PROVE faults = 0
  BY <1>3 DEF RunStarts, RunEnds
<1>4. CASE Wake \/ WatchEvent \/ WatchFlows \/ Tick \/ UpstreamAdvances
  BY <1>4 DEF Wake, WatchEvent, WatchFlows, Tick, UpstreamAdvances
<1>5. ~(UpstreamAgain \/ EditSuspended \/ RestartOperator)
  BY <1>0 DEF UpstreamAgain, EditSuspended, RestartOperator
<1> QED BY <1>1, <1>2, <1>3, <1>4, <1>5 DEF Next, Environment

LEMMA InitCompleted == Init => CompletedByNow
<1> SUFFICES ASSUME Init PROVE CompletedByNow
  OBVIOUS
<1>1. upstream.completed = 0 /\ seen.upstream.completed = 0 /\ now = 1
  BY Zenon DEF Init
<1>2. upstream.phase \notin Ended /\ seen.upstream.phase \notin Ended
  <2>1. upstream.phase = "" /\ seen.upstream.phase = ""
    BY Zenon DEF Init
  <2> QED BY <2>1 DEF Ended
<1> HIDE DEF Ended
<1> QED BY <1>1, <1>2 DEF CompletedByNow

LEMMA OnceInvPreserved == OnceInv /\ [Next]_vars => OnceInv'
<1>1. OnceInv /\ UNCHANGED vars => OnceInv'
  <2> SUFFICES ASSUME OnceInv, UNCHANGED vars PROVE OnceInv'
    OBVIOUS
  <2>1. TypesOK'
    BY TypesPreserved DEF OnceInv
  <2>2. CompletedByNow' /\ UNCHANGED <<faults, spec>>
    BY DEF OnceInv, CompletedByNow, vars, flowVars
  <2>3. ASSUME faults = 0, LastTargetOnce, AwaitsEnd PROVE OnceNow'
    <3>1. SameLast
      BY SameRunsLast DEF vars, flowVars
    <3> QED BY <2>3, <3>1, SameOnce DEF OnceInv, OnceNow, vars, eventVars, reconcileVars
  <2> QED BY <2>1, <2>2, <2>3 DEF OnceInv, OnceNow, LastTargetOnce, AwaitsEnd, DesiredPhase
<1>2. ASSUME OnceInv, Next PROVE OnceInv'
  <2>1. TypesOK' /\ CompletedByNow'
    BY <1>2, TypesPreserved, CompletedByNowPreserved DEF OnceInv
  <2>2. (LastTargetOnce' <=> LastTargetOnce) /\ (AwaitsEnd' <=> AwaitsEnd)
    BY <1>2, SpecStays DEF LastTargetOnce, AwaitsEnd, DesiredPhase
  <2>3. ASSUME faults' = 0, LastTargetOnce, AwaitsEnd PROVE OnceNow'
    <3>1. TypesOK /\ CompletedByNow /\ OnceNow
      BY <1>2, <2>3, FaultsGrow DEF OnceInv, OnceNow
    <3> QED BY <1>2, <2>3, <3>1, WebhookReconciles, OtherReconciles, RequestsKeepOnce,
               EnvironmentKeepsOnce DEF Next
  <2> QED BY <2>1, <2>2, <2>3 DEF OnceInv, OnceNow
<1> QED BY <1>1, <1>2

(* Of an event whose last target's template is no other target's, and which does not
   wait for a phase of the watched flow that is no end: however the reconciles, the
   callers and the runs interleave, and whenever a name is taken, a due time, a
   completion or a request dispatches the last target once, as long as the caches
   are fresh and no write fails. *)
THEOREM LastTargetOncePerCause == Spec => []OncePerCause
<1>1. Init => OnceInv
  <2> SUFFICES ASSUME Init PROVE OnceInv
    OBVIOUS
  <2>1. TypesOK
    BY InitTypes
  <2>2. CompletedByNow
    BY InitCompleted
  <2>3. LastRuns = {} /\ pc = "idle"
    BY DEF Init, LastRuns, NoRuns
  <2>4. \A r \in Requests : requests[r].pc = "none"
    BY DEF Init, NewRequest
  <2>5. LastUnique /\ RequestsOnce /\ ReconcilesOnce
    BY <2>3, <2>4 DEF LastUnique, RequestsOnce, ReconcilesOnce
  <2> QED BY <2>1, <2>2, <2>5 DEF OnceInv
<1>2. OnceInv => OncePerCause
  BY DEF OnceInv, LastUnique, LastRuns, Last, OncePerCause
<1> QED BY <1>1, OnceInvPreserved, <1>2, PTL DEF Spec

(***************************************************************************)
(* Nothing is forgotten.  While a reconcile runs, everything up to its     *)
(* start is behind it; when it ends, what is still to come has a timer,    *)
(* and every completion it has not seen will put the key into the queue.   *)
(***************************************************************************)
Handled(last, time) == \A d \in DueTimes : d <= time => d <= last \/ d <= time - Lookback
Remembered ==
  \A d \in DueTimes :
    d <= event.status.last \/ Overslept(d) \/ (wakeAt # 0 /\ wakeAt <= d + 1)

CronOK ==
  /\ pc # "idle" => startedAt <= now /\ Handled(trig.last, startedAt)
  /\ pc = "idle" /\ ~wanted => cachedEvent.suspended \/ Remembered

PipelineOK ==
  AwaitsEnd /\ seen.upstream.phase = DesiredPhase /\ ~wanted =>
    /\ pc # "idle" => seen.upstream.completed <= trig.last
    /\ pc = "idle" => cachedEvent.suspended \/ seen.upstream.completed <= event.status.last

NoCallers == \A r \in Requests : requests[r].pc = "none"

MemoryOK ==
  /\ spec.source = "cron" => CronOK
  /\ spec.source = "pipeline-output" => PipelineOK
  /\ spec.source # "webhook" => NoCallers
MemoryInv == TypesOK /\ CompletedByNow /\ MemoryOK

LEMMA NothingDue ==
  ASSUME TypesOK, NEW status \in EventStatus, spec.source = "cron", ~Fires(status)
  PROVE  Handled(status.last, now)
<1> DEFINE D == Due(status.last)
           low == Max({status.last, now - Lookback})
<1>0. /\ status.last \in Nat /\ now \in Nat /\ Lookback \in Nat
      /\ DueTimes \in SUBSET Nat /\ \A d \in DueTimes : d > 0
  BY EventAssumption DEF TypesOK, EventStatus
<1>1. low \in {status.last, now - Lookback}
  <2>1. \E x \in {status.last, now - Lookback} : \A y \in {status.last, now - Lookback} : x >= y
    BY <1>0
  <2> QED BY <2>1 DEF Max
<1>2. D = {d \in DueTimes : d > low /\ d <= now}
  BY DEF Due
<1> HIDE DEF low, D
<1>3. D = {}
  BY DEF Fires, CronDue, D
<1>4. ASSUME NEW d \in DueTimes, d <= now PROVE d <= status.last \/ d <= now - Lookback
  <2>1. ~(d > low)
    BY <1>2, <1>3, <1>4
  <2> QED BY <1>0, <1>1, <2>1
<1> QED BY <1>4 DEF Handled

(* After the fire for whatever is due nothing is due. *)
LEMMA FiredHandles ==
  ASSUME TypesOK, NEW status \in EventStatus, spec.source = "cron"
  PROVE  Handled((IF Fires(status) THEN Fired(status) ELSE status).last, now)
<1>1. CASE ~Fires(status)
  BY <1>1, NothingDue
<1>2. CASE Fires(status)
  <2>1. Fired(status).last = now
    BY DEF Fired
  <2> QED BY <1>2, <2>1 DEF Handled
<1> QED BY <1>1, <1>2

(* The timer is set for whatever falls due after the start. *)
LEMMA WakesInTime ==
  ASSUME TypesOK, spec.source = "cron", NEW d \in DueTimes, d > startedAt
  PROVE  WakeUp # 0 /\ WakeUp <= d + 1
<1> DEFINE T == ({wakeAt} \ {0}) \cup {e + 1 : e \in {e \in DueTimes : e > startedAt}}
<1>1. T \in SUBSET Nat /\ 0 \notin T /\ d + 1 \in T
  BY EventAssumption DEF TypesOK
<1>2. WakeUp = IF T # {} THEN Min(T) ELSE wakeAt
  BY DEF WakeUp
<1> HIDE DEF T
<1>3. Min(T) \in T /\ \A y \in T : Min(T) <= y
  BY <1>1, LeastNumber
<1> QED BY <1>1, <1>2, <1>3

LEMMA SaveRemembers ==
  ASSUME TypesOK, spec.source = "cron", CronOK, pc # "idle", now' = now,
         event'.status = trig, wakeAt' = WakeUp
  PROVE  Remembered'
<1>0. now \in Nat /\ startedAt \in Nat /\ Lookback \in Nat /\ trig.last \in Nat
      /\ DueTimes \subseteq Nat
  BY EventAssumption DEF TypesOK, EventStatus
<1>1. startedAt <= now /\ Handled(trig.last, startedAt)
  BY DEF CronOK
<1>2. ASSUME NEW d \in DueTimes
      PROVE  d <= event'.status.last \/ d <= now' - Lookback \/ (wakeAt' # 0 /\ wakeAt' <= d + 1)
  <2>1. CASE d <= startedAt
    <3>1. d <= trig.last \/ d <= startedAt - Lookback
      BY <1>1, <2>1 DEF Handled
    <3> QED BY <1>0, <1>1, <3>1
  <2>2. CASE d > startedAt
    BY <2>2, WakesInTime
  <2> QED BY <1>0, <2>1, <2>2
<1> QED BY <1>2 DEF Remembered, Overslept

LEMMA SavesTrig ==
  ASSUME TypesOK, SaveStatus
  PROVE  event'.status = trig
<1>0. event \in Event /\ trig \in EventStatus
  BY DEF TypesOK
<1>1. CASE event' = Stored(trig)
  BY <1>0, <1>1, StoredType
<1>2. CASE event' = Touched /\ trig = event.status
  BY <1>0, <1>2 DEF Touched, Event
<1> QED BY <1>1, <1>2 DEF SaveStatus

LEMMA ReconcileRemembers ==
  ASSUME MemoryInv, Reconcile
  PROVE  MemoryOK'
<1>0. TypesOK /\ CompletedByNow /\ MemoryOK
  BY DEF MemoryInv
<1>1. CASE ReconcileSuspended
  <2>1. /\ pc = "idle" /\ pc' = "idle" /\ cachedEvent.suspended
        /\ UNCHANGED <<spec, event, cachedEvent, seen, requests>>
    BY <1>1 DEF ReconcileSuspended, ReadEvent, eventVars, flowVars
  <2> QED BY <1>0, <2>1 DEF MemoryOK, CronOK, PipelineOK, AwaitsEnd, DesiredPhase, NoCallers
<1>2. CASE StartReconcile
  <2> DEFINE status == cachedEvent.status
             trigger == IF Fires(status) THEN Fired(status) ELSE status
  <2>1. status \in EventStatus
    BY <1>0 DEF TypesOK, Event
  <2>2. /\ pc' # "idle" /\ trig' = trigger /\ startedAt' = now
        /\ UNCHANGED <<spec, event, cachedEvent, seen, requests, now>>
    BY <1>2 DEF StartReconcile, eventVars, flowVars
  <2>3. now \in Nat
    BY <1>0 DEF TypesOK
  <2>4. spec.source = "cron" => CronOK'
    <3>1. spec.source = "cron" => Handled(trigger.last, now)
      BY <1>0, <2>1, FiredHandles
    <3> HIDE DEF trigger
    <3> QED BY <2>2, <2>3, <3>1 DEF CronOK, Handled
  <2>5. ASSUME spec.source = "pipeline-output", seen.upstream.phase = DesiredPhase
        PROVE  seen.upstream.completed <= trigger.last
    <3>1. /\ seen.upstream.completed \in Nat /\ seen.upstream.completed <= now
          /\ status.last \in Nat
      BY <1>0, <2>1 DEF TypesOK, Upstream, CompletedByNow, EventStatus
    <3>2. Fired(status).last = now
      BY DEF Fired
    <3>3. ~Fires(status) => ~(seen.upstream.completed > status.last)
      BY <2>5 DEF Fires, PhaseReached
    <3> HIDE DEF status
    <3> QED BY <3>1, <3>2, <3>3
  <2> HIDE DEF trigger
  <2> QED BY <1>0, <2>2, <2>4, <2>5 DEF MemoryOK, PipelineOK, AwaitsEnd, DesiredPhase, NoCallers
<1>3. CASE CreateRun
  <2>1. /\ pc = "create" /\ pc' # "idle"
        /\ UNCHANGED <<spec, event, cachedEvent, seen, requests, now, wanted, trig, startedAt>>
    BY <1>3 DEF CreateRun, eventVars
  <2> QED BY <1>0, <2>1 DEF MemoryOK, CronOK, PipelineOK, AwaitsEnd, DesiredPhase, NoCallers, Handled
<1>4. CASE CreateFails \/ SaveFails
  <2>1. pc' = "idle" /\ wanted' /\ UNCHANGED <<spec, requests>>
    BY <1>4 DEF CreateFails, SaveFails, Retry, Idle
  <2> QED BY <1>0, <2>1 DEF MemoryOK, CronOK, PipelineOK, AwaitsEnd, DesiredPhase, NoCallers
<1>5. CASE SaveStatus
  <2>1. /\ pc = "save" /\ pc' = "idle" /\ wakeAt' = WakeUp
        /\ UNCHANGED <<spec, cachedEvent, seen, requests, now, wanted>>
    BY <1>5 DEF SaveStatus, Idle, flowVars
  <2>2. event'.status = trig
    BY <1>0, <1>5, SavesTrig
  <2>3. spec.source = "cron" => Remembered'
    BY <1>0, <2>1, <2>2, SaveRemembers DEF MemoryOK
  <2> QED BY <1>0, <2>1, <2>2, <2>3 DEF MemoryOK, CronOK, PipelineOK, AwaitsEnd, DesiredPhase, NoCallers
<1> QED BY <1>1, <1>2, <1>3, <1>4, <1>5 DEF Reconcile

(* What does not stop a timer or undo a fire. *)
LEMMA StaysRemembered ==
  ASSUME MemoryInv, event'.status = event.status, now' >= now, now' \in Nat,
         UNCHANGED <<spec, cachedEvent, seen, wanted, wakeAt, pc, trig, startedAt, requests>>
  PROVE  MemoryOK'
<1>0. now \in Nat /\ startedAt \in Nat /\ Lookback \in Nat /\ DueTimes \subseteq Nat
  BY EventAssumption DEF MemoryInv, TypesOK
<1>1. Remembered => Remembered'
  <2>1. ASSUME NEW d \in DueTimes, d <= now - Lookback PROVE d <= now' - Lookback
    BY <1>0, <2>1
  <2>2. event'.status.last = event.status.last
    OBVIOUS
  <2> QED BY <2>1, <2>2 DEF Remembered, Overslept
<1>2. CronOK => CronOK'
  BY <1>0, <1>1 DEF CronOK, Handled
<1>3. PipelineOK => PipelineOK'
  BY DEF PipelineOK, AwaitsEnd, DesiredPhase
<1> QED BY <1>2, <1>3 DEF MemoryInv, MemoryOK, NoCallers

LEMMA EnvironmentRemembers ==
  ASSUME MemoryInv, Environment
  PROVE  MemoryOK'
<1>0. TypesOK /\ MemoryOK /\ now \in Nat /\ now >= now
  BY DEF MemoryInv, TypesOK
<1>1. CASE Wake \/ WatchEvent
  <2>1. wanted' /\ UNCHANGED <<spec, seen, now, pc, trig, startedAt, requests>>
    BY <1>1 DEF Wake, WatchEvent, flowVars
  <2> QED BY <1>0, <2>1 DEF MemoryOK, CronOK, PipelineOK, AwaitsEnd, DesiredPhase, NoCallers, Handled
<1>2. CASE WatchFlows
  <2>1. /\ UNCHANGED <<spec, event, cachedEvent, now, wakeAt, pc, trig, startedAt, requests>>
        /\ seen'.upstream = upstream /\ (wanted => wanted')
        /\ spec.source = "pipeline-output" /\ upstream.phase \in Ended =>
             wanted' \/ seen.upstream = upstream
    BY <1>2 DEF WatchFlows, eventVars
  <2>2. CronOK => CronOK'
    BY <2>1 DEF CronOK, Remembered, Overslept, Handled
  <2> QED BY <1>0, <2>1, <2>2 DEF MemoryOK, PipelineOK, AwaitsEnd, DesiredPhase, NoCallers
<1>3. CASE Tick
  <2>1. now' = now + 1
    BY <1>3 DEF Tick
  <2>2. now' >= now /\ now' \in Nat
    BY <1>0, <2>1
  <2> QED BY <1>3, <2>2, StaysRemembered DEF Tick, eventVars, flowVars, reconcileVars
<1>4. ASSUME NEW k \in DOMAIN runs, RunStarts(k) \/ RunEnds(k) PROVE MemoryOK'
  <2>1. UNCHANGED <<event, environmentRest>>
    BY <1>4 DEF RunStarts, RunEnds
  <2> QED BY <1>0, <2>1, StaysRemembered DEF environmentRest, reconcileVars
<1>5. CASE UpstreamAdvances \/ UpstreamAgain
  <2>1. UNCHANGED <<event, environmentRest>>
    BY <1>5 DEF UpstreamAdvances, UpstreamAgain
  <2> QED BY <1>0, <2>1, StaysRemembered DEF environmentRest, reconcileVars
<1>6. CASE EditSuspended
  <2>1. event'.status = event.status
    BY <1>0, <1>6 DEF EditSuspended, TypesOK, Event
  <2> QED BY <1>0, <1>6, <2>1, StaysRemembered DEF EditSuspended, flowVars, reconcileVars
<1>7. CASE RestartOperator
  <2>1. pc' = "idle" /\ wanted' /\ UNCHANGED spec
    BY <1>7 DEF RestartOperator, Idle
  <2>2. NoCallers => NoCallers'
    BY <1>7 DEF RestartOperator, NoCallers
  <2> QED BY <1>0, <2>1, <2>2 DEF MemoryOK, CronOK, PipelineOK, AwaitsEnd, DesiredPhase
<1> QED BY <1>1, <1>2, <1>3, <1>4, <1>5, <1>6, <1>7 DEF Environment

LEMMA MemoryPreserved == MemoryInv /\ [Next]_vars => MemoryInv'
<1>1. ASSUME MemoryInv, UNCHANGED vars PROVE MemoryInv'
  <2>1. TypesOK' /\ CompletedByNow'
    BY <1>1, TypesPreserved DEF MemoryInv, CompletedByNow, vars, flowVars
  <2>2. now \in Nat /\ now >= now
    BY <1>1 DEF MemoryInv, TypesOK
  <2>3. MemoryOK'
    BY <1>1, <2>2, StaysRemembered DEF vars, eventVars, flowVars, reconcileVars
  <2> QED BY <2>1, <2>3 DEF MemoryInv
<1>2. ASSUME MemoryInv, Next PROVE MemoryInv'
  <2>1. TypesOK' /\ CompletedByNow'
    BY <1>2, TypesPreserved, CompletedByNowPreserved DEF MemoryInv
  <2>2. ASSUME NEW r \in Requests, RequestArrives(r) \/ ServeRequest(r) PROVE MemoryOK'
    <3>1. spec.source = "webhook" \/ requests[r].pc # "none"
      BY <2>2 DEF RequestArrives, ServeRequest, RequestCreates, RequestFails, RequestSaves,
                  RequestPolls, RequestTimesOut
    <3>2. UNCHANGED spec
      BY <1>2, SpecStays
    <3> QED BY <1>2, <3>1, <3>2 DEF MemoryInv, MemoryOK, NoCallers
  <2> QED BY <1>2, <2>1, <2>2, ReconcileRemembers, EnvironmentRemembers DEF Next, MemoryInv
<1> QED BY <1>1, <1>2

(* Whatever failed, conflicted, was read too early or fell due while a reconcile was
   running: a controller with nothing left to see has fired for every due time and
   every completion, or a timer stands for it, or it overslept. *)
THEOREM NothingEverForgotten == Spec => []NothingForgotten
<1>1. Init => MemoryInv
  <2> SUFFICES ASSUME Init PROVE MemoryInv
    OBVIOUS
  <2>1. TypesOK
    BY InitTypes
  <2>2. CompletedByNow
    BY InitCompleted
  <2>3. pc = "idle" /\ wanted = TRUE /\ \A r \in Requests : requests[r].pc = "none"
    BY DEF Init, NewRequest
  <2> QED BY <2>1, <2>2, <2>3 DEF MemoryInv, MemoryOK, CronOK, PipelineOK, NoCallers
<1>2. MemoryInv => NothingForgotten
  <2> SUFFICES ASSUME MemoryInv, AtRest, ~event.suspended PROVE NothingForgotten
    BY DEF NothingForgotten
  <2>1. pc = "idle" /\ ~wanted /\ ~cachedEvent.suspended /\ seen.upstream = upstream
    BY DEF AtRest
  <2> QED BY <2>1 DEF MemoryInv, MemoryOK, CronOK, PipelineOK, Remembered, NothingForgotten
<1> QED BY <1>1, MemoryPreserved, <1>2, PTL DEF Spec
====
