------------------------------- MODULE ArkEvent -------------------------------
(***************************************************************************)
(* The ArkEvent controller (internal/controller/arkevent_controller.go)    *)
(* and the webhook server beside it (trigger_webhook_server.go), for one   *)
(* event whose source is a cron schedule, a webhook or the completion of   *)
(* another flow.  Both write the event's status, and both dispatch a copy  *)
(* of every target flow when the event fires.                              *)
(*                                                                         *)
(* A tick of the clock is a second, the resolution of the times in the     *)
(* status and in the names of the dispatched flows.                        *)
(***************************************************************************)
EXTENDS Integers, Sequences, FiniteSets, FiniteSetsExt, Functions

CONSTANTS
  Cases,         \* the events to consider (see `spec`)
  DueTimes,      \* when the cron schedule is due
  Lookback,      \* the 24 hours mostRecentSchedule looks back
  Requests,      \* the POSTs to the webhook
  SyncRequests,  \* those with mode=sync
  SyncTimeout,   \* how long a sync request waits
  MaxFaults,     \* bound: how often something goes wrong
  MaxNow,        \* bound: the clock goes on only while something waits for it
  MaxRuns        \* bound: or while the name for a flow is taken, of fewer flows than this

ASSUME EventAssumption ==
  /\ \A c \in Cases : c.targets \in Seq(Range(c.targets)) \ {<<>>} /\ c.requests \subseteq Requests
  /\ DueTimes \subseteq Nat \ {0}
  /\ {Lookback, SyncTimeout, MaxFaults, MaxNow, MaxRuns} \subseteq Nat
  /\ SyncRequests \subseteq Requests
ASSUME PhaseAssumption ==
  \A c \in Cases : c.onPhase \in {"", "Pending", "Running", "Succeeded", "Failed"}

VARIABLES
  spec,         \* its source, policy and targets (a sequence of names of flows), and the
                \* phase of a watched flow it waits for; what may go wrong, who may POST
  event,        \* the object in the API server: [version, suspended, status]
  cachedEvent,  \* the same in the informer cache
  runs,         \* the dispatched flows: <<target, second>> to [phase, cause]
  upstream,     \* the flow the event watches: [phase, completed]
  seen,         \* the flows in the informer cache: [runs, upstream]
  secret,       \* the Secret with the webhook token exists
  now, wanted,  \* the clock; the event's key is in the work queue
  wakeAt,       \* when RequeueAfter puts it there, 0 for never
  pc,           \* where the reconcile is: idle, create, save
  trig,         \* the status of its copy of the event
  startedAt,    \* when it started
  cause,        \* what it fires for: a due time or a completion time, 0 for neither
  target,       \* the target it is about to dispatch
  requests,     \* the handlers of the webhook server
  faults

eventVars == <<event, cachedEvent>>
flowVars == <<runs, upstream, seen>>
reconcileVars == <<wanted, wakeAt, pc, trig, startedAt, cause, target>>
vars == <<spec, eventVars, flowVars, secret, now, reconcileVars, requests, faults>>

(* LastFiredAt, 0 for nil, and FiredCount. *)
EventStatus == [last : Nat, count : Nat]
Event == [version : Nat, suspended : BOOLEAN, status : EventStatus]
RunPhase == {"", "Running", "Succeeded", "Failed"}
Ended == {"Succeeded", "Failed"}
Run == [phase : RunPhase, cause : Nat \cup Requests]
Upstream == [phase : RunPhase, completed : Nat]

NewStatus == [last |-> 0, count |-> 0]
NoRuns == [k \in {} |-> 0]

(* A handler: its copy of the event, the target it is at, the name of the last
   flow it dispatched, when it stops waiting, and what it answered. *)
Answer == {"", "accepted", "succeeded", "failed", "timeout", "badRequest",
           "unavailable", "unauthorized", "error", "lost"}
NewRequest == [pc |-> "none", copy |-> [version |-> 0, status |-> NewStatus], fired |-> 0,
               target |-> 1, created |-> 0, run |-> <<>>, deadline |-> 0, answer |-> ""]

Init ==
  /\ spec \in Cases
  /\ event = [version |-> 0, suspended |-> FALSE, status |-> NewStatus]
  /\ cachedEvent = event
  /\ runs = NoRuns
  /\ upstream = [phase |-> "", completed |-> 0]
  /\ seen = [runs |-> runs, upstream |-> upstream]
  /\ secret = FALSE
  /\ now = 1 /\ wanted = TRUE /\ wakeAt = 0
  /\ pc = "idle" /\ trig = NewStatus /\ startedAt = 0 /\ cause = 0 /\ target = 1
  /\ requests = [r \in Requests |-> NewRequest]
  /\ faults = 0

EventTypeOK ==
  /\ event \in Event /\ cachedEvent \in Event
  /\ \A k \in DOMAIN runs : k \in Range(spec.targets) \X Nat /\ runs[k] \in Run
  /\ upstream \in Upstream
  /\ {now, wakeAt, startedAt, cause, faults} \subseteq Nat
  /\ wanted \in BOOLEAN /\ secret \in BOOLEAN
  /\ pc \in {"idle", "create", "save"}
  /\ trig \in EventStatus
  /\ target \in DOMAIN spec.targets
  /\ \A r \in Requests :
       /\ requests[r].pc \in {"none", "fire", "create", "save", "wait", "done"}
       /\ requests[r].answer \in Answer
       /\ requests[r].target \in DOMAIN spec.targets

NoFault == UNCHANGED faults
Fault(kind) == kind \in spec.faults /\ faults < MaxFaults /\ faults' = faults + 1
-----------------------------------------------------------------------------
(* Status().Update at the version the writer has read.  Every reconcile sets
   LastTransitionTime, which is left out of the status, to the current second:
   it makes a version although nothing else changes, once a second at most. *)
Stored(status) ==
  IF status = event.status THEN event
  ELSE [event EXCEPT !.version = @ + 1, !.status = status]

Touched == [event EXCEPT !.version = @ + 1]

(* mostRecentSchedule: the times since the last fire, or since Lookback ago. *)
Due(last) == {d \in DueTimes : d > Max({last, now - Lookback}) /\ d <= now}

CronDue(status) == spec.source = "cron" /\ Due(status.last) # {}

DesiredPhase == IF spec.onPhase = "" THEN "Succeeded" ELSE spec.onPhase

(* reconcilePipelineOutput: a completion is not fired for twice.  A phase that comes
   without a completion time (0), which is any but Succeeded and Failed, has no such
   guard: an event that waits for it fires whenever it is reconciled. *)
PhaseReached(status) ==
  /\ spec.source = "pipeline-output" /\ seen.upstream.phase = DesiredPhase
  /\ seen.upstream.completed = 0 \/ seen.upstream.completed > status.last

Fires(status) == CronDue(status) \/ PhaseReached(status)

(* What the reconcile fires for: a due time, or the completion of the watched flow. *)
FireCause(status) ==
  IF spec.source = "cron" THEN Max(Due(status.last)) ELSE seen.upstream.completed

(* hasRunningFlow, on the flows in the cache. *)
Forbidden ==
  spec.policy = "Forbid" /\ \E k \in DOMAIN seen.runs : seen.runs[k].phase = "Running"

(* The flow that a dispatch of the i-th target creates has this name. *)
Name(i) == <<spec.targets[i], now>>

(* Mutant: a name that is taken is as good as created. *)
Dispatch_AlreadyExists(i, why) ==
  runs' = IF Name(i) \in DOMAIN runs THEN runs
          ELSE [k \in DOMAIN runs \cup {Name(i)} |->
                  IF k = Name(i) THEN [phase |-> "", cause |-> why] ELSE runs[k]]

Dispatch(i, why) ==
  /\ Name(i) \notin DOMAIN runs
  /\ runs' = [k \in DOMAIN runs \cup {Name(i)} |->
                IF k = Name(i) THEN [phase |-> "", cause |-> why] ELSE runs[k]]

(* Create returns AlreadyExists, or an error whether or not it took effect. *)
DispatchFails(i, why) ==
  \/ Name(i) \in DOMAIN runs /\ NoFault /\ UNCHANGED runs
  \/ Fault("apiError") /\ UNCHANGED runs
  \/ Fault("apiError") /\ Dispatch(i, why)
-----------------------------------------------------------------------------
(* The controller. *)

Idle == pc' = "idle" /\ trig' = NewStatus /\ startedAt' = 0 /\ cause' = 0 /\ target' = 1
Retry == Idle /\ wanted' = TRUE /\ UNCHANGED wakeAt

ReadEvent ==
  /\ pc = "idle" /\ wanted
  /\ \/ cachedEvent = event /\ NoFault
     \/ cachedEvent # event /\ Fault("staleRead")

(* Only the condition is written. *)
ReconcileSuspended ==
  /\ ReadEvent /\ cachedEvent.suspended
  /\ wanted' = (cachedEvent.version # event.version)
  /\ UNCHANGED <<spec, eventVars, flowVars, secret, now, wakeAt, pc, trig, startedAt, cause, target,
                 requests>>

(* Mutant: the status does not say that the event fired. *)
Fired_NotRecorded(status) == [status EXCEPT !.count = @ + 1]

Fired(status) == [last |-> now, count |-> status.count + 1]

(* Everything up to the first Create.  A fire that the policy forbids is
   recorded like any other. *)
StartReconcile ==
  LET status == cachedEvent.status IN
  /\ ReadEvent /\ ~cachedEvent.suspended
  /\ wanted' = FALSE
  /\ pc' = IF Fires(status) /\ ~Forbidden THEN "create" ELSE "save"
  /\ trig' = IF Fires(status) THEN Fired(status) ELSE status
  /\ cause' = IF Fires(status) THEN FireCause(status) ELSE 0
  /\ startedAt' = now
  /\ secret' = (secret \/ spec.source = "webhook")
  /\ UNCHANGED <<spec, eventVars, flowVars, now, wakeAt, target, requests>>

(* Mutant: the loop runs past the last target. *)
CreateRun_PastLast ==
  /\ pc = "create" /\ Dispatch(target, cause)
  /\ IF target > Len(spec.targets) THEN pc' = "save" /\ UNCHANGED target
     ELSE target' = target + 1 /\ UNCHANGED pc
  /\ UNCHANGED <<spec, eventVars, upstream, seen, secret, now, wanted, wakeAt, trig, startedAt,
                 cause, requests, faults>>

CreateRun ==
  /\ pc = "create" /\ Dispatch(target, cause)
  /\ IF target = Len(spec.targets) THEN pc' = "save" /\ UNCHANGED target
     ELSE target' = target + 1 /\ UNCHANGED pc
  /\ UNCHANGED <<spec, eventVars, upstream, seen, secret, now, wanted, wakeAt, trig, startedAt, cause,
                 requests, faults>>

(* Mutant: the error is logged and not returned. *)
CreateFails_Swallowed ==
  /\ pc = "create" /\ DispatchFails(target, cause)
  /\ Idle /\ UNCHANGED <<wanted, wakeAt>>
  /\ UNCHANGED <<spec, eventVars, upstream, seen, secret, now, requests>>

(* The targets dispatched so far stay dispatched, and nothing is recorded. *)
CreateFails ==
  /\ pc = "create" /\ DispatchFails(target, cause)
  /\ Retry
  /\ UNCHANGED <<spec, eventVars, upstream, seen, secret, now, requests>>

(* Mutant: the next due time is sought when the status is saved. *)
WakeUp_AfterSave ==
  LET timers == ({wakeAt} \ {0}) \cup {d + 1 : d \in {d \in DueTimes : d > now}}
  IN IF spec.source = "cron" /\ timers # {} THEN Min(timers) ELSE wakeAt

(* RequeueAfter: a second after the time the schedule is due next, unless the
   work queue already waits for an earlier time. *)
WakeUp ==
  LET timers == ({wakeAt} \ {0}) \cup {d + 1 : d \in {d \in DueTimes : d > startedAt}}
  IN IF spec.source = "cron" /\ timers # {} THEN Min(timers) ELSE wakeAt

(* The object is read again, from the cache, and gets the status of the copy
   that was read at the start. *)
SaveStatus ==
  /\ pc = "save" /\ cachedEvent.version = event.version
  /\ \/ event' = Stored(trig) /\ NoFault
     \/ event' = Touched /\ trig = event.status /\ Fault("touch")
  /\ wakeAt' = WakeUp
  /\ Idle
  /\ UNCHANGED <<spec, cachedEvent, flowVars, secret, now, wanted, requests>>

(* A conflict, or an error of the write although it took effect. *)
SaveFails ==
  /\ pc = "save"
  /\ \/ cachedEvent.version # event.version /\ NoFault /\ UNCHANGED event
     \/ Fault("apiError") /\ UNCHANGED event
     \/ cachedEvent.version = event.version /\ Fault("apiError") /\ event' = Stored(trig)
  /\ Retry
  /\ UNCHANGED <<spec, cachedEvent, flowVars, secret, now, requests>>

Reconcile ==
  ReconcileSuspended \/ StartReconcile \/ CreateRun \/ CreateFails \/ SaveStatus \/ SaveFails
-----------------------------------------------------------------------------
(* The webhook server: one handler per request, with a valid token. *)

requestRest == <<spec, cachedEvent, upstream, seen, secret, now, reconcileVars>>
Handle(r, request) == requests' = [requests EXCEPT ![r] = request]
Respond(r, answer) ==
  requests' = [requests EXCEPT ![r] = [NewRequest EXCEPT !.pc = "done", !.answer = answer,
                                                         !.run = requests[r].run]]

(* Nobody can present the token before the controller has made the Secret. *)
ValidToken == secret

(* From the load of the event to the first Create. *)
RequestArrives(r) ==
  /\ requests[r].pc = "none" /\ spec.source = "webhook" /\ r \in spec.requests
  /\ IF cachedEvent.suspended THEN Respond(r, "unavailable")
     ELSE IF ~ValidToken THEN Respond(r, "unauthorized")
     ELSE Handle(r, [NewRequest EXCEPT
       !.pc = IF Forbidden THEN "save" ELSE "create", !.fired = now,
       !.copy = [version |-> cachedEvent.version, status |-> cachedEvent.status]])
  /\ UNCHANGED <<event, runs, faults, requestRest>>

RequestCreates(r) ==
  LET i == requests[r].target IN
  /\ requests[r].pc = "create" /\ Dispatch(i, r)
  /\ Handle(r, [requests[r] EXCEPT
       !.run = Name(i), !.created = i,
       !.pc = IF i = Len(spec.targets) THEN "save" ELSE "create",
       !.target = IF i = Len(spec.targets) THEN i ELSE i + 1])
  /\ UNCHANGED <<event, faults, requestRest>>

RequestFails(r) ==
  /\ requests[r].pc = "create" /\ DispatchFails(requests[r].target, r)
  /\ Respond(r, "error")
  /\ UNCHANGED <<event, requestRest>>

(* The status update, whose failure is only logged, and the answer to an
   asynchronous request.  Whoever waits needs exactly one dispatched flow. *)
RequestSaves(r) ==
  LET copy == requests[r].copy
      status == [copy.status EXCEPT !.last = requests[r].fired, !.count = @ + 1]
  IN /\ requests[r].pc = "save"
     /\ \/ copy.version = event.version /\ event' = Stored(status) /\ NoFault
        \/ copy.version # event.version /\ UNCHANGED event /\ NoFault
        \/ Fault("apiError") /\ UNCHANGED event
     /\ IF r \notin SyncRequests THEN Respond(r, "accepted")
        ELSE IF requests[r].created # 1 THEN Respond(r, "badRequest")
        ELSE Handle(r, [requests[r] EXCEPT !.pc = "wait", !.deadline = now + SyncTimeout])
     /\ UNCHANGED <<runs, requestRest>>

(* waitForFlow polls the cache, where a flow may not have arrived yet. *)
RequestPolls(r) ==
  LET run == requests[r].run IN
  /\ requests[r].pc = "wait"
  /\ \/ run \notin DOMAIN seen.runs /\ Respond(r, "error")
     \/ run \in DOMAIN seen.runs /\ seen.runs[run].phase = "Succeeded" /\ Respond(r, "succeeded")
     \/ run \in DOMAIN seen.runs /\ seen.runs[run].phase = "Failed" /\ Respond(r, "failed")
  /\ UNCHANGED <<event, runs, faults, requestRest>>

(* Mutant: there is no deadline. *)
RequestTimesOut_Never(r) == FALSE /\ UNCHANGED vars

RequestTimesOut(r) ==
  /\ requests[r].pc = "wait" /\ now >= requests[r].deadline
  /\ Respond(r, "timeout")
  /\ UNCHANGED <<event, runs, faults, requestRest>>

ServeRequest(r) ==
  \/ RequestCreates(r) \/ RequestFails(r) \/ RequestSaves(r)
  \/ RequestPolls(r) \/ RequestTimesOut(r)
-----------------------------------------------------------------------------
(* Informers, time, the flows and the users. *)

Wake ==
  /\ wakeAt # 0 /\ now >= wakeAt
  /\ wanted' = TRUE /\ wakeAt' = 0
  /\ UNCHANGED <<spec, eventVars, flowVars, secret, now, pc, trig, startedAt, cause, target, requests,
                 faults>>

WatchEvent ==
  /\ cachedEvent # event
  /\ cachedEvent' = event
  /\ wanted' = TRUE
  /\ UNCHANGED <<spec, event, flowVars, secret, now, wakeAt, pc, trig, startedAt, cause, target, requests,
                 faults>>

(* A change of a flow the event owns enqueues it, and so does a change of the
   watched flow that leads to its end or away from it, whatever phase the event
   waits for: flowToTriggers looks at both the old and the new object. *)
WatchFlows ==
  /\ seen # [runs |-> runs, upstream |-> upstream]
  /\ seen' = [runs |-> runs, upstream |-> upstream]
  /\ wanted' = (wanted \/ seen.runs # runs \/
                (spec.source = "pipeline-output" /\ seen.upstream # upstream /\
                 {seen.upstream.phase, upstream.phase} \cap Ended # {}))
  /\ UNCHANGED <<spec, eventVars, runs, upstream, secret, now, wakeAt, pc, trig, startedAt, cause, target,
                 requests, faults>>

Tick ==
  /\ \/ now < MaxNow \/ now < wakeAt
     \/ Cardinality(DOMAIN runs) < MaxRuns /\ \E k \in DOMAIN runs : k[2] = now
     \/ \E r \in Requests : requests[r].pc = "wait" /\ now < requests[r].deadline
  /\ now' = now + 1
  /\ UNCHANGED <<spec, eventVars, flowVars, secret, reconcileVars, requests, faults>>

environmentRest == <<spec, cachedEvent, seen, secret, now, reconcileVars, requests>>

(* The phases are followed where somebody looks at them: under Forbid, whether a
   run is Running; as a caller that waits, whether it has ended. *)
RunStarts(k) ==
  /\ runs[k].phase = "" /\ spec.policy = "Forbid"
  /\ runs' = [runs EXCEPT ![k].phase = "Running"]
  /\ UNCHANGED <<event, upstream, environmentRest, faults>>

RunEnds(k) ==
  /\ runs[k].phase \in {"", "Running"}
  /\ spec.policy = "Forbid" \/ \E r \in Requests : requests[r].pc = "wait" /\ requests[r].run = k
  /\ \E end \in {"Succeeded", "Failed"} : runs' = [runs EXCEPT ![k].phase = end]
  /\ UNCHANGED <<event, upstream, environmentRest, faults>>

UpstreamAdvances ==
  /\ spec.source = "pipeline-output"
  /\ \/ upstream.phase = "" /\ upstream' = [upstream EXCEPT !.phase = "Running"]
     \/ /\ upstream.phase = "Running"
        /\ \E end \in {"Succeeded", "Failed"} :
             upstream' = [phase |-> end, completed |-> now]
  /\ UNCHANGED <<event, runs, environmentRest, faults>>

(* The watched flow is deleted and created again. *)
UpstreamAgain ==
  /\ upstream.phase \in {"Succeeded", "Failed"} /\ Fault("recreate")
  /\ upstream' = [phase |-> "", completed |-> 0]
  /\ UNCHANGED <<event, runs, environmentRest>>

(* A user suspends or resumes the event. *)
EditSuspended ==
  /\ Fault("suspend")
  /\ event' = [event EXCEPT !.version = @ + 1, !.suspended = ~@]
  /\ UNCHANGED <<flowVars, spec, cachedEvent, secret, now, reconcileVars, requests>>

(* The operator restarts, with its controller and its webhook server. *)
RestartOperator ==
  /\ Fault("operatorCrash")
  /\ cachedEvent' = event
  /\ seen' = [runs |-> runs, upstream |-> upstream]
  /\ wanted' = TRUE /\ wakeAt' = 0 /\ Idle
  /\ requests' = [r \in Requests |->
       IF requests[r].pc \in {"none", "done"} THEN requests[r]
       ELSE [requests[r] EXCEPT !.pc = "done", !.answer = "lost"]]
  /\ UNCHANGED <<spec, event, runs, upstream, secret, now>>

Environment ==
  \/ Wake \/ WatchEvent \/ WatchFlows \/ Tick
  \/ \E k \in DOMAIN runs : RunStarts(k) \/ RunEnds(k)
  \/ UpstreamAdvances \/ UpstreamAgain \/ EditSuspended \/ RestartOperator

Next ==
  \/ Reconcile
  \/ Environment
  \/ \E r \in Requests : RequestArrives(r) \/ ServeRequest(r)

(* Workers, handlers, timers and watches run; time passes.  The flows need not
   end, and no fault need happen. *)
Fairness ==
  /\ WF_vars(Reconcile) /\ WF_vars(Wake) /\ WF_vars(WatchEvent) /\ WF_vars(WatchFlows)
  /\ WF_vars(Tick)
  /\ \A r \in Requests : WF_vars(ServeRequest(r))

Spec == Init /\ [][Next]_vars /\ Fairness
-----------------------------------------------------------------------------
(* A waiting caller is told how its own run ended: the run was dispatched for
   this request, although names repeat within a second, and it did end so. *)
AnswersAreOwn ==
  \A r \in Requests : requests[r].answer \in {"succeeded", "failed"} =>
    /\ requests[r].run \in DOMAIN runs
    /\ runs[requests[r].run].cause = r
    /\ runs[requests[r].run].phase =
         IF requests[r].answer = "succeeded" THEN "Succeeded" ELSE "Failed"

(* However often the event is reconciled, the last target is dispatched once for
   a due time, a completion or a request, as long as nothing goes wrong: the cache
   is fresh when a reconcile starts and every write succeeds.  The targets before
   it are dispatched again when the name of a later one is taken, and so is the
   last one if its flow is also another target's.  An event that waits for a phase
   which is no end of the watched flow (onPhase Running or Pending) is excluded:
   it fires at every reconcile, and its own dispatches ask for the next one. *)
LastTargetOnce ==
  \A i \in 1 .. Len(spec.targets) - 1 : spec.targets[i] # spec.targets[Len(spec.targets)]
AwaitsEnd == spec.source = "pipeline-output" => DesiredPhase \in Ended
OncePerCause ==
  faults = 0 /\ LastTargetOnce /\ AwaitsEnd => \A k, l \in DOMAIN runs :
    k[1] = l[1] /\ k[1] = spec.targets[Len(spec.targets)] /\ runs[k].cause = runs[l].cause => k = l

(* Nothing is left to do: no reconcile runs, the key is not queued and every change
   has arrived in the cache. *)
AtRest ==
  /\ pc = "idle" /\ ~wanted
  /\ cachedEvent = event /\ seen = [runs |-> runs, upstream |-> upstream]

(* The controller never rests over something that is due: each due time of the
   schedule has been fired for, or lies a whole day back, or a timer is set for
   it; and so has the completion of the watched flow in the phase waited for.  This
   is so whatever failed, conflicted, was read too early or fell due while a
   reconcile was running.  Of a phase that is no end nothing is said: nobody tells
   the controller that the watched flow has reached it (WatchFlows). *)
Overslept(d) == d <= now - Lookback
NothingForgotten ==
  AtRest /\ ~event.suspended =>
    /\ spec.source = "cron" => \A d \in DueTimes :
         d <= event.status.last \/ Overslept(d) \/ (wakeAt # 0 /\ wakeAt <= d + 1)
    /\ spec.source = "pipeline-output" /\ AwaitsEnd /\ upstream.phase = DesiredPhase =>
         upstream.completed <= event.status.last

(* Every due time of an event that is never suspended dispatches all targets,
   or a later one does, unless the operator sleeps over it for a whole day. *)
Dispatched(since) == \A t \in Range(spec.targets) : \E k \in DOMAIN runs : k[1] = t /\ k[2] >= since
Active(source) == spec.source = source /\ spec.policy = "Allow" /\ ~event.suspended
EveryDueFires ==
  []Active("cron") =>
    \A d \in DueTimes : (now >= d) ~> (Dispatched(d) \/ now >= d + Lookback)

(* Every completion of the watched flow in the phase waited for, Succeeded or Failed,
   dispatches all targets, if it is later than the last fire and the flow is not
   deleted before it is noticed.  The clock of a run goes on a little after MaxNow. *)
Completed(t) ==
  upstream.phase = DesiredPhase /\ upstream.completed = t /\ event.status.last < t
EveryCompletionFires ==
  []Active("pipeline-output") =>
    \A t \in 1 .. MaxNow + 2 : Completed(t) ~> (Dispatched(t) \/ upstream.completed # t)

(* What an event of either kind is there for. *)
EveryCauseFires == EveryDueFires /\ EveryCompletionFires

(* Every request is answered, if the operator lives on. *)
RequestsAnswered ==
  \A r \in Requests : (requests[r].pc # "none") ~> (requests[r].pc = "done")
-----------------------------------------------------------------------------
(* What comments of the code say of an event, where the code does otherwise. *)

(* arkevent_controller.go: "Don't re-fire for the same completion", not even
   when the cache lags behind the event's own status update. *)
OncePerCompletion ==
  spec.source = "pipeline-output" /\ AwaitsEnd =>
    \A k, l \in DOMAIN runs : k[1] = l[1] /\ runs[k].cause = runs[l].cause => k = l

(* arkevent_types.go: FiredCount is the total number of times the event has
   fired, so no write takes it back. *)
FiredCountNeverFalls == [][event'.status.count >= event.status.count]_vars
=============================================================================
