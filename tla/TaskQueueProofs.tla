--------------------------- MODULE TaskQueueProofs ---------------------------
(***************************************************************************)
(* Proofs about TaskQueue, for any number of pods, retries and faults.     *)
(***************************************************************************)
EXTENDS TaskQueue, FiniteSetTheorems, TLAPS

(* What a step of anyone leaves of the queue: logs only grow. *)
StreamGrows ==
  /\ Len(stream) <= Len(stream')
  /\ \A i \in DOMAIN stream : stream'[i] = stream[i]

(* Nothing beyond the group's position is being worked on or answered, a message
   has one goroutine at most, attempts are counted within bounds. *)
Delivered ==
  /\ group <= Len(stream)
  /\ \A w \in work : w.task \in 1 .. Len(stream) /\ w.task <= group
  /\ \A i \in DOMAIN results : results[i].task \in 1 .. Len(stream) /\ results[i].task <= group
OneWorkerPerTask == \A v, w \in work : v.task = w.task => v = w
AttemptsBounded ==
  /\ \A i \in DOMAIN stream : stream[i].attempt <= MaxRetries
  /\ dead \subseteq DOMAIN stream

QueueInv ==
  Delivered /\ OneWorkerPerTask /\ OneResultPerTask /\ AttemptsBounded /\ DeadOnlyWhenExhausted

LEMMA QueueInitInv == QueueInit => QueueTypeOK /\ QueueInv
  BY QueueAssumption
  DEF QueueInit, QueueTypeOK, QueueInv, Delivered, OneWorkerPerTask, OneResultPerTask,
      AttemptsBounded, DeadOnlyWhenExhausted, NoGroup

(* A message put on the stream disturbs nothing. *)
LEMMA EnqueuePreserves ==
  ASSUME QueueTypeOK, QueueInv, NEW prompt \in Prompt, Enqueue(prompt),
         UNCHANGED <<group, pel, results, dead, up, work>>, faults' \in 0 .. MaxFaults
  PROVE  QueueTypeOK' /\ QueueInv' /\ StreamGrows
<1>1. /\ stream' \in Seq(Entry)
      /\ Len(stream') = Len(stream) + 1
      /\ DOMAIN stream = 1 .. Len(stream) /\ DOMAIN stream' = 1 .. Len(stream) + 1
      /\ \A i \in 1 .. Len(stream) : stream'[i] = stream[i]
      /\ stream'[Len(stream) + 1] = [prompt |-> prompt, attempt |-> 0]
  BY DEF Enqueue, QueueTypeOK, Entry
<1>2. QueueTypeOK'
  BY <1>1 DEF QueueTypeOK
<1>3. Delivered' /\ OneWorkerPerTask' /\ OneResultPerTask'
  BY <1>1 DEF QueueTypeOK, QueueInv, Delivered, OneWorkerPerTask, OneResultPerTask, Goroutine, Result
<1>4. AttemptsBounded'
  <2>1. \A i \in 1 .. Len(stream) + 1 : stream'[i].attempt <= MaxRetries
    BY <1>1, QueueAssumption DEF QueueInv, AttemptsBounded
  <2> QED BY <2>1, <1>1 DEF QueueInv, AttemptsBounded
<1>6. DeadOnlyWhenExhausted'
  BY <1>1 DEF QueueInv, AttemptsBounded, DeadOnlyWhenExhausted
<1>5. StreamGrows
  BY <1>1 DEF StreamGrows, QueueTypeOK
<1> QED BY <1>2, <1>3, <1>4, <1>5, <1>6 DEF QueueInv

(* Every step of a pod preserves the invariant, the stream only growing. *)
LEMMA StartPodPreserves ==
  ASSUME QueueTypeOK, QueueInv, NEW p \in Pod, StartPod(p)
  PROVE  QueueTypeOK' /\ QueueInv' /\ StreamGrows
  BY QueueAssumption DEF StartPod, Fault, NoFault, QueueTypeOK, QueueInv, Delivered, OneWorkerPerTask,
         OneResultPerTask, AttemptsBounded, DeadOnlyWhenExhausted, StreamGrows, NoGroup

LEMMA PollPreserves ==
  ASSUME QueueTypeOK, QueueInv, NEW p \in Pod, Poll(p)
  PROVE  QueueTypeOK' /\ QueueInv' /\ StreamGrows
<1>1. group \in Nat /\ group < Len(stream) /\ group' = group + 1 /\ Len(stream) \in Nat
  BY DEF Poll, QueueTypeOK
<1>2. work' \subseteq work \cup {[pod |-> p, task |-> group + 1, pc |-> "running"]}
  BY DEF Poll
<1>3. QueueTypeOK'
  BY <1>1, <1>2, QueueAssumption DEF Poll, Fault, NoFault, QueueTypeOK, Goroutine
<1>4. Delivered'
  BY <1>1, <1>2 DEF Poll, QueueTypeOK, QueueInv, Delivered, Goroutine, Result
<1>5. OneWorkerPerTask' /\ OneResultPerTask'
  BY <1>1, <1>2
  DEF Poll, QueueTypeOK, QueueInv, Delivered, OneWorkerPerTask, OneResultPerTask, Goroutine, Result
<1>6. AttemptsBounded' /\ DeadOnlyWhenExhausted' /\ StreamGrows
  BY DEF Poll, QueueInv, AttemptsBounded, DeadOnlyWhenExhausted, StreamGrows, QueueTypeOK
<1> QED BY <1>3, <1>4, <1>5, <1>6 DEF QueueInv

LEMMA StopPodPreserves ==
  ASSUME QueueTypeOK, QueueInv, NEW p \in Pod, StopPod(p)
  PROVE  QueueTypeOK' /\ QueueInv' /\ StreamGrows
  BY QueueAssumption DEF StopPod, Fault, QueueTypeOK, QueueInv, Delivered, OneWorkerPerTask,
         OneResultPerTask, AttemptsBounded, DeadOnlyWhenExhausted, StreamGrows

LEMMA AcknowledgePreserves ==
  ASSUME QueueTypeOK, QueueInv, NEW w \in work, NEW pcNext \in {"publish", "requeue"},
         Acknowledge(w, pcNext)
  PROVE  QueueTypeOK' /\ QueueInv' /\ StreamGrows
<1> DEFINE v == [w EXCEPT !.pc = pcNext]
<1>1. v \in Goroutine /\ v.task = w.task /\ work' = (work \ {w}) \cup {v}
  BY DEF Acknowledge, QueueTypeOK, Goroutine
<1>2. QueueTypeOK'
  BY <1>1 DEF Acknowledge, QueueTypeOK
<1>3. UNCHANGED <<stream, group, results>>
  BY DEF Acknowledge
<1> HIDE DEF v
<1>5. Delivered'
  BY <1>1, <1>3 DEF QueueInv, Delivered
<1>6. OneWorkerPerTask'
  BY <1>1 DEF QueueInv, OneWorkerPerTask
<1>7. OneResultPerTask'
  BY <1>1, <1>3 DEF QueueInv, OneResultPerTask
<1>4. AttemptsBounded' /\ DeadOnlyWhenExhausted' /\ StreamGrows
  BY DEF Acknowledge, QueueInv, AttemptsBounded, DeadOnlyWhenExhausted, StreamGrows, QueueTypeOK
<1> QED BY <1>2, <1>4, <1>5, <1>6, <1>7 DEF QueueInv

LEMMA PublishResultPreserves ==
  ASSUME QueueTypeOK, QueueInv, NEW w \in work, PublishResult(w)
  PROVE  QueueTypeOK' /\ QueueInv' /\ StreamGrows
<1> PICK output \in Outputs, tokens \in Costs : Publish(w, output, tokens)
  BY DEF PublishResult
<1>1. CASE results' = results /\ Fault("queueError")
  BY <1>1, QueueAssumption DEF Publish, Fault, QueueTypeOK, QueueInv, Delivered, OneWorkerPerTask,
         OneResultPerTask, AttemptsBounded, DeadOnlyWhenExhausted, StreamGrows
<1>2. CASE /\ results' = Append(results, [task |-> w.task, output |-> output, tokens |-> tokens])
           /\ NoFault
  <2> DEFINE r == [task |-> w.task, output |-> output, tokens |-> tokens]
  <2>2. r \in Result
    BY OutputAssumption DEF QueueTypeOK, Goroutine, Result
  <2>3. /\ results' \in Seq(Result) /\ Len(results) \in Nat
        /\ DOMAIN results = 1 .. Len(results) /\ DOMAIN results' = 1 .. Len(results) + 1
        /\ \A i \in 1 .. Len(results) : results'[i] = results[i]
        /\ results'[Len(results) + 1].task = w.task
    BY <1>2, <2>2 DEF QueueTypeOK
  <2>4. work' = work \ {w} /\ UNCHANGED <<stream, group, pel, dead, up, faults>>
    BY <1>2 DEF Publish, NoFault
  <2>5. QueueTypeOK'
    BY <2>3, <2>4 DEF QueueTypeOK
  <2>6. Delivered'
    BY <2>3, <2>4 DEF QueueInv, Delivered
  <2>7. OneWorkerPerTask' /\ OneResultPerTask'
    BY <2>3, <2>4 DEF QueueInv, OneWorkerPerTask, OneResultPerTask
  <2>8. AttemptsBounded' /\ DeadOnlyWhenExhausted' /\ StreamGrows
    BY <2>4 DEF QueueInv, AttemptsBounded, DeadOnlyWhenExhausted, StreamGrows, QueueTypeOK
  <2> QED BY <2>5, <2>6, <2>7, <2>8 DEF QueueInv
<1> QED BY <1>1, <1>2 DEF Publish

LEMMA RequeuePreserves ==
  ASSUME QueueTypeOK, QueueInv, NEW w \in work, Requeue(w)
  PROVE  QueueTypeOK' /\ QueueInv' /\ StreamGrows
<1>1. CASE stream' = stream /\ Fault("queueError")
  BY <1>1, QueueAssumption DEF Requeue, Fault, QueueTypeOK, QueueInv, Delivered, OneWorkerPerTask,
         OneResultPerTask, AttemptsBounded, DeadOnlyWhenExhausted, StreamGrows
<1>2. CASE /\ stream' = Append(stream, [stream[w.task] EXCEPT !.attempt = @ + 1])
           /\ NoFault
  <2> DEFINE e == [stream[w.task] EXCEPT !.attempt = @ + 1]
  <2>1. w.task \in DOMAIN stream /\ stream[w.task] \in Entry /\ stream[w.task].attempt < MaxRetries
    BY DEF Requeue, QueueTypeOK, QueueInv, Delivered
  <2>2. e \in Entry /\ e.attempt <= MaxRetries
    BY <2>1, QueueAssumption DEF Entry
  <2> HIDE DEF e
  <2>3. /\ stream' \in Seq(Entry)
        /\ Len(stream) \in Nat /\ Len(stream') = Len(stream) + 1
        /\ DOMAIN stream = 1 .. Len(stream) /\ DOMAIN stream' = 1 .. Len(stream) + 1
        /\ \A i \in 1 .. Len(stream) : stream'[i] = stream[i]
        /\ stream'[Len(stream) + 1] = e
    BY <1>2, <2>2 DEF QueueTypeOK, e
  <2>4. work' = work \ {w} /\ UNCHANGED <<group, pel, results, dead, up, faults>>
    BY <1>2 DEF Requeue, NoFault
  <2>5. QueueTypeOK'
    BY <2>3, <2>4 DEF QueueTypeOK
  <2>6. Delivered'
    BY <2>3, <2>4 DEF QueueInv, Delivered, QueueTypeOK
  <2>7. OneWorkerPerTask' /\ OneResultPerTask'
    BY <2>4 DEF QueueInv, OneWorkerPerTask, OneResultPerTask
  <2>8. AttemptsBounded'
    <3>1. \A i \in 1 .. Len(stream) + 1 : stream'[i].attempt <= MaxRetries
      BY <2>2, <2>3 DEF QueueInv, AttemptsBounded
    <3> QED BY <3>1, <2>3, <2>4 DEF QueueInv, AttemptsBounded
  <2>9. DeadOnlyWhenExhausted' /\ StreamGrows
    BY <2>3, <2>4 DEF QueueInv, AttemptsBounded, DeadOnlyWhenExhausted, StreamGrows
  <2> QED BY <2>5, <2>6, <2>7, <2>8, <2>9 DEF QueueInv
<1> QED BY <1>1, <1>2 DEF Requeue

LEMMA DeadLetterPreserves ==
  ASSUME QueueTypeOK, QueueInv, NEW w \in work, DeadLetter(w)
  PROVE  QueueTypeOK' /\ QueueInv' /\ StreamGrows
<1>1. /\ w.task \in DOMAIN stream /\ w.task \in Nat
      /\ stream[w.task].attempt \in Nat /\ stream[w.task].attempt <= MaxRetries
  <2>1. w.task \in DOMAIN stream /\ w.task \in Nat
    BY DEF QueueTypeOK, QueueInv, Delivered
  <2>2. stream[w.task] \in Entry
    BY <2>1 DEF QueueTypeOK
  <2> QED BY <2>1, <2>2 DEF QueueInv, AttemptsBounded, Entry
<1>2. stream[w.task].attempt = MaxRetries
  BY <1>1, QueueAssumption DEF DeadLetter
<1>3. /\ UNCHANGED <<stream, group, pel, results, up>>
      /\ work' = work \ {w} /\ dead' \subseteq dead \cup {w.task} /\ faults' \in 0 .. MaxFaults
  BY QueueAssumption DEF DeadLetter, Fault, NoFault, QueueTypeOK
<1>4. QueueTypeOK'
  BY <1>1, <1>3 DEF QueueTypeOK
<1>5. Delivered' /\ OneWorkerPerTask' /\ OneResultPerTask'
  BY <1>3 DEF QueueInv, Delivered, OneWorkerPerTask, OneResultPerTask
<1>6. AttemptsBounded' /\ DeadOnlyWhenExhausted' /\ StreamGrows
  BY <1>1, <1>2, <1>3 DEF QueueInv, AttemptsBounded, DeadOnlyWhenExhausted, StreamGrows, QueueTypeOK
<1> QED BY <1>4, <1>5, <1>6 DEF QueueInv

(* The cases of the agents' next-state relation put together. *)
LEMMA AgentNextPreserves ==
  ASSUME QueueTypeOK, QueueInv, AgentNext
  PROVE  QueueTypeOK' /\ QueueInv' /\ StreamGrows
<1>1. ASSUME NEW p \in Pod, StartPod(p) \/ Poll(p) \/ StopPod(p)
      PROVE  QueueTypeOK' /\ QueueInv' /\ StreamGrows
  BY <1>1, StartPodPreserves, PollPreserves, StopPodPreserves
<1>2. ASSUME NEW w \in work, RunWork(w)
      PROVE  QueueTypeOK' /\ QueueInv' /\ StreamGrows
  <2>1. CASE SubmitSubtask(w)
    <3>1. SubtaskPrompt \in Prompt /\ faults' \in 0 .. MaxFaults
      BY <2>1 DEF SubmitSubtask, SubtaskPrompt, Prompt, QueueTypeOK
    <3> QED BY <2>1, <3>1, EnqueuePreserves DEF SubmitSubtask
  <2>2. CASE TaskCompletes(w)
    BY <2>2, AcknowledgePreserves DEF TaskCompletes
  <2>3. CASE TaskFails(w)
    BY <2>3, AcknowledgePreserves DEF TaskFails
  <2>4. CASE PublishResult(w)
    BY <2>4, PublishResultPreserves
  <2>5. CASE Requeue(w)
    BY <2>5, RequeuePreserves
  <2>6. CASE DeadLetter(w)
    BY <2>6, DeadLetterPreserves
  <2> QED BY <1>2, <2>1, <2>2, <2>3, <2>4, <2>5, <2>6 DEF RunWork
<1> QED BY <1>1, <1>2 DEF AgentNext

LEMMA ClientSubmitPreserves ==
  ASSUME QueueTypeOK, QueueInv, ClientSubmit
  PROVE  QueueTypeOK' /\ QueueInv' /\ StreamGrows
<1>1. PICK s \in ClientTasks : /\ Enqueue(<<s, 0>>)
                               /\ UNCHANGED <<group, pel, results, dead, up, work, faults>>
  BY DEF ClientSubmit
<1>2. <<s, 0>> \in Prompt /\ faults' \in 0 .. MaxFaults
  BY <1>1, QueueAssumption DEF Prompt, QueueTypeOK
<1> QED BY <1>1, <1>2, EnqueuePreserves

LEMMA QueueStutterPreserves ==
  ASSUME QueueTypeOK, QueueInv, UNCHANGED queueVars
  PROVE  QueueTypeOK' /\ QueueInv' /\ StreamGrows
  BY DEF queueVars, QueueTypeOK, QueueInv, Delivered, OneWorkerPerTask, OneResultPerTask,
         AttemptsBounded, DeadOnlyWhenExhausted, StreamGrows

LEMMA QueueRunSafe == QueueRun => [](QueueTypeOK /\ QueueInv)
<1>1. QueueTypeOK /\ QueueInv /\ [QueueNext]_queueVars => QueueTypeOK' /\ QueueInv'
  BY AgentNextPreserves, ClientSubmitPreserves, QueueStutterPreserves DEF QueueNext
<1> QED BY QueueInitInv, <1>1, PTL DEF QueueRun

(* The queue on its own keeps its types and gives a task one result at most,
   however its pods, clients and faults interleave. *)
THEOREM QueueSafe == QueueRun => [](QueueTypeOK /\ OneResultPerTask)
<1>1. QueueTypeOK /\ QueueInv => QueueTypeOK /\ OneResultPerTask
  BY DEF QueueInv
<1> QED BY <1>1, QueueRunSafe, PTL

(* Nack dead-letters only what has used up its retries. *)
THEOREM DeadOnlyWhenRetriesAreSpent == QueueRun => []DeadOnlyWhenExhausted
<1>1. QueueInv => DeadOnlyWhenExhausted
  BY DEF QueueInv
<1> QED BY <1>1, QueueRunSafe, PTL
-----------------------------------------------------------------------------
(* NothingStranded, action by action: only a fault leaves an entry of the PEL
   without its goroutine. *)
LEMMA StrandedStep ==
  ASSUME QueueTypeOK, QueueInv, NothingStranded, [QueueNext]_queueVars
  PROVE  NothingStranded'
<1> SUFFICES ASSUME faults' = 0, NEW t \in pel'
             PROVE  \E w \in work' : w.task = t /\ w.pc = "running"
  BY DEF NothingStranded
<1>0. \A kind : ~Fault(kind)
  BY DEF Fault, QueueTypeOK
<1>1. CASE UNCHANGED <<pel, work, faults>>
  BY <1>1 DEF NothingStranded
<1>2. ASSUME NEW p \in Pod, Poll(p)
      PROVE  \E w \in work' : w.task = t /\ w.pc = "running"
  <2>1. pel' = pel \cup {group + 1} /\ faults = 0
        /\ work' = work \cup {[pod |-> p, task |-> group + 1, pc |-> "running"]}
    BY <1>0, <1>2 DEF Poll, NoFault
  <2>2. CASE t \in pel
    BY <2>1, <2>2 DEF NothingStranded
  <2>3. CASE t = group + 1
    <3>1. [pod |-> p, task |-> group + 1, pc |-> "running"] \in work'
      BY <2>1
    <3> QED BY <2>3, <3>1
  <2> QED BY <2>1, <2>2, <2>3
<1>3. ASSUME NEW v \in work, NEW pcNext \in {"publish", "requeue"}, Acknowledge(v, pcNext)
      PROVE  \E w \in work' : w.task = t /\ w.pc = "running"
  <2>1. t \in pel /\ t # v.task /\ work \ {v} \subseteq work' /\ faults = 0
    BY <1>3 DEF Acknowledge
  <2> QED BY <2>1 DEF NothingStranded
<1>4. ASSUME NEW v \in work, PublishResult(v) \/ Requeue(v) \/ DeadLetter(v)
      PROVE  \E w \in work' : w.task = t /\ w.pc = "running"
  <2>1. pel' = pel /\ work' = work \ {v} /\ v.pc # "running" /\ faults = 0
    BY <1>0, <1>4 DEF PublishResult, Publish, Requeue, DeadLetter, NoFault
  <2> QED BY <2>1 DEF NothingStranded
<1>5. ASSUME NEW p \in Pod, StartPod(p)
      PROVE  UNCHANGED <<pel, work, faults>>
  BY <1>0, <1>5 DEF StartPod, NoFault
<1>6. ASSUME NEW v \in work, SubmitSubtask(v)
      PROVE  UNCHANGED <<pel, work, faults>>
  BY <1>6 DEF SubmitSubtask
<1>7. CASE ClientSubmit
  BY <1>1, <1>7 DEF ClientSubmit
<1>8. CASE UNCHANGED queueVars
  BY <1>1, <1>8 DEF queueVars
<1>9. \A p \in Pod : ~StopPod(p)
  BY <1>0 DEF StopPod
<1> QED BY <1>1, <1>2, <1>3, <1>4, <1>5, <1>6, <1>7, <1>8, <1>9
        DEF QueueNext, AgentNext, RunWork, TaskCompletes, TaskFails

(* As long as no command fails and no pod stops, every unacknowledged task is
   being run. *)
THEOREM NothingIsStranded == QueueRun => []NothingStranded
<1>1. QueueInit => NothingStranded
  BY DEF QueueInit, NothingStranded
<1>2. QueueTypeOK /\ QueueInv /\ NothingStranded /\ [QueueNext]_queueVars => NothingStranded'
  BY StrandedStep
<1> QED BY <1>1, <1>2, QueueRunSafe, PTL DEF QueueRun

(* What is settled stays settled. *)
LEMMA StaysSettled ==
  ASSUME QueueTypeOK, QueueTypeOK', StreamGrows, NEW t \in DOMAIN stream, Settled(t),
         results' = results \/ \E r : results' = Append(results, r), dead \subseteq dead'
  PROVE  Settled(t)'
<1>1. /\ DOMAIN stream = 1 .. Len(stream) /\ DOMAIN stream' = 1 .. Len(stream')
      /\ Len(stream) \in Nat /\ Len(stream') \in Nat /\ Len(stream) <= Len(stream')
  BY DEF QueueTypeOK, StreamGrows
<1>2. DOMAIN stream \subseteq DOMAIN stream' /\ \A i \in DOMAIN stream : stream'[i] = stream[i]
  BY <1>1 DEF StreamGrows
<1>3. \A i \in DOMAIN results : i \in DOMAIN results' /\ results'[i] = results[i]
  <2>1. CASE results' = results
    BY <2>1
  <2>2. ASSUME NEW r, results' = Append(results, r) PROVE <1>3!:
    <3>1. results \in Seq(Result)
      BY DEF QueueTypeOK
    <3> QED BY <2>2, <3>1
  <2> QED BY <2>1, <2>2
<1>4. CASE \E i \in DOMAIN results : results[i].task = t
  BY <1>3, <1>4 DEF Settled
<1>5. CASE t \in dead
  BY <1>5 DEF Settled
<1>6. CASE \E i \in DOMAIN stream :
             i > t /\ stream[i].prompt = stream[t].prompt /\ stream[i].attempt = stream[t].attempt + 1
  BY <1>2, <1>6 DEF Settled
<1> QED BY <1>4, <1>5, <1>6 DEF Settled

(* The last command of a goroutine settles its task, unless it fails. *)
LEMMA GoroutineSettles ==
  ASSUME QueueTypeOK, QueueInv, QueueTypeOK', NEW w \in work, \A kind : ~Fault(kind),
         PublishResult(w) \/ Requeue(w) \/ DeadLetter(w)
  PROVE  /\ Settled(w.task)' /\ work' = work \ {w} /\ UNCHANGED group
         /\ results' = results \/ \E r : results' = Append(results, r)
         /\ dead \subseteq dead' /\ faults' = faults
         /\ stream' = stream \/ \E e : stream' = Append(stream, e)
<1>0. w.task \in 1 .. Len(stream) /\ stream \in Seq(Entry) /\ results \in Seq(Result)
  BY DEF QueueTypeOK, QueueInv, Delivered
<1>1. CASE PublishResult(w)
  <2>1. PICK output \in Outputs, tokens \in Costs : Publish(w, output, tokens)
    BY <1>1 DEF PublishResult
  <2>2. /\ results' = Append(results, [task |-> w.task, output |-> output, tokens |-> tokens])
        /\ work' = work \ {w} /\ UNCHANGED <<stream, group, dead, faults>>
    BY <2>1 DEF Publish, NoFault
  <2>3. results' # <<>> /\ Len(results) + 1 \in DOMAIN results'
        /\ results'[Len(results) + 1].task = w.task
    BY <1>0, <2>2
  <2> QED BY <2>2, <2>3 DEF Settled
<1>2. CASE Requeue(w)
  <2> DEFINE e == [stream[w.task] EXCEPT !.attempt = stream[w.task].attempt + 1]
  <2>1. /\ stream' = Append(stream, e)
        /\ work' = work \ {w} /\ UNCHANGED <<group, results, dead, faults>>
    BY <1>2 DEF Requeue, NoFault
  <2>2. stream[w.task] \in Entry
    BY <1>0
  <2>3. e.prompt = stream[w.task].prompt /\ e.attempt = stream[w.task].attempt + 1
    BY <2>2 DEF Entry
  <2> HIDE DEF e
  <2>4. /\ Len(stream) + 1 \in DOMAIN stream' /\ stream'[Len(stream) + 1] = e
        /\ stream'[w.task] = stream[w.task] /\ Len(stream) + 1 > w.task
    BY <1>0, <2>1
  <2> QED BY <2>1, <2>3, <2>4 DEF Settled
<1>3. CASE DeadLetter(w)
  BY <1>3 DEF DeadLetter, NoFault, Settled
<1> QED BY <1>1, <1>2, <1>3

GroupKept == GroupExists => group # NoGroup

LEMMA LostStep ==
  ASSUME QueueTypeOK, QueueInv, GroupKept /\ NothingLost, [QueueNext]_queueVars
  PROVE  GroupKept' /\ NothingLost'
<1>0. QueueTypeOK' /\ QueueInv' /\ StreamGrows
  BY AgentNextPreserves, ClientSubmitPreserves, QueueStutterPreserves DEF QueueNext
<1>1. /\ DOMAIN stream = 1 .. Len(stream) /\ DOMAIN stream' = 1 .. Len(stream')
      /\ Len(stream) \in Nat /\ Len(stream') \in Nat /\ group \in Int /\ group <= Len(stream)
  BY DEF QueueTypeOK, NoGroup, QueueInv, Delivered
<1>2. GroupKept'
  <2>1. ASSUME NEW p \in Pod, StartPod(p) \/ Poll(p) PROVE group = NoGroup \/ group' # NoGroup
    BY <1>1, <2>1 DEF StartPod, Poll, QueueTypeOK, NoGroup
  <2>2. ASSUME NEW w \in work, RunWork(w) PROVE UNCHANGED group
    BY <2>2 DEF RunWork, SubmitSubtask, TaskCompletes, TaskFails, Acknowledge, PublishResult,
                Publish, Requeue, DeadLetter
  <2>3. ASSUME NEW p \in Pod, StopPod(p) PROVE UNCHANGED group
    BY <2>3 DEF StopPod
  <2>4. CASE ClientSubmit \/ UNCHANGED queueVars
    BY <2>4 DEF ClientSubmit, queueVars, GroupKept
  <2> QED BY <2>1, <2>2, <2>3, <2>4 DEF QueueNext, AgentNext, GroupKept
<1> SUFFICES ASSUME GroupExists, faults' = 0, NEW t \in DOMAIN stream'
             PROVE  t > group' \/ (\E w \in work' : w.task = t) \/ Settled(t)'
  BY <1>2 DEF NothingLost
<1>3. \A kind : ~Fault(kind)
  BY DEF Fault, QueueTypeOK
(* What was there before, where a goroutine changes nothing but its place. *)
<1>4. ASSUME faults = 0, UNCHANGED group, \A w \in work : \E v \in work' : v.task = w.task,
             results' = results, dead' = dead
      PROVE  t > group' \/ (\E w \in work' : w.task = t) \/ Settled(t)'
  <2>1. CASE t \in DOMAIN stream
    BY <1>0, <1>4, <2>1, StaysSettled DEF NothingLost
  <2>2. CASE t \notin DOMAIN stream
    BY <1>1, <1>4, <2>2
  <2> QED BY <2>1, <2>2
<1>5. CASE UNCHANGED <<group, work, results, dead, faults>>
  BY <1>4, <1>5
<1>6. ASSUME NEW p \in Pod, Poll(p)
      PROVE  t > group' \/ (\E w \in work' : w.task = t) \/ Settled(t)'
  <2> DEFINE new == [pod |-> p, task |-> group + 1, pc |-> "running"]
  <2>1. /\ group' = group + 1 /\ faults = 0 /\ work' = work \cup {new}
        /\ UNCHANGED <<stream, results, dead>>
    BY <1>3, <1>6 DEF Poll, NoFault
  <2>2. new.task = group + 1
    OBVIOUS
  <2> HIDE DEF new
  <2>3. CASE t = group + 1
    BY <2>1, <2>2, <2>3
  <2>4. CASE t # group + 1
    <3>1. t > group => t > group'
      BY <1>1, <2>1, <2>4
    <3> QED BY <1>0, <2>1, <3>1, StaysSettled DEF NothingLost
  <2> QED BY <2>3, <2>4
<1>7. ASSUME NEW v \in work, NEW pcNext \in {"publish", "requeue"}, Acknowledge(v, pcNext)
      PROVE  t > group' \/ (\E w \in work' : w.task = t) \/ Settled(t)'
  <2> DEFINE new == [v EXCEPT !.pc = pcNext]
  <2>1. /\ work' = (work \ {v}) \cup {new} /\ faults = 0
        /\ UNCHANGED <<group, results, dead>>
    BY <1>7 DEF Acknowledge
  <2>2. new.task = v.task
    BY DEF QueueTypeOK, Goroutine
  <2> HIDE DEF new
  <2> QED BY <1>4, <2>1, <2>2
<1>8. ASSUME NEW v \in work, PublishResult(v) \/ Requeue(v) \/ DeadLetter(v)
      PROVE  t > group' \/ (\E w \in work' : w.task = t) \/ Settled(t)'
  <2>1. /\ Settled(v.task)' /\ work' = work \ {v} /\ UNCHANGED group /\ faults = 0
        /\ results' = results \/ \E r : results' = Append(results, r)
        /\ dead \subseteq dead'
    BY <1>0, <1>3, <1>8, GoroutineSettles
  <2>2. CASE t \in DOMAIN stream
    <3>1. t > group \/ (\E w \in work : w.task = t) \/ Settled(t)
      BY <2>1, <2>2 DEF NothingLost
    <3>2. CASE Settled(t)
      BY <1>0, <2>1, <2>2, <3>2, StaysSettled
    <3>3. CASE t = v.task
      BY <2>1, <3>3
    <3> QED BY <2>1, <3>1, <3>2, <3>3
  <2>3. CASE t \notin DOMAIN stream
    BY <1>1, <2>1, <2>3
  <2> QED BY <2>2, <2>3
<1>9. ASSUME NEW p \in Pod, StartPod(p)
      PROVE  UNCHANGED <<group, work, results, dead, faults>>
  BY <1>3, <1>9 DEF StartPod, NoFault, GroupKept
<1>10. ASSUME NEW v \in work, SubmitSubtask(v)
      PROVE  UNCHANGED <<group, work, results, dead, faults>>
  BY <1>10 DEF SubmitSubtask
<1>11. CASE ClientSubmit \/ UNCHANGED queueVars
  BY <1>5, <1>11 DEF ClientSubmit, queueVars
<1>12. \A p \in Pod : ~StopPod(p)
  BY <1>3 DEF StopPod
<1> QED BY <1>5, <1>6, <1>7, <1>8, <1>9, <1>10, <1>11, <1>12
        DEF QueueNext, AgentNext, RunWork, TaskCompletes, TaskFails

(* As long as no command fails and no pod stops, a task that was delivered is in a
   goroutine's hands until what comes of it is on a stream. *)
THEOREM NothingEverLost == QueueRun => []NothingLost
<1>1. QueueInit => GroupKept /\ NothingLost
  BY DEF QueueInit, GroupKept, NothingLost, NoGroup
<1>2. QueueTypeOK /\ QueueInv /\ (GroupKept /\ NothingLost) /\ [QueueNext]_queueVars
        => (GroupKept /\ NothingLost)'
  BY LostStep
<1> QED BY <1>1, <1>2, QueueRunSafe, PTL DEF QueueRun

(* Both: no task falls between two Redis commands, two goroutines or two pods. *)
THEOREM TasksAlwaysKept == QueueRun => []TasksAreKept
  BY NothingIsStranded, NothingEverLost, PTL DEF TasksAreKept
-----------------------------------------------------------------------------
(* WorkConserved is not inductive: a second execution of an entry would not be
   noticed before it ends.  What is: the executions that have ended in a result, a
   dead letter or a copy, and those that go on, are as many as were delivered at
   most. *)
Running(prompt, n) == {w \in work : w.task \in EntriesOf(prompt, n)}
Taken(prompt, n) == {t \in EntriesOf(prompt, n) : t <= group}
Balanced(prompt, n) ==
  Cardinality(AnswersTo(EntriesOf(prompt, n))) + Cardinality(dead \cap EntriesOf(prompt, n))
    + Cardinality(EntriesOf(prompt, n + 1)) + Cardinality(Running(prompt, n))
    <= Cardinality(Taken(prompt, n))
BalanceInv == IsFiniteSet(work) /\ \A prompt \in Prompt, n \in Nat : Balanced(prompt, n)

(* A set that gains an element at most. *)
LEMMA GainsOne ==
  ASSUME NEW S, IsFiniteSet(S), NEW x, NEW T \in SUBSET (S \cup {x})
  PROVE  IsFiniteSet(T) /\ Cardinality(T) \in Nat /\ Cardinality(T) <= Cardinality(S) + 1
<1>1. IsFiniteSet(S \cup {x}) /\ Cardinality(S \cup {x}) <= Cardinality(S) + 1 /\ Cardinality(S) \in Nat
  BY FS_AddElement, FS_CardinalityType
<1>2. IsFiniteSet(T) /\ Cardinality(T) <= Cardinality(S \cup {x})
  BY <1>1, FS_Subset
<1> QED BY <1>1, <1>2, FS_CardinalityType

(* A set that keeps its elements or loses some. *)
LEMMA Shrinks ==
  ASSUME NEW S, IsFiniteSet(S), NEW T \in SUBSET S
  PROVE  IsFiniteSet(T) /\ Cardinality(T) \in Nat /\ Cardinality(T) <= Cardinality(S)
  BY FS_Subset, FS_CardinalityType

LEMMA BalanceFinite ==
  ASSUME QueueTypeOK, QueueInv, IsFiniteSet(work), NEW prompt, NEW n
  PROVE  /\ IsFiniteSet(AnswersTo(EntriesOf(prompt, n))) /\ IsFiniteSet(EntriesOf(prompt, n))
         /\ IsFiniteSet(dead \cap EntriesOf(prompt, n)) /\ IsFiniteSet(Running(prompt, n))
         /\ IsFiniteSet(Taken(prompt, n))
<1>1. DOMAIN stream = 1 .. Len(stream) /\ DOMAIN results = 1 .. Len(results)
      /\ Len(stream) \in Nat /\ Len(results) \in Nat
  BY DEF QueueTypeOK
<1>2. IsFiniteSet(DOMAIN stream) /\ IsFiniteSet(DOMAIN results)
  BY <1>1, FS_Interval
<1>3. AnswersTo(EntriesOf(prompt, n)) \subseteq DOMAIN results
  BY DEF AnswersTo
<1>4. EntriesOf(prompt, n) \subseteq DOMAIN stream
  BY DEF EntriesOf
<1>5. IsFiniteSet(EntriesOf(prompt, n)) /\ IsFiniteSet(AnswersTo(EntriesOf(prompt, n)))
  BY <1>2, <1>3, <1>4, FS_Subset
<1>6. /\ dead \cap EntriesOf(prompt, n) \subseteq EntriesOf(prompt, n)
      /\ Running(prompt, n) \subseteq work /\ Taken(prompt, n) \subseteq EntriesOf(prompt, n)
  BY DEF Running, Taken
<1> QED BY <1>5, <1>6, FS_Subset

(* What the log was appended to leaves of the sets of a prompt and attempt. *)
LEMMA SetsFollow ==
  ASSUME QueueTypeOK, QueueInv, QueueTypeOK', StreamGrows, NEW prompt, NEW n
  PROVE  /\ \A t \in DOMAIN stream : t \in EntriesOf(prompt, n) <=> t \in EntriesOf(prompt, n)'
         /\ EntriesOf(prompt, n) \subseteq EntriesOf(prompt, n)'
         /\ IsFiniteSet(Taken(prompt, n)')
         /\ group <= group' => Taken(prompt, n) \subseteq Taken(prompt, n)'
         /\ results' = results => AnswersTo(EntriesOf(prompt, n))' = AnswersTo(EntriesOf(prompt, n))
         /\ dead' = dead => (dead \cap EntriesOf(prompt, n))' = dead \cap EntriesOf(prompt, n)
         /\ work' \subseteq work => Running(prompt, n)' \subseteq Running(prompt, n)
<1>1. /\ DOMAIN stream = 1 .. Len(stream) /\ DOMAIN stream' = 1 .. Len(stream')
      /\ Len(stream) \in Nat /\ Len(stream') \in Nat /\ Len(stream) <= Len(stream')
  BY DEF QueueTypeOK, StreamGrows
<1>2. DOMAIN stream \subseteq DOMAIN stream'
  BY <1>1
<1>3. \A t \in DOMAIN stream : t \in EntriesOf(prompt, n) <=> t \in EntriesOf(prompt, n)'
  BY <1>2 DEF EntriesOf, StreamGrows
<1>4. EntriesOf(prompt, n) \subseteq EntriesOf(prompt, n)'
  BY <1>3 DEF EntriesOf
<1>5. IsFiniteSet(Taken(prompt, n)')
  <2>1. IsFiniteSet(DOMAIN stream') /\ Taken(prompt, n)' \subseteq DOMAIN stream'
    BY <1>1, FS_Interval DEF Taken, EntriesOf
  <2> QED BY <2>1, FS_Subset
<1>6. group <= group' => Taken(prompt, n) \subseteq Taken(prompt, n)'
  <2>1. EntriesOf(prompt, n) \subseteq Nat /\ group \in Int /\ group' \in Int
    BY <1>1 DEF EntriesOf, QueueTypeOK, NoGroup
  <2> QED BY <1>4, <2>1 DEF Taken
<1>7. \A i \in DOMAIN results : results[i].task \in DOMAIN stream
  BY <1>1 DEF QueueInv, Delivered
<1>8. \A w \in work : w.task \in DOMAIN stream
  BY <1>1 DEF QueueInv, Delivered
<1>9. dead \subseteq DOMAIN stream
  BY DEF QueueInv, AttemptsBounded
<1>10. results' = results => AnswersTo(EntriesOf(prompt, n))' = AnswersTo(EntriesOf(prompt, n))
  BY <1>3, <1>7 DEF AnswersTo
<1>11. dead' = dead => (dead \cap EntriesOf(prompt, n))' = dead \cap EntriesOf(prompt, n)
  BY <1>3, <1>9
<1>12. work' \subseteq work => Running(prompt, n)' \subseteq Running(prompt, n)
  BY <1>3, <1>8 DEF Running
<1> QED BY <1>3, <1>4, <1>5, <1>6, <1>10, <1>11, <1>12

(* A step after which nothing more has come out, and nothing more goes on. *)
LEMMA NothingComesOut ==
  ASSUME QueueTypeOK, QueueInv, QueueTypeOK', StreamGrows, BalanceInv,
         UNCHANGED <<results, dead>>, work' \subseteq work, group <= group',
         \A i \in DOMAIN stream' \ DOMAIN stream : stream'[i].attempt = 0
  PROVE  BalanceInv'
<1>1. ASSUME NEW prompt \in Prompt, NEW n \in Nat
      PROVE  Balanced(prompt, n)'
  <2>1. EntriesOf(prompt, n + 1)' \subseteq EntriesOf(prompt, n + 1)
    <3> SUFFICES ASSUME NEW t \in EntriesOf(prompt, n + 1)' PROVE t \in EntriesOf(prompt, n + 1)
      OBVIOUS
    <3>1. t \in DOMAIN stream' /\ stream'[t].attempt # 0
      BY DEF EntriesOf
    <3>2. t \in DOMAIN stream
      BY <3>1
    <3> QED BY <3>2, SetsFollow
  <2>2. /\ AnswersTo(EntriesOf(prompt, n))' \subseteq AnswersTo(EntriesOf(prompt, n))
        /\ (dead \cap EntriesOf(prompt, n))' \subseteq dead \cap EntriesOf(prompt, n)
        /\ Running(prompt, n)' \subseteq Running(prompt, n)
        /\ IsFiniteSet(Taken(prompt, n)') /\ Taken(prompt, n) \subseteq Taken(prompt, n)'
    BY SetsFollow
  <2>3. /\ IsFiniteSet(AnswersTo(EntriesOf(prompt, n))) /\ IsFiniteSet(EntriesOf(prompt, n + 1))
        /\ IsFiniteSet(dead \cap EntriesOf(prompt, n)) /\ IsFiniteSet(Running(prompt, n))
        /\ IsFiniteSet(Taken(prompt, n)) /\ Balanced(prompt, n)
    BY BalanceFinite DEF BalanceInv
  <2> DEFINE A == AnswersTo(EntriesOf(prompt, n))      An == A'
             D == dead \cap EntriesOf(prompt, n)       Dn == D'
             C == EntriesOf(prompt, n + 1)             Cn == C'
             R == Running(prompt, n)                   Rn == R'
             T == Taken(prompt, n)                     Tn == T'
  <2>4. Cardinality(A) + Cardinality(D) + Cardinality(C) + Cardinality(R) <= Cardinality(T)
    BY <2>3 DEF Balanced
  <2>5. Cardinality(An) + Cardinality(Dn) + Cardinality(Cn) + Cardinality(Rn) <= Cardinality(Tn)
    <3> HIDE DEF A, An, D, Dn, C, Cn, R, Rn, T, Tn
    <3>1. An \subseteq A /\ Dn \subseteq D /\ Cn \subseteq C /\ Rn \subseteq R /\ T \subseteq Tn
          /\ IsFiniteSet(Tn)
      BY <2>1, <2>2 DEF A, An, D, Dn, C, Cn, R, Rn, T, Tn
    <3>2. IsFiniteSet(A) /\ IsFiniteSet(D) /\ IsFiniteSet(C) /\ IsFiniteSet(R) /\ IsFiniteSet(T)
      BY <2>3 DEF A, D, C, R, T
    <3>3. /\ Cardinality(An) \in Nat /\ Cardinality(An) <= Cardinality(A)
          /\ Cardinality(Dn) \in Nat /\ Cardinality(Dn) <= Cardinality(D)
          /\ Cardinality(Cn) \in Nat /\ Cardinality(Cn) <= Cardinality(C)
          /\ Cardinality(Rn) \in Nat /\ Cardinality(Rn) <= Cardinality(R)
          /\ Cardinality(T) \in Nat /\ Cardinality(T) <= Cardinality(Tn)
      BY <3>1, <3>2, Shrinks
    <3>4. /\ Cardinality(A) \in Nat /\ Cardinality(D) \in Nat /\ Cardinality(C) \in Nat
          /\ Cardinality(R) \in Nat /\ Cardinality(Tn) \in Nat
      BY <3>1, <3>2, FS_CardinalityType
    <3> QED BY <2>4, <3>3, <3>4
  <2> QED BY <2>5 DEF Balanced
<1>2. IsFiniteSet(work')
  BY FS_Subset DEF BalanceInv
<1> QED BY <1>1, <1>2 DEF BalanceInv

(* The execution of a goroutine ends, and leaves one thing behind at most. *)
LEMMA OneComesOut ==
  ASSUME QueueTypeOK, QueueInv, QueueTypeOK', StreamGrows, BalanceInv,
         NEW w \in work, work' = work \ {w}, UNCHANGED group,
         NEW x,
         \A prompt \in Prompt, n \in Nat :
           LET E == EntriesOf(prompt, n) IN
           \/ /\ AnswersTo(E)' \subseteq AnswersTo(E) /\ (dead \cap E)' \subseteq dead \cap E
              /\ EntriesOf(prompt, n + 1)' \subseteq EntriesOf(prompt, n + 1)
           \/ /\ w.task \in E
              /\ \/ /\ AnswersTo(E)' \subseteq AnswersTo(E) \cup {x}
                    /\ (dead \cap E)' \subseteq dead \cap E
                    /\ EntriesOf(prompt, n + 1)' \subseteq EntriesOf(prompt, n + 1)
                 \/ /\ AnswersTo(E)' \subseteq AnswersTo(E)
                    /\ (dead \cap E)' \subseteq (dead \cap E) \cup {x}
                    /\ EntriesOf(prompt, n + 1)' \subseteq EntriesOf(prompt, n + 1)
                 \/ /\ AnswersTo(E)' \subseteq AnswersTo(E)
                    /\ (dead \cap E)' \subseteq dead \cap E
                    /\ EntriesOf(prompt, n + 1)' \subseteq EntriesOf(prompt, n + 1) \cup {x}
  PROVE  BalanceInv'
<1>1. ASSUME NEW prompt \in Prompt, NEW n \in Nat
      PROVE  Balanced(prompt, n)'
  <2>1. /\ IsFiniteSet(AnswersTo(EntriesOf(prompt, n))) /\ IsFiniteSet(EntriesOf(prompt, n + 1))
        /\ IsFiniteSet(dead \cap EntriesOf(prompt, n)) /\ IsFiniteSet(Running(prompt, n))
        /\ IsFiniteSet(Taken(prompt, n)) /\ Balanced(prompt, n)
    BY BalanceFinite DEF BalanceInv
  <2>2. /\ Running(prompt, n)' \subseteq Running(prompt, n)
        /\ IsFiniteSet(Taken(prompt, n)') /\ Taken(prompt, n) \subseteq Taken(prompt, n)'
    <3>1. group <= group'
      BY DEF QueueTypeOK, NoGroup
    <3> QED BY <3>1, SetsFollow
  <2>3. w \notin Running(prompt, n)'
    BY DEF Running
  <2>4. w.task \in EntriesOf(prompt, n) => w \in Running(prompt, n)
    BY DEF Running
  <2>5. w.task \in EntriesOf(prompt, n) => Running(prompt, n)' \subseteq Running(prompt, n) \ {w}
    BY <2>2, <2>3
  <2> DEFINE A == AnswersTo(EntriesOf(prompt, n))      An == A'
             D == dead \cap EntriesOf(prompt, n)       Dn == D'
             C == EntriesOf(prompt, n + 1)             Cn == C'
             R == Running(prompt, n)                   Rn == R'
             T == Taken(prompt, n)                     Tn == T'
  <2>6. Cardinality(A) + Cardinality(D) + Cardinality(C) + Cardinality(R) <= Cardinality(T)
    BY <2>1 DEF Balanced
  <2>7. \/ An \subseteq A /\ Dn \subseteq D /\ Cn \subseteq C
        \/ /\ w.task \in EntriesOf(prompt, n)
           /\ \/ An \subseteq A \cup {x} /\ Dn \subseteq D /\ Cn \subseteq C
              \/ An \subseteq A /\ Dn \subseteq D \cup {x} /\ Cn \subseteq C
              \/ An \subseteq A /\ Dn \subseteq D /\ Cn \subseteq C \cup {x}
    OBVIOUS
  <2>8. Cardinality(An) + Cardinality(Dn) + Cardinality(Cn) + Cardinality(Rn) <= Cardinality(Tn)
    <3> HIDE DEF A, An, D, Dn, C, Cn, R, Rn, T, Tn
    <3>1. Rn \subseteq R /\ T \subseteq Tn /\ IsFiniteSet(Tn)
      BY <2>2 DEF R, Rn, T, Tn
    <3>2. IsFiniteSet(A) /\ IsFiniteSet(D) /\ IsFiniteSet(C) /\ IsFiniteSet(R) /\ IsFiniteSet(T)
      BY <2>1 DEF A, D, C, R, T
    <3>3. /\ Cardinality(A) \in Nat /\ Cardinality(D) \in Nat /\ Cardinality(C) \in Nat
          /\ Cardinality(R) \in Nat /\ Cardinality(Rn) \in Nat /\ Cardinality(Rn) <= Cardinality(R)
          /\ Cardinality(T) \in Nat /\ Cardinality(Tn) \in Nat /\ Cardinality(T) <= Cardinality(Tn)
      BY <3>1, <3>2, Shrinks, FS_CardinalityType
    <3>4. w.task \in EntriesOf(prompt, n) => Cardinality(Rn) <= Cardinality(R) - 1
      <4>1. SUFFICES ASSUME w \in R, Rn \subseteq R \ {w} PROVE Cardinality(Rn) <= Cardinality(R) - 1
        BY <2>4, <2>5 DEF R, Rn
      <4>2. IsFiniteSet(R \ {w}) /\ Cardinality(R \ {w}) = Cardinality(R) - 1
        BY <3>2, <4>1, FS_RemoveElement
      <4> QED BY <4>1, <4>2, Shrinks
    <3>5. /\ An \subseteq A => Cardinality(An) \in Nat /\ Cardinality(An) <= Cardinality(A)
          /\ Dn \subseteq D => Cardinality(Dn) \in Nat /\ Cardinality(Dn) <= Cardinality(D)
          /\ Cn \subseteq C => Cardinality(Cn) \in Nat /\ Cardinality(Cn) <= Cardinality(C)
      BY <3>2, Shrinks
    <3>6. /\ An \subseteq A \cup {x} => Cardinality(An) \in Nat /\ Cardinality(An) <= Cardinality(A) + 1
          /\ Dn \subseteq D \cup {x} => Cardinality(Dn) \in Nat /\ Cardinality(Dn) <= Cardinality(D) + 1
          /\ Cn \subseteq C \cup {x} => Cardinality(Cn) \in Nat /\ Cardinality(Cn) <= Cardinality(C) + 1
      BY <3>2, GainsOne
    <3> QED BY <2>6, <2>7, <3>3, <3>4, <3>5, <3>6
  <2> QED BY <2>8 DEF Balanced
<1>2. IsFiniteSet(work')
  BY FS_Subset DEF BalanceInv
<1> QED BY <1>1, <1>2 DEF BalanceInv

(* The steps of one goroutine, and a delivery. *)
LEMMA AcknowledgeBalances ==
  ASSUME QueueTypeOK, QueueInv, QueueTypeOK', BalanceInv,
         NEW w \in work, NEW pcNext, Acknowledge(w, pcNext)
  PROVE  BalanceInv'
<1> DEFINE v == [w EXCEPT !.pc = pcNext]
<1>1. v.task = w.task /\ work' = (work \ {w}) \cup {v} /\ UNCHANGED <<stream, group, results, dead>>
  BY DEF Acknowledge, QueueTypeOK, Goroutine
<1> HIDE DEF v
<1>2. IsFiniteSet(work \ {w}) /\ IsFiniteSet(work')
  BY <1>1, FS_RemoveElement, FS_AddElement DEF BalanceInv
<1>3. ASSUME NEW prompt \in Prompt, NEW n \in Nat
      PROVE  Balanced(prompt, n)'
  <2>1. /\ AnswersTo(EntriesOf(prompt, n))' = AnswersTo(EntriesOf(prompt, n))
        /\ (dead \cap EntriesOf(prompt, n))' = dead \cap EntriesOf(prompt, n)
        /\ EntriesOf(prompt, n + 1)' = EntriesOf(prompt, n + 1)
        /\ Taken(prompt, n)' = Taken(prompt, n)
    BY <1>1 DEF AnswersTo, EntriesOf, Taken
  <2>2. IsFiniteSet(Running(prompt, n))
    BY BalanceFinite DEF BalanceInv
  <2>3. Cardinality(Running(prompt, n)') <= Cardinality(Running(prompt, n))
    <3>1. CASE w.task \in EntriesOf(prompt, n)
      <4>1. w \in Running(prompt, n)
        BY <3>1 DEF Running
      <4>2. Running(prompt, n)' \subseteq (Running(prompt, n) \ {w}) \cup {v}
        BY <1>1 DEF Running, EntriesOf
      <4>3. IsFiniteSet(Running(prompt, n) \ {w})
            /\ Cardinality(Running(prompt, n) \ {w}) = Cardinality(Running(prompt, n)) - 1
        BY <2>2, <4>1, FS_RemoveElement
      <4>4. Cardinality(Running(prompt, n)') <= Cardinality(Running(prompt, n) \ {w}) + 1
        BY <4>2, <4>3, GainsOne
      <4>5. Cardinality(Running(prompt, n)') \in Nat /\ Cardinality(Running(prompt, n)) \in Nat
        BY <2>2, <4>2, <4>3, GainsOne, FS_CardinalityType
      <4> QED BY <4>3, <4>4, <4>5
    <3>2. CASE w.task \notin EntriesOf(prompt, n)
      <4>1. Running(prompt, n)' \subseteq Running(prompt, n)
        BY <1>1, <3>2 DEF Running, EntriesOf
      <4> QED BY <2>2, <4>1, Shrinks
    <3> QED BY <3>1, <3>2
  <2>4. IsFiniteSet(Running(prompt, n)')
    BY <1>2, FS_Subset DEF Running
  <2> DEFINE a == Cardinality(AnswersTo(EntriesOf(prompt, n)))
             d == Cardinality(dead \cap EntriesOf(prompt, n))
             c == Cardinality(EntriesOf(prompt, n + 1))
             r == Cardinality(Running(prompt, n))
             rn == Cardinality(Running(prompt, n)')
             t == Cardinality(Taken(prompt, n))
  <2>5. a + d + c + r <= t /\ a \in Nat /\ d \in Nat /\ c \in Nat /\ r \in Nat /\ rn \in Nat
        /\ t \in Nat
    BY <2>2, <2>4, BalanceFinite, FS_CardinalityType DEF BalanceInv, Balanced
  <2>6. a + d + c + rn <= t
    <3> HIDE DEF a, d, c, r, rn, t
    <3>1. rn <= r
      BY <2>3 DEF rn, r
    <3> QED BY <2>5, <3>1
  <2> QED BY <2>1, <2>6 DEF Balanced
<1> QED BY <1>2, <1>3 DEF BalanceInv

LEMMA PollBalances ==
  ASSUME QueueTypeOK, QueueInv, QueueTypeOK', BalanceInv, NEW p \in Pod, Poll(p)
  PROVE  BalanceInv'
<1> DEFINE v == [pod |-> p, task |-> group + 1, pc |-> "running"]
<1>1. /\ group \in Nat /\ group + 1 \in DOMAIN stream /\ group' = group + 1
      /\ work' \subseteq work \cup {v} /\ v.task = group + 1 /\ UNCHANGED <<stream, results, dead>>
  BY DEF Poll, QueueTypeOK
<1> HIDE DEF v
<1>2. IsFiniteSet(work \cup {v}) /\ IsFiniteSet(work')
  BY <1>1, FS_AddElement, FS_Subset DEF BalanceInv
<1>3. ASSUME NEW prompt \in Prompt, NEW n \in Nat
      PROVE  Balanced(prompt, n)'
  <2>1. /\ AnswersTo(EntriesOf(prompt, n))' = AnswersTo(EntriesOf(prompt, n))
        /\ (dead \cap EntriesOf(prompt, n))' = dead \cap EntriesOf(prompt, n)
        /\ EntriesOf(prompt, n + 1)' = EntriesOf(prompt, n + 1)
    BY <1>1 DEF AnswersTo, EntriesOf
  <2>2. IsFiniteSet(Running(prompt, n)) /\ IsFiniteSet(Taken(prompt, n))
    BY BalanceFinite DEF BalanceInv
  <2>3. EntriesOf(prompt, n)' = EntriesOf(prompt, n) /\ EntriesOf(prompt, n) \subseteq Nat
    BY <1>1 DEF EntriesOf, QueueTypeOK
  <2> DEFINE a == Cardinality(AnswersTo(EntriesOf(prompt, n)))
             d == Cardinality(dead \cap EntriesOf(prompt, n))
             c == Cardinality(EntriesOf(prompt, n + 1))
             r == Cardinality(Running(prompt, n))
             rn == Cardinality(Running(prompt, n)')
             t == Cardinality(Taken(prompt, n))
             tn == Cardinality(Taken(prompt, n)')
  <2>4. a + d + c + r <= t /\ a \in Nat /\ d \in Nat /\ c \in Nat /\ r \in Nat /\ t \in Nat
    BY BalanceFinite, FS_CardinalityType DEF BalanceInv, Balanced
  <2>5. rn \in Nat /\ tn \in Nat /\ ((rn <= r /\ t <= tn) \/ (rn <= r + 1 /\ t + 1 <= tn))
    <3>1. CASE group + 1 \in EntriesOf(prompt, n)
      <4>1. group + 1 \notin Taken(prompt, n) /\ Taken(prompt, n)' = Taken(prompt, n) \cup {group + 1}
        BY <1>1, <2>3, <3>1 DEF Taken
      <4>2. tn \in Nat /\ tn = t + 1
        BY <2>2, <4>1, FS_AddElement, FS_CardinalityType
      <4>3. Running(prompt, n)' \subseteq Running(prompt, n) \cup {v}
        BY <1>1, <2>3 DEF Running
      <4>4. rn \in Nat /\ rn <= r + 1
        BY <2>2, <4>3, GainsOne
      <4> HIDE DEF a, d, c, r, rn, t, tn
      <4> QED BY <2>4, <4>2, <4>4
    <3>2. CASE group + 1 \notin EntriesOf(prompt, n)
      <4>1. Taken(prompt, n)' = Taken(prompt, n)
        BY <1>1, <2>3, <3>2 DEF Taken
      <4>2. tn = t
        BY <4>1
      <4>3. Running(prompt, n)' \subseteq Running(prompt, n)
        BY <1>1, <2>3, <3>2 DEF Running
      <4>4. rn \in Nat /\ rn <= r
        BY <2>2, <4>3, Shrinks
      <4> HIDE DEF a, d, c, r, rn, t, tn
      <4> QED BY <2>4, <4>2, <4>4
    <3> QED BY <3>1, <3>2
  <2>6. a + d + c + rn <= tn
    <3> HIDE DEF a, d, c, r, rn, t, tn
    <3> QED BY <2>4, <2>5
  <2> QED BY <2>1, <2>6 DEF Balanced
<1> QED BY <1>2, <1>3 DEF BalanceInv

LEMMA PublishBalances ==
  ASSUME QueueTypeOK, QueueInv, QueueTypeOK', StreamGrows, BalanceInv,
         NEW w \in work, PublishResult(w)
  PROVE  BalanceInv'
<1>1. UNCHANGED <<stream, group, dead>> /\ work' = work \ {w}
  BY DEF PublishResult, Publish
<1>2. \A i \in DOMAIN results' :
         \/ i \in DOMAIN results /\ results'[i] = results[i]
         \/ i = Len(results) + 1 /\ results'[i].task = w.task
  <2>1. PICK output \in Outputs, tokens \in Costs :
          \/ results' = results
          \/ results' = Append(results, [task |-> w.task, output |-> output, tokens |-> tokens])
    BY DEF PublishResult, Publish
  <2> DEFINE r == [task |-> w.task, output |-> output, tokens |-> tokens]
  <2>2. r.task = w.task
    OBVIOUS
  <2>3. results \in Seq(Result) /\ (results' = results \/ results' = Append(results, r))
    BY <2>1 DEF QueueTypeOK
  <2> HIDE DEF r
  <2> QED BY <2>2, <2>3
<1>3. ASSUME NEW prompt \in Prompt, NEW n \in Nat
      PROVE  LET E == EntriesOf(prompt, n) IN
             /\ (dead \cap E)' \subseteq dead \cap E
             /\ EntriesOf(prompt, n + 1)' \subseteq EntriesOf(prompt, n + 1)
             /\ w.task \in E => AnswersTo(E)' \subseteq AnswersTo(E) \cup {Len(results) + 1}
             /\ w.task \notin E => AnswersTo(E)' \subseteq AnswersTo(E)
  BY <1>1, <1>2 DEF EntriesOf, AnswersTo
<1> QED BY <1>1, <1>3, OneComesOut

LEMMA DeadLetterBalances ==
  ASSUME QueueTypeOK, QueueInv, QueueTypeOK', StreamGrows, BalanceInv,
         NEW w \in work, DeadLetter(w)
  PROVE  BalanceInv'
<1>1. UNCHANGED <<stream, group, results>> /\ work' = work \ {w} /\ dead' \subseteq dead \cup {w.task}
  BY DEF DeadLetter
<1>2. ASSUME NEW prompt \in Prompt, NEW n \in Nat
      PROVE  LET E == EntriesOf(prompt, n) IN
             /\ AnswersTo(E)' \subseteq AnswersTo(E)
             /\ EntriesOf(prompt, n + 1)' \subseteq EntriesOf(prompt, n + 1)
             /\ w.task \in E => (dead \cap E)' \subseteq (dead \cap E) \cup {w.task}
             /\ w.task \notin E => (dead \cap E)' \subseteq dead \cap E
  BY <1>1 DEF EntriesOf, AnswersTo
<1> QED BY <1>1, <1>2, OneComesOut

LEMMA RequeueBalances ==
  ASSUME QueueTypeOK, QueueInv, QueueTypeOK', StreamGrows, BalanceInv,
         NEW w \in work, Requeue(w)
  PROVE  BalanceInv'
<1>1. UNCHANGED <<group, results, dead>> /\ work' = work \ {w}
  BY DEF Requeue
<1>2. w.task \in DOMAIN stream /\ stream[w.task] \in Entry
  BY DEF QueueTypeOK, QueueInv, Delivered
<1> DEFINE e == [stream[w.task] EXCEPT !.attempt = @ + 1]
<1>3. e \in Entry /\ e.prompt = stream[w.task].prompt /\ e.attempt = stream[w.task].attempt + 1
  BY <1>2 DEF Entry
<1>4. stream \in Seq(Entry) /\ (stream' = stream \/ stream' = Append(stream, e))
  BY DEF Requeue, QueueTypeOK
<1> HIDE DEF e
<1>5. \A i \in DOMAIN stream' : \/ i \in DOMAIN stream /\ stream'[i] = stream[i]
                                \/ i = Len(stream) + 1 /\ stream'[i] = e
  <2>1. CASE stream' = Append(stream, e)
    BY <1>3, <1>4, <2>1
  <2> QED BY <1>4, <2>1
<1>6. ASSUME NEW prompt \in Prompt, NEW n \in Nat
      PROVE  LET E == EntriesOf(prompt, n) IN
             /\ AnswersTo(E)' \subseteq AnswersTo(E)
             /\ (dead \cap E)' \subseteq dead \cap E
             /\ w.task \in E
                  => EntriesOf(prompt, n + 1)' \subseteq EntriesOf(prompt, n + 1) \cup {Len(stream) + 1}
             /\ w.task \notin E => EntriesOf(prompt, n + 1)' \subseteq EntriesOf(prompt, n + 1)
  <2>1. /\ AnswersTo(EntriesOf(prompt, n))' \subseteq AnswersTo(EntriesOf(prompt, n))
        /\ (dead \cap EntriesOf(prompt, n))' \subseteq dead \cap EntriesOf(prompt, n)
    BY <1>1, SetsFollow
  <2>2. EntriesOf(prompt, n + 1)' \subseteq EntriesOf(prompt, n + 1) \cup {Len(stream) + 1}
    BY <1>5 DEF EntriesOf
  <2>3. ASSUME w.task \notin EntriesOf(prompt, n)
        PROVE  EntriesOf(prompt, n + 1)' \subseteq EntriesOf(prompt, n + 1)
    <3>1. e.prompt # prompt \/ e.attempt # n + 1
      <4>1. stream[w.task].attempt \in Nat
        BY <1>2 DEF Entry
      <4> QED BY <1>2, <1>3, <2>3, <4>1 DEF EntriesOf
    <3> QED BY <1>5, <3>1 DEF EntriesOf
  <2> QED BY <2>1, <2>2, <2>3
<1> QED BY <1>1, <1>6, OneComesOut

LEMMA BalanceNextStep ==
  ASSUME QueueTypeOK, QueueInv, BalanceInv, [QueueNext]_queueVars
  PROVE  BalanceInv'
<1>1. QueueTypeOK' /\ StreamGrows
  BY AgentNextPreserves, ClientSubmitPreserves, QueueStutterPreserves DEF QueueNext
<1>2. ASSUME NEW prompt, Enqueue(prompt), UNCHANGED <<group, results, dead, work>>
      PROVE  BalanceInv'
  <2>1. \A i \in DOMAIN stream' \ DOMAIN stream : stream'[i].attempt = 0
    BY <1>2 DEF Enqueue, QueueTypeOK
  <2>2. group <= group'
    BY <1>2 DEF QueueTypeOK, NoGroup
  <2> QED BY <1>1, <1>2, <2>1, <2>2, NothingComesOut
<1>3. ASSUME UNCHANGED <<stream, results, dead>>, work' \subseteq work, group <= group'
      PROVE  BalanceInv'
  BY <1>1, <1>3, NothingComesOut
<1>4. ASSUME NEW p \in Pod, StartPod(p) PROVE BalanceInv'
  BY <1>3, <1>4 DEF StartPod, QueueTypeOK, NoGroup
<1>5. ASSUME NEW p \in Pod, StopPod(p) PROVE BalanceInv'
  BY <1>3, <1>5 DEF StopPod, QueueTypeOK, NoGroup
<1>6. CASE UNCHANGED queueVars
  BY <1>3, <1>6 DEF queueVars, QueueTypeOK, NoGroup
<1>7. CASE ClientSubmit
  BY <1>2, <1>7 DEF ClientSubmit
<1>8. ASSUME NEW w \in work, RunWork(w) PROVE BalanceInv'
  <2>1. CASE SubmitSubtask(w)
    BY <1>2, <2>1 DEF SubmitSubtask
  <2> QED BY <1>1, <1>8, <2>1, AcknowledgeBalances, PublishBalances, RequeueBalances, DeadLetterBalances
          DEF RunWork, TaskCompletes, TaskFails
<1>9. ASSUME NEW p \in Pod, Poll(p) PROVE BalanceInv'
  BY <1>1, <1>9, PollBalances
<1> QED BY <1>4, <1>5, <1>6, <1>7, <1>8, <1>9 DEF QueueNext, AgentNext

LEMMA BalanceInitially == QueueInit => BalanceInv
<1> SUFFICES ASSUME QueueInit PROVE BalanceInv
  OBVIOUS
<1>1. ASSUME NEW prompt, NEW n
      PROVE  AnswersTo(EntriesOf(prompt, n)) = {} /\ EntriesOf(prompt, n) = {}
             /\ dead \cap EntriesOf(prompt, n) = {} /\ Running(prompt, n) = {} /\ Taken(prompt, n) = {}
  BY DEF QueueInit, AnswersTo, EntriesOf, Running, Taken
<1>2. IsFiniteSet(work)
  BY FS_EmptySet DEF QueueInit
<1> QED BY <1>1, <1>2, FS_EmptySet DEF BalanceInv, Balanced

(* Retries neither multiply the work nor follow a success: no attempt of a task
   ends more often than it was submitted. *)
THEOREM WorkIsConserved == QueueRun => []WorkConserved
<1>1. QueueTypeOK /\ QueueInv /\ BalanceInv => WorkConserved
  <2> SUFFICES ASSUME QueueTypeOK, QueueInv, BalanceInv,
                      NEW prompt \in {stream[i].prompt : i \in DOMAIN stream}, NEW n \in 0 .. MaxRetries
               PROVE  Cardinality(AnswersTo(EntriesOf(prompt, n)))
                        + Cardinality(dead \cap EntriesOf(prompt, n))
                        + Cardinality(EntriesOf(prompt, n + 1)) <= Cardinality(EntriesOf(prompt, n))
    BY DEF WorkConserved
  <2>1. prompt \in Prompt /\ n \in Nat
    <3>1. PICK i \in DOMAIN stream : prompt = stream[i].prompt
      OBVIOUS
    <3>2. stream[i] \in Entry
      BY DEF QueueTypeOK
    <3> QED BY <3>1, <3>2 DEF Entry
  <2> DEFINE a == Cardinality(AnswersTo(EntriesOf(prompt, n)))
             d == Cardinality(dead \cap EntriesOf(prompt, n))
             c == Cardinality(EntriesOf(prompt, n + 1))
             r == Cardinality(Running(prompt, n))
             t == Cardinality(Taken(prompt, n))
             e == Cardinality(EntriesOf(prompt, n))
  <2>2. a + d + c + r <= t /\ a \in Nat /\ d \in Nat /\ c \in Nat /\ r \in Nat /\ t \in Nat /\ e \in Nat
    BY <2>1, BalanceFinite, FS_CardinalityType DEF BalanceInv, Balanced
  <2>3. t <= e
    BY BalanceFinite, Shrinks DEF BalanceInv, Taken
  <2>4. a + d + c <= e
    <3> HIDE DEF a, d, c, r, t, e
    <3> QED BY <2>2, <2>3
  <2> QED BY <2>4
<1>2. QueueTypeOK /\ QueueInv /\ BalanceInv /\ [QueueNext]_queueVars => BalanceInv'
  BY BalanceNextStep
<1> QED BY <1>1, <1>2, BalanceInitially, QueueRunSafe, PTL DEF QueueRun
=============================================================================
