------------------------------ MODULE TaskQueue ------------------------------
(***************************************************************************)
(* The Redis streams that carry work from the operator to the agent pods   *)
(* and results back (internal/agent/queue), and the agent runtime that     *)
(* reads them (runtime/agent).  Streams are logs: a message ID is the      *)
(* position of the message, so IDs grow and are never reused.              *)
(*                                                                         *)
(* Every Redis command is a step of its own, so a pod may stop between any *)
(* two of them and the pods and the operator interleave at each.           *)
(***************************************************************************)
EXTENDS ArkTypes, Sequences, FiniteSets

CONSTANTS
  Pod,           \* the agent pods
  MaxRetries,    \* AGENT_MAX_RETRIES, the same on every pod
  GroupExists,   \* an agent has connected to this Redis before
  FaultKinds,    \* the faults this instance admits
  MaxFaults,     \* how many of them, bound of the model
  MaxSubtasks,   \* how many sub-tasks agents spawn, bound of the model
  ClientTasks    \* what other clients submit once each, bound of the model

ASSUME QueueAssumption ==
  /\ MaxRetries \in Nat
  /\ GroupExists \in BOOLEAN
  /\ MaxFaults \in Nat
  /\ MaxSubtasks \in Nat
  /\ ClientTasks \subseteq Nat \ {0}

VARIABLES
  stream,    \* agent-tasks: a log of [prompt, attempt]
  group,     \* last message delivered to agent-workers, NoGroup before XGROUP CREATE
  pel,       \* messages delivered and not acknowledged
  results,   \* agent-tasks-results: a log of [task, output, tokens]
  dead,      \* the task_ids on agent-tasks-dead, which nothing reads
  up,        \* the pods that are running
  work,      \* the goroutines of all pods: [pod, task, pc]
  faults     \* faults so far

queueVars == <<stream, group, pel, results, dead, up, work, faults>>

NoGroup == -1

(* A prompt is named by what it was rendered for: a step of the flow and the
   loop iteration.  Step 0 stands for a sub-task an agent thought of. *)
Prompt == Nat \X Nat
SubtaskPrompt == <<0, 0>>

Entry == [prompt : Prompt, attempt : Nat]
Result == [task : Nat, output : Outputs, tokens : Nat]

(* A goroutine runs the task, then has acknowledged it and has one XADD to go:
   the result of Ack, or what Nack writes. *)
Goroutine == [pod : Pod, task : Nat, pc : {"running", "publish", "requeue"}]

QueueInit ==
  /\ stream = <<>>
  /\ group = IF GroupExists THEN 0 ELSE NoGroup
  /\ pel = {}
  /\ results = <<>>
  /\ dead = {}
  /\ up = {}
  /\ work = {}
  /\ faults = 0

QueueTypeOK ==
  /\ stream \in Seq(Entry)
  /\ group \in Nat \cup {NoGroup}
  /\ pel \subseteq Nat
  /\ results \in Seq(Result)
  /\ dead \subseteq Nat
  /\ up \subseteq Pod
  /\ work \subseteq Goroutine
  /\ faults \in 0 .. MaxFaults
-----------------------------------------------------------------------------
Fault(kind) == kind \in FaultKinds /\ faults < MaxFaults /\ faults' = faults + 1
NoFault == UNCHANGED faults

(* Mutant: a fresh task counts its attempts from -1. *)
Enqueue_FromMinusOne(prompt) ==
  stream' = Append(stream, [prompt |-> prompt, attempt |-> -1])

(* XADD of a fresh task: no attempt field, which Nack reads as 0. *)
Enqueue(prompt) == stream' = Append(stream, [prompt |-> prompt, attempt |-> 0])

(* Mutant: every pod puts the group at the present end of the stream. *)
StartPod_ResetsGroup(p) ==
  /\ p \notin up
  /\ up' = up \cup {p}
  /\ group' = Len(stream)
  /\ UNCHANGED <<stream, pel, results, dead, work, faults>>

(* queue.New and the start of the poll loop.  The group is created at "$", the
   present end of the stream, if it does not exist; errors are ignored. *)
StartPod(p) ==
  /\ p \notin up
  /\ up' = up \cup {p}
  /\ \/ group' = (IF group = NoGroup THEN Len(stream) ELSE group) /\ NoFault
     \/ group' = group /\ Fault("queueError")
  /\ UNCHANGED <<stream, pel, results, dead, work>>

(* Mutant: a poll also reads messages that are still pending. *)
Poll_RereadsPending(p) ==
  /\ p \in up /\ group # NoGroup
  /\ \E t \in pel \cup ({group + 1} \cap DOMAIN stream) :
       /\ group' = IF t > group THEN t ELSE group
       /\ pel' = pel \cup {t}
       /\ work' = work \cup {[pod |-> p, task |-> t, pc |-> "running"]}
  /\ UNCHANGED <<stream, results, dead, up, faults>>

(* XREADGROUP ">" delivers the next message to one consumer; the task gets a
   goroutine of its own whatever the pod is already running. *)
Poll(p) ==
  /\ p \in up /\ group # NoGroup /\ group < Len(stream)
  /\ group' = group + 1
  /\ pel' = pel \cup {group + 1}
  /\ \/ work' = work \cup {[pod |-> p, task |-> group + 1, pc |-> "running"]}
        /\ NoFault
     \/ work' = work /\ Fault("queueError")  \* the reply was lost on the way
  /\ UNCHANGED <<stream, results, dead, up>>

(* The built-in tool submit_subtask, called while the task runs. *)
SubmitSubtask(w) ==
  /\ w.pc = "running"
  /\ Cardinality({i \in DOMAIN stream : stream[i].prompt = SubtaskPrompt}) < MaxSubtasks
  /\ Enqueue(SubtaskPrompt)
  /\ UNCHANGED <<group, pel, results, dead, up, work, faults>>

(* Mutant: the XACK is forgotten. *)
Acknowledge_Forgotten(w, next) ==
  /\ w.pc = "running"
  /\ work' = (work \ {w}) \cup {[w EXCEPT !.pc = next]}
  /\ UNCHANGED <<stream, group, pel, results, dead, up, faults>>

(* RunTask is over, within its deadline: XACK, the first half of Ack or Nack. *)
Acknowledge(w, next) ==
  /\ w.pc = "running"
  /\ pel' = pel \ {w.task}
  /\ work' = (work \ {w}) \cup {[w EXCEPT !.pc = next]}
  /\ UNCHANGED <<stream, group, results, dead, up, faults>>

TaskCompletes(w) == Acknowledge(w, "publish")
TaskFails(w) == "taskError" \in FaultKinds /\ Acknowledge(w, "requeue")

(* The second half of Ack.  An XADD that fails takes the result with it. *)
Publish(w, output, tokens) ==
  /\ w.pc = "publish"
  /\ work' = work \ {w}
  /\ \/ results' = Append(results, [task |-> w.task, output |-> output, tokens |-> tokens])
        /\ NoFault
     \/ results' = results /\ Fault("queueError")
  /\ UNCHANGED <<stream, group, pel, dead, up>>

PublishResult(w) == \E output \in Outputs, tokens \in Costs : Publish(w, output, tokens)

(* Mutant: a requeued task is requeued again. *)
Requeue_Repeatedly(w) ==
  /\ w.pc = "requeue" /\ stream[w.task].attempt < MaxRetries
  /\ stream' = Append(stream, [stream[w.task] EXCEPT !.attempt = @ + 1])
  /\ UNCHANGED <<group, pel, results, dead, up, work, faults>>

(* The second half of Nack: the copy on the main stream is a new message, with
   an ID of its own. *)
Requeue(w) ==
  /\ w.pc = "requeue" /\ stream[w.task].attempt < MaxRetries
  /\ work' = work \ {w}
  /\ \/ stream' = Append(stream, [stream[w.task] EXCEPT !.attempt = @ + 1]) /\ NoFault
     \/ stream' = stream /\ Fault("queueError")
  /\ UNCHANGED <<group, pel, results, dead, up>>

(* Mutant: dead-letters whatever the attempt. *)
DeadLetter_AtOnce(w) ==
  /\ w.pc = "requeue"
  /\ work' = work \ {w}
  /\ dead' = dead \cup {w.task}
  /\ UNCHANGED <<stream, group, pel, results, up, faults>>

DeadLetter(w) ==
  /\ w.pc = "requeue" /\ stream[w.task].attempt >= MaxRetries
  /\ work' = work \ {w}
  /\ \/ dead' = dead \cup {w.task} /\ NoFault
     \/ dead' = dead /\ Fault("queueError")
  /\ UNCHANGED <<stream, group, pel, results, up>>

(* SIGTERM, an OOM kill, a scale-down: main returns and its goroutines die. *)
StopPod(p) ==
  /\ p \in up
  /\ Fault("podStop")
  /\ up' = up \ {p}
  /\ work' = {w \in work : w.pod # p}
  /\ UNCHANGED <<stream, group, pel, results, dead>>

RunWork(w) ==
  \/ SubmitSubtask(w)
  \/ TaskCompletes(w)
  \/ TaskFails(w)
  \/ PublishResult(w)
  \/ Requeue(w)
  \/ DeadLetter(w)

AgentNext ==
  \/ \E p \in Pod : StartPod(p) \/ Poll(p) \/ StopPod(p)
  \/ \E w \in work : RunWork(w)

(* The steps of a goroutine that bring it closer to its end. *)
FinishWork ==
  \E w \in work : TaskCompletes(w) \/ TaskFails(w) \/ PublishResult(w)
                  \/ Requeue(w) \/ DeadLetter(w)

(* The kubelet restarts a pod, the poll loop never blocks for good, and the
   context deadline ends every RunTask. *)
AgentFairness ==
  /\ \A p \in Pod : WF_queueVars(StartPod(p))
  /\ WF_queueVars(\E p \in Pod : Poll(p))
  /\ WF_queueVars(FinishWork)
-----------------------------------------------------------------------------
(* The stream is shared: another flow submits a task of its own. *)
ClientSubmit ==
  \E s \in ClientTasks :
    /\ \A i \in DOMAIN stream : stream[i].prompt # <<s, 0>>
    /\ Enqueue(<<s, 0>>)
    /\ UNCHANGED <<group, pel, results, dead, up, work, faults>>

(* The queue on its own. *)
QueueNext == ClientSubmit \/ AgentNext
QueueRun == QueueInit /\ [][QueueNext]_queueVars
QueueSpec == QueueRun /\ AgentFairness
-----------------------------------------------------------------------------
(* A task has at most one result, and none while a goroutine still works on
   it: the collector never has to choose between two answers. *)
OneResultPerTask ==
  /\ \A i, j \in DOMAIN results : results[i].task = results[j].task => i = j
  /\ \A i \in DOMAIN results, w \in work : results[i].task # w.task

EntriesOf(prompt, attempt) ==
  {i \in DOMAIN stream : stream[i].prompt = prompt /\ stream[i].attempt = attempt}
AnswersTo(tasks) == {i \in DOMAIN results : results[i].task \in tasks}

(* Work is conserved: what comes out of the executions of one attempt (results,
   dead letters, requeued copies) never exceeds the executions, so retries
   neither multiply the work nor follow a success. *)
WorkConserved ==
  \A prompt \in {stream[i].prompt : i \in DOMAIN stream}, n \in 0 .. MaxRetries :
    LET tasks == EntriesOf(prompt, n)
    IN Cardinality(AnswersTo(tasks)) + Cardinality(dead \cap tasks)
         + Cardinality(EntriesOf(prompt, n + 1)) <= Cardinality(tasks)

(* A task is given up only after its first run and MaxRetries more. *)
DeadOnlyWhenExhausted == \A t \in dead : stream[t].attempt = MaxRetries

(* As long as no command failed and no pod stopped, every entry of the PEL is
   being executed: nothing reclaims an entry whose goroutine is gone, so such an
   entry is lost work. *)
NothingStranded ==
  faults = 0 => \A t \in pel : \E w \in work : w.task = t /\ w.pc = "running"

(* A task is answered, retried or dead-lettered. *)
Settled(t) ==
  \/ \E i \in DOMAIN results : results[i].task = t
  \/ t \in dead
  \/ \E i \in DOMAIN stream :
       i > t /\ stream[i].prompt = stream[t].prompt
       /\ stream[i].attempt = stream[t].attempt + 1

(* At no moment is a task lost before that: once it is delivered, a goroutine has
   it until its result, its copy or its dead letter is on a stream, and the next
   message takes over from there.  Before the first agent ever connects there is no
   group, and what is submitted then is not promised. *)
NothingLost ==
  GroupExists /\ faults = 0 =>
    \A t \in DOMAIN stream : t > group \/ (\E w \in work : w.task = t) \/ Settled(t)

(* Somebody has each task: what is unacknowledged runs, and what is acknowledged has
   an outcome or is about to have one. *)
TasksAreKept == NothingStranded /\ NothingLost

(* If no command fails and no pod stops, every task submitted is at last
   answered, retried or dead-lettered. *)
EveryTaskSettles == [](faults = 0) => <>[](\A t \in DOMAIN stream : Settled(t))
=============================================================================
