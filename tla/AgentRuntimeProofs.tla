--------------------------- MODULE AgentRuntimeProofs ---------------------------
(***************************************************************************)
(* For any pods, servers, models and tools, the runtime takes steps of     *)
(* TaskQueue only, and its conversations are complete.                     *)
(***************************************************************************)
EXTENDS AgentRuntime, TaskQueueProofs

(* The tool calls without a result are those to be made.  All that was charged
   is in the usage, and after n replies that is n times MaxCost at most. *)
Complete(t, n) == t.left = t.open /\ t.usage = t.billed /\ t.usage <= n * MaxCost
Replies(w, t) == IF w.pc = "running" THEN t.turn ELSE t.turn + 1
TalkComplete == \A w \in work : Complete(talk[Key(w)], Replies(w, talk[Key(w)]))

TalkTypeOK == talk \in [Keys(work) -> Conversation]

LEMMA OneMoreReply ==
  ASSUME NEW n \in Nat, NEW u \in Nat, NEW c \in 0 .. MaxCost, u <= n * MaxCost
  PROVE  u + c <= (n + 1) * MaxCost
<1>1. MaxCost \in Nat
  BY RuntimeAssumption
<1>2. (n + 1) * MaxCost = n * MaxCost + MaxCost /\ n * MaxCost \in Nat
  BY <1>1
<1> DEFINE k == n * MaxCost
<1> HIDE DEF k
<1> QED BY <1>1, <1>2 DEF k

(* A published usage is one that TaskQueue knows of. *)
LEMMA UsageIsACost ==
  ASSUME NEW t \in Conversation, t.usage <= (t.turn + 1) * MaxCost
  PROVE  t.usage \in Costs
<1>1. t.turn \in Nat /\ t.turn + 1 <= MaxTurns + 1 /\ t.usage \in Nat /\ MaxCost \in Nat
      /\ MaxTurns \in Nat
  BY RuntimeAssumption DEF Conversation
<1>2. (t.turn + 1) * MaxCost <= (MaxTurns + 1) * MaxCost
  <2>1. \A k, n \in Nat : k <= n => k * MaxCost <= n * MaxCost
    BY <1>1
  <2> QED BY <1>1, <2>1
<1>3. (t.turn + 1) * MaxCost \in Nat /\ (MaxTurns + 1) * MaxCost \in Nat
  BY <1>1
<1> DEFINE a == (t.turn + 1) * MaxCost
           b == (MaxTurns + 1) * MaxCost
<1>4. a \in Nat /\ b \in Nat /\ a <= b /\ t.usage <= a
  BY <1>2, <1>3
<1> HIDE DEF a, b
<1>5. t.usage \in 0 .. b
  BY <1>1, <1>4
<1> QED BY <1>5, RuntimeAssumption DEF b

(* Goroutines come and go, and their conversations with them. *)
LEMMA FollowKeeps ==
  ASSUME QueueTypeOK, TalkTypeOK, TalkComplete, FollowWork,
         \A w \in work' : w \in work \/ (Key(w) \notin Keys(work) /\ w.pc = "running")
  PROVE  TalkTypeOK' /\ TalkComplete'
<1>1. FirstTurn \in Conversation
  BY RuntimeAssumption DEF FirstTurn, Conversation
<1>2. \A k \in Keys(work') : talk'[k] = IF k \in Keys(work) THEN talk[k] ELSE FirstTurn
  BY DEF FollowWork, TalkTypeOK
<1>3. TalkTypeOK'
  BY <1>1, <1>2 DEF FollowWork, TalkTypeOK
<1>4. ASSUME NEW w \in work' PROVE Complete(talk'[Key(w)], Replies(w, talk'[Key(w)]))
  <2>1. Key(w) \in Keys(work')
    BY DEF Keys
  <2>2. CASE w \in work
    <3>1. Key(w) \in Keys(work)
      BY <2>2 DEF Keys
    <3>2. talk'[Key(w)] = talk[Key(w)]
      BY <1>2, <2>1, <3>1
    <3> QED BY <2>2, <3>2 DEF TalkComplete
  <2>3. CASE Key(w) \notin Keys(work) /\ w.pc = "running"
    <3>1. talk'[Key(w)] = FirstTurn
      BY <1>2, <2>1, <2>3
    <3>2. 0 <= 0 * MaxCost
      BY RuntimeAssumption
    <3> QED BY <2>3, <3>1, <3>2 DEF Complete, Replies, FirstTurn
  <2> QED BY <2>2, <2>3
<1>5. MaxCost' = MaxCost
  OBVIOUS
<1> QED BY <1>3, <1>4 DEF TalkComplete

(* One goroutine's conversation goes on; v is what becomes of the goroutine. *)
LEMMA SayKeeps ==
  ASSUME QueueTypeOK, QueueInv, TalkTypeOK, TalkComplete,
         NEW w \in work, NEW v, v.pod = w.pod, v.task = w.task,
         work' = (work \ {w}) \cup {v},
         NEW t \in Conversation, Say(w, t), Complete(t, Replies(v, t))
  PROVE  TalkTypeOK' /\ TalkComplete'
<1>1. Key(v) = Key(w) /\ Key(w) \in Keys(work)
  BY DEF Key, Keys
<1>2. Keys(work') = Keys(work)
  <2>1. \A x \in work' : \E y \in work : Key(y) = Key(x)
    BY <1>1
  <2>2. \A y \in work : \E x \in work' : Key(y) = Key(x)
    BY <1>1
  <2> QED BY <2>1, <2>2 DEF Keys
<1>3. talk' = [talk EXCEPT ![Key(w)] = t]
  BY DEF Say
<1>4. TalkTypeOK'
  BY <1>1, <1>2, <1>3 DEF TalkTypeOK
<1>5. ASSUME NEW x \in work' PROVE Complete(talk'[Key(x)], Replies(x, talk'[Key(x)]))
  <2>1. CASE x = v
    <3>1. talk'[Key(x)] = t
      BY <1>1, <1>3, <2>1 DEF TalkTypeOK
    <3> QED BY <2>1, <3>1
  <2>2. CASE x \in work /\ x # w
    <3>1. x.task # w.task
      BY <2>2 DEF QueueInv, OneWorkerPerTask
    <3>2. Key(x) # Key(w) /\ Key(x) \in Keys(work)
      BY <2>2, <3>1 DEF Key, Keys
    <3>3. talk'[Key(x)] = talk[Key(x)]
      BY <1>3, <3>2 DEF TalkTypeOK
    <3> QED BY <2>2, <3>3 DEF TalkComplete
  <2> QED BY <2>1, <2>2
<1> QED BY <1>4, <1>5 DEF TalkComplete

Sound == QueueTypeOK /\ QueueInv /\ TalkTypeOK /\ TalkComplete

(* A goroutine, its conversation and what is left of both after a reply. *)
LEMMA TalkOf ==
  ASSUME TalkTypeOK, TalkComplete, NEW w \in work
  PROVE  /\ talk[Key(w)] \in Conversation
         /\ Complete(talk[Key(w)], Replies(w, talk[Key(w)]))
<1>1. Key(w) \in Keys(work)
  BY DEF Keys
<1> QED BY <1>1 DEF TalkTypeOK, TalkComplete

LEMMA ReplyIsCharged ==
  ASSUME NEW t \in Conversation, NEW cost \in 0 .. MaxCost, Complete(t, t.turn)
  PROVE  /\ Charge(t, cost) \in Conversation
         /\ Complete(Charge(t, cost), t.turn + 1)
         /\ Charge(t, cost).turn = t.turn /\ Charge(t, cost).left = t.left
<1>1. t.turn \in Nat /\ t.usage \in Nat /\ t.billed \in Nat /\ cost \in Nat
  BY RuntimeAssumption DEF Conversation
<1>2. t.usage + cost <= (t.turn + 1) * MaxCost
  BY <1>1, OneMoreReply DEF Complete
<1>3. /\ Charge(t, cost).turn = t.turn
      /\ Charge(t, cost).left = t.left /\ Charge(t, cost).open = t.open
      /\ Charge(t, cost).usage = t.usage + cost /\ Charge(t, cost).billed = t.billed + cost
  BY DEF Charge, Conversation
<1>4. Charge(t, cost) \in Conversation
  <2>1. t.usage + cost \in Nat /\ t.billed + cost \in Nat
    BY <1>1
  <2> QED BY <2>1 DEF Charge, Conversation
<1> QED BY <1>2, <1>3, <1>4 DEF Complete

(* The goroutines are left alone. *)
LEMMA SameWork ==
  ASSUME NEW w \in work, UNCHANGED work
  PROVE  work' = (work \ {w}) \cup {w}
  OBVIOUS

LEMMA AsksToolsKeeps ==
  ASSUME Sound, NEW w \in work, ModelAsksTools(w)
  PROVE  TalkTypeOK' /\ TalkComplete'
<1> DEFINE t == talk[Key(w)]
<1>1. t \in Conversation /\ Complete(t, t.turn) /\ w.pc = "running" /\ t.turn < MaxTurns
  BY TalkOf DEF Sound, ModelAsksTools, InModel, Replies
<1>2. PICK calls \in 0 .. MaxCalls, cost \in 0 .. MaxCost :
        Say(w, [Charge(t, cost) EXCEPT !.turn = @ + 1, !.left = calls, !.open = calls])
  BY DEF ModelAsksTools
<1>3. UNCHANGED work
  BY DEF ModelAsksTools, queueVars
<1> DEFINE c == Charge(t, cost)
           u == [c EXCEPT !.turn = @ + 1, !.left = calls, !.open = calls]
<1> HIDE DEF t
<1>4. c \in Conversation /\ Complete(c, t.turn + 1) /\ c.turn = t.turn
  BY <1>1, ReplyIsCharged
<1> HIDE DEF c
<1>5. u \in Conversation
  <2>1. c.turn + 1 \in 0 .. MaxTurns
    BY <1>1, <1>4, RuntimeAssumption DEF Conversation
  <2> QED BY <1>4, <2>1 DEF Conversation
<1>8. u.turn = t.turn + 1 /\ u.left = u.open /\ u.usage = c.usage /\ u.billed = c.billed
  BY <1>4 DEF Conversation
<1>6. Complete(u, Replies(w, u))
  BY <1>1, <1>4, <1>8 DEF Complete, Replies
<1>7. Say(w, u)
  BY <1>2 DEF c
<1> HIDE DEF u
<1> QED BY <1>3, <1>5, <1>6, <1>7, SameWork, SayKeeps DEF Sound

(* RunTask returns: the goroutine acknowledges and has one XADD to go. *)
LEMMA ReturnKeeps ==
  ASSUME Sound, NEW w \in work, NEW next \in {"publish", "requeue"}, Acknowledge(w, next),
         NEW t \in Conversation, Say(w, t), Complete(t, t.turn + 1)
  PROVE  TalkTypeOK' /\ TalkComplete'
<1> DEFINE v == [w EXCEPT !.pc = next]
<1>1. w \in Goroutine /\ work' = (work \ {w}) \cup {v}
  BY DEF Sound, QueueTypeOK, Acknowledge
<1>2. v.pod = w.pod /\ v.task = w.task /\ v.pc = next
  BY <1>1 DEF Goroutine
<1> HIDE DEF v
<1>3. Complete(t, Replies(v, t))
  BY <1>2 DEF Replies
<1> QED BY <1>1, <1>2, <1>3, SayKeeps DEF Sound

LEMMA AnswersKeeps ==
  ASSUME Sound, NEW w \in work, ModelAnswers(w)
  PROVE  TalkTypeOK' /\ TalkComplete'
<1> DEFINE t == talk[Key(w)]
<1>1. t \in Conversation /\ Complete(t, t.turn)
  BY TalkOf DEF Sound, ModelAnswers, InModel, Replies
<1>2. PICK cost \in 0 .. MaxCost : Say(w, Charge(t, cost))
  BY DEF ModelAnswers
<1>3. Acknowledge(w, "publish")
  BY DEF ModelAnswers, TaskCompletes
<1> HIDE DEF t
<1>4. Charge(t, cost) \in Conversation /\ Complete(Charge(t, cost), Charge(t, cost).turn + 1)
  BY <1>1, ReplyIsCharged
<1> QED BY <1>2, <1>3, <1>4, ReturnKeeps

LEMMA FailsKeeps ==
  ASSUME Sound, NEW w \in work, ModelFails(w)
  PROVE  TalkTypeOK' /\ TalkComplete'
<1> DEFINE t == talk[Key(w)]
<1>1. t \in Conversation /\ Complete(t, t.turn)
  BY TalkOf DEF Sound, ModelFails, InModel, Replies
<1>2. Say(w, t)
  BY DEF ModelFails, Say, Sound, TalkTypeOK
<1>3. Acknowledge(w, "requeue")
  BY DEF ModelFails, TaskFails
<1> HIDE DEF t
<1>4. Complete(t, t.turn + 1)
  <2>1. t.turn \in Nat /\ t.usage \in Nat /\ 0 \in 0 .. MaxCost /\ t.usage + 0 = t.usage
    BY <1>1, RuntimeAssumption DEF Conversation
  <2>2. t.usage + 0 <= (t.turn + 1) * MaxCost
    BY <1>1, <2>1, OneMoreReply DEF Complete
  <2> QED BY <1>1, <2>1, <2>2 DEF Complete
<1> QED BY <1>1, <1>2, <1>3, <1>4, ReturnKeeps

(* A tool call is answered, or the deadline passes: the charges are the same. *)
LEMMA CallKeeps ==
  ASSUME Sound, NEW w \in work, w.pc = "running", UNCHANGED work,
         \/ InTool(w) /\ Say(w, Answered(talk[Key(w)]))
         \/ Say(w, [talk[Key(w)] EXCEPT !.expired = TRUE])
  PROVE  TalkTypeOK' /\ TalkComplete'
<1> DEFINE t == talk[Key(w)]
<1>1. t \in Conversation /\ Complete(t, t.turn)
  BY TalkOf DEF Sound, Replies
<1>2. PICK u : /\ Say(w, u)
               /\ \/ t.left > 0 /\ u = Answered(t)
                  \/ u = [t EXCEPT !.expired = TRUE]
  BY DEF InTool
<1> HIDE DEF t
<1>3. u \in Conversation
  <2>1. CASE t.left > 0 /\ u = Answered(t)
    <3>1. t.left - 1 \in 0 .. MaxCalls /\ t.open - 1 \in 0 .. MaxCalls
      BY <1>1, <2>1, RuntimeAssumption DEF Conversation, Complete
    <3> QED BY <1>1, <2>1, <3>1 DEF Answered, Conversation
  <2>2. CASE u = [t EXCEPT !.expired = TRUE]
    BY <1>1, <2>2 DEF Conversation
  <2> QED BY <1>2, <2>1, <2>2
<1>5. u.turn = t.turn /\ u.left = u.open /\ u.usage = t.usage /\ u.billed = t.billed
  <2>1. CASE u = Answered(t)
    BY <1>1, <2>1 DEF Answered, Conversation, Complete
  <2>2. CASE u = [t EXCEPT !.expired = TRUE]
    BY <1>1, <2>2 DEF Conversation, Complete
  <2> QED BY <1>2, <2>1, <2>2
<1>4. Complete(u, Replies(w, u))
  BY <1>1, <1>5 DEF Complete, Replies
<1> QED BY <1>2, <1>3, <1>4, SameWork, SayKeeps DEF Sound

(* Every step of a goroutine, the queue's part of which is a step of TaskQueue. *)
LEMMA ConverseKeeps ==
  ASSUME Sound, NEW w \in work, Converse(w)
  PROVE  TalkTypeOK' /\ TalkComplete'
<1>1. CASE ModelAsksTools(w)
  BY <1>1, AsksToolsKeeps
<1>2. CASE ModelAnswers(w)
  BY <1>2, AnswersKeeps
<1>3. CASE ModelFails(w)
  BY <1>3, FailsKeeps
<1>4. CASE ToolReturns(w)
  <2>1. w.pc = "running" /\ InTool(w) /\ UNCHANGED work /\ Say(w, Answered(talk[Key(w)]))
    BY <1>4 DEF ToolReturns, InTool, queueVars
  <2> QED BY <2>1, CallKeeps
<1>5. CASE ToolSubmits(w)
  <2>1. w.pc = "running" /\ InTool(w) /\ UNCHANGED work /\ Say(w, Answered(talk[Key(w)]))
    BY <1>5 DEF ToolSubmits, InTool, SubmitSubtask
  <2> QED BY <2>1, CallKeeps
<1>6. CASE DeadlinePasses(w)
  <2>1. w.pc = "running" /\ UNCHANGED work /\ Say(w, [talk[Key(w)] EXCEPT !.expired = TRUE])
    BY <1>6 DEF DeadlinePasses, queueVars
  <2> QED BY <2>1, CallKeeps
<1>7. CASE PublishUsage(w)
  <2>1. FollowWork /\ work' = work \ {w}
    BY <1>7 DEF PublishUsage, Publish
  <2> QED BY <2>1, FollowKeeps DEF Sound
<1>8. CASE GiveBack(w)
  <2>1. FollowWork /\ work' = work \ {w}
    BY <1>8 DEF GiveBack, Requeue, DeadLetter
  <2> QED BY <2>1, FollowKeeps DEF Sound
<1> QED BY <1>1, <1>2, <1>3, <1>4, <1>5, <1>6, <1>7, <1>8 DEF Converse

LEMMA ConverseIsQueueStep ==
  ASSUME Sound, NEW w \in work, Converse(w)
  PROVE  [QueueNext]_queueVars
<1>1. CASE ModelAsksTools(w) \/ ToolReturns(w) \/ DeadlinePasses(w)
  BY <1>1 DEF ModelAsksTools, ToolReturns, DeadlinePasses
<1>2. CASE ModelAnswers(w) \/ ModelFails(w) \/ ToolSubmits(w) \/ GiveBack(w)
  <2>1. RunWork(w)
    BY <1>2 DEF ModelAnswers, ModelFails, ToolSubmits, GiveBack, RunWork
  <2> QED BY <2>1 DEF QueueNext, AgentNext
<1>3. CASE PublishUsage(w)
  <2>1. w.pc = "publish"
    BY <1>3 DEF PublishUsage, Publish
  <2>2. talk[Key(w)] \in Conversation /\ Complete(talk[Key(w)], talk[Key(w)].turn + 1)
    BY <2>1, TalkOf DEF Sound, Replies
  <2>3. talk[Key(w)].usage \in Costs
    BY <2>2, UsageIsACost DEF Complete
  <2>4. PublishResult(w)
    BY <1>3, <2>3 DEF PublishUsage, PublishResult
  <2> QED BY <2>4 DEF QueueNext, AgentNext, RunWork
<1> QED BY <1>1, <1>2, <1>3 DEF Converse

LEMMA PodStepKeeps ==
  ASSUME Sound, NEW p \in Pod, PodPolls(p) \/ PodStops(p)
  PROVE  TalkTypeOK' /\ TalkComplete'
<1>1. CASE PodPolls(p)
  <2>1. work' \subseteq work \cup {[pod |-> p, task |-> group + 1, pc |-> "running"]} /\ group \in Nat
    BY <1>1 DEF PodPolls, Poll, Sound, QueueTypeOK
  <2>2. \A w \in work : w.task # group + 1
    BY <2>1 DEF Sound, QueueTypeOK, Goroutine, QueueInv, Delivered
  <2>3. <<p, group + 1>> \notin Keys(work)
    BY <2>2 DEF Keys, Key
  <2>4. \A w \in work' : w \in work \/ (Key(w) \notin Keys(work) /\ w.pc = "running")
    BY <2>1, <2>3 DEF Key
  <2> QED BY <1>1, <2>4, FollowKeeps DEF PodPolls, Sound
<1>2. CASE PodStops(p)
  BY <1>2, FollowKeeps DEF PodStops, StopPod, Sound
<1> QED BY <1>1, <1>2

(* A step that leaves the goroutines alone leaves their conversations alone. *)
LEMMA TalkStays ==
  ASSUME Sound, UNCHANGED <<work, talk>>
  PROVE  TalkTypeOK' /\ TalkComplete'
  BY DEF Sound, TalkTypeOK, TalkComplete, Keys, Key, Complete, Replies

LEMMA RuntimeStep ==
  ASSUME Sound, [RuntimeNext]_runtimeVars
  PROVE  [QueueNext]_queueVars /\ TalkTypeOK' /\ TalkComplete'
<1>1. CASE \E w \in work : Converse(w)
  BY <1>1, ConverseKeeps, ConverseIsQueueStep
<1>2. ASSUME NEW p \in Pod, PodPolls(p) \/ PodStops(p)
      PROVE  [QueueNext]_queueVars /\ TalkTypeOK' /\ TalkComplete'
  <2>1. Poll(p) \/ StopPod(p)
    BY <1>2 DEF PodPolls, PodStops
  <2> QED BY <1>2, <2>1, PodStepKeeps DEF QueueNext, AgentNext
<1>3. ASSUME NEW p \in Pod, PodStarts(p)
      PROVE  [QueueNext]_queueVars /\ TalkTypeOK' /\ TalkComplete'
  <2>1. StartPod(p) /\ UNCHANGED <<work, talk>>
    BY <1>3 DEF PodStarts, StartPod
  <2> QED BY <2>1, TalkStays DEF QueueNext, AgentNext
<1>4. CASE OtherClient
  <2>1. ClientSubmit /\ UNCHANGED <<work, talk>>
    BY <1>4 DEF OtherClient, ClientSubmit
  <2> QED BY <2>1, TalkStays DEF QueueNext
<1>5. CASE \/ \E p \in Pod : Discover(p) \/ RestartStuck(p)
           \/ \E s \in Server : ServerFails(s) \/ ServerRecovers(s)
           \/ UNCHANGED runtimeVars
  <2>1. UNCHANGED <<queueVars, talk>>
    BY <1>5 DEF Discover, RestartStuck, ServerFails, ServerRecovers, runtimeVars
  <2> QED BY <2>1, TalkStays DEF queueVars
<1> QED BY <1>1, <1>2, <1>3, <1>4, <1>5 DEF RuntimeNext

LEMMA SoundInit == RuntimeInit => Sound
<1> SUFFICES ASSUME RuntimeInit PROVE Sound
  OBVIOUS
<1>1. work = {}
  BY DEF RuntimeInit, QueueInit
<1>2. Keys(work) = {}
  BY <1>1 DEF Keys
<1>3. TalkTypeOK
  BY <1>2 DEF RuntimeInit, TalkTypeOK
<1> QED BY <1>1, <1>3, QueueInitInv DEF RuntimeInit, Sound, TalkComplete

LEMMA SoundStep == Sound /\ [RuntimeNext]_runtimeVars => Sound'
<1> SUFFICES ASSUME Sound, [RuntimeNext]_runtimeVars PROVE Sound'
  OBVIOUS
<1>1. [QueueNext]_queueVars /\ TalkTypeOK' /\ TalkComplete'
  BY RuntimeStep
<1>2. QueueTypeOK' /\ QueueInv'
  BY <1>1, AgentNextPreserves, ClientSubmitPreserves, QueueStutterPreserves DEF QueueNext, Sound
<1> QED BY <1>1, <1>2 DEF Sound

(* The runtime with its conversations, MCP servers and deadlines only ever does
   to the queue what TaskQueue says: the safety half of ImplementsQueue. *)
THEOREM RuntimeStepsAreQueueSteps == RuntimeSpec => QueueRun
<1>1. RuntimeInit => QueueInit
  BY DEF RuntimeInit
<1>2. Sound /\ [RuntimeNext]_runtimeVars => [QueueNext]_queueVars
  BY RuntimeStep
<1> QED BY <1>1, <1>2, SoundInit, SoundStep, PTL DEF RuntimeSpec, QueueRun

(* So the runtime keeps every promise of the queue. *)
THEOREM RuntimeKeepsPromises ==
  RuntimeSpec => [](/\ OneResultPerTask /\ DeadOnlyWhenExhausted /\ WorkConserved
                    /\ TasksAreKept)
  BY RuntimeStepsAreQueueSteps, QueueSafe, DeadOnlyWhenRetriesAreSpent, WorkIsConserved,
     TasksAlwaysKept, PTL

(* The servers and the starts of the pods. *)
BootTypeOK ==
  /\ server \in [Server -> {"up", "down", "hung"}]
  /\ outages \in 0 .. MaxOutages
  /\ boot \in [Pod -> Boot]

LEMMA AtStartIsBoot == AtStart \in Boot
<1>1. 1 \in 1 .. NumServers + 1
  BY RuntimeAssumption
<1> QED BY <1>1 DEF AtStart, Boot

LEMMA BootStep ==
  ASSUME BootTypeOK, [RuntimeNext]_runtimeVars
  PROVE  BootTypeOK'
<1>1. ASSUME NEW p \in Pod, Discover(p) PROVE BootTypeOK'
  <2> DEFINE s == boot[p].next
             b == boot[p]
  <2>1. b \in Boot /\ s \in Server /\ UNCHANGED <<server, outages>>
    BY <1>1 DEF BootTypeOK, Discover
  <2>2. s \in 1 .. NumServers /\ s + 1 \in 1 .. NumServers + 1 /\ NumServers + 1 \in 1 .. NumServers + 1
    BY <2>1, RuntimeAssumption DEF Server
  <2>3. \/ boot' = [boot EXCEPT ![p] = [b EXCEPT !.next = s + 1]]
        \/ boot' = [boot EXCEPT ![p] = [b EXCEPT !.next = NumServers + 1]]
        \/ boot' = [boot EXCEPT ![p] = [b EXCEPT !.stuck = TRUE]]
    BY <1>1 DEF Discover, BootTypeOK, Boot
  <2>4. [b EXCEPT !.stuck = TRUE] \in Boot
    BY <2>1 DEF Boot
  <2>5. [b EXCEPT !.next = NumServers + 1] \in Boot
    BY <2>1, <2>2 DEF Boot
  <2>6. [b EXCEPT !.next = s + 1] \in Boot
    BY <2>1, <2>2 DEF Boot
  <2> HIDE DEF s, b
  <2> QED BY <2>1, <2>3, <2>4, <2>5, <2>6 DEF BootTypeOK
<1>2. ASSUME NEW p \in Pod, RestartStuck(p) \/ PodStops(p) PROVE BootTypeOK'
  <2>1. boot' = [boot EXCEPT ![p] = AtStart] /\ UNCHANGED <<server, outages>>
    BY <1>2 DEF RestartStuck, PodStops
  <2> QED BY <2>1, AtStartIsBoot DEF BootTypeOK
<1>3. ASSUME NEW s \in Server, ServerFails(s) \/ ServerRecovers(s) PROVE BootTypeOK'
  <2>1. UNCHANGED boot /\ \E state \in {"up", "down", "hung"} : server' = [server EXCEPT ![s] = state]
    BY <1>3, RuntimeAssumption DEF ServerFails, ServerRecovers
  <2>2. outages' \in 0 .. MaxOutages
    BY <1>3, RuntimeAssumption DEF ServerFails, ServerRecovers, BootTypeOK
  <2> QED BY <2>1, <2>2 DEF BootTypeOK
<1>4. CASE \/ \E p \in Pod : PodStarts(p) \/ PodPolls(p)
           \/ \E w \in work : Converse(w)
           \/ OtherClient
           \/ UNCHANGED runtimeVars
  <2>1. UNCHANGED <<server, outages, boot>>
    BY <1>4 DEF PodStarts, PodPolls, OtherClient, runtimeVars, Converse, ModelAsksTools, ModelAnswers,
         ModelFails, ToolReturns, ToolSubmits, DeadlinePasses, PublishUsage, GiveBack
  <2> QED BY <2>1 DEF BootTypeOK
<1> QED BY <1>1, <1>2, <1>3, <1>4 DEF RuntimeNext

(* Every variable of the runtime keeps its type; a conversation never exceeds its
   turns and calls, and there is one for each goroutine. *)
THEOREM RuntimeTypesCorrect == RuntimeSpec => []RuntimeTypeOK
<1>1. RuntimeInit => BootTypeOK
  BY AtStartIsBoot, RuntimeAssumption DEF RuntimeInit, BootTypeOK
<1>2. BootTypeOK /\ [RuntimeNext]_runtimeVars => BootTypeOK'
  BY BootStep
<1>3. Sound /\ BootTypeOK => RuntimeTypeOK
  BY DEF Sound, BootTypeOK, TalkTypeOK, RuntimeTypeOK
<1> QED BY <1>1, <1>2, <1>3, SoundInit, SoundStep, PTL DEF RuntimeSpec

(* No model is asked again while a tool call of its last turn has no result,
   whichever tools fail. *)
THEOREM EveryCallAlwaysAnswered == RuntimeSpec => []EveryCallAnswered
<1>1. Sound => EveryCallAnswered
  <2> SUFFICES ASSUME Sound, NEW w \in work, InModel(w) PROVE talk[Key(w)].open = 0
    BY DEF EveryCallAnswered
  <2> QED BY TalkOf DEF Sound, InModel, Complete
<1> QED BY <1>1, SoundInit, SoundStep, PTL DEF RuntimeSpec

(* Only Ack writes results, with all that was charged for the conversation. *)
LEMMA PublishedIsWhole ==
  ASSUME Sound, RuntimeNext, NEW w \in work, results' # results, w \notin work'
  PROVE  results'[Len(results')].tokens = talk[Key(w)].billed
<1>1. PICK v \in work : PublishUsage(v)
  <2>1. ASSUME NEW v \in work, Converse(v), ~PublishUsage(v) PROVE results' = results
    BY <2>1 DEF Converse, ModelAsksTools, ModelAnswers, ModelFails, ToolReturns, ToolSubmits,
         DeadlinePasses, GiveBack, TaskCompletes, TaskFails, Acknowledge, SubmitSubtask, Requeue,
         DeadLetter, queueVars
  <2>2. ASSUME NEW p \in Pod, Discover(p) \/ RestartStuck(p) \/ PodStarts(p) \/ PodPolls(p) \/ PodStops(p)
        PROVE  results' = results
    BY <2>2 DEF Discover, RestartStuck, PodStarts, PodPolls, PodStops, StartPod, Poll, StopPod, queueVars
  <2>3. CASE OtherClient \/ \E s \in Server : ServerFails(s) \/ ServerRecovers(s)
    BY <2>3 DEF OtherClient, ClientSubmit, ServerFails, ServerRecovers, queueVars
  <2> QED BY <2>1, <2>2, <2>3 DEF RuntimeNext
<1>2. w = v
  BY <1>1 DEF PublishUsage, Publish
<1>3. PICK output \in Outputs :
        results' = Append(results, [task |-> w.task, output |-> output,
                                    tokens |-> talk[Key(w)].usage])
  BY <1>1, <1>2 DEF PublishUsage, Publish
<1>4. results'[Len(results')].tokens = talk[Key(w)].usage
  <2> DEFINE r == [task |-> w.task, output |-> output, tokens |-> talk[Key(w)].usage]
  <2>1. results \in Seq(Result) /\ r.tokens = talk[Key(w)].usage
    BY DEF Sound, QueueTypeOK
  <2> HIDE DEF r
  <2>2. Len(Append(results, r)) = Len(results) + 1 /\ Append(results, r)[Len(results) + 1] = r
    BY <2>1
  <2> QED BY <1>3, <2>1, <2>2 DEF r
<1> QED BY <1>4, TalkOf DEF Sound, Complete

(* What an answer is said to have cost is what its conversation has cost, turn
   after turn. *)
THEOREM UsageAlwaysWhole == RuntimeSpec => UsageIsWhole
<1>1. Sound /\ [RuntimeNext]_runtimeVars
        => [\A w \in work : results' # results /\ w \notin work'
              => results'[Len(results')].tokens = talk[Key(w)].billed]_runtimeVars
  BY PublishedIsWhole
<1> QED BY <1>1, SoundInit, SoundStep, PTL DEF RuntimeSpec, UsageIsWhole
=============================================================================
