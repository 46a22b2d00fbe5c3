----------------------------- MODULE AgentRuntime -----------------------------
(***************************************************************************)
(* The process in an agent pod (runtime/agent): it asks its MCP servers    *)
(* for their tools, then polls the queue, and runs each task as a          *)
(* conversation with a model (internal/agent/providers), which calls tools *)
(* (internal/agent/runner) until it has an answer or the deadline of the   *)
(* task passes.  TaskQueue has all of a conversation in one step.          *)
(***************************************************************************)
EXTENDS TaskQueue

CONSTANTS
  NumServers,   \* AGENT_MCP_SERVERS, in the order of the list
  Provider,     \* AGENT_PROVIDER of each pod
  Outages,      \* how the MCP servers of this instance may fail
  MaxOutages,   \* how often they do, bound of the model
  MaxCost,      \* the most tokens a turn costs, bound of the model
  MaxTurns,     \* how often a model asks for tools, bound of the model
  MaxCalls      \* how many tool calls a turn has, bound of the model

Server == 1 .. NumServers

ASSUME RuntimeAssumption ==
  /\ NumServers \in Nat
  /\ Provider \in [Pod -> {"anthropic", "openai"}]
  /\ Outages \subseteq {"down", "hung"} /\ MaxOutages \in Nat
  /\ MaxCost \in Nat /\ MaxTurns \in Nat /\ MaxCalls \in Nat
  /\ 0 .. (MaxTurns + 1) * MaxCost \subseteq Costs

VARIABLES
  server,   \* of each MCP server: up, down (it answers with an error), hung
  outages,  \* how often a server has failed
  boot,     \* of each pod, where main is before it polls
  talk      \* of each task a pod runs, its conversation

runtimeVars == <<queueVars, server, outages, boot, talk>>

(* next is the server to ask, stuck that it got no answer. *)
Boot == [next : 1 .. NumServers + 1, stuck : BOOLEAN]
AtStart == [next |-> 1, stuck |-> FALSE]

(* turn counts the replies that called tools.  Of the last one, left are the
   calls not made yet and open those without a result in messages.  usage is
   the variable of RunTask, billed what the provider has charged. *)
Conversation == [turn : 0 .. MaxTurns, left : 0 .. MaxCalls, open : 0 .. MaxCalls,
                 usage : Nat, billed : Nat, expired : BOOLEAN]
FirstTurn == [turn |-> 0, left |-> 0, open |-> 0, usage |-> 0, billed |-> 0, expired |-> FALSE]

Key(w) == <<w.pod, w.task>>
Keys(goroutines) == {Key(w) : w \in goroutines}

RuntimeInit ==
  /\ QueueInit
  /\ server = [s \in Server |-> "up"]
  /\ outages = 0
  /\ boot = [p \in Pod |-> AtStart]
  /\ talk = [k \in {} |-> FirstTurn]

RuntimeTypeOK ==
  /\ QueueTypeOK
  /\ server \in [Server -> {"up", "down", "hung"}]
  /\ outages \in 0 .. MaxOutages
  /\ boot \in [Pod -> Boot]
  /\ talk \in [Keys(work) -> Conversation]
-----------------------------------------------------------------------------
(* A conversation begins and ends with its goroutine. *)
FollowWork ==
  talk' = [k \in Keys(work') |-> IF k \in DOMAIN talk THEN talk[k] ELSE FirstTurn]

Say(w, t) == talk' = [talk EXCEPT ![Key(w)] = t]

(* NewManager asks the next server for its tools.  The first error ends it, and
   main goes on with NewManager(nil).  The request has no deadline. *)
Discover(p) ==
  LET s == boot[p].next IN
  /\ p \notin up /\ ~boot[p].stuck /\ s \in Server
  /\ \/ server[s] = "up" /\ boot' = [boot EXCEPT ![p].next = s + 1]
     \/ server[s] = "down" /\ boot' = [boot EXCEPT ![p].next = NumServers + 1]
     \/ server[s] = "hung" /\ boot' = [boot EXCEPT ![p].stuck = TRUE]
  /\ UNCHANGED <<queueVars, server, outages, talk>>

(* The health endpoints come up after the discovery, so the kubelet restarts a
   container that is stuck in it. *)
RestartStuck(p) ==
  /\ p \notin up /\ boot[p].stuck
  /\ boot' = [boot EXCEPT ![p] = AtStart]
  /\ UNCHANGED <<queueVars, server, outages, talk>>

PodStarts(p) ==
  /\ boot[p].next = NumServers + 1
  /\ StartPod(p)
  /\ UNCHANGED <<server, outages, boot, talk>>

PodPolls(p) == Poll(p) /\ FollowWork /\ UNCHANGED <<server, outages, boot>>

PodStops(p) ==
  /\ StopPod(p)
  /\ boot' = [boot EXCEPT ![p] = AtStart]
  /\ FollowWork
  /\ UNCHANGED <<server, outages>>
-----------------------------------------------------------------------------
(* Does RunTask go on after this reply? *)
Continues(provider, stop, calls) ==
  calls > 0 /\ IF provider = "anthropic" THEN stop # "end" ELSE stop = "tools"

(* Mutant: the usage of the last turn is all that is kept. *)
Charge_LastTurn(t, cost) == [t EXCEPT !.usage = cost, !.billed = @ + cost]

Charge(t, cost) == [t EXCEPT !.usage = @ + cost, !.billed = @ + cost]

(* The model is asked for its next turn: every call of the last one was made. *)
InModel(w) == w.pc = "running" /\ talk[Key(w)].left = 0
InTool(w) == w.pc = "running" /\ talk[Key(w)].left > 0

StopReasons == {"end", "tools", "length"}

ModelAsksTools(w) ==
  LET t == talk[Key(w)] IN
  /\ InModel(w) /\ ~t.expired /\ t.turn < MaxTurns
  /\ \E stop \in StopReasons, calls \in 0 .. MaxCalls, cost \in 0 .. MaxCost :
       /\ Continues(Provider[w.pod], stop, calls)
       /\ Say(w, [Charge(t, cost) EXCEPT !.turn = @ + 1, !.left = calls, !.open = calls])
  /\ UNCHANGED <<queueVars, server, outages, boot>>

ModelAnswers(w) ==
  LET t == talk[Key(w)] IN
  /\ InModel(w) /\ ~t.expired
  /\ \E stop \in StopReasons, calls \in 0 .. MaxCalls, cost \in 0 .. MaxCost :
       /\ ~Continues(Provider[w.pod], stop, calls)
       /\ Say(w, Charge(t, cost))
  /\ TaskCompletes(w)
  /\ UNCHANGED <<server, outages, boot>>

(* The API answers with an error, or without a choice. *)
ModelFails(w) ==
  /\ InModel(w)
  /\ TaskFails(w)
  /\ UNCHANGED <<server, outages, boot, talk>>

(* A call was made, whichever tool it names: the built-in one, a webhook, the
   tool of an MCP server or none at all. *)
Answered(t) == [t EXCEPT !.left = @ - 1, !.open = @ - 1]

(* Mutant: a call that fails leaves no result behind. *)
ToolReturns_WithoutErrors(w) ==
  /\ InTool(w)
  /\ \/ Say(w, Answered(talk[Key(w)]))
     \/ Say(w, [talk[Key(w)] EXCEPT !.left = @ - 1])
  /\ UNCHANGED <<queueVars, server, outages, boot>>

(* What comes back is a result for the model, an error as well. *)
ToolReturns(w) ==
  /\ InTool(w)
  /\ Say(w, Answered(talk[Key(w)]))
  /\ UNCHANGED <<queueVars, server, outages, boot>>

(* The built-in tool submit_subtask writes to the stream. *)
ToolSubmits(w) ==
  /\ InTool(w) /\ ~talk[Key(w)].expired
  /\ SubmitSubtask(w)
  /\ Say(w, Answered(talk[Key(w)]))
  /\ UNCHANGED <<server, outages, boot>>

(* Mutant: the deadline bounds the tool calls only. *)
DeadlinePasses_InTools(w) ==
  /\ InTool(w) /\ ~talk[Key(w)].expired
  /\ Say(w, [talk[Key(w)] EXCEPT !.expired = TRUE])
  /\ UNCHANGED <<queueVars, server, outages, boot>>

(* AGENT_TIMEOUT_SECONDS have passed: the context of the task is done, and the
   request it is waiting for, to a model or to a tool, fails. *)
DeadlinePasses(w) ==
  /\ w.pc = "running" /\ ~talk[Key(w)].expired
  /\ Say(w, [talk[Key(w)] EXCEPT !.expired = TRUE])
  /\ UNCHANGED <<queueVars, server, outages, boot>>

(* Ack gets the usage RunTask returned.  Nack has no use for it. *)
PublishUsage(w) ==
  /\ \E output \in Outputs : Publish(w, output, talk[Key(w)].usage)
  /\ FollowWork
  /\ UNCHANGED <<server, outages, boot>>

GiveBack(w) == (Requeue(w) \/ DeadLetter(w)) /\ FollowWork /\ UNCHANGED <<server, outages, boot>>
-----------------------------------------------------------------------------
ServerFails(s) ==
  /\ server[s] = "up" /\ outages < MaxOutages
  /\ outages' = outages + 1
  /\ \E outage \in Outages : server' = [server EXCEPT ![s] = outage]
  /\ UNCHANGED <<queueVars, boot, talk>>

ServerRecovers(s) ==
  /\ server[s] # "up"
  /\ server' = [server EXCEPT ![s] = "up"]
  /\ UNCHANGED <<queueVars, outages, boot, talk>>

OtherClient == ClientSubmit /\ UNCHANGED <<server, outages, boot, talk>>

Converse(w) ==
  \/ ModelAsksTools(w) \/ ModelAnswers(w) \/ ModelFails(w)
  \/ ToolReturns(w) \/ ToolSubmits(w) \/ DeadlinePasses(w)
  \/ PublishUsage(w) \/ GiveBack(w)

RuntimeNext ==
  \/ \E p \in Pod : Discover(p) \/ RestartStuck(p) \/ PodStarts(p) \/ PodPolls(p) \/ PodStops(p)
  \/ \E w \in work : Converse(w)
  \/ \E s \in Server : ServerFails(s) \/ ServerRecovers(s)
  \/ OtherClient

(* What a goroutine does by itself.  When a model or a tool answers is up to
   them: only the deadline is sure to come, and what waits for it to fail. *)
Concludes(w) ==
  \/ DeadlinePasses(w)
  \/ talk[Key(w)].expired /\ (ModelFails(w) \/ ToolReturns(w))
  \/ PublishUsage(w) \/ GiveBack(w)

RuntimeFairness ==
  /\ \A p \in Pod : /\ WF_runtimeVars(Discover(p)) /\ WF_runtimeVars(RestartStuck(p))
                    /\ WF_runtimeVars(PodStarts(p))
  /\ WF_runtimeVars(\E p \in Pod : PodPolls(p))
  /\ WF_runtimeVars(\E w \in work : Concludes(w))

RuntimeSpec == RuntimeInit /\ [][RuntimeNext]_runtimeVars /\ RuntimeFairness
-----------------------------------------------------------------------------
(* The runtime implements the agents of TaskQueue: every step is one of theirs,
   and as long as no MCP server hangs for good, the fairness TaskQueue takes for
   granted follows from that of the process: every pod gets to its poll loop,
   and no conversation goes on for ever, whatever models and tools do. *)
NoServerHung == \A s \in Server : server[s] # "hung"
ImplementsQueue ==
  /\ QueueRun
  /\ <>[]NoServerHung => AgentFairness

(* As long as no MCP server hangs for good and no command fails and no pod stops,
   every task submitted is at last answered, retried or dead-lettered. *)
EveryTaskConcludes == <>[]NoServerHung => EveryTaskSettles

(* When the model is asked again, each tool call of its last turn has a result
   in the messages, which the providers' APIs insist on. *)
EveryCallAnswered == \A w \in work : InModel(w) => talk[Key(w)].open = 0

(* The usage in a result is what the provider charged for the conversation it
   ends, all of its turns. *)
UsageIsWhole ==
  [][\A w \in work :
       results' # results /\ w \notin work'
         => results'[Len(results')].tokens = talk[Key(w)].billed]_runtimeVars
=============================================================================
