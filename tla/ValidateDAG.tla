------------------------------ MODULE ValidateDAG ------------------------------
(***************************************************************************)
(* flow.ValidateDAG: is every dependency a step of the flow, and is there  *)
(* no cycle?  The search is depth-first with three colours.  Its recursion *)
(* is the path from a root to the step dfs was last called for, with what  *)
(* is left of the loop over dependsOn of every step.                       *)
(***************************************************************************)
EXTENDS FlowLogic, Sequences

CONSTANT Graphs  \* the dependsOn entries of the flows that may be validated

ASSUME GraphsAssumption == Graphs \subseteq [Step -> SUBSET Nat]

VARIABLES
  deps,     \* the dependsOn entries of this flow
  color,
  path,     \* the steps dfs is at work on, the innermost call last
  todo,     \* of each step, the dependencies its dfs has not looked at
  root,     \* the next step of the loop that starts the searches
  at,       \* names, search, done
  verdict   \* none yet, ok (nil) or which error

searchVars == <<color, path, todo, root>>
dfsVars == <<deps, searchVars, at, verdict>>

DFSInit ==
  /\ deps \in Graphs
  /\ color = [s \in Step |-> "white"]
  /\ path = <<>>
  /\ todo = deps
  /\ root = 1
  /\ at = "names"
  /\ verdict = "none"

DFSTypeOK ==
  /\ deps \in [Step -> SUBSET Nat]
  /\ color \in [Step -> {"white", "gray", "black"}]
  /\ path \in Seq(Step)
  /\ todo \in [Step -> SUBSET Nat]
  /\ root \in 1 .. NumSteps + 1
  /\ at \in {"names", "search", "done"}
  /\ verdict \in {"none", "ok", "unknown", "cycle"}
-----------------------------------------------------------------------------
Return(result) == at' = "done" /\ verdict' = result

CheckNames ==
  /\ at = "names"
  /\ IF Known(deps) THEN at' = "search" /\ UNCHANGED verdict ELSE Return("unknown")
  /\ UNCHANGED <<deps, searchVars>>

(* dfs is called: the step turns gray. *)
Visit(s) == color' = [color EXCEPT ![s] = "gray"] /\ path' = Append(path, s)

NextRoot ==
  /\ at = "search" /\ path = <<>> /\ root <= NumSteps
  /\ IF color[root] = "white" THEN Visit(root) ELSE UNCHANGED <<color, path>>
  /\ root' = root + 1
  /\ UNCHANGED <<deps, todo, at, verdict>>

Top == path[Len(path)]

(* The loop of the innermost call takes d.  In which order it takes them is of
   no account to the verdict. *)
TakeDep(d) ==
  /\ at = "search" /\ path # <<>> /\ d \in todo[Top]
  /\ todo' = [todo EXCEPT ![Top] = @ \ {d}]

(* Mutant: only a step that depends on itself is a cycle. *)
FindCycle_OnlySelf(d) ==
  /\ TakeDep(d)
  /\ color[d] = "gray"
  /\ IF d = Top THEN Return("cycle") ELSE UNCHANGED <<at, verdict>>
  /\ UNCHANGED <<deps, color, path, root>>

FindCycle(d) ==
  /\ TakeDep(d)
  /\ color[d] = "gray"
  /\ Return("cycle")
  /\ UNCHANGED <<deps, color, path, root>>

Descend(d) ==
  /\ TakeDep(d)
  /\ color[d] = "white"
  /\ Visit(d)
  /\ UNCHANGED <<deps, root, at, verdict>>

PassOver(d) ==
  /\ TakeDep(d)
  /\ color[d] = "black"
  /\ UNCHANGED <<deps, color, path, root, at, verdict>>

FinishStep ==
  /\ at = "search" /\ path # <<>> /\ todo[Top] = {}
  /\ color' = [color EXCEPT ![Top] = "black"]
  /\ path' = SubSeq(path, 1, Len(path) - 1)
  /\ UNCHANGED <<deps, todo, root, at, verdict>>

AllVisited ==
  /\ at = "search" /\ path = <<>> /\ root > NumSteps
  /\ Return("ok")
  /\ UNCHANGED <<deps, searchVars>>

DFSNext ==
  \/ CheckNames \/ NextRoot \/ FinishStep \/ AllVisited
  \/ \E d \in Step : FindCycle(d) \/ Descend(d) \/ PassOver(d)

DFSSpec == DFSInit /\ [][DFSNext]_dfsVars /\ WF_dfsVars(DFSNext)
-----------------------------------------------------------------------------
(* The search decides what it is for: a flow is accepted exactly if all its
   dependencies are steps and no set of steps waits for itself. *)
VerdictRight ==
  /\ verdict = "ok" => ValidDAG(deps)
  /\ verdict = "unknown" => ~Known(deps)
  /\ verdict = "cycle" => Known(deps) /\ ~Acyclic(deps)
=============================================================================
