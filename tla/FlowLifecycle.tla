---------------------------- MODULE FlowLifecycle ----------------------------
(***************************************************************************)
(* What an ArkFlow promises to whoever watches its status: no operator, no *)
(* queue and no faults, only the phases.  The operator implements it       *)
(* (ArkFlow!ImplementsLifecycle), and so does the ark CLI                  *)
(* (LocalExecutor!RunsLifecycle).                                          *)
(***************************************************************************)
EXTENDS Integers

CONSTANTS
  Step, DependsOn,
  RunEnds   \* how a step that was seen Running may end

VARIABLES
  phase,  \* Status.Phase
  steps   \* [phase, iter] of every step

vars == <<phase, steps>>

Final == {"Succeeded", "Failed"}
Done == {"Succeeded", "Skipped"}

Init ==
  /\ phase = ""
  /\ steps = [s \in Step |-> [phase |-> "Pending", iter |-> 0]]

(* What may follow a phase within one iteration.  A step is seen Running before
   it is seen Succeeded. *)
Follows(old, new) ==
  \/ new = old
  \/ old = "Pending" /\ new \in {"Running", "Skipped", "Failed"}
  \/ old = "Running" /\ new \in RunEnds

(* A step moves on in its iteration, or is taken to the next one. *)
Moves(old, new) ==
  \/ new.iter = old.iter /\ Follows(old.phase, new.phase)
  \/ /\ new.iter = old.iter + 1
     /\ old.phase \in {"Running", "Succeeded"}
     /\ new.phase # "Succeeded"

(* The step has begun an iteration: it was submitted, skipped or rejected. *)
Begins(old, new) ==
  new.phase # "Pending" /\ (old.phase = "Pending" \/ new.iter > old.iter)

(* One visible change: every step moves or stays, and one that begins an
   iteration finds what it depends on done. *)
StepsMove(old, new) ==
  \A s \in Step :
    /\ Moves(old[s], new[s])
    /\ Begins(old[s], new[s]) => \A d \in DependsOn[s] : new[d].phase \in Done

Advance ==
  /\ phase \notin Final
  /\ steps' \in [Step -> [phase : {"Pending", "Running", "Succeeded", "Failed", "Skipped"},
                          iter : Nat]]
  /\ StepsMove(steps, steps')

Proceed == Advance /\ phase' = "Running"
Succeed == Advance /\ phase' = "Succeeded" /\ \A s \in Step : steps'[s].phase \in Done
Fail == Advance /\ phase' = "Failed"

Next == Proceed \/ Succeed \/ Fail
Spec == Init /\ [][Next]_vars
=============================================================================
