---------------------------- MODULE ArkCLIProofs ----------------------------
(***************************************************************************)
(* Proofs about the ark commands, for any flow and any file: the search of *)
(* ValidateDAG gives the right verdict, the executor of ark run keeps the  *)
(* promise of FlowLifecycle, and the exit code tells the outcome.          *)
(***************************************************************************)
EXTENDS ArkCLI, FlowLogicProofs, FiniteSetTheorems, SequenceTheorems, WellFoundedInduction

(***************************************************************************)
(* ValidateDAG.                                                            *)
(***************************************************************************)
Black == {s \in Step : color[s] = "black"}

(* The gray steps are those on the path, each once. *)
PathIsGray ==
  /\ \A s \in Step : color[s] = "gray" <=> \E i \in 1 .. Len(path) : path[i] = s
  /\ \A i, j \in 1 .. Len(path) : path[i] = path[j] => i = j

(* Each step of the path waits for the next one. *)
PathIsLinked == \A i \in 1 .. Len(path) - 1 : path[i + 1] \in deps[path[i]]

(* A dependency that a call has looked at is finished, or is the call it made. *)
LookedAtDone ==
  \A i \in 1 .. Len(path) : \A d \in deps[path[i]] \ todo[path[i]] :
    \/ color[d] = "black"
    \/ i < Len(path) /\ d = path[i + 1]

(* What is to be looked at is a dependency; a call not made yet has all of them
   before it. *)
TodoLeft ==
  \A s \in Step : todo[s] \subseteq deps[s] /\ (color[s] = "white" => todo[s] = deps[s])

(* The finished steps wait for finished steps only, and for no cycle. *)
BlackClosed == \A s \in Black : deps[s] \subseteq Black
BlackAcyclic == \A S \in (SUBSET Black) \ {{}} : \E s \in S : deps[s] \cap S = {}

RootsVisited == \A s \in Step : s < root => color[s] # "white"

NamesFirst == at = "names" => path = <<>> /\ root = 1

(* What holds until there is a verdict. *)
SearchInv ==
  /\ PathIsGray /\ PathIsLinked /\ LookedAtDone /\ TodoLeft
  /\ BlackClosed /\ BlackAcyclic /\ RootsVisited
  /\ NamesFirst /\ verdict = "none"

DFSInv == DFSTypeOK /\ VerdictRight /\ (at = "search" => Known(deps)) /\ (at # "done" => SearchInv)
-----------------------------------------------------------------------------
(* The search starts with nothing gray or black. *)
LEMMA InitInv == DFSInit => DFSInv
<1> SUFFICES ASSUME DFSInit PROVE DFSInv
  OBVIOUS
<1>1. DFSTypeOK
  BY GraphsAssumption, FlowSpecAssumption DEF DFSInit, DFSTypeOK, Step
<1>2. Black = {}
  BY DEF DFSInit, Black
<1>3. PathIsGray /\ PathIsLinked /\ LookedAtDone
  BY DEF DFSInit, PathIsGray, PathIsLinked, LookedAtDone
<1>4. TodoLeft /\ RootsVisited
  BY GraphsAssumption DEF DFSInit, TodoLeft, RootsVisited, Step
<1>5. BlackClosed /\ BlackAcyclic
  BY <1>2 DEF BlackClosed, BlackAcyclic
<1>6. NamesFirst /\ at = "names"
  BY DEF DFSInit, NamesFirst
<1>7. verdict = "none" /\ verdict # "ok" /\ verdict # "unknown" /\ verdict # "cycle"
  BY DEF DFSInit
<1>8. VerdictRight
  BY <1>7, Zenon DEF VerdictRight
<1> QED BY <1>1, <1>3, <1>4, <1>5, <1>6, <1>7, <1>8 DEF DFSInv, SearchInv

(* The innermost call is a gray step. *)
LEMMA TopIsGray ==
  ASSUME DFSTypeOK, PathIsGray, path # <<>>
  PROVE  Len(path) \in Nat \ {0} /\ Top \in Step /\ color[Top] = "gray"
<1>1. Len(path) \in Nat \ {0}
  BY DEF DFSTypeOK
<1>2. Len(path) \in 1 .. Len(path) /\ path[Len(path)] \in Step
  BY <1>1 DEF DFSTypeOK
<1> QED BY <1>1, <1>2 DEF PathIsGray, Top

(* Every step keeps the types. *)
LEMMA TypePreserved == DFSTypeOK /\ [DFSNext]_dfsVars => DFSTypeOK'
<1> SUFFICES ASSUME DFSTypeOK, [DFSNext]_dfsVars PROVE DFSTypeOK'
  OBVIOUS
<1>1. CASE CheckNames
  BY <1>1 DEF CheckNames, DFSTypeOK, Return, searchVars
<1>2. CASE NextRoot
  <2>1. root \in Step /\ root + 1 \in 1 .. NumSteps + 1
    BY <1>2, FlowSpecAssumption DEF NextRoot, DFSTypeOK, Step
  <2>2. CASE color[root] = "white"
    <3>0. Visit(root)
      BY <1>2, <2>2 DEF NextRoot
    <3>1. color' \in [Step -> {"white", "gray", "black"}]
      BY <3>0, <2>1 DEF Visit, DFSTypeOK
    <3>2. path' \in Seq(Step)
      BY <3>0, <2>1 DEF Visit, DFSTypeOK
    <3> QED BY <1>2, <2>1, <3>1, <3>2 DEF NextRoot, DFSTypeOK
  <2>3. CASE color[root] # "white"
    BY <1>2, <2>1, <2>3 DEF NextRoot, DFSTypeOK
  <2> QED BY <2>2, <2>3
<1>3. CASE FinishStep
  <2>1. Len(path) \in Nat \ {0}
    BY <1>3 DEF FinishStep, DFSTypeOK
  <2>2. SubSeq(path, 1, Len(path) - 1) \in Seq(Step)
    BY <2>1 DEF DFSTypeOK
  <2> QED BY <1>3, <2>2 DEF FinishStep, DFSTypeOK
<1>4. CASE AllVisited
  BY <1>4 DEF AllVisited, Return, DFSTypeOK, searchVars
<1>5. ASSUME NEW d \in Step, FindCycle(d) \/ Descend(d) \/ PassOver(d) PROVE DFSTypeOK'
  <2>1. todo' \in [Step -> SUBSET Nat]
    BY <1>5 DEF FindCycle, Descend, PassOver, TakeDep, DFSTypeOK
  <2>2. CASE Descend(d)
    <3>1. color' \in [Step -> {"white", "gray", "black"}]
      BY <2>2 DEF Descend, Visit, DFSTypeOK
    <3>2. path' \in Seq(Step)
      BY <2>2 DEF Descend, Visit, DFSTypeOK
    <3> QED BY <2>1, <2>2, <3>1, <3>2 DEF Descend, DFSTypeOK
  <2>3. CASE FindCycle(d) \/ PassOver(d)
    BY <2>1, <2>3 DEF FindCycle, PassOver, Return, DFSTypeOK
  <2> QED BY <1>5, <2>2, <2>3
<1>6. CASE UNCHANGED dfsVars
  BY <1>6 DEF dfsVars, searchVars, DFSTypeOK
<1> QED BY <1>1, <1>2, <1>3, <1>4, <1>5, <1>6 DEF DFSNext
-----------------------------------------------------------------------------
(* What calling dfs on a white step s does to path and colours, when the call is
   made by the innermost one, if there is one. *)
LEMMA VisitPreserves ==
  ASSUME DFSTypeOK, DFSTypeOK', SearchInv, NEW s \in Step, Visit(s), color[s] = "white",
         Known(deps), UNCHANGED deps,
         \/ path = <<>> /\ UNCHANGED todo
         \/ path # <<>> /\ s \in todo[Top] /\ todo' = [todo EXCEPT ![Top] = @ \ {s}]
  PROVE  /\ PathIsGray' /\ PathIsLinked' /\ LookedAtDone' /\ TodoLeft'
         /\ BlackClosed' /\ BlackAcyclic'
<1> DEFINE n == Len(path)
<1>1. n \in Nat /\ (path = <<>> <=> n = 0)
  BY DEF DFSTypeOK
<1>2. Len(path') = n + 1 /\ path'[n + 1] = s /\ \A i \in 1 .. n : path'[i] = path[i]
  BY DEF Visit, DFSTypeOK
<1>3. \A t \in Step : color'[t] = IF t = s THEN "gray" ELSE color[t]
  BY DEF Visit, DFSTypeOK
<1>4. \A i \in 1 .. n : path[i] \in Step /\ path[i] # s /\ color[path[i]] = "gray"
  BY <1>1 DEF SearchInv, PathIsGray, DFSTypeOK
<1>5. PathIsGray'
  <2>1. \A i, j \in 1 .. n + 1 : path'[i] = path'[j] => i = j
    BY <1>1, <1>2, <1>4 DEF SearchInv, PathIsGray
  <2>2. \A t \in Step : color'[t] = "gray" => \E i \in 1 .. n + 1 : path'[i] = t
    BY <1>1, <1>2, <1>3 DEF SearchInv, PathIsGray
  <2>3. \A t \in Step : (\E i \in 1 .. n + 1 : path'[i] = t) => color'[t] = "gray"
    BY <1>1, <1>2, <1>3, <1>4
  <2> QED BY <1>2, <2>1, <2>2, <2>3 DEF PathIsGray
<1>6. n > 0 => Top = path[n] /\ Top \in Step
  BY <1>1, <1>4 DEF Top
<1>7. \A t \in Step : n > 0 /\ t # Top => todo'[t] = todo[t]
  BY <1>1 DEF DFSTypeOK
<1>8. n > 0 => s \in todo[Top] /\ todo'[Top] = todo[Top] \ {s}
  BY <1>1, <1>6 DEF DFSTypeOK
<1>9. PathIsLinked'
  <2>1. n > 0 => s \in deps[path[n]]
    BY <1>6, <1>8 DEF SearchInv, TodoLeft
  <2>2. ASSUME NEW i \in 1 .. n PROVE path'[i + 1] \in deps[path'[i]]
    <3>1. CASE i = n
      BY <1>1, <1>2, <2>1, <3>1
    <3>2. CASE i < n
      <4>1. i \in 1 .. n - 1 /\ i + 1 \in 1 .. n
        BY <1>1, <3>2
      <4>2. path[i + 1] \in deps[path[i]]
        BY <4>1 DEF SearchInv, PathIsLinked
      <4> QED BY <1>2, <4>1, <4>2
    <3> QED BY <1>1, <3>1, <3>2
  <2> QED BY <1>1, <1>2, <2>2 DEF PathIsLinked
<1>10. TodoLeft'
  <2>1. \A t \in Step : todo'[t] \subseteq todo[t]
    BY <1>1, <1>6, <1>7, <1>8 DEF DFSTypeOK
  <2>2. \A t \in Step : color'[t] = "white" => color[t] = "white" /\ todo'[t] = todo[t]
    BY <1>1, <1>3, <1>4, <1>6, <1>7
  <2> QED BY <2>1, <2>2 DEF SearchInv, TodoLeft
<1>11. LookedAtDone'
  <2> SUFFICES ASSUME NEW i \in 1 .. n + 1, NEW d \in deps[path'[i]] \ todo'[path'[i]]
               PROVE  color'[d] = "black" \/ (i < n + 1 /\ d = path'[i + 1])
    BY <1>2 DEF LookedAtDone
  <2>1. CASE i = n + 1
    <3>1. todo[s] = deps[s]
      BY DEF SearchInv, TodoLeft
    <3>2. todo'[s] = todo[s]
      BY <1>1, <1>4, <1>6, <1>7
    <3> QED BY <1>2, <2>1, <3>1, <3>2
  <2>2. CASE i \in 1 .. n /\ d \in deps[path[i]] \ todo[path[i]]
    <3>1. color[d] = "black" \/ (i < n /\ d = path[i + 1])
      BY <2>2 DEF SearchInv, LookedAtDone
    <3>2. d \in Step
      BY <1>4, <2>2 DEF Known
    <3> QED BY <1>1, <1>2, <1>3, <2>2, <3>1, <3>2
  <2>3. CASE i \in 1 .. n /\ d \notin deps[path[i]] \ todo[path[i]]
    <3>1. d = s /\ path[i] = Top
      BY <1>1, <1>2, <1>4, <1>6, <1>7, <1>8, <2>3
    <3>2. i = n
      BY <1>1, <1>6, <2>3, <3>1 DEF SearchInv, PathIsGray
    <3> QED BY <1>1, <1>2, <3>1, <3>2
  <2> QED BY <1>1, <1>2, <2>1, <2>2, <2>3
<1>12. Black' = Black
  BY <1>3 DEF Black
<1>13. BlackClosed' /\ BlackAcyclic'
  BY <1>12 DEF SearchInv, BlackClosed, BlackAcyclic
<1> QED BY <1>5, <1>9, <1>10, <1>11, <1>13

(* A dependency that is finished is passed over. *)
LEMMA PassOverPreserves ==
  ASSUME DFSTypeOK, DFSTypeOK', SearchInv, NEW d \in Step, PassOver(d)
  PROVE  SearchInv'
<1>1. Top \in Step /\ Len(path) \in Nat \ {0} /\ color[Top] = "gray"
  BY TopIsGray DEF PassOver, TakeDep, SearchInv
<1>2. UNCHANGED <<deps, color, path, root, at, verdict>> /\ color[d] = "black" /\ at = "search"
  BY DEF PassOver, TakeDep
<1>3. \A t \in Step : todo'[t] = IF t = Top THEN todo[t] \ {d} ELSE todo[t]
  BY <1>1 DEF PassOver, TakeDep, DFSTypeOK
<1>4. PathIsGray' /\ PathIsLinked' /\ RootsVisited' /\ NamesFirst' /\ verdict' = "none"
  BY <1>2 DEF SearchInv, PathIsGray, PathIsLinked, RootsVisited, NamesFirst
<1>5. Black' = Black
  BY <1>2 DEF Black
<1>6. BlackClosed' /\ BlackAcyclic'
  BY <1>2, <1>5 DEF SearchInv, BlackClosed, BlackAcyclic
<1>7. TodoLeft'
  <2>1. \A t \in Step : todo'[t] \subseteq todo[t]
    BY <1>3
  <2>2. \A t \in Step : color[t] = "white" => todo'[t] = todo[t]
    BY <1>1, <1>3
  <2> QED BY <1>2, <2>1, <2>2 DEF SearchInv, TodoLeft
<1>8. LookedAtDone'
  <2> SUFFICES ASSUME NEW i \in 1 .. Len(path), NEW e \in deps[path[i]] \ todo'[path[i]]
               PROVE  color[e] = "black" \/ (i < Len(path) /\ e = path[i + 1])
    BY <1>2 DEF LookedAtDone
  <2>1. path[i] \in Step
    BY DEF DFSTypeOK
  <2>2. e = d \/ e \in deps[path[i]] \ todo[path[i]]
    BY <1>3, <2>1
  <2> QED BY <1>2, <2>2 DEF SearchInv, LookedAtDone
<1> QED BY <1>4, <1>6, <1>7, <1>8 DEF SearchInv

(* A path without its last step. *)
LEMMA FrontProperties ==
  ASSUME NEW S, NEW q \in Seq(S), NEW n \in Nat \ {0}, n = Len(q)
  PROVE  LET front == SubSeq(q, 1, n - 1)
         IN Len(front) = n - 1 /\ \A i \in 1 .. n - 1 : front[i] = q[i]
<1> DEFINE front == SubSeq(q, 1, n - 1)
<1>1. \A i \in 1 .. n - 1 : q[i] \in S
  OBVIOUS
<1>2. 1 \in Int /\ n - 1 \in Int
  OBVIOUS
<1>3. /\ Len(front) = IF 1 <= n - 1 THEN n - 1 - 1 + 1 ELSE 0
      /\ \A i \in 1 .. n - 1 - 1 + 1 : front[i] = q[1 + i - 1]
  BY <1>1, <1>2, SubSeqProperties
<1> HIDE DEF front
<1>4. Len(front) = n - 1
  BY <1>3
<1>5. ASSUME NEW i \in 1 .. n - 1 PROVE front[i] = q[i]
  <2>1. i \in 1 .. n - 1 - 1 + 1 /\ 1 + i - 1 = i
    OBVIOUS
  <2>2. front[i] = q[1 + i - 1]
    BY <1>3, <2>1
  <2> QED BY <2>1, <2>2
<1> QED BY <1>4, <1>5 DEF front

(* The innermost call returns: its step has finished steps before it only. *)
LEMMA FinishPreserves ==
  ASSUME DFSTypeOK, DFSTypeOK', SearchInv, Known(deps), FinishStep
  PROVE  SearchInv'
<1> DEFINE n == Len(path)
<1>1. Top \in Step /\ n \in Nat \ {0} /\ color[Top] = "gray" /\ Top = path[n]
  BY TopIsGray DEF FinishStep, SearchInv, Top
<1>2. UNCHANGED <<deps, todo, root, at, verdict>> /\ at = "search" /\ todo[Top] = {}
  BY DEF FinishStep
<1>3. Len(path') = n - 1 /\ \A i \in 1 .. n - 1 : path'[i] = path[i]
  <2>1. path \in Seq(Step) /\ path' = SubSeq(path, 1, n - 1)
    BY DEF FinishStep, DFSTypeOK
  <2>2. n \in Nat \ {0} /\ n = Len(path)
    BY <1>1
  <2> HIDE DEF n
  <2> QED BY <2>1, <2>2, FrontProperties
<1>4. \A t \in Step : color'[t] = IF t = Top THEN "black" ELSE color[t]
  BY <1>1 DEF FinishStep, DFSTypeOK
<1>5. \A i \in 1 .. n - 1 : i \in 1 .. n /\ path[i] \in Step /\ path[i] # Top
  BY <1>1 DEF SearchInv, PathIsGray, DFSTypeOK
<1>6. PathIsGray'
  <2>1. \A i, j \in 1 .. n - 1 : path'[i] = path'[j] => i = j
    BY <1>1, <1>3, <1>5 DEF SearchInv, PathIsGray
  <2>2. ASSUME NEW t \in Step, color'[t] = "gray" PROVE \E i \in 1 .. n - 1 : path'[i] = t
    <3>1. t # Top /\ color[t] = "gray"
      BY <1>4, <2>2
    <3>2. PICK i \in 1 .. n : path[i] = t
      BY <3>1 DEF SearchInv, PathIsGray
    <3>3. i \in 1 .. n - 1
      BY <1>1, <3>1, <3>2
    <3> QED BY <1>3, <3>2, <3>3
  <2>3. ASSUME NEW t \in Step, NEW i \in 1 .. n - 1, path'[i] = t PROVE color'[t] = "gray"
    <3>1. t = path[i] /\ t # Top
      BY <1>3, <1>5, <2>3
    <3>2. color[t] = "gray"
      BY <1>5, <3>1 DEF SearchInv, PathIsGray
    <3> QED BY <1>4, <3>1, <3>2
  <2> QED BY <1>3, <2>1, <2>2, <2>3 DEF PathIsGray
<1>7. PathIsLinked'
  <2> SUFFICES ASSUME NEW i \in 1 .. n - 2 PROVE path'[i + 1] \in deps[path'[i]]
    BY <1>1, <1>2, <1>3 DEF PathIsLinked
  <2>1. i \in 1 .. n - 1 /\ i + 1 \in 1 .. n - 1
    BY <1>1
  <2> QED BY <1>3, <2>1 DEF SearchInv, PathIsLinked
<1>8. \A d \in deps[Top] : color[d] = "black"
  <2>1. \A d \in deps[Top] \ todo[Top] : color[d] = "black" \/ n < n
    BY <1>1 DEF SearchInv, LookedAtDone
  <2> QED BY <1>1, <1>2, <2>1
<1>9. LookedAtDone'
  <2> SUFFICES ASSUME NEW i \in 1 .. n - 1, NEW d \in deps[path[i]] \ todo[path[i]]
               PROVE  color'[d] = "black" \/ (i < n - 1 /\ d = path'[i + 1])
    BY <1>2, <1>3 DEF LookedAtDone
  <2>1. color[d] = "black" \/ (i < n /\ d = path[i + 1])
    BY <1>5 DEF SearchInv, LookedAtDone
  <2>2. d \in Step
    BY <1>5 DEF Known
  <2>3. CASE color[d] = "black"
    BY <1>4, <2>2, <2>3
  <2>4. CASE i < n /\ d = path[i + 1]
    <3>1. CASE i + 1 = n
      BY <1>1, <1>4, <2>4, <3>1
    <3>2. CASE i + 1 \in 1 .. n - 1
      BY <1>1, <1>3, <2>4, <3>2
    <3> QED BY <1>1, <3>1, <3>2
  <2> QED BY <2>1, <2>3, <2>4
<1>10. TodoLeft'
  BY <1>1, <1>2, <1>4 DEF SearchInv, TodoLeft
<1>11. Black' = Black \cup {Top} /\ Top \notin Black /\ deps[Top] \subseteq Black
  BY <1>1, <1>4, <1>8 DEF Black, Known
<1>12. BlackClosed'
  BY <1>2, <1>11 DEF SearchInv, BlackClosed
<1>13. BlackAcyclic'
  <2> SUFFICES ASSUME NEW S \in SUBSET (Black \cup {Top}), S # {}
               PROVE  \E s \in S : deps[s] \cap S = {}
    BY <1>2, <1>11 DEF BlackAcyclic
  <2> DEFINE T == S \ {Top}
  <2>1. CASE T = {}
    BY <1>11, <2>1
  <2>2. CASE T # {}
    <3>1. PICK s \in T : deps[s] \cap T = {}
      BY <2>2 DEF SearchInv, BlackAcyclic
    <3>2. deps[s] \subseteq Black
      BY DEF SearchInv, BlackClosed
    <3>3. deps[s] \cap S = {}
      BY <1>11, <3>1, <3>2
    <3> QED BY <3>3
  <2> QED BY <2>1, <2>2
<1>14. RootsVisited' /\ NamesFirst' /\ verdict' = "none"
  BY <1>2, <1>4 DEF SearchInv, RootsVisited, NamesFirst
<1> QED BY <1>6, <1>7, <1>9, <1>10, <1>12, <1>13, <1>14 DEF SearchInv

(* A gray dependency closes a cycle: the steps from it to the end of the path
   each have a dependency among them. *)
LEMMA CycleIsReal ==
  ASSUME DFSTypeOK, SearchInv, NEW d \in Step, FindCycle(d)
  PROVE  ~Acyclic(deps)
<1> DEFINE n == Len(path)
<1>1. Top \in Step /\ n \in Nat \ {0} /\ Top = path[n]
  BY TopIsGray DEF FindCycle, TakeDep, SearchInv, Top
<1>2. d \in deps[Top]
  BY <1>1 DEF FindCycle, TakeDep, SearchInv, TodoLeft
<1>3. PICK k \in 1 .. n : path[k] = d
  BY DEF FindCycle, SearchInv, PathIsGray
<1> DEFINE S == {path[i] : i \in k .. n}
<1>4. S \in SUBSET Step /\ d \in S
  BY <1>1, <1>3 DEF DFSTypeOK
<1>5. ASSUME NEW s \in S PROVE deps[s] \cap S # {}
  <2>1. PICK i \in k .. n : s = path[i]
    OBVIOUS
  <2>2. CASE i = n
    BY <1>1, <1>2, <1>4, <2>1, <2>2
  <2>3. CASE i < n
    <3>1. i \in 1 .. n - 1 /\ i + 1 \in k .. n
      BY <1>1, <2>3
    <3>2. path[i + 1] \in deps[s] /\ path[i + 1] \in S
      BY <2>1, <3>1 DEF SearchInv, PathIsLinked
    <3> QED BY <3>2
  <2> QED BY <1>1, <2>2, <2>3
<1>6. S \in (SUBSET Step) \ {{}} /\ ~\E s \in S : deps[s] \cap S = {}
  BY <1>4, <1>5
<1> QED BY <1>6 DEF Acyclic
-----------------------------------------------------------------------------
(* Every step keeps the invariant. *)
LEMMA StepPreserves == DFSInv /\ [DFSNext]_dfsVars => DFSInv'
<1> SUFFICES ASSUME DFSInv, [DFSNext]_dfsVars PROVE DFSInv'
  OBVIOUS
<1>0. DFSTypeOK /\ DFSTypeOK'
  BY TypePreserved DEF DFSInv
<1> DEFINE Searching == at = "search" /\ SearchInv /\ Known(deps) /\ VerdictRight
<1>1. ASSUME Searching, SearchInv', UNCHANGED <<deps, at, verdict>> PROVE DFSInv'
  BY <1>0, <1>1 DEF DFSInv, VerdictRight
<1>2. CASE CheckNames
  <2>1. UNCHANGED <<deps, searchVars>> /\ SearchInv
    BY <1>2 DEF CheckNames, DFSInv
  <2>2. CASE Known(deps)
    <3>1. at' = "search" /\ verdict' = "none" /\ verdict = "none"
      BY <1>2, <2>1, <2>2 DEF CheckNames, SearchInv
    <3>2. SearchInv'
      BY <2>1, <3>1 DEF searchVars, SearchInv, PathIsGray, PathIsLinked, LookedAtDone, TodoLeft,
                        BlackClosed, BlackAcyclic, Black, RootsVisited, NamesFirst
    <3>3. VerdictRight'
      BY <3>1 DEF VerdictRight
    <3> QED BY <1>0, <2>1, <2>2, <3>1, <3>2, <3>3 DEF DFSInv
  <2>3. CASE ~Known(deps)
    <3>1. at' = "done" /\ verdict' = "unknown"
      BY <1>2, <2>3 DEF CheckNames, Return
    <3>2. VerdictRight'
      BY <2>1, <2>3, <3>1 DEF VerdictRight
    <3> QED BY <1>0, <3>1, <3>2 DEF DFSInv
  <2> QED BY <2>2, <2>3
<1>3. CASE NextRoot
  <2>1. Searching /\ UNCHANGED <<deps, todo, at, verdict>> /\ root' = root + 1 /\ path = <<>>
    BY <1>3 DEF NextRoot, DFSInv
  <2>2. root \in Step
    BY <1>0, <1>3, FlowSpecAssumption DEF NextRoot, DFSTypeOK, Step
  <2>3. CASE color[root] = "white"
    <3>1. Visit(root)
      BY <1>3, <2>3 DEF NextRoot
    <3>2. /\ PathIsGray' /\ PathIsLinked' /\ LookedAtDone' /\ TodoLeft'
          /\ BlackClosed' /\ BlackAcyclic'
      BY <1>0, <2>1, <2>2, <2>3, <3>1, VisitPreserves
    <3>3. RootsVisited'
      <4>1. \A t \in Step : color'[t] = IF t = root THEN "gray" ELSE color[t]
        BY <1>0, <2>2, <3>1 DEF Visit, DFSTypeOK
      <4>2. \A t \in Step : t < root' => t < root \/ t = root
        BY <2>1, <2>2 DEF Step
      <4> QED BY <2>1, <4>1, <4>2 DEF SearchInv, RootsVisited
    <3>4. NamesFirst' /\ verdict' = "none"
      BY <2>1 DEF SearchInv, NamesFirst
    <3>5. SearchInv'
      BY <3>2, <3>3, <3>4 DEF SearchInv
    <3> QED BY <1>1, <2>1, <3>5
  <2>4. CASE color[root] # "white"
    <3>1. UNCHANGED <<color, path>>
      BY <1>3, <2>4 DEF NextRoot
    <3>2. \A t \in Step : t < root' => t < root \/ t = root
      BY <2>1, <2>2 DEF Step
    <3>3. RootsVisited'
      BY <2>1, <2>4, <3>1, <3>2 DEF SearchInv, RootsVisited
    <3>4. SearchInv'
      BY <2>1, <3>1, <3>3 DEF SearchInv, PathIsGray, PathIsLinked, LookedAtDone, TodoLeft,
                              BlackClosed, BlackAcyclic, Black, NamesFirst
    <3> QED BY <1>1, <2>1, <3>4
  <2> QED BY <2>3, <2>4
<1>4. CASE FinishStep
  <2>1. Searching /\ UNCHANGED <<deps, at, verdict>>
    BY <1>4 DEF FinishStep, DFSInv
  <2>2. SearchInv'
    BY <1>0, <1>4, <2>1, FinishPreserves
  <2> QED BY <1>1, <2>1, <2>2
<1>5. CASE AllVisited
  <2>1. Searching /\ UNCHANGED <<deps, searchVars>> /\ path = <<>> /\ root > NumSteps
    BY <1>5 DEF AllVisited, DFSInv
  <2>2. at' = "done" /\ verdict' = "ok"
    BY <1>5 DEF AllVisited, Return
  <2>3. \A s \in Step : s < root
    BY <1>0, <2>1, FlowSpecAssumption DEF DFSTypeOK, Step
  <2>4. \A s \in Step : color[s] # "white" /\ color[s] # "gray"
    BY <2>1, <2>3 DEF SearchInv, RootsVisited, PathIsGray
  <2>5. Black = Step
    BY <1>0, <2>4 DEF Black, DFSTypeOK
  <2>6. ValidDAG(deps)
    BY <2>1, <2>5 DEF SearchInv, BlackAcyclic, ValidDAG, Acyclic
  <2>7. VerdictRight'
    BY <2>1, <2>2, <2>6 DEF VerdictRight
  <2> QED BY <1>0, <2>2, <2>7 DEF DFSInv
<1>6. ASSUME NEW d \in Step, FindCycle(d) PROVE DFSInv'
  <2>1. Searching /\ UNCHANGED deps
    BY <1>6 DEF FindCycle, TakeDep, DFSInv
  <2>2. at' = "done" /\ verdict' = "cycle"
    BY <1>6 DEF FindCycle, Return
  <2>3. ~Acyclic(deps)
    BY <1>0, <1>6, <2>1, CycleIsReal
  <2>4. VerdictRight'
    BY <2>1, <2>2, <2>3 DEF VerdictRight
  <2> QED BY <1>0, <2>2, <2>4 DEF DFSInv
<1>7. ASSUME NEW d \in Step, Descend(d) PROVE DFSInv'
  <2>1. Searching /\ UNCHANGED <<deps, root, at, verdict>>
    BY <1>7 DEF Descend, TakeDep, DFSInv
  <2>2. /\ Visit(d) /\ color[d] = "white"
        /\ path # <<>> /\ d \in todo[Top] /\ todo' = [todo EXCEPT ![Top] = @ \ {d}]
    BY <1>7 DEF Descend, TakeDep
  <2>3. /\ PathIsGray' /\ PathIsLinked' /\ LookedAtDone' /\ TodoLeft'
        /\ BlackClosed' /\ BlackAcyclic'
    BY <1>0, <2>1, <2>2, VisitPreserves
  <2>4. RootsVisited'
    <3>1. \A t \in Step : color'[t] = IF t = d THEN "gray" ELSE color[t]
      BY <1>0, <2>2 DEF Visit, DFSTypeOK
    <3> QED BY <2>1, <3>1 DEF SearchInv, RootsVisited
  <2>5. SearchInv'
    BY <2>1, <2>3, <2>4 DEF SearchInv, NamesFirst
  <2> QED BY <1>1, <2>1, <2>5
<1>8. ASSUME NEW d \in Step, PassOver(d) PROVE DFSInv'
  <2>1. Searching /\ UNCHANGED <<deps, at, verdict>>
    BY <1>8 DEF PassOver, TakeDep, DFSInv
  <2>2. SearchInv'
    BY <1>0, <1>8, <2>1, PassOverPreserves
  <2> QED BY <1>1, <2>1, <2>2
<1>9. CASE UNCHANGED dfsVars
  BY <1>0, <1>9 DEF dfsVars, searchVars, DFSInv, SearchInv, VerdictRight, PathIsGray, PathIsLinked,
                    LookedAtDone, TodoLeft, BlackClosed, BlackAcyclic, Black, RootsVisited,
                    NamesFirst
<1> QED BY <1>2, <1>3, <1>4, <1>5, <1>6, <1>7, <1>8, <1>9 DEF DFSNext

(* Whatever the graph, the verdict of the search is right: ValidateDAG accepts
   exactly the flows whose dependencies are steps and have no cycle. *)
THEOREM VerdictAlwaysRight == DFSSpec => []VerdictRight
<1>1. DFSInv => VerdictRight
  BY DEF DFSInv
<1> QED BY InitInv, StepPreserves, <1>1, PTL DEF DFSSpec

(* What is left of a search: dependencies to look at, steps to finish and roots to
   try. *)
Unlooked == {e \in Step \X Step : e[2] \in todo[e[1]]}
Unfinished == {s \in Step : color[s] # "black"}
LeftToDo == Cardinality(Unlooked) + Cardinality(Unfinished) + (NumSteps + 1 - root)

(* The search does not go round: whatever the graph, each step of it gives the
   verdict or leaves less to do, so it is over after at most as many steps. *)
SearchAdvances == [][at = "search" => at' = "done" \/ LeftToDo' < LeftToDo]_dfsVars

(* What is left to do is a number, of any path and colours. *)
LEMMA StepIsFinite == IsFiniteSet(Step) /\ IsFiniteSet(Step \X Step)
<1>1. NumSteps \in Nat
  BY FlowSpecAssumption
<1>2. IsFiniteSet(1 .. NumSteps)
  BY <1>1, FS_Interval
<1>3. IsFiniteSet(Step)
  BY <1>2 DEF Step
<1> QED BY <1>3, FS_Product

LEMMA PartsAreNumbers ==
  ASSUME NEW U \in SUBSET (Step \X Step), NEW V \in SUBSET Step, NEW n \in 1 .. NumSteps + 1
  PROVE  /\ IsFiniteSet(U) /\ Cardinality(U) \in Nat
         /\ IsFiniteSet(V) /\ Cardinality(V) \in Nat
         /\ NumSteps + 1 - n \in Nat
<1>1. IsFiniteSet(U) /\ IsFiniteSet(V)
  BY StepIsFinite, FS_Subset
<1>2. NumSteps + 1 - n \in Nat
  BY FlowSpecAssumption
<1> QED BY <1>1, <1>2, FS_CardinalityType

LEMMA OneLess ==
  ASSUME NEW S, IsFiniteSet(S), NEW x \in S
  PROVE  Cardinality(S \ {x}) < Cardinality(S)
<1>1. Cardinality(S \ {x}) = Cardinality(S) - 1
  BY FS_RemoveElement
<1>2. Cardinality(S) \in Nat
  BY FS_CardinalityType
<1> QED BY <1>1, <1>2

(* Each step of the search takes something off one of the three parts and adds
   nothing to the others. *)
LEMMA StepLeavesLess ==
  ASSUME DFSInv, DFSInv', DFSNext, at = "search"
  PROVE  at' = "done" \/ LeftToDo' < LeftToDo
<1>0. DFSTypeOK /\ DFSTypeOK' /\ PathIsGray
  BY DEF DFSInv, SearchInv
<1> DEFINE Left1 == Cardinality(Unlooked)
           Left2 == Cardinality(Unfinished)
           Left3 == NumSteps + 1 - root
<1>1. /\ IsFiniteSet(Unlooked) /\ Left1 \in Nat
      /\ IsFiniteSet(Unfinished) /\ Left2 \in Nat
      /\ Left3 \in Nat
  <2>1. Unlooked \in SUBSET (Step \X Step) /\ Unfinished \in SUBSET Step
    BY DEF Unlooked, Unfinished
  <2>2. root \in 1 .. NumSteps + 1
    BY <1>0 DEF DFSTypeOK
  <2> QED BY <2>1, <2>2, PartsAreNumbers
<1>2. Left1' \in Nat /\ Left2' \in Nat /\ Left3' \in Nat
  <2>1. Unlooked' \in SUBSET (Step \X Step) /\ Unfinished' \in SUBSET Step
    BY DEF Unlooked, Unfinished
  <2>2. root' \in 1 .. NumSteps + 1
    BY <1>0 DEF DFSTypeOK
  <2> QED BY <2>1, <2>2, PartsAreNumbers
<1>3. CASE CheckNames \/ AllVisited
  BY <1>3 DEF CheckNames, AllVisited, Return
<1>4. CASE NextRoot
  <2>1. Unlooked' = Unlooked
    BY <1>4 DEF NextRoot, Unlooked
  <2>2. Unfinished' = Unfinished
    BY <1>4, <1>0 DEF NextRoot, Visit, Unfinished, DFSTypeOK
  <2>3. Left3' < Left3
    BY <1>4, <1>0, FlowSpecAssumption DEF NextRoot, DFSTypeOK
  <2> QED BY <1>1, <1>2, <2>1, <2>2, <2>3 DEF LeftToDo
<1>5. CASE FinishStep
  <2>1. Unlooked' = Unlooked /\ Left3' = Left3
    BY <1>5 DEF FinishStep, Unlooked
  <2>2. Top \in Unfinished
    BY <1>5, <1>0, TopIsGray DEF FinishStep, Unfinished
  <2>3. Unfinished' = Unfinished \ {Top}
    BY <1>5, <1>0 DEF FinishStep, Unfinished, DFSTypeOK
  <2>4. Left2' < Left2
    BY <2>2, <2>3, <1>1, OneLess
  <2> QED BY <1>1, <1>2, <2>1, <2>4 DEF LeftToDo
<1>6. ASSUME NEW d \in Step, Descend(d) \/ PassOver(d) PROVE LeftToDo' < LeftToDo
  <2>1. TakeDep(d) /\ Left3' = Left3
    BY <1>6 DEF Descend, PassOver
  <2>2. Unfinished' = Unfinished
    BY <1>6, <1>0 DEF Descend, PassOver, Visit, Unfinished, DFSTypeOK
  <2>3. Top \in Step /\ d \in todo[Top] /\ todo' = [todo EXCEPT ![Top] = @ \ {d}]
    BY <2>1, <1>0, TopIsGray DEF TakeDep
  <2>4. Unlooked' = Unlooked \ {<<Top, d>>} /\ <<Top, d>> \in Unlooked
    BY <2>3, <1>0 DEF Unlooked, DFSTypeOK
  <2>5. Left1' < Left1
    BY <2>4, <1>1, OneLess
  <2> QED BY <1>1, <1>2, <2>1, <2>2, <2>5 DEF LeftToDo
<1>7. ASSUME NEW d \in Step, FindCycle(d) PROVE at' = "done"
  BY <1>7 DEF FindCycle, Return
<1> QED BY <1>3, <1>4, <1>5, <1>6, <1>7 DEF DFSNext

(***************************************************************************)
(* The executor.                                                           *)
(***************************************************************************)

(* The results that are not in yet are those of the Running steps. *)
RunningAwaited ==
  /\ pc = "collect" => \A s \in Step : s \in running <=> f.steps[s].phase = "Running"
  /\ pc \in {"batch", "returned"} => \A s \in Step : f.steps[s].phase # "Running"

PhaseOfRun ==
  /\ pc = "load" => f = NewStatus
  /\ pc # "load" => f.phase # ""
  /\ pc \in {"collect", "crashed"} => f.phase = "Running"

LocalInv ==
  /\ LocalTypeOK /\ RunningAwaited /\ PhaseOfRun
  /\ f.phase = "Succeeded" => AllDone(f) /\ ~OverBudget(f)

(* The relation of FlowLifecycle, spelled out for two statuses. *)
Begun(g, h, s) ==
  h.steps[s].phase # "Pending" /\ (g.steps[s].phase = "Pending" \/ h.steps[s].iter > g.steps[s].iter)
StepMoves(g, h, s) ==
  /\ \/ /\ h.steps[s].iter = g.steps[s].iter
        /\ \/ h.steps[s].phase = g.steps[s].phase
           \/ g.steps[s].phase = "Pending" /\ h.steps[s].phase \in {"Running", "Skipped", "Failed"}
           \/ g.steps[s].phase = "Running" /\ h.steps[s].phase \in {"Succeeded", "Failed"}
     \/ /\ h.steps[s].iter = g.steps[s].iter + 1
        /\ g.steps[s].phase \in {"Running", "Succeeded"}
        /\ h.steps[s].phase # "Succeeded"
  /\ Begun(g, h, s) => DepsSucceeded(h, s)

LEMMA SetPhaseKeeps ==
  ASSUME NEW g \in Status, NEW S, NEW phase \in StepPhase
  PROVE  LET h == SetPhase(g, S, phase) IN
         /\ h \in Status /\ h.phase = g.phase
         /\ \A s \in Step : /\ h.steps[s].phase = IF s \in S THEN phase ELSE g.steps[s].phase
                            /\ h.steps[s].iter = g.steps[s].iter
<1> DEFINE steps == [s \in Step |-> IF s \in S THEN [g.steps[s] EXCEPT !.phase = phase] ELSE g.steps[s]]
<1>1. ASSUME NEW s \in Step
      PROVE  /\ steps[s] \in StepStatus
             /\ steps[s].phase = IF s \in S THEN phase ELSE g.steps[s].phase
             /\ steps[s].iter = g.steps[s].iter
  <2>1. g.steps[s] \in StepStatus
    BY DEF Status
  <2> QED BY <2>1 DEF StepStatus
<1>2. SetPhase(g, S, phase) = [g EXCEPT !.steps = steps]
  BY DEF SetPhase, Status
<1>3. steps \in [Step -> StepStatus]
  BY <1>1
<1> HIDE DEF steps
<1>4. SetPhase(g, S, phase).steps = steps /\ SetPhase(g, S, phase).phase = g.phase
  BY <1>2 DEF Status
<1>5. SetPhase(g, S, phase) \in Status
  BY <1>2, <1>3 DEF Status
<1> QED BY <1>1, <1>4, <1>5

(* One pass over the steps: who was skipped or started had what it depends on
   done, in the status the pass leaves. *)
LEMMA BatchSteps ==
  ASSUME NEW g \in Status, NEW loops, NEW skipped \in SUBSET Step,
         \A s \in Step : g.steps[s].phase # "Running",
         MaySkip(EvaluateLoops(g, loops), skipped)
  PROVE  LET e == EvaluateLoops(g, loops)
             ready == ReadySteps(e, skipped)
             h == SetPhase(e, skipped, "Skipped")
             r == SetPhase(h, ready, "Running")
         IN /\ e \in Status /\ h \in Status /\ r \in Status
            /\ h.phase = g.phase /\ r.phase = g.phase
            /\ \A s \in Step : /\ e.steps[s].phase # "Running"
                               /\ h.steps[s].phase = IF s \in skipped THEN "Skipped" ELSE e.steps[s].phase
                               /\ r.steps[s].phase = IF s \in ready THEN "Running" ELSE h.steps[s].phase
            /\ \A s \in Step : StepMoves(g, r, s)
            /\ ready = {} => \A s \in Step : StepMoves(g, h, s)
<1> DEFINE e == EvaluateLoops(g, loops)
           ready == ReadySteps(e, skipped)
           h == SetPhase(e, skipped, "Skipped")
           r == SetPhase(h, ready, "Running")
<1>1. e \in Status
  BY EvaluateLoopsType
<1>2. e.phase = g.phase
  BY EvaluateLoopsPhase
<1>3. \A s \in Step : /\ \/ e.steps[s] = g.steps[s]
                         \/ /\ g.steps[s].phase = "Succeeded" /\ e.steps[s].phase = "Pending"
                            /\ e.steps[s].iter = g.steps[s].iter + 1
                      /\ e.steps[s].phase # "Running"
                      /\ g.steps[s].iter \in Nat
  <2> SUFFICES ASSUME NEW s \in Step
               PROVE  /\ \/ e.steps[s] = g.steps[s]
                         \/ /\ g.steps[s].phase = "Succeeded" /\ e.steps[s].phase = "Pending"
                            /\ e.steps[s].iter = g.steps[s].iter + 1
                      /\ e.steps[s].phase # "Running"
                      /\ g.steps[s].iter \in Nat
    OBVIOUS
  <2>1. \/ e.steps[s] = g.steps[s]
        \/ /\ g.steps[s].phase = "Succeeded" /\ e.steps[s].phase = "Pending"
           /\ e.steps[s].iter = g.steps[s].iter + 1
    BY EvaluateLoopsKeeps
  <2>2. g.steps[s].iter \in Nat
    BY DEF Status, StepStatus
  <2> HIDE DEF e
  <2> QED BY <2>1, <2>2
<1>4. ready \subseteq Step \ skipped
  BY DEF ReadySteps
<1>5. /\ \A s \in skipped : e.steps[s].phase = "Pending" /\ DepsMet(e, skipped, s)
      /\ \A s \in ready : e.steps[s].phase = "Pending" /\ DepsMet(e, skipped, s)
  BY DEF MaySkip, ReadySteps
<1> HIDE DEF e, ready
<1>6. /\ h \in Status /\ h.phase = e.phase
      /\ \A s \in Step : /\ h.steps[s].phase = IF s \in skipped THEN "Skipped" ELSE e.steps[s].phase
                         /\ h.steps[s].iter = e.steps[s].iter
  BY <1>1, SetPhaseKeeps DEF StepPhase
<1> HIDE DEF h
<1>7. /\ r \in Status /\ r.phase = h.phase
      /\ \A s \in Step : /\ r.steps[s].phase = IF s \in ready THEN "Running" ELSE h.steps[s].phase
                         /\ r.steps[s].iter = h.steps[s].iter
  BY <1>6, SetPhaseKeeps DEF StepPhase
<1> HIDE DEF r
<1>8. ASSUME NEW s \in Step, DepsMet(e, skipped, s) PROVE DepsSucceeded(h, s) /\ DepsSucceeded(r, s)
  <2> SUFFICES ASSUME NEW d \in DependsOn[s]
               PROVE  d \in Step /\ h.steps[d].phase \in Done /\ r.steps[d].phase \in Done
    BY DEF DepsSucceeded
  <2>1. d \in Step /\ (e.steps[d].phase \in Done \/ d \in skipped)
    BY <1>8 DEF DepsMet
  <2>2. d \notin ready
    BY <1>4, <1>5, <2>1 DEF Done
  <2>3. h.steps[d].phase \in Done
    BY <1>6, <2>1 DEF Done
  <2> QED BY <1>7, <2>1, <2>2, <2>3
<1>9. ASSUME NEW s \in Step PROVE StepMoves(g, r, s) /\ (ready = {} => StepMoves(g, h, s))
  <2>1. CASE s \in skipped \/ s \in ready
    <3>1. DepsSucceeded(h, s) /\ DepsSucceeded(r, s) /\ e.steps[s].phase = "Pending"
      BY <1>5, <1>8, <2>1
    <3>2. /\ r.steps[s].phase \in {"Skipped", "Running"} /\ r.steps[s].iter = e.steps[s].iter
          /\ h.steps[s].iter = e.steps[s].iter
          /\ ready = {} => h.steps[s].phase = "Skipped"
      BY <1>6, <1>7, <2>1
    <3> QED BY <1>3, <3>1, <3>2 DEF StepMoves
  <2>2. CASE s \notin skipped /\ s \notin ready
    <3>1. /\ h.steps[s].phase = e.steps[s].phase /\ h.steps[s].iter = e.steps[s].iter
          /\ r.steps[s].phase = e.steps[s].phase /\ r.steps[s].iter = e.steps[s].iter
      BY <1>6, <1>7, <2>2
    <3>2. ~Begun(g, h, s) /\ ~Begun(g, r, s)
      BY <1>3, <3>1 DEF Begun
    <3> QED BY <1>3, <3>1, <3>2 DEF StepMoves
  <2> QED BY <2>1, <2>2
<1>10. /\ h.phase = g.phase /\ r.phase = g.phase
       /\ \A s \in Step : e.steps[s].phase # "Running"
  BY <1>2, <1>3, <1>6, <1>7
<1>11. \A s \in Step : /\ h.steps[s].phase = IF s \in skipped THEN "Skipped" ELSE e.steps[s].phase
                       /\ r.steps[s].phase = IF s \in ready THEN "Running" ELSE h.steps[s].phase
  BY <1>6, <1>7
<1> QED BY <1>1, <1>6, <1>7, <1>9, <1>10, <1>11 DEF e, ready, h, r

(* What every step of the executor does to the flow. *)
Advances ==
  /\ ~IsTerminalPhase(f.phase) /\ f'.phase \in {"Running", "Succeeded", "Failed"}
  /\ f'.phase = "Succeeded" => AllDone(f')
  /\ \A s \in Step : StepMoves(f, f', s)

LEMMA SameStepsMove ==
  ASSUME NEW g \in Status, NEW h, g.steps = h.steps, NEW s \in Step
  PROVE  StepMoves(g, h, s)
<1>1. g.steps[s].iter \in Nat
  BY DEF Status, StepStatus
<1> QED BY <1>1 DEF StepMoves, Begun

(* UpdateFlowPhase of a running flow ends it for a reason, or leaves it be. *)
LEMMA UpdateAdvances ==
  ASSUME NEW g \in Status, g.phase = "Running", NEW t
  PROVE  LET h == UpdateFlowPhase(g, t) IN
         /\ h \in Status /\ h.steps = g.steps /\ h.phase \in {"Running", "Succeeded", "Failed"}
         /\ h.phase = "Succeeded" => AllDone(h) /\ ~OverBudget(h)
         /\ AnyFailed(g) \/ AllDone(g) => h.phase \in {"Succeeded", "Failed"}
<1>1. AnyFailed(g) \/ AllDone(g) => UpdateFlowPhase(g, t).phase \in {"Succeeded", "Failed"}
  BY DEF UpdateFlowPhase, Status
<1> QED BY <1>1, UpdateFlowPhaseType, UpdateEarns DEF Earned

LEMMA StartKeeps == LocalInv /\ Start => LocalInv' /\ Advances
<1> SUFFICES ASSUME LocalInv, Start PROVE LocalInv' /\ Advances
  OBVIOUS
<1>1. /\ f = NewStatus /\ f' = InitializeSteps(NewStatus, now) /\ pc' = "batch"
      /\ UNCHANGED <<agents, now, running, hung>> /\ LocalTypeOK
  BY DEF Start, LocalInv, PhaseOfRun
<1>2. f.phase = "" /\ f' \in Status
  <2>1. NewStatus.phase = ""
    BY DEF NewStatus
  <2>2. f' \in Status
    BY <1>1, NewStatusType, InitializeStepsType DEF LocalTypeOK
  <2> QED BY <1>1, <2>1, <2>2, Zenon
<1>3. f'.phase = "Running" /\ f'.steps = NewStatus.steps
  <2>1. NewStatus.phase = ""
    BY DEF NewStatus
  <2>2. f' = [NewStatus EXCEPT !.phase = "Running", !.start = now, !.reason = "Validated"]
    BY <1>1, <2>1, Zenon DEF InitializeSteps
  <2> QED BY <2>2, NewStatusType DEF NewStatus
<1>4. \A s \in Step : f'.steps[s].phase = "Pending"
  BY <1>3 DEF NewStatus, FreshStep
<1>5. LocalTypeOK' /\ RunningAwaited'
  BY <1>1, <1>2, <1>4 DEF LocalTypeOK, RunningAwaited
<1>6. f'.phase # "" /\ PhaseOfRun'
  BY <1>1, <1>3, Zenon DEF PhaseOfRun
<1>7. \A s \in Step : StepMoves(f, f', s)
  BY <1>1, <1>3, NewStatusType, SameStepsMove
<1> QED BY <1>2, <1>3, <1>5, <1>6, <1>7, Zenon DEF LocalInv, Advances, IsTerminalPhase

(* One pass of the loop.  If nothing can be started no step is at work. *)
LEMMA NextBatchKeeps == LocalInv /\ NextBatch => LocalInv' /\ Advances
<1> SUFFICES ASSUME LocalInv, NextBatch PROVE LocalInv' /\ Advances
  OBVIOUS
<1>1. /\ f \in Status /\ now \in Nat /\ agents \subseteq Step /\ hung \subseteq Step
      /\ UNCHANGED <<agents, now, hung>>
      /\ pc = "batch" /\ ~IsTerminalPhase(f.phase)
      /\ \A s \in Step : f.steps[s].phase # "Running"
  BY DEF LocalInv, LocalTypeOK, RunningAwaited, NextBatch
<1>2. f.phase = "Running"
  <2>1. f.phase \in FlowPhase /\ f.phase \notin {"Succeeded", "Failed"}
    BY <1>1 DEF Status, IsTerminalPhase
  <2>2. f.phase # ""
    BY <1>1, Zenon DEF LocalInv, PhaseOfRun
  <2> QED BY <2>1, <2>2, Zenon DEF FlowPhase
<1>3. PICK loops \in [CrossLoop -> BOOLEAN], skipped \in SUBSET Conditional :
        LET g == EvaluateLoops(f, loops)
            ready == ReadySteps(g, skipped)
            h == SetPhase(g, skipped, "Skipped")
        IN /\ MaySkip(g, skipped)
           /\ IF ready = {}
              THEN f' = UpdateFlowPhase(h, now) /\ pc' = "returned" /\ running' = {}
              ELSE f' = SetPhase(h, ready, "Running") /\ pc' = "collect" /\ running' = ready
  BY DEF NextBatch
<1> DEFINE g == EvaluateLoops(f, loops)
           ready == ReadySteps(g, skipped)
           h == SetPhase(g, skipped, "Skipped")
           r == SetPhase(h, ready, "Running")
<1>4. /\ g \in Status /\ h \in Status /\ r \in Status /\ h.phase = "Running" /\ r.phase = "Running"
      /\ \A s \in Step : /\ g.steps[s].phase # "Running"
                         /\ h.steps[s].phase = IF s \in skipped THEN "Skipped" ELSE g.steps[s].phase
                         /\ r.steps[s].phase = IF s \in ready THEN "Running" ELSE h.steps[s].phase
      /\ \A s \in Step : StepMoves(f, r, s)
      /\ ready = {} => \A s \in Step : StepMoves(f, h, s)
  <2>1. skipped \in SUBSET Step /\ MaySkip(g, skipped)
    BY <1>3, FlowSpecAssumption
  <2> QED BY <1>1, <1>2, <2>1, BatchSteps
<1>5. ready \subseteq Step
  BY DEF ReadySteps
<1>6. IF ready = {} THEN f' = UpdateFlowPhase(h, now) /\ pc' = "returned" /\ running' = {}
      ELSE f' = r /\ pc' = "collect" /\ running' = ready
  BY <1>3
<1> HIDE DEF g, ready, h, r
<1>7. CASE ready = {}
  <2>1. f' = UpdateFlowPhase(h, now) /\ pc' = "returned" /\ running' = {}
    BY <1>6, <1>7
  <2>2. /\ f' \in Status /\ f'.steps = h.steps /\ f'.phase \in {"Running", "Succeeded", "Failed"}
        /\ f'.phase = "Succeeded" => AllDone(f') /\ ~OverBudget(f')
    BY <1>4, <2>1, UpdateAdvances
  <2>3. \A s \in Step : f'.steps[s].phase # "Running"
    BY <1>4, <2>2
  <2>4. LocalTypeOK' /\ RunningAwaited'
    BY <1>1, <2>1, <2>2, <2>3 DEF LocalTypeOK, RunningAwaited
  <2>5. f'.phase # "" /\ PhaseOfRun'
    BY <2>1, <2>2, Zenon DEF PhaseOfRun
  <2>6. \A s \in Step : StepMoves(f, f', s)
    BY <1>4, <1>7, <2>2 DEF StepMoves, Begun, DepsSucceeded
  <2> QED BY <1>1, <2>2, <2>4, <2>5, <2>6 DEF LocalInv, Advances
<1>8. CASE ready # {}
  <2>1. f' = r /\ pc' = "collect" /\ running' = ready
    BY <1>6, <1>8
  <2>2. \A s \in Step : s \in ready <=> r.steps[s].phase = "Running"
    BY <1>4
  <2>3. LocalTypeOK' /\ RunningAwaited'
    BY <1>1, <1>4, <1>5, <2>1, <2>2 DEF LocalTypeOK, RunningAwaited
  <2>4. f'.phase = "Running" /\ f'.phase # "" /\ PhaseOfRun'
    BY <1>4, <2>1, Zenon DEF PhaseOfRun
  <2> QED BY <1>1, <1>4, <2>1, <2>3, <2>4 DEF LocalInv, Advances
<1> QED BY <1>7, <1>8

LEMMA EndBatchKeeps == LocalInv /\ EndBatch => LocalInv' /\ Advances
<1> SUFFICES ASSUME LocalInv, EndBatch PROVE LocalInv' /\ Advances
  OBVIOUS
<1> DEFINE g == ParseOutputJSON(f)
<1>1. /\ f \in Status /\ f.phase = "Running" /\ now \in Nat
      /\ pc = "collect" /\ running = {} /\ f' = UpdateFlowPhase(g, now) /\ pc' = "batch"
      /\ UNCHANGED <<agents, now, running, hung>> /\ agents \subseteq Step /\ hung \subseteq Step
      /\ \A s \in Step : f.steps[s].phase # "Running"
  BY DEF LocalInv, LocalTypeOK, RunningAwaited, PhaseOfRun, EndBatch
<1>2. g \in Status /\ g.phase = "Running"
  BY <1>1, ParseOutputJSONType, ParseOutputJSONPhase
<1>3. \A s \in Step : g.steps[s].phase = f.steps[s].phase /\ g.steps[s].iter = f.steps[s].iter
  BY <1>1, ParseOutputJSONKeeps
<1> HIDE DEF g
<1>4. /\ f' \in Status /\ f'.steps = g.steps /\ f'.phase \in {"Running", "Succeeded", "Failed"}
      /\ f'.phase = "Succeeded" => AllDone(f') /\ ~OverBudget(f')
  BY <1>1, <1>2, UpdateAdvances
<1>5. LocalTypeOK' /\ RunningAwaited'
  BY <1>1, <1>3, <1>4 DEF LocalTypeOK, RunningAwaited
<1>6. f'.phase # "" /\ PhaseOfRun'
  BY <1>1, <1>4, Zenon DEF PhaseOfRun
<1>7. ASSUME NEW s \in Step PROVE StepMoves(f, f', s)
  <2>1. f.steps[s].iter \in Nat
    BY <1>1 DEF Status, StepStatus
  <2> QED BY <1>3, <1>4, <2>1 DEF StepMoves, Begun
<1>8. ~IsTerminalPhase(f.phase)
  BY <1>1 DEF IsTerminalPhase
<1> QED BY <1>4, <1>5, <1>6, <1>7, <1>8 DEF LocalInv, Advances

(* A result: one Running step has ended and is awaited no more. *)
LEMMA ResultKeeps ==
  ASSUME LocalInv, pc = "collect", NEW s \in running,
         f' \in Status, f'.phase = f.phase,
         \A t \in Step : f'.steps[t].iter = f.steps[t].iter,
         \A t \in Step \ {s} : f'.steps[t].phase = f.steps[t].phase,
         f'.steps[s].phase \in {"Succeeded", "Failed"},
         running' = running \ {s}, UNCHANGED <<agents, now, hung, pc>>
  PROVE  LocalInv' /\ Advances
<1>1. /\ f \in Status /\ now \in Nat /\ agents \subseteq Step /\ running \subseteq Step /\ hung \subseteq Step
      /\ \A t \in Step : t \in running <=> f.steps[t].phase = "Running"
  BY DEF LocalInv, LocalTypeOK, RunningAwaited
<1>2. f.phase = "Running" /\ f'.phase = "Running"
  BY Zenon DEF LocalInv, PhaseOfRun
<1>3. s \in Step /\ f.steps[s].phase = "Running"
  BY <1>1
<1>4. LocalTypeOK' /\ RunningAwaited'
  BY <1>1, <1>3 DEF LocalTypeOK, RunningAwaited
<1>5. f'.phase # "" /\ PhaseOfRun'
  BY <1>2, Zenon DEF PhaseOfRun
<1>6. ASSUME NEW t \in Step PROVE StepMoves(f, f', t)
  <2>1. f.steps[t].iter \in Nat
    BY <1>1 DEF Status, StepStatus
  <2> QED BY <1>3, <2>1 DEF StepMoves, Begun
<1>7. ~IsTerminalPhase(f.phase)
  BY <1>2 DEF IsTerminalPhase
<1> QED BY <1>2, <1>4, <1>5, <1>6, <1>7 DEF LocalInv, Advances

LEMMA SucceedsKeeps ==
  ASSUME LocalInv, NEW s \in Step, StepSucceeds(s)
  PROVE  LocalInv' /\ Advances
<1>1. PICK output \in Outputs, tokens \in Costs :
        f' = [f EXCEPT !.steps[s].phase = "Succeeded", !.steps[s].output = output,
                       !.steps[s].tokens = tokens]
  BY DEF StepSucceeds
<1> DEFINE steps == [f.steps EXCEPT ![s].phase = "Succeeded", ![s].output = output,
                                    ![s].tokens = tokens]
<1>2. f \in Status /\ \A t \in Step : f.steps[t] \in StepStatus
  BY DEF LocalInv, LocalTypeOK, Status
<1>3. f' = [f EXCEPT !.steps = steps]
  BY <1>1, <1>2 DEF Status
<1>4. /\ \A t \in Step \ {s} : steps[t] = f.steps[t]
      /\ steps[s] = [f.steps[s] EXCEPT !.phase = "Succeeded", !.output = output, !.tokens = tokens]
      /\ DOMAIN steps = Step /\ steps = [t \in Step |-> steps[t]]
  BY <1>2 DEF Status
<1> HIDE DEF steps
<1>5. /\ steps[s] \in StepStatus /\ steps[s].phase = "Succeeded"
      /\ steps[s].iter = f.steps[s].iter
  BY <1>2, <1>4, OutputAssumption DEF StepStatus, StepPhase
<1>6. steps \in [Step -> StepStatus]
  BY <1>2, <1>4, <1>5
<1>7. f' \in Status /\ f'.phase = f.phase /\ f'.steps = steps
  BY <1>2, <1>3, <1>6 DEF Status
<1> QED BY <1>4, <1>5, <1>7, ResultKeeps DEF StepSucceeds

LEMMA FailsKeeps ==
  ASSUME LocalInv, NEW s \in Step, StepFails(s)
  PROVE  LocalInv' /\ Advances
<1>1. f \in Status
  BY DEF LocalInv, LocalTypeOK
<1>2. /\ f' \in Status /\ f'.phase = f.phase
      /\ \A t \in Step : /\ f'.steps[t].phase = IF t \in {s} THEN "Failed" ELSE f.steps[t].phase
                         /\ f'.steps[t].iter = f.steps[t].iter
  BY <1>1, SetPhaseKeeps DEF StepFails, StepPhase
<1> QED BY <1>2, ResultKeeps DEF StepFails

(* The rest leaves the flow as it is. *)
LEMMA OthersKeep ==
  ASSUME LocalInv,
         ReturnFinished \/ Tick \/ (\E s \in Step : StepPanics(s) \/ ServerHangs(s)) \/ UNCHANGED vars
  PROVE  LocalInv' /\ UNCHANGED f
<1>1. CASE Tick
  <2>1. UNCHANGED <<agents, f, running, hung, pc>> /\ now' \in Nat
    BY <1>1 DEF Tick, LocalInv, LocalTypeOK
  <2>2. LocalTypeOK' /\ RunningAwaited'
    BY <2>1 DEF LocalInv, LocalTypeOK, RunningAwaited
  <2>3. PhaseOfRun'
    BY <2>1, Zenon DEF LocalInv, PhaseOfRun
  <2> QED BY <2>1, <2>2, <2>3 DEF LocalInv, AllDone, OverBudget, SumStepTokens
<1>2. CASE \E s \in Step : ServerHangs(s)
  <2>1. UNCHANGED <<agents, f, now, running, pc>> /\ hung' \subseteq Step
    BY <1>2 DEF ServerHangs, LocalInv, LocalTypeOK
  <2>2. LocalTypeOK' /\ RunningAwaited'
    BY <2>1 DEF LocalInv, LocalTypeOK, RunningAwaited
  <2>3. PhaseOfRun'
    BY <2>1, Zenon DEF LocalInv, PhaseOfRun
  <2> QED BY <2>1, <2>2, <2>3 DEF LocalInv, AllDone, OverBudget, SumStepTokens
<1>3. CASE ReturnFinished \/ (\E s \in Step : StepPanics(s)) \/ UNCHANGED vars
  <2>1. UNCHANGED <<agents, f, now, running, hung>>
    BY <1>3 DEF ReturnFinished, StepPanics, vars
  <2>2. \/ pc = "batch" /\ pc' = "returned"
        \/ pc = "collect" /\ pc' = "crashed"
        \/ pc' = pc
    BY <1>3 DEF ReturnFinished, StepPanics, vars
  <2>3. LocalTypeOK' /\ RunningAwaited'
    BY <2>1, <2>2 DEF LocalInv, LocalTypeOK, RunningAwaited
  <2>4. PhaseOfRun'
    BY <2>1, <2>2, Zenon DEF LocalInv, PhaseOfRun
  <2> QED BY <2>1, <2>3, <2>4 DEF LocalInv, AllDone, OverBudget, SumStepTokens
<1> QED BY <1>1, <1>2, <1>3

LEMMA LocalPreserved == LocalInv /\ [Next]_vars => LocalInv' /\ (Advances \/ UNCHANGED f)
  BY StartKeeps, NextBatchKeeps, EndBatchKeeps, SucceedsKeeps, FailsKeeps, OthersKeep DEF Next, Run

(***************************************************************************)
(* The exit code.                                                          *)
(***************************************************************************)
LEMMA LeastNumber ==
  ASSUME NEW T \in SUBSET Nat, T # {}
  PROVE  \E x \in T : \A y \in T : x <= y
<1>1. PICK x \in T : \A y \in T : ~ (<<y, x>> \in OpToRel(<, Nat))
  BY NatLessThanWellFounded, WFMin, Zenon
<1>2. \A y \in T : ~(y < x)
  BY <1>1 DEF OpToRel
<1> QED BY <1>2

(* Run gives a flow whose steps are in order up only when it has ended: the
   first step left would be ready. *)
LEMMA LastBatchEnds ==
  ASSUME LocalInv, NextBatch, pc' = "returned", InOrder
  PROVE  f'.phase \in {"Succeeded", "Failed"}
<1>1. /\ f \in Status /\ pc = "batch" /\ ~IsTerminalPhase(f.phase)
      /\ \A s \in Step : f.steps[s].phase # "Running"
  BY DEF LocalInv, LocalTypeOK, RunningAwaited, NextBatch
<1>2. f.phase = "Running"
  <2>1. f.phase \in FlowPhase /\ f.phase \notin {"Succeeded", "Failed"}
    BY <1>1 DEF Status, IsTerminalPhase
  <2>2. f.phase # ""
    BY <1>1, Zenon DEF LocalInv, PhaseOfRun
  <2> QED BY <2>1, <2>2, Zenon DEF FlowPhase
<1>3. PICK loops \in [CrossLoop -> BOOLEAN], skipped \in SUBSET Conditional :
        LET g == EvaluateLoops(f, loops)
            h == SetPhase(g, skipped, "Skipped")
        IN /\ MaySkip(g, skipped) /\ ReadySteps(g, skipped) = {}
           /\ f' = UpdateFlowPhase(h, now)
  BY DEF NextBatch
<1> DEFINE g == EvaluateLoops(f, loops)
           h == SetPhase(g, skipped, "Skipped")
<1>4. /\ g \in Status /\ h \in Status /\ h.phase = "Running" /\ ReadySteps(g, skipped) = {}
      /\ \A s \in Step : /\ g.steps[s].phase # "Running"
                         /\ h.steps[s].phase = IF s \in skipped THEN "Skipped" ELSE g.steps[s].phase
  <2>1. skipped \in SUBSET Step /\ MaySkip(g, skipped)
    BY <1>3, FlowSpecAssumption
  <2> QED BY <1>1, <1>2, <1>3, <2>1, BatchSteps
<1>5. f' = UpdateFlowPhase(h, now)
  BY <1>3
<1> HIDE DEF g, h
<1>6. \A s \in Step : h.steps[s].phase \in StepPhase
  BY <1>4 DEF Status, StepStatus
<1>7. AnyFailed(h) \/ AllDone(h)
  <2> SUFFICES ASSUME ~AnyFailed(h), ~AllDone(h) PROVE FALSE
    OBVIOUS
  <2> DEFINE Left == {s \in Step : h.steps[s].phase = "Pending"}
  <2>1. \A s \in Step : s \notin Left => h.steps[s].phase \in Done
    BY <1>4, <1>6 DEF AnyFailed, StepPhase, Done
  <2>2. Left # {} /\ Left \in SUBSET Nat
    BY <2>1 DEF AllDone, Step
  <2>3. PICK s \in Left : \A t \in Left : s <= t
    BY <2>2, LeastNumber
  <2>4. s \in Step \ skipped /\ g.steps[s].phase = "Pending"
    BY <1>4, <2>3
  <2>5. ASSUME NEW d \in DependsOn[s]
        PROVE  d \in Step /\ (g.steps[d].phase \in Done \/ (d < s /\ d \in skipped))
    <3>1. d \in 1 .. s - 1
      BY <2>4 DEF InOrder
    <3>2. d \in Step /\ d < s
      BY <2>4, <3>1, FlowSpecAssumption DEF Step
    <3>3. h.steps[d].phase \in Done
      BY <2>1, <2>2, <2>3, <3>2
    <3> QED BY <1>4, <3>2, <3>3 DEF Done
  <2>6. s \in ReadySteps(g, skipped)
    BY <2>4, <2>5 DEF ReadySteps, DepsMet
  <2> QED BY <1>4, <2>6
<1> QED BY <1>4, <1>5, <1>7, UpdateAdvances

(* A command looks at the file once it has loaded it, with what it is for. *)
Commands ==
  /\ command \in {"run", "validate"} /\ loaded \in BOOLEAN /\ exit \in {"", "ok", "error"}
  /\ ~loaded => pc = "load" /\ at # "done"
  /\ command = "run" => at # "done"
  /\ command = "validate" => pc = "load"
  /\ exit # "" => ~loaded \/ at = "done" \/ pc \in {"returned", "crashed"}

Outcomes ==
  /\ at = "done" => verdict # "none"
  /\ pc = "returned" /\ InOrder => f.phase \in {"Succeeded", "Failed"}
  /\ ExitTellsOutcome

CLIInv == LocalInv /\ DFSInv /\ Commands /\ Outcomes

(* A command that has ended does no more. *)
LEMMA EndedDoesNothing ==
  ASSUME CLIInv, exit # "", [CLINext]_cliVars
  PROVE  UNCHANGED cliVars
<1>0. /\ pc \in {"load", "batch", "collect", "returned", "crashed"}
      /\ at \in {"names", "search", "done"} /\ loaded \in BOOLEAN
  BY DEF CLIInv, LocalInv, LocalTypeOK, DFSInv, DFSTypeOK, Commands
<1>1. CASE Load \/ LoadFails \/ PrintResult \/ Panics \/ DryRunEnds
  BY <1>1, Zenon DEF Load, LoadFails, PrintResult, Panics, DryRunEnds, ExitWith
<1>2. loaded => at = "done" \/ pc \in {"returned", "crashed"}
  BY <1>0 DEF CLIInv, Commands
<1>3. ~RunFlow
  <2> SUFFICES ASSUME RunFlow PROVE FALSE
    OBVIOUS
  <2>1. command = "run" /\ loaded /\ Run
    BY DEF RunFlow
  <2>2. pc \in {"returned", "crashed"}
    BY <1>2, <2>1, Zenon DEF CLIInv, Commands
  <2> QED BY <2>1, <2>2
      DEF Run, Start, NextBatch, EndBatch, ReturnFinished, StepSucceeds, StepFails, StepPanics
<1>4. ~DryRun
  <2> SUFFICES ASSUME DryRun PROVE FALSE
    OBVIOUS
  <2>1. command = "validate" /\ loaded /\ DFSNext
    BY DEF DryRun
  <2>2. pc = "load"
    BY <2>1, Zenon DEF CLIInv, Commands
  <2>3. at = "done"
    BY <1>2, <2>1, <2>2
  <2> QED BY <2>1, <2>3
      DEF DFSNext, CheckNames, NextRoot, FinishStep, AllVisited, FindCycle, Descend, PassOver, TakeDep
<1>5. ~Around
  <2>1. ~loaded => pc = "load"
    BY Zenon DEF CLIInv, Commands
  <2>2. at = "done" => pc = "load"
    BY Zenon DEF CLIInv, Commands
  <2> QED BY <1>2, <2>1, <2>2 DEF Around, Tick, ServerHangs
<1> QED BY <1>1, <1>3, <1>4, <1>5 DEF CLINext, Proceed

LEMMA CLIInvInit == CLIInit => CLIInv
<1> SUFFICES ASSUME CLIInit PROVE CLIInv
  OBVIOUS
<1>1. /\ Init /\ DFSInit /\ command \in {"run", "validate"} /\ loaded = FALSE /\ exit = ""
  BY DEF CLIInit
<1>2. /\ f = NewStatus /\ f \in Status /\ pc = "load" /\ at = "names"
      /\ f.phase # "Succeeded" /\ now \in Nat /\ running = {} /\ hung = {}
  BY <1>1, NewStatusType DEF Init, DFSInit, NewStatus
<1>3. LocalTypeOK /\ RunningAwaited
  <2>1. agents \subseteq Step
    BY <1>1, AgentsAssumption DEF Init
  <2> QED BY <1>2, <2>1 DEF LocalTypeOK, RunningAwaited
<1>4. LocalInv
  BY <1>2, <1>3, Zenon DEF LocalInv, PhaseOfRun
<1>5. Commands
  BY <1>1, <1>2, Zenon DEF Commands
<1>6. Outcomes
  BY <1>1, <1>2, Zenon DEF Outcomes, ExitTellsOutcome
<1> QED BY <1>1, <1>4, <1>5, <1>6, InitInv DEF CLIInv

(* Which steps of the two parts a step of the command is. *)
LEMMA CLIStepParts ==
  ASSUME CLIInv, [CLINext]_cliVars
  PROVE  /\ [Next]_vars /\ [DFSNext]_dfsVars
         /\ LocalInv' /\ DFSInv'
<1>1. [Next]_vars
  BY DEF CLINext, Proceed, Around, Load, LoadFails, RunFlow, PrintResult, Panics, DryRun, DryRunEnds,
         cliVars, Next, vars
<1>2. [DFSNext]_dfsVars
  BY DEF CLINext, Proceed, Around, Load, LoadFails, RunFlow, PrintResult, Panics, DryRun, DryRunEnds,
         cliVars, dfsVars
<1> QED BY <1>1, <1>2, LocalPreserved, StepPreserves DEF CLIInv

(* The executor at work. *)
LEMMA RunFlowPreserves ==
  ASSUME CLIInv, exit = "", RunFlow \/ Around,
         LocalInv'
  PROVE  Commands' /\ Outcomes'
<1>1. /\ UNCHANGED <<at, verdict, deps, command, loaded, exit>> /\ exit = "" /\ exit' = ""
      /\ (command = "run" /\ loaded) \/ pc' = pc
      /\ LocalInv /\ Commands /\ Outcomes
  BY Zenon DEF RunFlow, Around, Tick, ServerHangs, dfsVars, CLIInv
<1>2. command = "run" /\ loaded
  <2>1. pc' = pc => pc \in {"batch", "collect"}
    <3>1. ~(Run /\ pc' = pc /\ pc \notin {"batch", "collect"})
      BY DEF Run, Start, NextBatch, EndBatch, ReturnFinished, StepSucceeds, StepFails, StepPanics
    <3> QED BY <3>1 DEF RunFlow, Around, Tick, ServerHangs
  <2>2. pc # "load" => command = "run" /\ loaded
    BY <1>1, Zenon DEF Commands
  <2> QED BY <1>1, <2>1, <2>2, Zenon
<1>3. Commands'
  BY <1>1, <1>2, Zenon DEF Commands
<1>4. pc' = "returned" /\ InOrder => f'.phase \in {"Succeeded", "Failed"}
  <2> SUFFICES ASSUME pc' = "returned", InOrder PROVE f'.phase \in {"Succeeded", "Failed"}
    OBVIOUS
  <2>1. CASE NextBatch
    BY <1>1, <2>1, LastBatchEnds
  <2>2. CASE ReturnFinished
    BY <2>2 DEF ReturnFinished, IsTerminalPhase
  <2>3. NextBatch \/ ReturnFinished
    <3>1. pc # "returned"
      BY DEF RunFlow, Run, Around, Tick, ServerHangs, Start, NextBatch, EndBatch, ReturnFinished,
             StepSucceeds, StepFails, StepPanics
    <3> QED BY <3>1
        DEF RunFlow, Run, Around, Tick, ServerHangs, Start, NextBatch, EndBatch, ReturnFinished,
             StepSucceeds, StepFails, StepPanics
  <2> QED BY <2>1, <2>2, <2>3
<1>5. Outcomes'
  BY <1>1, <1>4, Zenon DEF Outcomes, ExitTellsOutcome
<1> QED BY <1>3, <1>5

(* The search at work. *)
LEMMA DryRunPreserves ==
  ASSUME CLIInv, exit = "", DryRun
  PROVE  Commands' /\ Outcomes'
<1>1. /\ UNCHANGED <<f, pc, agents, command, loaded, exit>> /\ exit' = "" /\ command = "validate"
      /\ loaded /\ DFSNext /\ Commands /\ Outcomes
  BY Zenon DEF DryRun, vars, CLIInv
<1>2. at' = "done" => verdict' # "none"
  <2>1. at # "done"
    BY <1>1 DEF DFSNext, CheckNames, NextRoot, FinishStep, AllVisited, FindCycle, Descend, PassOver,
                TakeDep
  <2> QED BY <1>1, <2>1
      DEF DFSNext, CheckNames, NextRoot, FinishStep, AllVisited, FindCycle, Descend, PassOver,
          TakeDep, Return
<1>3. Commands'
  BY <1>1, Zenon DEF Commands
<1>4. Outcomes'
  BY <1>1, <1>2, Zenon DEF Outcomes, ExitTellsOutcome, InOrder
<1> QED BY <1>3, <1>4

(* The command ends: the verdict of the search, or the phase of the flow. *)
LEMMA EndingPreserves ==
  ASSUME CLIInv, Load \/ LoadFails \/ PrintResult \/ Panics \/ DryRunEnds
  PROVE  Commands' /\ Outcomes'
<1>1. /\ UNCHANGED <<f, pc, agents, at, verdict, deps, command>> /\ exit = "" /\ Commands /\ Outcomes
      /\ LocalInv /\ DFSInv
  BY Zenon
  DEF Load, LoadFails, PrintResult, Panics, DryRunEnds, ExitWith, vars, dfsVars, CLIInv
<1>2. CASE Load
  <2>1. loaded' = TRUE /\ exit' = ""
    BY <1>1, <1>2, Zenon DEF Load
  <2> QED BY <1>1, <2>1, Zenon DEF Commands, Outcomes, ExitTellsOutcome, InOrder
<1>3. CASE LoadFails
  <2>1. ~loaded /\ loaded' = loaded /\ exit' = "error" /\ exit' # "ok"
    BY <1>3 DEF LoadFails, ExitWith
  <2>2. ~loaded'
    BY <2>1
  <2> QED BY <1>1, <2>1, <2>2, Zenon DEF Commands, Outcomes, ExitTellsOutcome, InOrder
<1>4. CASE PrintResult
  <2>1. /\ pc = "returned" /\ loaded' = loaded /\ exit' = IF f.phase = "Failed" THEN "error" ELSE "ok"
    BY <1>4 DEF PrintResult, ExitWith
  <2>2. /\ exit' \in {"ok", "error"} /\ (exit' = "ok" <=> f.phase # "Failed")
        /\ pc # "load"
    BY <2>1
  <2>3. exit' # ""
    BY <2>2, Zenon
  <2>4. loaded /\ command # "validate" /\ command = "run"
    BY <1>1, <2>2, Zenon DEF Commands
  <2>5. InOrder => (f.phase # "Failed" <=> f.phase = "Succeeded")
    <3>1. InOrder => f.phase \in {"Succeeded", "Failed"}
      BY <1>1, <2>1 DEF Outcomes
    <3> QED BY <3>1
  <2>6. Commands'
    BY <1>1, <2>1, <2>2, <2>4, Zenon DEF Commands
  <2>7. ExitTellsOutcome'
    BY <1>1, <2>1, <2>2, <2>4, <2>5, Zenon DEF ExitTellsOutcome, InOrder
  <2> QED BY <1>1, <2>6, <2>7, Zenon DEF Outcomes, InOrder
<1>5. CASE Panics
  <2>1. pc = "crashed" /\ loaded' = loaded /\ exit' = "error" /\ exit' # "ok" /\ pc # "load"
    BY <1>5 DEF Panics, ExitWith
  <2>2. f.phase # "Succeeded"
    <3>1. f.phase = "Running"
      BY <1>1, <2>1, Zenon DEF LocalInv, PhaseOfRun
    <3> QED BY <3>1
  <2>3. command # "validate"
    BY <1>1, <2>1, Zenon DEF Commands
  <2> QED BY <1>1, <2>1, <2>2, <2>3, Zenon DEF Commands, Outcomes, ExitTellsOutcome, InOrder
<1>6. CASE DryRunEnds
  <2>1. /\ at = "done" /\ loaded' = loaded
        /\ exit' = IF verdict = "ok" /\ agents = Step THEN "ok" ELSE "error"
    BY <1>6 DEF DryRunEnds, ExitWith
  <2>2. exit' \in {"ok", "error"} /\ (exit' = "ok" <=> verdict = "ok" /\ agents = Step)
    BY <2>1
  <2>3. verdict \in {"none", "ok", "unknown", "cycle"} /\ VerdictRight
    BY <1>1 DEF DFSInv, DFSTypeOK
  <2>4. verdict \in {"ok", "unknown", "cycle"}
    BY <1>1, <2>1, <2>3, Zenon DEF Outcomes
  <2>5. verdict = "ok" <=> ValidDAG(deps)
    BY <2>3, <2>4 DEF VerdictRight, ValidDAG
  <2>6. loaded /\ command # "run"
    BY <1>1, <2>1, Zenon DEF Commands
  <2>7. Commands'
    BY <1>1, <2>1, <2>2, Zenon DEF Commands
  <2>8. exit' = "ok" <=> ValidDAG(deps) /\ agents = Step
    BY <2>2, <2>5
  <2>9. ExitTellsOutcome'
    BY <1>1, <2>1, <2>6, <2>8, Zenon DEF ExitTellsOutcome, InOrder, ValidDAG, Known, Acyclic
  <2> QED BY <1>1, <2>7, <2>9, Zenon DEF Outcomes, InOrder
<1> QED BY <1>2, <1>3, <1>4, <1>5, <1>6

LEMMA CLIInvPreserved == CLIInv /\ [CLINext]_cliVars => CLIInv'
<1> SUFFICES ASSUME CLIInv, [CLINext]_cliVars PROVE CLIInv'
  OBVIOUS
<1>1. LocalInv' /\ DFSInv'
  BY CLIStepParts
<1>2. CASE UNCHANGED cliVars
  BY <1>1, <1>2
  DEF cliVars, vars, dfsVars, CLIInv, Commands, Outcomes, ExitTellsOutcome, InOrder, ValidDAG, Known,
      Acyclic
<1>3. CASE exit # ""
  BY <1>2, <1>3, EndedDoesNothing
<1>4. CASE exit = "" /\ CLINext
  BY <1>1, <1>4, RunFlowPreserves, DryRunPreserves, EndingPreserves, Zenon DEF CLINext, Proceed, CLIInv
<1> QED BY <1>2, <1>3, <1>4

LEMMA CLIInvHolds == CLISpec => []CLIInv
  BY CLIInvInit, CLIInvPreserved, PTL DEF CLISpec

(* Whatever the file and the models, the variables of a command keep their
   types. *)
THEOREM CLITypesCorrect == CLISpec => []CLITypeOK
<1>1. CLIInv => CLITypeOK
  BY DEF CLIInv, LocalInv, DFSInv, Commands, CLITypeOK
<1> QED BY <1>1, CLIInvHolds, PTL

(* When Run returns, no goroutine is left behind, and a flow it calls Succeeded
   is done and within its budget. *)
THEOREM OutcomeAlwaysWhole == CLISpec => []ReportsWholeOutcome
<1>1. CLIInv => ReportsWholeOutcome
  BY DEF CLIInv, LocalInv, RunningAwaited, ReportsWholeOutcome
<1> QED BY <1>1, CLIInvHolds, PTL

(* For any flow, graph and file, a script that looks at the exit code only learns
   the outcome. *)
THEOREM ExitAlwaysTells == CLISpec => []ExitTellsOutcome
<1>1. CLIInv => ExitTellsOutcome
  BY DEF CLIInv, Outcomes
<1> QED BY <1>1, CLIInvHolds, PTL

(* What ark run does to a flow is a behaviour of FlowLifecycle. *)
THEOREM RunImplementsLifecycle == CLISpec => RunsLifecycle
<1>1. CLIInit => Lifecycle!Init
  <2> SUFFICES ASSUME CLIInit PROVE Lifecycle!Init
    OBVIOUS
  <2>1. f = NewStatus
    BY DEF CLIInit, Init
  <2>2. View = [s \in Step |-> [phase |-> "Pending", iter |-> 0]]
    BY <2>1 DEF View, NewStatus, FreshStep
  <2>3. f.phase = ""
    <3>1. NewStatus.phase = ""
      BY DEF NewStatus
    <3> QED BY <2>1, <3>1
  <2> QED BY <2>2, <2>3, Zenon DEF Lifecycle!Init
<1>2. CLIInv /\ CLIInv' /\ [CLINext]_cliVars => [Lifecycle!Next]_(Lifecycle!vars)
  <2> SUFFICES ASSUME CLIInv, CLIInv', [CLINext]_cliVars, ~UNCHANGED Lifecycle!vars
               PROVE  Lifecycle!Next
    OBVIOUS
  <2>1. f \in Status /\ f' \in Status
    BY DEF CLIInv, LocalInv, LocalTypeOK
  <2>2. Advances \/ UNCHANGED f
    <3>1. LocalInv /\ [Next]_vars
      BY CLIStepParts DEF CLIInv
    <3> QED BY <3>1, LocalPreserved
  <2>3. Advances
    BY <2>2 DEF Lifecycle!vars, View
  <2>4. Lifecycle!StepsMove(View, View')
    <3>1. SUFFICES ASSUME NEW s \in Step
                   PROVE  /\ Lifecycle!Moves(View[s], View'[s])
                          /\ Lifecycle!Begins(View[s], View'[s])
                               => \A d \in DependsOn[s] : View'[d].phase \in Done
      BY DEF Lifecycle!StepsMove, Lifecycle!Done, Done
    <3>2. StepMoves(f, f', s)
      BY <2>3 DEF Advances
    <3>3. Lifecycle!Moves(View[s], View'[s])
      BY <3>2 DEF StepMoves, Lifecycle!Moves, Lifecycle!Follows, View
    <3>4. Lifecycle!Begins(View[s], View'[s]) => DepsSucceeded(f', s)
      BY <3>2 DEF StepMoves, Begun, Lifecycle!Begins, View
    <3>5. DepsSucceeded(f', s) => \A d \in DependsOn[s] : View'[d].phase \in Done
      BY DEF DepsSucceeded, View
    <3> QED BY <3>3, <3>4, <3>5
  <2>5. View' \in [Step -> [phase : StepPhase, iter : Nat]]
    <3>1. \A s \in Step : f'.steps[s] \in StepStatus
      BY <2>1 DEF Status
    <3> QED BY <3>1 DEF View, StepStatus
  <2>6. Lifecycle!Advance
    BY <2>3, <2>4, <2>5 DEF Advances, Lifecycle!Advance, Lifecycle!Final, IsTerminalPhase, StepPhase
  <2>7. f'.phase = "Succeeded" => \A s \in Step : View'[s].phase \in Lifecycle!Done
    BY <2>3 DEF Advances, View, AllDone, Done, Lifecycle!Done
  <2> QED BY <2>3, <2>6, <2>7
      DEF Advances, Lifecycle!Next, Lifecycle!Proceed, Lifecycle!Succeed, Lifecycle!Fail
<1> QED BY <1>1, <1>2, CLIInvHolds, PTL DEF CLISpec, RunsLifecycle, Lifecycle!Spec

(* The search never goes round: what is left of it is a number, and each of its
   steps brings the verdict or makes it less. *)
THEOREM SearchAlwaysAdvances == CLISpec => SearchAdvances /\ [](LeftToDo \in Nat)
<1>1. CLIInv => LeftToDo \in Nat
  <2> SUFFICES ASSUME CLIInv PROVE LeftToDo \in Nat
    OBVIOUS
  <2>1. Unlooked \in SUBSET (Step \X Step) /\ Unfinished \in SUBSET Step
    BY DEF Unlooked, Unfinished
  <2>2. root \in 1 .. NumSteps + 1
    BY DEF CLIInv, DFSInv, DFSTypeOK
  <2> QED BY <2>1, <2>2, PartsAreNumbers DEF LeftToDo
<1>2. CLIInv /\ [CLINext]_cliVars => [at = "search" => at' = "done" \/ LeftToDo' < LeftToDo]_dfsVars
  BY CLIStepParts, StepLeavesLess DEF CLIInv
<1> QED BY <1>1, <1>2, CLIInvHolds, PTL DEF CLISpec, SearchAdvances
=============================================================================
