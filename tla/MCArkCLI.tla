------------------------------- MODULE MCArkCLI -------------------------------
(* Small flows for the ark commands. *)
EXTENDS ArkCLI

(* 2 and 3 after 1, 4 after 2 and 3. *)
Diamond == << {}, {1}, {1}, {2, 3} >>
TwoLoops == << 1, 2, 0, 0 >>

(* Three steps with any dependencies on each other and on one that does not
   exist; the fourth has none, or waits for two of them. *)
SmallGraphs ==
  {Append(g, d) : g \in [1 .. 3 -> SUBSET {1, 2, 3, 5}], d \in {{}, {2, 3}}}
AllButOne == {Step, Step \ {2}}
=============================================================================
