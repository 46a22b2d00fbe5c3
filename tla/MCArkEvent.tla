------------------------------ MODULE MCArkEvent ------------------------------
(* Small events for ArkEvent. *)
EXTENDS ArkEvent

CONSTANTS r1, r2

One == <<"t1">>
Two == <<"t1", "t2">>

EveryFault == {"staleRead", "apiError", "operatorCrash", "recreate", "suspend", "touch"}
Case(source, onPhase, policy, targets, kinds, posts) ==
  [source |-> source, onPhase |-> onPhase, policy |-> policy, targets |-> targets,
   faults |-> kinds, requests |-> posts]

(* Faults with one request, no faults with two; Forbid with few faults; every phase
   a watched flow can be in. *)
EveryCase ==
  { Case("cron", "", "Allow", Two, EveryFault, {}),
    Case("cron", "", "Forbid", One, {}, {}),
    Case("pipeline-output", "", "Allow", Two, EveryFault, {}),
    Case("pipeline-output", "Succeeded", "Forbid", One, {"recreate"}, {}),
    Case("pipeline-output", "Failed", "Allow", Two, {"staleRead", "recreate"}, {}),
    Case("pipeline-output", "Running", "Allow", One, {}, {}),
    Case("webhook", "", "Allow", One, EveryFault, {r2}),
    Case("webhook", "", "Allow", Two, EveryFault, {r1}),
    Case("webhook", "", "Forbid", Two, {}, {r2}),
    Case("webhook", "", "Allow", One, {}, {r1, r2}) }

LaggingCache == { Case("pipeline-output", "", "Allow", One, {"staleRead"}, {}) }
OneCaller == { Case("webhook", "", "Allow", One, {}, {r1}) }
=============================================================================
