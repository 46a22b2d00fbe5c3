----------------------------- MODULE MCLocalExecutor -----------------------------
(* A flow of one step for ark run. *)
EXTENDS LocalExecutor

LoneStep == << {} >>
LoopOnce == << 1 >>
ItsAgent == {{1}}
=============================================================================
