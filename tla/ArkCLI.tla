-------------------------------- MODULE ArkCLI --------------------------------
(***************************************************************************)
(* The ark command line (cmd/ark): `ark run` executes the flow of a file   *)
(* with LocalExecutor, `ark validate` (or `ark run --dry-run`) only looks  *)
(* at it, with ValidateDAG.  A script sees the exit code and nothing else. *)
(***************************************************************************)
EXTENDS LocalExecutor, ValidateDAG

VARIABLES
  command,  \* run, validate
  loaded,   \* the file has a flow, and it is the one asked for
  exit      \* "" while the command runs, then ok (0) or error (1, or 2 of a panic)

cliVars == <<vars, dfsVars, command, loaded, exit>>

(* A flow that is run is given to the executor as it is; one that is validated
   may be any. *)
CLIInit ==
  /\ command \in {"run", "validate"} /\ loaded = FALSE /\ exit = ""
  /\ Init /\ DFSInit
  /\ command = "run" => deps = DependsOn

CLITypeOK ==
  /\ LocalTypeOK /\ DFSTypeOK
  /\ command \in {"run", "validate"} /\ loaded \in BOOLEAN /\ exit \in {"", "ok", "error"}
-----------------------------------------------------------------------------
ExitWith(code) == exit = "" /\ exit' = code

(* LoadFile and selectFlow. *)
Load ==
  /\ exit = "" /\ ~loaded /\ loaded' = TRUE
  /\ UNCHANGED <<vars, dfsVars, command, exit>>

(* No such file, no flow in it, none of that name, an --input that is not JSON. *)
LoadFails ==
  /\ ~loaded /\ ExitWith("error")
  /\ UNCHANGED <<vars, dfsVars, command, loaded>>

(* runFlow: exec.Run on the loaded flow, without ValidateDAG. *)
RunFlow ==
  /\ command = "run" /\ loaded /\ Run
  /\ UNCHANGED <<dfsVars, command, loaded, exit>>

(* printText and printJSON. *)
PrintResult ==
  /\ pc = "returned" /\ ExitWith(IF f.phase = "Failed" THEN "error" ELSE "ok")
  /\ UNCHANGED <<vars, dfsVars, command, loaded>>

Panics ==
  /\ pc = "crashed" /\ ExitWith("error")
  /\ UNCHANGED <<vars, dfsVars, command, loaded>>

(* dryRun: the graph, then the agents of the steps. *)
DryRun ==
  /\ command = "validate" /\ loaded /\ DFSNext
  /\ UNCHANGED <<vars, command, loaded, exit>>

DryRunEnds ==
  /\ at = "done"
  /\ ExitWith(IF verdict = "ok" /\ agents = Step THEN "ok" ELSE "error")
  /\ UNCHANGED <<vars, dfsVars, command, loaded>>

Proceed == Load \/ LoadFails \/ RunFlow \/ PrintResult \/ Panics \/ DryRun \/ DryRunEnds

(* What happens to a command by itself: time passes, a server stops answering. *)
Around ==
  /\ Tick \/ \E s \in Step : ServerHangs(s)
  /\ UNCHANGED <<dfsVars, command, loaded, exit>>

CLINext == Proceed \/ Around

(* The process goes on as long as it has something to go on with, which it has not
   while every goroutine of the batch waits for an MCP server (ServerHangs). *)
CLISpec == CLIInit /\ [][CLINext]_cliVars /\ WF_cliVars(Proceed)
-----------------------------------------------------------------------------
(* No step is listed before one it depends on. *)
InOrder == \A s \in Step : DependsOn[s] \subseteq 1 .. s - 1

(* The exit code tells the outcome.  `ark validate` accepts exactly the flows
   whose steps can be ordered and all have agents.  `ark run` reports success
   exactly if the flow succeeded, of a flow that lists its steps after what they
   depend on: Run never gives such a flow up halfway and then calls it no
   failure. *)
ExitTellsOutcome ==
  /\ exit # "" /\ command = "validate" =>
       (exit = "ok" <=> loaded /\ ValidDAG(deps) /\ agents = Step)
  /\ exit # "" /\ command = "run" /\ InOrder =>
       (exit = "ok" <=> loaded /\ f.phase = "Succeeded")

(* The rest of the batch is done, and each goroutine left waits for an MCP server
   that never answers; no deadline ends that (executor.go:191 comes before 196). *)
WaitsForServers == pc = "collect" /\ running # {} /\ running \subseteq hung

(* Every command ends, however the flow's steps answer and loop and whatever
   graph the file has, or it comes to wait for MCP servers that never answer and for
   nothing else: neither the search nor Run goes round for ever, and a server that
   hangs does not keep the other steps of the batch from ending. *)
CommandReturns == <>(exit # "" \/ WaitsForServers)
=============================================================================
