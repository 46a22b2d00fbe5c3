\* A client's task and one sub-task on two pods, one fault of any kind.
SPECIFICATION RuntimeSpec
CONSTANTS
  p1 = p1
  p2 = p2
  Pod = {p1, p2}
  MaxRetries = 1
  Outputs = {done}
  NoOutput = NoOutput
  AgainOutputs = {}
  JSONOutputs = {}
  Costs <- Usages
  GroupExists = TRUE
  FaultKinds <- AllFaults
  MaxFaults = 1
  MaxSubtasks = 1
  ClientTasks <- Clients
  NumServers = 2
  Provider <- TwoProviders
  Outages = {"down", "hung"}
  MaxOutages = 1
  MaxCost = 1
  MaxTurns = 1
  MaxCalls = 1
INVARIANTS RuntimeTypeOK OneResultPerTask WorkConserved DeadOnlyWhenExhausted TasksAreKept EveryCallAnswered
PROPERTIES EveryTaskConcludes ImplementsQueue UsageIsWhole
CHECK_DEADLOCK FALSE
