\* A looping step whose iterations together exceed the budget.
SPECIFICATION SafetySpec
CONSTANTS
  Outputs = {again, done}
  NoOutput = NoOutput
  AgainOutputs = {again}
  JSONOutputs = {}
  Costs = {1}
  NumSteps = 2
  DependsOn <- Chain
  Conditional = {}
  MaxIterations <- FirstLoops
  CrossLoop = {}
  WithSchema = {}
  MaxTokens = 2
  TimeoutSeconds = 0
  Pod = {p1}
  MaxRetries = 1
  GroupExists = TRUE
  FaultKinds <- NoFaults
  MaxFaults = 0
  MaxSubtasks = 0
  ClientTasks = {}
INVARIANTS BudgetCoversRun
