\* One model call fails and is retried.
SPECIFICATION Spec
CONSTANTS
  Outputs = {done}
  NoOutput = NoOutput
  AgainOutputs = {}
  JSONOutputs = {}
  Costs = {0}
  NumSteps = 2
  DependsOn <- Chain
  Conditional = {}
  MaxIterations <- NoLoops2
  CrossLoop = {}
  WithSchema = {}
  MaxTokens = 0
  TimeoutSeconds = 0
  Pod = {p1}
  MaxRetries = 1
  GroupExists = TRUE
  FaultKinds <- TaskErrors
  MaxFaults = 0
  MaxSubtasks = 0
  ClientTasks = {}
PROPERTIES AnswersReachTheirStep
