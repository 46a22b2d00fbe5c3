\* One step that loops.
SPECIFICATION Spec
CONSTANTS
  Outputs = {again, done}
  NoOutput = NoOutput
  AgainOutputs = {again}
  JSONOutputs = {}
  Costs = {0}
  NumSteps = 1
  DependsOn <- LoneStep
  Conditional = {}
  MaxIterations <- LoopOnce
  CrossLoop = {}
  WithSchema = {}
  MaxTokens = 0
  TimeoutSeconds = 0
  StepErrors = FALSE
  MCPOutages = {}
  AgentSets <- ItsAgent
INVARIANT LoopsRunOut
CHECK_DEADLOCK FALSE
