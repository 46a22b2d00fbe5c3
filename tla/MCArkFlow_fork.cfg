\* A fork of three steps, the first looping, on two pods; tasks, prompts and pods may fail.
SPECIFICATION Spec
CONSTANTS
  Outputs = {again, done}
  NoOutput = NoOutput
  AgainOutputs = {again}
  JSONOutputs = {again}
  Costs = {0}
  NumSteps = 3
  DependsOn <- Fork
  Conditional = {}
  MaxIterations <- FirstOf3Loops
  CrossLoop = {}
  WithSchema = {1}
  MaxTokens = 0
  TimeoutSeconds = 0
  Pod = {p1, p2}
  MaxRetries = 1
  GroupExists = TRUE
  FaultKinds <- AgentFaults
  MaxFaults = 1
  MaxSubtasks = 0
  ClientTasks = {}
INVARIANTS SubmittedOnce FailedStepFailsFlow FieldsAreCurrent
PROPERTIES FlowSucceeds
