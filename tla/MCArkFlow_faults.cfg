\* A chain whose first step may loop and whose second is conditional, with a budget, a timeout,
\* agents that may be missing or never answer, and one fault of any kind.
SPECIFICATION Spec
CONSTANTS
  Outputs = {again, done}
  NoOutput = NoOutput
  AgainOutputs = {again}
  JSONOutputs = {}
  Costs = {1}
  NumSteps = 2
  DependsOn <- Chain
  Conditional = {2}
  MaxIterations <- FirstLoops
  CrossLoop = {}
  WithSchema = {}
  MaxTokens = 1
  TimeoutSeconds = 1
  Pod = {p1}
  MaxRetries = 1
  GroupExists = FALSE
  FaultKinds <- EveryFault
  MaxFaults = 1
  MaxSubtasks = 0
  ClientTasks = {}
INVARIANTS TypeOK TaskIDsCorrelate OutputsAreAnswers DependenciesStayDone VerdictIsEarned
PROPERTIES TerminalIsFinal ImplementsLifecycle ResumesWhenReady NeverForgotten
