\* ark run on a diamond with two conditional steps, two loops, a budget and a timeout;
\* ark validate on every small graph.
SPECIFICATION CLISpec
CONSTANTS
  Outputs = {again, done}
  NoOutput = NoOutput
  AgainOutputs = {again}
  JSONOutputs = {}
  Costs = {1, 2}
  NumSteps = 4
  DependsOn <- Diamond
  Conditional = {2, 4}
  MaxIterations <- TwoLoops
  CrossLoop = {2}
  WithSchema = {}
  MaxTokens = 6
  TimeoutSeconds = 1
  StepErrors = TRUE
  MCPOutages = {"lost", "hung"}
  AgentSets <- AllButOne
  Graphs <- SmallGraphs
INVARIANTS CLITypeOK ReportsWholeOutcome ExitTellsOutcome VerdictRight
PROPERTIES RunsLifecycle CommandReturns
CHECK_DEADLOCK FALSE
