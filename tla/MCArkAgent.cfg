\* Two steps that use up the budget of an agent together, or an agent without one; one fault or edit of any kind.
SPECIFICATION Spec
CONSTANTS
  s1 = s1
  s2 = s2
  Limits = {0, 2}
  Replicas = {1}
  FlowSteps = {s1, s2}
  Costs = {1}
  Window = 1
  Buffer = 1
  FaultKinds <- EveryFault
  MaxFaults = 1
  MaxNow = 1
INVARIANTS AgentTypeOK RestsInAgreement
PROPERTY ComesToAgree
CHECK_DEADLOCK FALSE
