\* An ArkService that may select one of two agents or none; two faults or edits of any kind.
SPECIFICATION Spec
CONSTANTS
  Agents = {a, b}
  NoAgent = NoAgent
  PortLists = {http, twice}
  Refused = {twice}
  FaultKinds <- EveryFault
  MaxFaults = 2
INVARIANT ServiceTypeOK
PROPERTIES RestsInAgreement ComesToAgree
CHECK_DEADLOCK FALSE
