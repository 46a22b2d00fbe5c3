\* Every source and policy; two callers without faults, one caller with; one fault of any kind.
SPECIFICATION Spec
CONSTANTS
  r1 = r1
  r2 = r2
  Cases <- EveryCase
  DueTimes = {1, 3}
  Lookback = 2
  Requests = {r1, r2}
  SyncRequests = {r2}
  SyncTimeout = 1
  MaxFaults = 1
  MaxNow = 1
  MaxRuns = 9
INVARIANTS EventTypeOK AnswersAreOwn OncePerCause NothingForgotten
PROPERTIES EveryCauseFires RequestsAnswered
CHECK_DEADLOCK FALSE
