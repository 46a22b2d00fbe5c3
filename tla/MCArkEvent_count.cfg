\* One asynchronous request beside the reconciles of the event.
SPECIFICATION Spec
CONSTANTS
  r1 = r1
  r2 = r2
  Cases <- OneCaller
  DueTimes = {1, 3}
  Lookback = 2
  Requests = {r1, r2}
  SyncRequests = {r2}
  SyncTimeout = 1
  MaxFaults = 0
  MaxNow = 1
  MaxRuns = 9
PROPERTY FiredCountNeverFalls
CHECK_DEADLOCK FALSE
