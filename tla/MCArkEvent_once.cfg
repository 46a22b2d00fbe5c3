\* A completion of the watched flow, and one stale read of the cache.
SPECIFICATION Spec
CONSTANTS
  r1 = r1
  r2 = r2
  Cases <- LaggingCache
  DueTimes = {1, 3}
  Lookback = 2
  Requests = {r1, r2}
  SyncRequests = {r2}
  SyncTimeout = 1
  MaxFaults = 1
  MaxNow = 1
  MaxRuns = 9
INVARIANT OncePerCompletion
CHECK_DEADLOCK FALSE
