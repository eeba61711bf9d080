SPECIFICATION ServerSpec
CONSTANTS
  Ips = {i1, i2}
  Limits <- TwoLimits
  MaxTime = 5
  MaxRequests = 4
  Addrs = {i1, i2}
  Callers = {c1, c2}
  MaxFaults = 2
  Tasks = {"searchResultsCache"}
  Locked = {"searchResultsCache"}
  Dynamic = {}
  Requests = {r1, r2}
  MaxTimers = 1
INVARIANTS NothingForgotten ServedWithinLimits OneSyncHeals ExclusiveRuns StatusTruthful StopPrompt
PROPERTIES ListSettles JobsSettle
