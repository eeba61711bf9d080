SPECIFICATION JobsSpec
CONSTANTS
  Tasks = {"pornripsSync"}
  Locked = {}
  Dynamic = {}
  Requests = {r1}
  MaxTimers = 1
INVARIANT NoOverlap
