SPECIFICATION Spec
CONSTANTS
  Ids = {a, b}
  Favorites = {a}
  Configured = {"tpdb", "stashdb"}
  MaxQueue = 2
  MaxPerTick = 1
  Concurrency = 1
INVARIANT OwedIsRetried
