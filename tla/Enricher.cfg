SPECIFICATION EnricherSpec
CONSTANTS
  Ids = {a, b, c, d}
  Favorites = {a}
  Configured = {"tpdb", "stashdb"}
  MaxQueue = 3
  MaxPerTick = 2
  Concurrency = 1
  Sources = {"tpdb", "stashdb"}
  Writers <- OneWriterEach
  MaxFaults = 1
INVARIANTS SingleLookup OwedPending
PROPERTIES PriorityDrained ImplementsPool StoresConverge
