SPECIFICATION ChoicesSpec
CONSTANTS
  Keys = {1}
  Images = {"a", "b"}
  Setters = {1, 2}
  Posters <- OnePoster
  MaxFaults = 0
  MaxStores = 2
INVARIANTS ManualKept
