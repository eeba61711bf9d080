SPECIFICATION Spec
CONSTANTS
  Sites <- OnlyFill
  Runs = {"tick"}
  MaxPosts = 3
  PageSize = 1
  PagesCaps = {3}
  PerTick = 1
  MaxFaults = 1
PROPERTY EndMeansCovered
