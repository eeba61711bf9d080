SPECIFICATION FairMetaSpec
CONSTANTS
  Sources = {"tpdb"}
  Writers = {}
  MaxFaults = 0
PROPERTY EmptyPosterReprobed
