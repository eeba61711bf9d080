SPECIFICATION FeedsSpec
CONSTANTS
  Sites <- AllSites
  Runs = {"tick", "manual"}
  MaxPosts = 2
  PageSize = 1
  PagesCaps = {1, 2}
  PerTick = 1
  MaxFaults = 2
  LastPost = 3
  FeedPage = 1
  PagesPerTick = 2
  PassSize = 2
  Window = 2
  NoTorrent = {2}
  InDatabases = {2}
  Runners = {"job", "bulk"}
  Archive = {"bulk"}
  IngestOnly = {"bulk"}
  MaxHiccups = 1
  Scenes = {1, 2}
  Browse <- MCBrowse
  FullPage = 1
  Keys = {1, 2}
  Sources = {"knaben_adult", "pornrips"}
  Finds <- MCFinds
  PerSource = 1
  Configs = {{"pornrips"}, {"knaben_adult", "pornrips"}}
  MaxLost = 1
INVARIANT ListedOpens
PROPERTIES DetailKept ReachedIsStored EveryEntrySettles WalkCovers EnrichedKept MatchKept
