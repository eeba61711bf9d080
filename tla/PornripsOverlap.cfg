SPECIFICATION FeedSpec
CONSTANTS
  LastPost = 2
  FeedPage = 1
  PagesPerTick = 1
  PassSize = 2
  Window = 2
  NoTorrent = {2}
  InDatabases = {2}
  Runners = {"tick", "manual"}
  Archive = {}
  IngestOnly = {}
  MaxHiccups = 0
PROPERTY EnrichedKept
