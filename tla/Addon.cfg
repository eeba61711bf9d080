SPECIFICATION AddonSpec
CONSTANTS
  Studios = {"s", "vr"}
  Only1080 = {"vr"}
  Discovered = {"s"}
  Tubes = {"tube"}
  Known = {"bdsm", "milf"}
  Defaults = {"milf"}
  Raws <- MCRaws
  Hashes <- MCHashes
  Scene <- MCScene
  Resolution <- MCResolution
  Code <- MCCode
  NoCode = "no"
  Star <- MCStar
  Mentions <- MCMentions
  Seeds = {1, 2}
  Rounds = 2
  Listing <- MCListing
  MaxResults = 2
  Skips = {0, 1}
  LiveMax = 1
  Kinds = {"compact", "plain", "pornrips"}
  Rows <- MCRows
  Indexers <- MCIndexers
  IndexerOf <- MCIndexerOf
  InScope <- MCInScope
  Base <- MCBase
  Installs <- MCInstalls
  Enabled <- MCEnabled
  Job = job
  NoPage = NoPage
  ColdKey = cold
  Profiles <- MCProfiles
  MaxFaults = 1
  MaxBusts = 1
  Tasks = 4
  Slots = 2
  MaxEntries = 2
  Sites <- MCSites
INVARIANTS RowsOpen OnlyEnabled Aligned OpenFinds SourceGate BustHolds NoSendOnClosed NothingDropped
PROPERTY AllEnd
CHECK_DEADLOCK FALSE
