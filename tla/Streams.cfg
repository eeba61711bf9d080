SPECIFICATION SourcesSpec
CONSTANTS
  Requests = {r, s}
  Providers <- Three
  Lists <- Pairs
  Hashes = {h}
  Misfits <- Mislabelled
  Concurrency = 1
  MinResults = 1
  Pages = {p, q, t}
  Nowhere = nowhere
  Callers = {c, d}
  QueueSize = 1
  Lifetime = 1
  Horizon = 3
  Releases = {m}
  NoRelease = none
  Interval = 8
  MaxAge = 7
  LinkTTL = 10
  EndOfTime = 18
  Versions = 2
  MaxMisses = 1
INVARIANTS AnswerIsWhole  MarkIsJob LinksStay MovedIsDue
PROPERTY EveryRequestEnds
CHECK_DEADLOCK FALSE
