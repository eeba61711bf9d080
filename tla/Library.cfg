SPECIFICATION LibrarySpec
CONSTANTS
  Keys = {1, 2}
  Images = {"a"}
  Setters = {1, 2}
  MaxStores = 2
  Posters <- OnePoster
  MaxFaults = 1
  People = {"u", "v"}
  GoogleOf <- Googles
  Torrents = {"t", "s"}
  Magnets = {"", "m"}
  Calls = {1, 2}
  MaxEntries = 2
  FavFaults = 1
  Persons = {"p", "q", "r"}
  EmailOf <- Addresses
  Invited = {"a", "b"}
  Older = {"a"}
  Logins = {1, 2}
  CodeLife = 2
  CodeGrace = 1
  SessionLife = 3
  MaxNow = 3
  MaxStoreFaults = 1
  Magnet = {"m"}
  Favs <- TwoFavorites
  MaxRetries = 2
  MaxTorrents = 3
  MaxRequests = 1
INVARIANTS KeyedObjectsExist BackfillCovers AddedIsKept  LeavesOne
