SPECIFICATION ReadSpec
CONSTANTS
  r1 = r1  r2 = r2
  c1 = c1  c2 = c2
  NoCid = NoCid
  Requests = {r1, r2}
  Cids = {c1, c2}
  Objects <- OneObject
  StrayMatches = {}
  Targets <- SameTargets
  Contents <- OverlappingContents
  TrimEmptyFolders = FALSE
  OneAtATime = FALSE
  Faulty = {"get", "add", "cp", "store", "count", "unpin", "unlink", "delete", "like", "trim"}
  MayDisconnect = TRUE
  MayCrash = TRUE
  Readers = {g}
  Readable <- OneObject
  Mode = "auto"
INVARIANT ReadsAcknowledged
PROPERTY ImplementsS3Store
