SPECIFICATION LifeSpec
CONSTANTS
  r1 = r1  r2 = r2
  c1 = c1  c2 = c2  c3 = c3
  NoCid = NoCid
  Requests = {r1, r2}
  Cids = {c1, c2, c3}
  Objects <- ConflictingObjects
  StrayMatches = {}
  Targets <- ConflictingTargets
  Contents <- ClientContents
  TrimEmptyFolders = TRUE
  OneAtATime = FALSE
  Faulty = {"get", "add", "cp", "store", "count", "unpin", "unlink", "delete", "like", "trim"}
  MayDisconnect = TRUE
  MayCrash = TRUE
INVARIANT RowsPinned
PROPERTY ServerStops
