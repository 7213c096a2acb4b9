SPECIFICATION Spec
CONSTANTS
  r1 = r1  r2 = r2
  c1 = c1  c2 = c2  c3 = c3
  NoCid = NoCid
  Requests = {r1, r2}
  Cids = {c1, c2}
  Objects <- OneObject
  StrayMatches = {}
  Targets <- SameTargets
  Contents <- SameContents
  TrimEmptyFolders = TRUE
  OneAtATime = TRUE
  Faulty = {}
  MayDisconnect = FALSE
  MayCrash = FALSE
INVARIANT RowsPinned
