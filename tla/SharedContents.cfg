SPECIFICATION FairSpec
CONSTANTS
  r1 = r1  r2 = r2
  c1 = c1  c2 = c2  c3 = c3
  NoCid = NoCid
  Requests = {r1, r2}
  Cids = {c1, c2}
  Objects <- FolderObjects
  StrayMatches = {}
  Targets <- FolderTargets
  Contents <- SameContents
  TrimEmptyFolders = TRUE
  OneAtATime = FALSE
  Faulty = {"get", "unlink", "delete", "like", "trim"}
  MayDisconnect = FALSE
  MayCrash = FALSE
INVARIANTS TypeOK PinsAccounted LinksAccounted
PROPERTY OrphansUnpinned
