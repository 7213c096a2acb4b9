SPECIFICATION FairBatchSpec
CONSTANTS
  r1 = r1  r2 = r2  r3 = r3
  c1 = c1  c2 = c2
  NoCid = NoCid
  Requests = {r1, r2}
  Cids = {c1}
  Objects <- ThreeKeys
  StrayMatches <- WildMatch
  Targets <- ThreeTargets
  Contents <- OwnContent
  TrimEmptyFolders = TRUE
  OneAtATime = FALSE
  Faulty = {"get", "add", "cp", "store", "count", "unpin", "unlink", "delete", "like", "trim"}
  MayDisconnect = TRUE
  MayCrash = TRUE
  BatchSlots = {r1, r2}
  BatchKeys <- ThreeKeys
  MaxBatch = 2
INVARIANT DeletedIsGone
PROPERTIES BatchEnds TrimSparesLive
