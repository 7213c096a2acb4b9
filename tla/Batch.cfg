SPECIFICATION FairBatchSpec
CONSTANTS
  r1 = r1  r2 = r2  r3 = r3
  c1 = c1  c2 = c2
  NoCid = NoCid
  Requests = {r1, r2, r3}
  Cids = {c1, c2}
  Objects <- TwoClients
  StrayMatches = {}
  Targets <- OwnTargets
  Contents <- OwnContent
  TrimEmptyFolders = TRUE
  OneAtATime = FALSE
  Faulty = {}
  MayDisconnect = FALSE
  MayCrash = FALSE
  BatchSlots = {r1, r2}
  BatchKeys <- OwnKeys
  MaxBatch = 2
INVARIANTS RowsLinked TidyWhenIdle BatchSucceeds
PROPERTIES FoldersTrimmed
