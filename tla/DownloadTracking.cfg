SPECIFICATION FairSpec
CONSTANTS
  Torrents = {t1}
  Movies = {m1}
  t1 = t1  m1 = m1
  MovieOf <- OneMovieOf
  GoodQuality = {t1}
  Ids = {i1, i2}
  Grabbers = {g1}
  KeepSeeding = FALSE
  WithFile = {m1}
  MaxGrabs = 1
  Faults = {"database", "client", "crash"}
  OrphanJob = TRUE
  None = None
INVARIANTS
  TypeOK ProposedOnce
PROPERTIES
  DoneIsTracked VanishedIsPurged StaleProposalPruned
CHECK_DEADLOCK FALSE
