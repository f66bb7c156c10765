SPECIFICATION Spec
CONSTANTS
  Torrents = {t1}
  Movies = {m1}
  t1 = t1  m1 = m1
  MovieOf <- OneMovieOf
  GoodQuality = {t1}
  Ids = {i1, i2}
  Grabbers = {g1}
  KeepSeeding = FALSE
  WithFile = {}
  MaxGrabs = 1
  Faults = {}
  OrphanJob = FALSE
  None = None
INVARIANT
  NoMovieStuck
CHECK_DEADLOCK FALSE
