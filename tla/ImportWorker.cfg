SPECIFICATION FairSpec
CONSTANTS
  r0 = r0  r1 = r1  r2 = r2
  m1 = m1
  p1 = p1  p2 = p2
  None = None
  Records = {r0, r1}
  Movies = {m1}
  Paths = {p1}
  Consumers = {c1, c2}
  MovieOf <- UpgradeMovieOf
  DestOf <- UpgradeDestOf
  Replacing = {r1}
  Imported = {r0}
  Sources <- UpgradeSources
  Vanishing = {r1}
  Cancellable = {r1}
  Modes = {"hardlink", "copy", "move"}
  RootsConfigured = TRUE
  MaxAttempts = 2
  QueueCap = 2
  MaxCrashes = 1
INVARIANTS
  TypeOK InFlightExact AvailableHasRow NoTruncatedRow
  HardlinkRetryIdempotent
PROPERTIES
  FileBeforeRow ImportingSettles
CHECK_DEADLOCK FALSE
