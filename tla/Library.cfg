SPECIFICATION LibrarySpec
CONSTANTS
  r0 = r0  r1 = r1  r2 = r2
  m1 = m1
  p1 = p1  p2 = p2
  None = None
  Records = {r1, r2}
  Movies = {m1}
  Paths = {p1, p2}
  Consumers = {c1, c2}
  MovieOf <- TwinMovieOf
  DestOf <- TwinDestOf
  Replacing = {r1}
  Imported = {}
  Sources <- TwinSources
  Vanishing = {r2}
  Cancellable = {r1}
  Modes = {"hardlink"}
  RootsConfigured = FALSE
  MaxAttempts = 1
  QueueCap = 1
  MaxCrashes = 0
  Titles = {m1}
  Sides = {s1, s2}
  Home = s1
  Askers = {a1}
  Grace = 2
  MaxFaults = 1
  MaxIds = 2
  NoRow = NoRow
  Never = Never
INVARIANTS
  FilesTypeOK RowHasFile
PROPERTIES
  LedgerSpec GraceWhenChecked
SYMMETRY ConsumerSymmetry
CHECK_DEADLOCK FALSE
