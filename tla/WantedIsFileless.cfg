SPECIFICATION Spec
CONSTANTS
  r0 = r0  r1 = r1  r2 = r2
  m1 = m1
  p1 = p1  p2 = p2
  None = None
  Records = {r1, r2}
  Movies = {m1}
  Paths = {p1, p2}
  Consumers = {c1, c2}
  MovieOf <- TwinMovieOf
  DestOf <- TwinDestOf
  Replacing = {}
  Imported = {}
  Sources <- TwinSources
  Vanishing = {}
  Cancellable = {r1, r2}
  Modes = {"hardlink"}
  RootsConfigured = TRUE
  MaxAttempts = 1
  QueueCap = 1
  MaxCrashes = 0
INVARIANT
  WantedIsFileless
CHECK_DEADLOCK FALSE
