SPECIFICATION Spec
CONSTANTS
  r0 = r0  r1 = r1  r2 = r2
  m1 = m1
  p1 = p1  p2 = p2
  None = None
  Records = {r1}
  Movies = {m1}
  Paths = {p1}
  Consumers = {c1, c2}
  MovieOf <- OneMovieOf
  DestOf <- OneDestOf
  Replacing = {}
  Imported = {}
  Sources <- OneSources
  Vanishing = {}
  Cancellable = {}
  Modes = {"hardlink"}
  RootsConfigured = FALSE
  MaxAttempts = 3
  QueueCap = 2
  MaxCrashes = 1
INVARIANT
  ImportingIsResumable
CHECK_DEADLOCK FALSE
