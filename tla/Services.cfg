SPECIFICATION ServicesSpec
CONSTANTS
  k1 = k1  k2 = k2  c1 = c1  c2 = c2
  t0 = t0  h0 = h0  q1 = q1  q2 = q2  q3 = q3
  Keys = {k1, k2}
  Callers = {c1, c2}
  Limit = 2
  Window = 3
  MaxKeys = 1
  Skew = 1
  MaxTime = 6
  None = None
  Logins = {c1, c2}
  Threshold = 2
  LockoutWindow = 2
  LockoutDuration = 3
  CountMod = 4
  CompareTime = 1
  MaxNow = 6
  MaxFails = 4
  Never = Never
  Titles = {t0}
  Rows = {q1, q2, q3}
  Clients = {c1, c2}
  MaxAdds = 2
  Hashes = {h0}
  EngineUsers = {c1, c2}
  Faults = {"db", "disk", "add", "crash"}
  MaxTorrents = 2
  Absent = Absent
INVARIANTS
  TypeOK WindowBound ForgetsOnlyAged TableBounded
  CountExact GuessBound
  ApprovedOnce ApprovedIsInLibrary
  LiveHasRow PauseHolds
PROPERTIES
  RefusalJustified BudgetSpec
SYMMETRY CallerKeySymmetry
CHECK_DEADLOCK FALSE
