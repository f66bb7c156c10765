SPECIFICATION FairSpec
CONSTANTS
  m1 = m1  m2 = m2
  f1 = f1  f2 = f2  f3 = f3
  o1 = o1  p1 = p1  p2 = p2  p3 = p3
  Scans = {s1}
  Files = {f1, f2, f3}
  Movies = {m1, m2}
  MovieOf <- NewMovieOf
  Known = {m1}
  OldOf <- OldElsewhere
  DirOf <- TwoDirs
  PlacedOf <- Placed
  Clients = {c1}
  Modes = {"in_place", "rename"}
  Faults = {"db", "disk", "crash", "status"}
  MaxRows = 3
INVARIANTS
  TypeOK ReviewComplete NewMovieOneFile
PROPERTIES
  ScanSettles
CHECK_DEADLOCK FALSE
