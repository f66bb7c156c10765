SPECIFICATION FairSpec
CONSTANTS
  Loops = {l1, l2}
  Runs = {e1, e2}
  Clients = {p1, p2}
  Intervals = {short, long}
  PausedAtBoot = {TRUE, FALSE}
  None = None
INVARIANTS
  TypeOK NoOverlap DormantUnlessRaced OneLoop ArmedWhenActive
PROPERTIES
  KeepsRunning ClosedLoopEnds
