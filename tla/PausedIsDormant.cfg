SPECIFICATION Spec
CONSTANTS
  Loops = {l1, l2}
  Runs = {e1, e2}
  Clients = {p1}
  Intervals = {short}
  PausedAtBoot = {FALSE}
  None = None
INVARIANTS
  PausedIsDormant
