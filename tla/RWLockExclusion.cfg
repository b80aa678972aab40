SPECIFICATION Spec
CONSTANTS
  Threads = {t1, t2, t3}
  Destroyer = t1
  MaxPacks = 3
INVARIANT StatusTellsWhoReleases
CHECK_DEADLOCK FALSE
