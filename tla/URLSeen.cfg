SPECIFICATION FairSpec
CONSTANTS
  Keys = {s1, k1, k2}
  NoKey = noKey
  MAX_LRU = 2
  Workers = {w1, w2}
  Seeds = {s1}
  MaxLines = 3
  MaxChecks = 5
INVARIANTS IInv MarkedIsKept EvictedIsAKey NothingSkipped
PROPERTIES MissedOnlyInFlight EvictedReachesFile
CHECK_DEADLOCK FALSE
