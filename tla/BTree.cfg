SPECIFICATION FairSpec
CONSTANTS
  Half = 10
  Wraps = TRUE
  MaxKeys = 3
  MinKeys = 1
  Key <- NearKeys
INVARIANTS TypeOK HeaderRight EnoughKeys Balanced
PROPERTIES ImplementsTable EveryCallReturns
