SPECIFICATION FairSpec
CONSTANTS
  Threads = {w1, w2, w3}
  Owner = w1
  None = none
  MAX_URL = 5
  NUM_URL2FILE = 4
  NUM_URL2MEMERY = 2
  MaxAdds = 8
INVARIANTS IInv CriticalSections RefilledPopSafe SpillFileReadable EachURLOnce
PROPERTIES ImplementsPool EveryURLDelivered
