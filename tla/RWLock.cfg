SPECIFICATION Spec
CONSTANTS
  Threads = {t1, t2, t3}
  Destroyer = t1
  MaxPacks = 3
INVARIANTS IInv CountsAreHolders DestroyOutwaitsReaders
PROPERTIES NobodyOvertakes EveryWaiterGetsIn
CHECK_DEADLOCK FALSE
