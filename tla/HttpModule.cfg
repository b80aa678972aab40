SPECIFICATION FairSpec
CONSTANTS
  Hosts = {h1, h2}
  NoHost = noHost
  Portal = portal
  MaxFetches = 2
INVARIANTS IInv NothingUnexpected OwnPage FromItsHost SocketClosed
PROPERTIES EveryFetchReturns EveryHelperEnds
CHECK_DEADLOCK FALSE
