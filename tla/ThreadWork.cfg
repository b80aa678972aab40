SPECIFICATION Spec
CONSTANTS
  w1 = w1
  w2 = w2
  w3 = w3
  Symbols = {"a", "b", "c", "x", "/", "&", "&amp;"}
  Keys <- Hashes
  NoKey = NoKey
  MAX_LRU = 2
  Workers = {w1, w2, w3}
  Web <- SmallWeb
  Seeds <- TwoLines
  SeedHashes <- SeedOrStray
  Filtered <- OtherHost
  Digest <- Sum3
  Mod <- ByLength
INVARIANT PushesAreBounded
PROPERTIES LinksAreScheduled CrawlEnds
CHECK_DEADLOCK FALSE
