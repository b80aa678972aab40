SPECIFICATION Spec
CONSTANTS
  Keys = {k1, k2, k3, k4}
  NoKey = noKey
  MAX_LRU = 3
  Pages = {p1, p2, p3, p4}
  NULL = null
SYMMETRY Addresses
INVARIANTS ListWellFormed
PROPERTIES ImplementsLRU
