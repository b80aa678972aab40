SPECIFICATION Spec
CONSTANTS
  IntHalf = 4
  Workers = {w1, w2}
  Keys <- HashValues
  MAX_DOC = 2
  MaxHashes = 3
  MaxAdds = 4
INVARIANTS TreeBounded
PROPERTIES ImplementsSeenSet
CHECK_DEADLOCK FALSE
