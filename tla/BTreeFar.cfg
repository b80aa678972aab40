SPECIFICATION Spec
CONSTANTS
  Half = 10
  Wraps = TRUE
  MaxKeys = 3
  MinKeys = 1
  Key <- FarKeys
PROPERTIES StoredIsFound
