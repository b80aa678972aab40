SPECIFICATION RioSpec
CONSTANTS
  Responses <- AllResponses
  RequestLen = 2
  MAX_BUFFER = 4
  TmpLen = 4
  Behind <- Digits0to1
INVARIANT DecodesChunks
PROPERTY DecodeReturns
CHECK_DEADLOCK FALSE
