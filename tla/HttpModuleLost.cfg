SPECIFICATION Spec
CONSTANTS
  Hosts = {h1, h2}
  NoHost = noHost
  Portal = portal
  MaxFetches = 2
INVARIANTS AnswerWakesFetch
CHECK_DEADLOCK FALSE
