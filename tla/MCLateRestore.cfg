CONSTANTS
  Processes = {p1, p2, p3}
  None = None
CONSTRAINT OnlyServers
SPECIFICATION Spec
PROPERTIES SwapAtNextStart
CHECK_DEADLOCK FALSE
