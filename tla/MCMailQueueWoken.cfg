SPECIFICATION Spec
CHECK_DEADLOCK FALSE
CONSTANTS
  p1 = p1
  p2 = p2
  Producers <- TheProducers
  MaxPush = 1
  Polling = TRUE
  Sentinel = Sentinel
  Null = Null
  None = None
PROPERTY
  AllReceived
