SPECIFICATION MCSpec
CHECK_DEADLOCK FALSE
CONSTANTS
  p1 = p1
  p2 = p2
  t1 = t1
  t2 = t2
  t3 = t3
  Producers <- TheProducers
  MaxPush = 2
  Polling = TRUE
  Callers <- TheCallers
  Few <- TheFew
  QueueSize = 2
  MaxCalls = 3
  Settlers <- TheFew
  NumCores = 5
  NumRoots = 1
  Continuations <- AllKinds
  MaxInputs = 3
  Sentinel = Sentinel
  Null = Null
  None = None
INVARIANTS
  Types
  InOrder
  NoUseAfterFree
  Hidden
  Handed
  Told
  RightOutcome
PROPERTIES
  RefusedRightly
  ReceivedWhenAsked
  CallsReturn
  Answers
