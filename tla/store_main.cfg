SPECIFICATION Spec
CONSTANTS
  d1 = d1
  i1 = i1
  o1 = o1
  UI = UI
  None = None
  Deliverers <- OneDeliverer
  Inbound <- NoMsgs
  Outbound <- OneOutbound
  CanRetry <- OneOutbound
  FineClock = FALSE
  EarlyUse = TRUE
  MaxRestarts = 1
INVARIANTS TypeOK CacheCoherence ViewIsCurrent
