SPECIFICATION FairSpec
CONSTANTS
  d1 = d1
  i1 = i1
  o1 = o1
  UI = UI
  None = None
  Deliverers <- OneDeliverer
  Inbound <- OneInbound
  Outbound <- OneOutbound
  CanRetry <- NoMsgs
  FineClock = TRUE
  EarlyUse = FALSE
  MaxRestarts = 0
PROPERTIES StoredIsShown
