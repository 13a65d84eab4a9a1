SPECIFICATION Spec
CONSTANTS
  d1 = d1
  d2 = d2
  i1 = i1
  i2 = i2
  i3 = i3
  o1 = o1
  UI = UI
  None = None
  TornWrites = FALSE
  Deliverers <- OneDeliverer
  Inbound <- ThreeInbound
  Outbound <- NoMsgs
INVARIANTS TallyCoversWaiting FlagFileHoldsTheCount
SYMMETRY Symmetry
