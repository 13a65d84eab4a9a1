SPECIFICATION Spec
CONSTANTS
  Router = Router
  UI = UI
  None = None
  MaxRestarts = 1
  MaxFaults = 1
INVARIANTS TypeOK AttachmentsAreStored
PROPERTIES StripKeepsTheState
