SPECIFICATION FairSpec
CONSTANTS
  UICalls <- SyncOnly
  Starters <- PeerStarter
  EnableNode = TRUE
  MaxRuns = 2
  MaxTicks = 1
INVARIANTS TypeOK LoopsEndBeforeClose ClocksAgree
PROPERTIES ShutdownReturns AnnouncesGoOn
CHECK_DEADLOCK FALSE
