SPECIFICATION ChannelsSpec
CONSTANTS
  h1 = h1
  h2 = h2
  r1 = r1
  NoHub = NoHub
  NoRoom = NoRoom
  Hubs <- TwoHubs
  Rooms <- OneRoom
  QueueMax = 2
  AddMax = 2
  MaxKeys = 3
  MaxEvents = 2
INVARIANTS ChannelsTypeOK ActsWhereShown ActsOnTheHubListed MessagesAreTheRooms
CHECK_DEADLOCK FALSE
