SPECIFICATION FairSpec
CONSTANTS
  t1 = t1
  t2 = t2
  s1 = s1
  s2 = s2
  r1 = r1
  Nobody = Nobody
  Threads <- TwoThreads
  Sessions <- TwoSessions
  Readers <- OneReader
  Hosts <- TwoHosts
  FeedBuffer = 1
  MaxCalls = 4
INVARIANTS TypeOK OneAtATime AllOrNothing TransportGoesLast NobodyOutlivesTheFeed
PROPERTIES StopReturns
CHECK_DEADLOCK FALSE
