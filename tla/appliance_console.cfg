SPECIFICATION Spec
CONSTANTS
  t1 = t1
  t2 = t2
  s1 = s1
  s2 = s2
  r1 = r1
  Nobody = Nobody
  Threads <- OneThread
  Sessions <- TwoSessions
  Readers <- OneReader
  Hosts <- TwoHosts
  FeedBuffer = 1
  MaxCalls = 2
INVARIANTS ConsoleCanBeDialled
CHECK_DEADLOCK FALSE
