SPECIFICATION Spec
CONSTANTS
  x = x
  y = y
  here = here
  aPage = aPage
  aFile = aFile
  None = None
  Malformed = Malformed
  Dests <- Node
  LocalNode = here
  Pages <- OnlyPages
  Files <- OnlyFiles
  Typed <- TypedURLs
  Links <- LinkURLs
  MaxRequests = 4
  MaxInFlight = 2
  MaxHistory = 3
CHECK_DEADLOCK FALSE
INVARIANTS TypeOK RetainedLinkIsForCurrentDest RequestsGoToTheirNode LinksAreOwned RetrievingMeansInFlight
