SPECIFICATION FollowsSpec
CONSTANTS
  MaxSeq = 2
  PageLimit = 1
  MaxRequests = 2
  MaxActivity = 3
  MaxQueue = 1
INVARIANTS
  TypeOK
  ShownReloadsReachTheCursor
PROPERTIES
  ImplementsFeed
  CatchesUp
