SPECIFICATION Spec
CONSTANTS
  MaxSeq = 1
  PageLimit = 1
  MaxRequests = 1
  MaxActivity = 2
  MaxQueue = 1
INVARIANT
  ListReflectsCursor
