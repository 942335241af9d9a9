SPECIFICATION Spec
CONSTANTS
  k1 = k1
  None = None
  Keys = {k1}
  Requests = {r1}
  Files = {}
  FilesOf <- NoFiles
  Webhooks = {w1}
  InitialChannels = {"lgu"}
  DefaultChannel = "lgu"
  SlowRequests = FALSE
PROPERTIES
  DeliveredIsNeverFailed
CHECK_DEADLOCK FALSE
