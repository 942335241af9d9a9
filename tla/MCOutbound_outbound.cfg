SPECIFICATION OutboundSpec
CONSTANTS
  k1 = k1
  k2 = k2
  k3 = k3
  f1 = f1
  r1 = r1
  r2 = r2
  w1 = w1
  w2 = w2
  None = None
  Keys = {k1, k2, k3}
  Requests = {r1, r2}
  Files = {f1}
  FilesOf <- SampleFiles
  Webhooks = {w1, w2}
  InitialChannels = {"unset", "lgu", "device"}
  DefaultChannel = "device"
  SlowRequests = TRUE
INVARIANTS
  TypeOK
  AckedReportsAreInTheRow
  CompletedIsGenuine
  UploadsBelongToOneMessage
PROPERTIES
  RowOnlyRises
  ImplementsLifecycle
  UploadsSettle
CHECK_DEADLOCK FALSE
