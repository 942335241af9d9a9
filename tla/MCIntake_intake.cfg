SPECIFICATION IntakeSpec
CONSTANTS
  Batches <- SampleBatches
  Deliveries = {d1, d2}
  QuarantineAttempts = 3
  MaxErrors = 2
  Attachments = {1, 2}
  Sized = {1}
  BadUrls = {2}
  Redelivered = {1}
  Runs = {r1, r2}
  MaxPerRun = 1
  Nobody = Nobody
INVARIANTS
  IntakeTypeOK
  AcknowledgedMessagesAreKept
  ServedObjectsExist
  SettledOnceAndAnnounced
PROPERTIES
  MoIsAcknowledged
  FilesSettle
CHECK_DEADLOCK FALSE
