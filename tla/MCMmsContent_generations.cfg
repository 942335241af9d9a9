SPECIFICATION Spec
CONSTANTS
  photo = photo
  broken = broken
  big = big
  text = text
  text2 = text2
  d1 = d1
  d2 = d2
  d3 = d3
  None = None
  Contents = {photo, broken, big, text}
  Indexes = {0, 1}
  Images <- ImagesOf
  Unreadable <- UnreadableOf
  Oversized = {big}
  Deliveries = {d1, d2, d3}
SYMMETRY Symmetry
INVARIANTS
  TypeOK
  CompletedHaveObjects
  ContentIsOneGeneration
  AcknowledgedAreSettled
  AcknowledgedContentIsStored
CHECK_DEADLOCK FALSE
