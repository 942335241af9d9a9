SPECIFICATION Spec
CONSTANTS
  photo = photo
  broken = broken
  big = big
  text = text
  text2 = text2
  d1 = d1
  d2 = d2
  d3 = d3
  None = None
  Contents = {text, text2}
  Indexes = {0}
  Images <- ImagesOf
  Unreadable <- UnreadableOf
  Oversized = {}
  Deliveries = {d1, d2, d3}
PROPERTY
  AnsweredContentIsAnnounced
CHECK_DEADLOCK FALSE
