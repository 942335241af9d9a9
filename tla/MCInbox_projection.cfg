SPECIFICATION Spec
CONSTANTS
  m1 = m1
  m2 = m2
  q1 = q1
  q2 = q2
  None = None
  Members = {m1, m2}
  Writers = {m1}
  Requests = {q1, q2}
  MoKeys = {"sms", "mms"}
  MmsKeys = {"mms"}
  MaxMessages = 2
  MaxTime = 2
  MaxVersion = 3
  PatchStatuses = {"handling", "done"}
SYMMETRY Symmetry
INVARIANTS
  TypeOK
  LastMessageIsLatest
  InboundCountIsExact
  CompletionsMissNothing
PROPERTIES
  ReadsFollowMessages
