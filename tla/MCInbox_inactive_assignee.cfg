SPECIFICATION Spec
CONSTANTS
  m1 = m1
  m2 = m2
  q1 = q1
  None = None
  Members = {m1, m2}
  Writers = {m1}
  Requests = {q1}
  MoKeys = {"sms"}
  MmsKeys = {}
  MaxMessages = 2
  MaxTime = 1
  MaxVersion = 2
  PatchStatuses = {"done"}
SYMMETRY Symmetry
INVARIANT
  AssigneesAreActive
