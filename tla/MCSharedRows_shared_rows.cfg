SPECIFICATION SharedSpec
CONSTANTS
  m1 = m1
  m2 = m2
  m3 = m3
  a1 = a1
  a2 = a2
  a3 = a3
  c1 = c1
  c2 = c2
  c3 = c3
  s0 = s0
  s1 = s1
  Members = {m1, m2, m3}
  Accounts = {a1, a2, a3}
  Mailbox <- Mailboxes
  Founder = m1
  States = {s0, s1}
  Callbacks = {c1, c2, c3}
  StateOf <- Redirects
  SignedIn = c1
  Requests = {r1, r2}
  Nobody = Nobody
  Phones = {phone1, phone2}
  DefaultPhone = phone1
  Actors = {actor}
  PhoneRequests = {q1, q2, q3}
  Limit = 1
  Window = 1
  LastTick = 2
  MaxKey = 1
  NoActorYet = NoActorYet
  Isolates = {i1, i2}
  Lease = 1
  Usable = 1
  Margin = 2
  Latency = 1
  MaxClock = 4
  NoToken = NoToken
  Headers = {1, 2}
  Downloads = {3, 4}
  Wait = 1
  Promoters = {p1, p2}
  MaxNow = 2
SYMMETRY SharedSymmetry
INVARIANTS
  SharedTypeOK
  AnActiveAdministratorRemains
  EnrollmentIsLimited
  HandedTokensAreAlive
  HeadersAreAccountedFor
PROPERTIES
  StoredTokensGetYounger
  ReportedHeadersHaveNoDelivery
CHECK_DEADLOCK FALSE
