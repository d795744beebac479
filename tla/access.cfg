SPECIFICATION Spec
CONSTANTS
  c1 = c1  c2 = c2  cb = cb  cx = cx  h1 = h1  k1 = k1  s1 = s1  q1 = q1  q2 = q2
  None = None
  Clients = {c1, c2}
  Redirects = {cb, cx}
  Challenges = {h1}
  Codes = {1}
  Tokens = {1, 2, 3}
  Sessions = {s1}
  Keys = {k1}
  Requests = {q1, q2}
  Registration <- MCRegistration
  Scopes <- MCScopes
  CodeTTL = 1
  AccessTTL = 1
  RefreshTTL = 2
  SessionTTL = 2
  IdleTTL = 0
  Start = 1
  MaxTime = 2
  Earlier <- MCEarlier
INVARIANTS GrantsAreHonoured ReplayEndsFamily OverIsOver
PROPERTIES FamiliesAreChains
SYMMETRY MCSymmetry
CHECK_DEADLOCK FALSE
