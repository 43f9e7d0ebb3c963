SPECIFICATION Spec
CONSTANTS
  Name = "hrm"
  Users = {u1, u2}
  Callers = {c1, c2, c3}
  SessionIds = {i1, i2}
  None = None
INVARIANTS TypeOK SessionsKeepTheirUser HandshakePrecedesOwnRequest
PROPERTIES StoredSessionStays CallsReturn
