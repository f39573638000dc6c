CONSTANTS
  m1 = m1
  m2 = m2
  m3 = m3
  s1 = s1
  s2 = s2
  s3 = s3
  k1 = k1
  u1 = u1
  None = None
  Users = {u1}
  UserOf <- OneAccount
  Conns = {m1, s1}
  MultiConns = {m1}
  Closers = {k1}
  MaxConcurrentSessions = 2
  MaxStarted = 3
  Impatient = {}
  FailAfterAdd = {}
  FailInit = {m1, s1}
  NilClosure = {}
SPECIFICATION FairSpec
PROPERTY SignOnEnds
PROPERTY ClosedSessionIsRemoved
CHECK_DEADLOCK FALSE
