CONSTANTS
  m1 = m1
  m2 = m2
  m3 = m3
  s1 = s1
  s2 = s2
  s3 = s3
  k1 = k1
  u1 = u1
  None = None
  Users = {u1}
  UserOf <- OneAccount
  Conns = {m1, m2, m3, s1, s2}
  MultiConns = {m1, m2, m3}
  Closers = {k1}
  MaxConcurrentSessions = 2
  MaxStarted = 3
  Impatient = {s1, s2}
  FailAfterAdd = {s1, s2}
  FailInit = {}
  NilClosure = {}
SPECIFICATION Spec
SYMMETRY Symmetry
CONSTRAINT FewStarted
INVARIANT InstanceLimit
INVARIANT TeardownOnce
INVARIANT OpenSessionIsStored
INVARIANT BuddyListKept
PROPERTY ImplementsRegistry
