SPECIFICATION Spec
CONSTANTS
  Sessions = {s1, s2}
  b1 = b1
  b2 = b2
  Buddies = {b1, b2}
  None = None
  NoOrder = NoOrder
  Requests = {1, 2}
  TTL = 5
  PollMax = 2
  QueueMax = 4
  PartialWrites = FALSE
  Rows0 <- MCRows
  Budgets <- MCBudgets
INVARIANT NoOrphan
INVARIANT SessionLease
INVARIANT PollSeesAll
 
CHECK_DEADLOCK FALSE
SYMMETRY MCSymmetry
