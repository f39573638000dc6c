CONSTANTS
  u1 = u1
  u2 = u2
  u3 = u3
  Users = {u1, u2}
  NoRow = NoRow
  EarlyKinds <- Loading
  Loads <- SerialAndOverlapping
  MaxSignOns = 2
SPECIFICATION Spec
INVARIANT NoGhosts
INVARIANT RegistryMatchesSessions
INVARIANT BuddiesSeen
CHECK_DEADLOCK FALSE
