CONSTANTS
  u1 = u1
  a1 = a1
  a2 = a2
  m1 = m1
  m2 = m2
  None = None
  Users = {u1}
  Addrs = {a1, a2}
  AddrsOf <- MCAddrs
  Versions <- MCVersions
  StoreErrors = FALSE
  MaxLogins = 2
  MaxCloses = 1
  Msgs = {m1}
  To <- MCTo
  Senders = {"legacy", "icq", "aim"}
SPECIFICATION Spec
INVARIANT ReachableByAddress
INVARIANT NotStuck
INVARIANT ClosedLeavesTable
INVARIANT OnePlace
CHECK_DEADLOCK FALSE
SYMMETRY MCSymmetry
