\* Everything a client may ask for, handlers overlapping.
SPECIFICATION PresenceSpec
CONSTANTS
  u1 = u1
  u2 = u2
  Absent = Absent
  Offline = Offline
  Users <- MCUsers
  Versions <- MCVersions
  Statuses <- MCStatuses
  AuthRequired <- MCNobody
  Relists = FALSE
  MaxLogins = 3
  MaxLists = 2
  MaxChanges = 1
  MaxInFlight = 2
INVARIANT NoGhosts
INVARIANT BuddiesShown
INVARIANT InvisibleStaysHidden
CHECK_DEADLOCK FALSE
