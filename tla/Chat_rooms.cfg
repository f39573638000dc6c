SPECIFICATION Spec
CONSTANTS
    u1 = u1
    u2 = u2
    r1 = r1
    a1 = a1
    a2 = a2
    b1 = b1
    b2 = b2
    k1 = k1
    None = None
    MaxStarted = 3
    Users = {u1, u2}
    Rooms = {r1}
    Conns = {a1, a2, b1}
    Teardowns = {k1}
    UserOf <- MCUserOf
    RoomOf <- MCRoomOf
    Impatient = {a2}
    Talkers = {b1}
    FullQueues = {}
INVARIANT ParticipantsSeeEachOther
INVARIANT OneSessionPerUser
INVARIANT LockNotReentered
