SPECIFICATION Spec
CHECK_DEADLOCK FALSE
CONSTANTS
    s1 = s1
    s2 = s2
    i1 = i1
    i2 = i2
    NumMsgs = 2
    From <- MCFromOne
    Stored = {1, 2}
    Instances = {i1, i2}
    QueueLimit = 1
    InboxLimit = 1
    MaxRetrieves = 2
 
INVARIANT RelayedInOrder
INVARIANT OneFate
INVARIANT InactiveAllGetIt
