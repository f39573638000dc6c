SPECIFICATION ConvoSpec
CHECK_DEADLOCK FALSE
CONSTANTS
    c1 = c1
    c2 = c2
    i1 = i1
    i2 = i2
    k1 = k1
    k2 = k2
    Nothing = Nothing
    Convos = {c1}
    Key <- MCOneKey
    Instances = {i1, i2}
    Window = 2
    MaxTime = 4
    MaxSaid = 5
INVARIANT WarnNeedsMessage
INVARIANT WarningsPerMessage
