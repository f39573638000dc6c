SPECIFICATION FairRateSpec
CONSTANTS
    Limit = 4000
    Alert = 5000
    Clear = 5100
    Max = 6000
    WindowSize = 20
    Disconnect = 3000
    MaxInt = 268435455
    Increments = {30}
    Periods = {0}
    MaxWarned = 1
    Gaps <- MCGaps
INVARIANT PatientIsServed
 
PROPERTY LimitIsLifted
