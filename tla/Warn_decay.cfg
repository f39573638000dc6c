SPECIFICATION FairSpec
CONSTANTS
    w1 = w1
    w2 = w2
    w3 = w3
    None = None
    Limit = 4000
    Alert = 5000
    Clear = 5100
    Max = 6000
    Increments = {100, 30}
    Periods <- MCShortPeriods
    MaxWarned = 0
    Warners = {w1, w2, w3}
    Restored <- MCRestored
    FirstCloses = TRUE
 
INVARIANT ThresholdsOrdered
PROPERTY ReturnForgives
 
