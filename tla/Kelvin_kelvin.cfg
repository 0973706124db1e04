SPECIFICATION Spec
CONSTANTS
    Interval = 1
    Longest = 2
    HvPeriod = 1
    Old = 3
    MaxSeg = 2
    Readers = {r1}
    Ops = {2, 3, 100}
    MayFail = TRUE
INVARIANTS TypeOK ShutInTime AskedIsNew NoStaleSegment
CHECK_DEADLOCK FALSE
