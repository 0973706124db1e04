SPECIFICATION Spec
CONSTANTS
    MaxSeg = 3
    Readers = {r1, r2}
    Ops = {2, 4, 100}
INVARIANTS TypeOK NoOldCommand SameSegment NoneLeftBehind
CHECK_DEADLOCK FALSE
