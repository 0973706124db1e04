SPECIFICATION FairSpec
CONSTANTS
    NDet = 2
    InitOn = {0, 1}
    Readers = {r1}
    Ops = {2, 18, 19}
    MayLog = TRUE
    MayStop = TRUE
INVARIANTS TypeOK IInv ScanShuts
PROPERTY AlarmShuts
