SPECIFICATION FairSpec
CONSTANTS
    NDet = 2
    InitOn = {0, 1}
    Readers = {r1}
    Ops = {19}
    MayLog = FALSE
    MayStop = FALSE
PROPERTY EveryAlarmShuts
