SPECIFICATION Spec
CONSTANTS
    NDet = 4
    Interval <- NoTicks
    FillMax <- NoTicks
    InitNext = 0
    NCold = 1
    MaxOn = 1
    InitOn <- NoneOn
    InitCom1 <- AllFirst
    Readers = {r1, r2}
    Ops = {2}
    Params = {1, 4}
    RtdSeen = {"hot"}
    OfloSeen = {TRUE}
    Delays = {}
    Times = {1}
    MayDie = FALSE
INVARIANTS FillFits LoopCount
SYMMETRY AnyOrder
