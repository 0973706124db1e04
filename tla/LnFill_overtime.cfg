SPECIFICATION Spec
CONSTANTS
    NDet = 2
    Interval <- TwoTicks
    FillMax <- OneTick
    InitNext = 1
    NCold = 2
    MaxOn = 2
    InitOn <- AllOn
    InitCom1 <- AllFirst
    Readers = {r1}
    Ops = {}
    Params = {}
    RtdSeen = {"cold"}
    OfloSeen = {TRUE, FALSE}
    Delays = {2}
    Times = {}
    MayDie = FALSE
INVARIANT CompletedShut
