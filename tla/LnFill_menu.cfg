SPECIFICATION Spec
CONSTANTS
    NDet = 1
    Interval <- OneTick
    FillMax <- OneTick
    InitNext = 1
    NCold = 2
    MaxOn = 2
    InitOn <- AllOn
    InitCom1 <- Fresh
    Readers = {r1}
    Ops = {1, 2, 7, 8, 9, 10, 11, 12, 13, 14, 15, 16, 17, 18, 61, 100}
    Params = {1, 3, 4, 7, 14}
    RtdSeen = {"cold"}
    OfloSeen = {TRUE}
    Delays = {1}
    Times = {1}
    MayDie = FALSE
INVARIANTS TypeOK LoopSupply
PROPERTY RearmedWhenShut
CHECK_DEADLOCK FALSE
