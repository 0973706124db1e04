SPECIFICATION FairSpec
CONSTANTS
    NDet = 2
    Interval <- OneTick
    FillMax <- OneTwo
    InitNext = 1
    NCold = 1
    MaxOn = 2
    InitOn <- AllOn
    InitCom1 <- Either
    Readers = {r1}
    Ops = {7, 8, 10}
    Params = {}
    RtdSeen = {"cold"}
    OfloSeen = {TRUE, FALSE}
    Delays = {2}
    Times = {}
    MayDie = TRUE
INVARIANTS LoopValves LoopCount DoneShut IInv
PROPERTIES ValveOrder LoopEnds InterruptEndsCooling DueServed
