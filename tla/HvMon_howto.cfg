SPECIFICATION FairSpec
CONSTANTS
    NChan = 2
    NTherm = 1
    TwoPhase <- FirstTwo
    Letter <- NoLetter
    ConfOn <- First1
    ConfReset <- Second
    Readers = {r1}
    Ops = {}
    Negative <- FirstTwo
    MayStop = FALSE
PROPERTY RampEnds
CHECK_DEADLOCK FALSE
