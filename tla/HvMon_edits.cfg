SPECIFICATION FairSpec
CONSTANTS
    NChan = 1
    NTherm = 1
    TwoPhase <- First1
    Letter <- NoLetter
    ConfOn <- NoChan
    ConfReset <- First1
    Readers = {r1}
    Ops = {2, 3, 4, 5, 16, 100}
    Negative <- NoChan
    MayStop = TRUE
INVARIANTS TypeOK TwoPhaseRamp RampInv
PROPERTIES TwoPhaseImpl RampEnds
CHECK_DEADLOCK FALSE
