SPECIFICATION FairSpec
CONSTANTS
    NChan = 3
    NTherm = 2
    TwoPhase <- FirstTwo
    Letter <- LetterD3
    ConfOn <- FirstTwo
    ConfReset <- NoChan
    Readers = {r1}
    Ops = {3, 4, 100}
    Negative <- First1
    MayStop = TRUE
PROPERTIES  HotEnds
CHECK_DEADLOCK FALSE
