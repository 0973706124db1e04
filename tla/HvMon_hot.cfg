SPECIFICATION Spec
CONSTANTS
    NChan = 2
    NTherm = 2
    TwoPhase <- NoChan
    Letter <- LetterDG
    ConfOn <- FirstTwo
    ConfReset <- NoChan
    Readers = {r1}
    Ops = {}
    Negative <- NoChan
    MayStop = FALSE
PROPERTY HotShut
CHECK_DEADLOCK FALSE
