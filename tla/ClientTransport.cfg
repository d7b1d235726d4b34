CONSTANTS
    Workers = {w1, w2}
    Frames = {f1, f2, f3}
SPECIFICATION Spec
INVARIANT WorkersServe
PROPERTIES
    DestructorReturns
    FramesAnswered
    OthersKeepAnswering
CHECK_DEADLOCK FALSE
