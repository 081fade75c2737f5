SPECIFICATION Spec
CONSTANTS
    NbFrames = 7
INVARIANT ListSound
INVARIANT CountsTruth
PROPERTY PoolImplemented
CHECK_DEADLOCK FALSE
