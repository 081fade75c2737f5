SPECIFICATION FairSpec
CONSTANTS
    QueueSize = 2
    NbTyped = 1
    FileSize = 3
    MaxWrites = 1
    MaxSessions = 2
    MaxFaults = 1
INVARIANT InputKept
INVARIANT OutputKept
INVARIANT DamageBounded
INVARIANT SearchEnds
PROPERTY AccessServed
PROPERTY InputArrives
