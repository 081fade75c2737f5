SPECIFICATION FairSpec
CONSTANTS
    Commands = {"START", "STOP", "BRK", "CONT", "GETREGS"}
    BreakModes = {"prot"}
    HostWords = {}
    Ports = {}
    IoWords = {}
    LockedOps = FALSE
    Contexts <- TwoContexts
INVARIANT BreakTruth
PROPERTY DebugTransparent
PROPERTY RegsTruth
PROPERTY LoopAlive
