SPECIFICATION FairSpec
CONSTANTS
    Commands = {"START", "STOP", "CONT"}
    BreakModes = {}
    HostWords = {}
    Ports = {17}
    IoWords = {300}
    LockedOps = FALSE
    Contexts <- OneContext
PROPERTY IoReported
PROPERTY StartRuns
