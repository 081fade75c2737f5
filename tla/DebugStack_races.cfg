SPECIFICATION Spec
CONSTANTS
    Commands = {"START", "STOP", "BRK", "CONT", "GETREGS", "SETIODATA"}
    BreakModes = {"prot"}
    HostWords = {513}
    Ports = {17}
    IoWords = {300}
    LockedOps = FALSE
    Contexts <- OneContext
INVARIANT TypeOK
INVARIANT StopTruth
INVARIANT IoTruth
PROPERTY BusOwner
