SPECIFICATION Spec
CONSTANTS
    Commands = {"START", "STOP", "CONT", "SETIODATA"}
    BreakModes = {}
    HostWords = {513}
    Ports = {16, 17}
    IoWords = {300}
    LockedOps = FALSE
    Contexts <- OneContext
PROPERTY IoServed
PROPERTY IoWriteCaptured
