SPECIFICATION Spec
CONSTANTS
    BufSize = 8
    MaxArgs = 4
    Letters = {"m", "p"}
INVARIANT RunAsTyped
INVARIANT ShownIsStored
INVARIANT ArgumentsThere
