SPECIFICATION Spec
CONSTANTS
    BufSize = 3
    Modulus = 256
    IndexSize = 5
    Numbers = {0, 9, 128, 255}
    MaxItems = 3
    MaxDigits = 5
    MaxPlaces = 4
    MAGIC0 = 7
    MAGIC1 = 8
    NameSizes = {2, 3}
    ContentBytes = {7, 8}
    MaxFiles = 2
    MaxSize = 3
    NameLimit = 6
INVARIANT PrintedAsAsked
INVARIANT NumbersMean
INVARIANT FilesAsSent
CHECK_DEADLOCK FALSE
