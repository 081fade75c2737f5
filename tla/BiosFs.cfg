SPECIFICATION FsSpec
CONSTANTS
    NbFrames = 10
    NbBlocks = 6
    PageUnits = 2
    FileSizes = {0, 1, 2, 3, 5}
    Aborting = TRUE
INVARIANT FilesSound
INVARIANT SizesTold
INVARIANT FramesOwned
INVARIANT DirectoryEnds
CHECK_DEADLOCK FALSE
