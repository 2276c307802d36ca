SPECIFICATION Spec
CONSTANTS
    Inodes = {1, 2, 3, 4}
    Dents = {1, 2, 3, 4}
    Files = {1, 2}
    Names = {"a", "b"}
    MAX_SYMLINKS = 2
    NONE = NONE
    FREE = FREE
    LOST = LOST
    PAGE_SIZE = 2
    Procs = {p1, p2}
    Init1 = p1
    FDs = {0, 1}
    MaxLen = 4
    Texts <- MCTexts
    Counts = {1, 2}
    Limits <- MCLimits
    MountUsed = FALSE
INVARIANTS
    TypeOK
    CountsAreExact
    FreedWhenUnused
    TreeIsATree
    ScanGivesEachOnce
PROPERTIES
    ReadOnlyNamesStand
    FilesAreByteFiles
CHECK_DEADLOCK FALSE
