SPECIFICATION Spec
CHECK_DEADLOCK FALSE
CONSTANTS
    p1 = p1
    p2 = p2
    Procs = {p1, p2}
    NONE = NONE
    PAGE_SIZE = 4
    PMM_DIRECT_MAP_END = 80
    MIN_FRAMES = 4
    BLOCK_HEADER_SIZE = 1
    ALIGN = 1
    LEVELS = 2
    FANOUT = 2
    MMAP_MIN = 1
    MMAP_TOP = 4
    USER_END = 6
    USER_STACK_MAX = 2
    USER_STACK_SIZE = 1
    AS_SIZE = 1
    ARGV_SIZE = 1
    MAX_INTERP = 2
    Limits <- MCLimits
INVARIANTS
    NothingBelowMmapMin
