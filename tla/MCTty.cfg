SPECIFICATION Spec
CHECK_DEADLOCK FALSE
CONSTANTS
    t1 = t1
    t2 = t2
    Ttys = {t1, t2}
    Procs = {1, 2, 3}
    NONE = NONE
    TTY_BUF = 3
    MaxEof = 1
    Limits <- MCLimits
INVARIANTS
    TypeOK
    NoDeafReader
    ControlledBySession
