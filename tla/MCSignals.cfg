CONSTANTS
  NUM_SCHED_QUEUES = 2
  PRIO_USER = 0
  MaxPid = 2
  Jiffies = Jiffies
  Io = Io
  NULL = NULL
  Sigs <- MCSigs
  SigActs <- MCSigActs
  Masks <- MCMasks
  Selectors <- MCSelectors
  Groups = {}
  Calls <- MCCalls
  MaxFrames = 1
SPECIFICATION Spec
INVARIANTS TypeOK NoDeafSleeper MaskComesBack
