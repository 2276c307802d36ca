CONSTANTS
  NUM_SCHED_QUEUES = 2
  PRIO_USER = 0
  MaxPid = 2
  Jiffies = Jiffies
  Io = Io
  NULL = NULL
  Sigs <- MCSigs
  SigActs <- MCSigActs
  Masks <- MCMasks
  Selectors <- InitSelectors
  Groups = {}
  Calls <- InitCalls
  MaxFrames = 2
SPECIFICATION Spec
INVARIANT InitGetsOnlyAsked
