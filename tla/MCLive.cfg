CONSTANTS
  NUM_SCHED_QUEUES = 2
  PRIO_USER = 0
  MaxPid = 3
  Jiffies = Jiffies
  Io = Io
  NULL = NULL
  Sigs <- MCSigs
  SigActs = {}
  Masks = {}
  Selectors <- MCSelectors
  Groups = {1}
  Calls <- MCCalls
  MaxFrames = 1
SPECIFICATION FairSpec
INVARIANTS WokenRunsAtOnce
PROPERTIES ReadyRuns KilledDies
