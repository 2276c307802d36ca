CONSTANTS
  NUM_SCHED_QUEUES = 2
  PRIO_USER = 0
  MaxPid = 3
  Jiffies = Jiffies
  Io = Io
  NULL = NULL
  Sigs <- MCSigs
  SigActs <- MCSigActs
  Masks = {}
  Selectors <- MCSelectors
  Groups <- MCGroups
  Calls <- MCCalls
  MaxFrames = 1
SPECIFICATION Spec
INVARIANTS SchedConsistent ParentAlive NoLostChild GroupInOneSession
