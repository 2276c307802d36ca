CONSTANTS
  Procs = {p1, p2, p3}
  Creator = p1
  PIPE_SIZE = 2
  Sizes = {1, 2, 3}
  MaxWrites = 2
  MaxRefs = 2
SPECIFICATION FairSpec
INVARIANTS TypeOK Fifo AtomicWrites SleepersMustWait FreedWhenUnused
PROPERTIES IsStream CallsEndWithPeer
CHECK_DEADLOCK FALSE
