CONSTANTS
  Procs = {p1, p2}
  Creator = p1
  Socks = {1, 2, 3, 4, 5}
  Names = {n1}
  SOCK_BUF = 3
  BACKLOG = 1
  Backlogs = {0, 2}
  Limits <- ConnectLimits
  SharedConnect = TRUE
  NONE = NONE
  GONE = GONE
SPECIFICATION Spec
SYMMETRY Forked
INVARIANT NothingDangles
CHECK_DEADLOCK FALSE
