SPECIFICATION Spec
CONSTANTS
  Outputs = {o1, o2}
  MaxCommits = 2
  MaxFds = 2
  Features = {"frame", "fifo", "timing", "syncobj"}
  MayTear = TRUE
  MayFailFd = TRUE
  MayUnfocus = TRUE
INVARIANTS NoMissedWakeup InCommitOrder LocksHaveOwners FenceRespected CallbacksAccounted
PROPERTY UpdatesSpec
CHECK_DEADLOCK FALSE
