SPECIFICATION FairSpec
CONSTANTS
  a = a
  b = b
  c = c
  Locks <- MCLocks
  Settings <- MCSettings
  Monitors = {m, n}
  None = None
INVARIANTS Covered LockedOnce AnnouncedIsHidden
PROPERTIES HiddenStaysHidden Answered
CHECK_DEADLOCK FALSE
