SPECIFICATION FairSpec
CONSTANTS
  Timers = {t1, t2}
  MaxDelay = 1
  Horizon = 1
  MaxJobs = 2
INVARIANTS NoOversleep JobsInOrder
PROPERTIES TimersFire JobsRun
CHECK_DEADLOCK FALSE
