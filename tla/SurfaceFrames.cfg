SPECIFICATION PacedSpec
CONSTANTS
  Outputs = {o1}
  MaxCommits = 3
  MaxFds = 1
  Features = {"fifo"}
  MayTear = FALSE
  MayFailFd = FALSE
  MayUnfocus = FALSE
PROPERTIES OneBarrierPerStep QueueDrains
CHECK_DEADLOCK FALSE
