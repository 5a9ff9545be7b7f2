SPECIFICATION FairSpec
CONSTANTS
  Proc = {p1, p2}
  MaxParallel = 2
  MaxTasks = 1
  MaxChecks = 0
  NumThreads = 1
  MaxMonStarts = 2
  Connect = {TRUE, FALSE}
INVARIANT PermitConservation
PROPERTY Terminates
CHECK_DEADLOCK FALSE
