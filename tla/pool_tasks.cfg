SPECIFICATION Spec
CONSTANTS
  Proc = {p1}
  MaxParallel = 3
  MaxTasks = 3
  MaxChecks = 1
  NumThreads = 2
  MaxMonStarts = 1
  Connect = {TRUE, FALSE}
INVARIANT MutualExclusion
INVARIANT NeverStuck
PROPERTY ProgressMonotone
PROPERTY ImplementsLeakageSearch
CHECK_DEADLOCK FALSE
