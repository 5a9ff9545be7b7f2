SPECIFICATION FairSpec
CONSTANTS
  Client = {c1, c2}
  Func = {f1}
  MaxUpdates = 1
CHECK_DEADLOCK FALSE
INVARIANT AbortedNotCompleted CompletedAsReported GoneMeansSettled
PROPERTY EventuallySettled
