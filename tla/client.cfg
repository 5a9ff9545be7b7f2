SPECIFICATION Spec
CONSTANTS
  Thread = {t1, t2}
  MaxSends = 2
CHECK_DEADLOCK FALSE
INVARIANT AssertGood FramesIntact NothingLost
PROPERTY SendReturns
