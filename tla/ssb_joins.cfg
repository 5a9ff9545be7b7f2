SPECIFICATION TaintSpec
CONSTANTS
  Functions <- StoreThenLoad
  Place = {a, b}
  MaxPath = 6
INVARIANT SSBReportsControlled
CHECK_DEADLOCK FALSE
