SPECIFICATION Spec
CONSTANTS
  NumBlocks = 4
  num_unrolls = 2
CHECK_DEADLOCK FALSE
INVARIANT UnrollsExactly
