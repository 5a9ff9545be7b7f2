SPECIFICATION Spec
CONSTANTS
  MaxNodes = 4
  Args = {0, 2}
  Key = {2, 3}
CHECK_DEADLOCK FALSE
INVARIANT MergesIncoming
