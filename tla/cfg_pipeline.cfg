SPECIFICATION Spec
CONSTANTS
  MaxNodes = 5
  Args = {0, 2}
  Key = {2, 3, 4}
CHECK_DEADLOCK FALSE
INVARIANT PrunedExactly SortedTopologically
INVARIANT NoUseAfterMove AlwaysBound BoundToAncestors
PROPERTY Ends
