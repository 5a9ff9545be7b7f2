SPECIFICATION Spec
CONSTANTS
  Proc = {"p1", "p2"}
  Func = {"f", "g", "h"}
  Module <- MCModule
  Calls <- MCCalls
  Skip = {}
  Callees = TRUE
  MaxRuns = 2
CHECK_DEADLOCK FALSE
INVARIANT RecordedMeansReported Coverage CalleesListed
PROPERTY Ends
