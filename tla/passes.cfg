SPECIFICATION TaintSpec
CONSTANTS
  Functions <- MCFunctions
  Place = {a, b, c}
  MaxPath = 9
INVARIANTS TaintSound TaintAgrees ModesAgree LoopModeSound SSBKeepsCommitted TransientSound
PROPERTY TaintEnds
CHECK_DEADLOCK FALSE
