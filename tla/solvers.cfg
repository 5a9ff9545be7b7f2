SPECIFICATION SolversSpec
CONSTANT MaxN = 11
INVARIANT ContextsDisjoint
INVARIANT AllSolversFull
PROPERTY Returns
CHECK_DEADLOCK FALSE
