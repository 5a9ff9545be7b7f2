SPECIFICATION Spec
CONSTANT Inputs <- MCInputs
INVARIANTS ExecutionsExact CtrlCovers LeaksExact OutputAsserts FenceBlocks
CHECK_DEADLOCK FALSE
