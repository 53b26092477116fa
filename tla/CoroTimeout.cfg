SPECIFICATION CtSpec
CONSTANT CtOps = 3
INVARIANT CtNothingFreedIsUsed
CHECK_DEADLOCK FALSE
