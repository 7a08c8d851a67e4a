CONSTANT Caller = {c1, c2}
SPECIFICATION Spec
CHECK_DEADLOCK FALSE
INVARIANT PendingIsBacked
