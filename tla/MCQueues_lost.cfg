SPECIFICATION Spec
INVARIANT AllNotified
CHECK_DEADLOCK FALSE
