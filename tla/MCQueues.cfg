SPECIFICATION Spec
INVARIANTS NothingLost NothingStranded 
CHECK_DEADLOCK FALSE
