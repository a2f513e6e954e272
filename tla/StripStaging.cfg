CONSTANT Jobs <- Strips
SPECIFICATION Spec
INVARIANT StagedIntact
CHECK_DEADLOCK FALSE
