SPECIFICATION FairSpec
CONSTANTS N = 4
INVARIANTS TypeOK ReturnsEachOnce
PROPERTIES NoLateWriter Returns
CHECK_DEADLOCK FALSE
