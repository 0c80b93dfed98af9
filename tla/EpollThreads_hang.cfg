SPECIFICATION FairSpec
CONSTANT N = 2
PROPERTY DestroyEnds
CHECK_DEADLOCK FALSE
