SPECIFICATION FairSpec
CONSTANT numThreads = 1
PROPERTY DestructorReturns
CHECK_DEADLOCK FALSE
