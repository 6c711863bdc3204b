SPECIFICATION FairSpec
CONSTANT numThreads = 3
INVARIANTS TypeOK LoopsUsable ThreadsJoined NoLostSignal
PROPERTIES StartReturns DestructorEndsLoops
CHECK_DEADLOCK FALSE
