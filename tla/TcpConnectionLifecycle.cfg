SPECIFICATION FairSpec
CONSTANTS
    t1 = t1  t2 = t2
    Threads <- MCThreads1
    CallbackSets <- MCEitherSet
    HighWaterMark = 2
    ServerDies = TRUE
    SendBufferSize = 1
    Lens <- MCLens13
    MaxSends = 2
    kCheapPrepend = 1
    kInitialSize = 4
    ExtraBufSize = 2
INVARIANTS TypeOK NothingDangles RemovedBeforeDestroyed StaysWatched EndReported
PROPERTIES EndIsFinal ImplementsByteStream PeerEndDestroys BacklogSent
CHECK_DEADLOCK FALSE
