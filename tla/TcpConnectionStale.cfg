SPECIFICATION Spec
CONSTANTS
    t1 = t1  t2 = t2
    Threads <- MCThreads0
    CallbackSets <- MCBothSet
    HighWaterMark = 2
    ServerDies = FALSE
    SendBufferSize = 2
    Lens <- MCLens013
    MaxSends = 1
    kCheapPrepend = 1
    kInitialSize = 2
    ExtraBufSize = 2
INVARIANT NothingElseSent
