SPECIFICATION Spec
CONSTANTS
    t1 = t1  t2 = t2
    Threads <- MCThreads2
    CallbackSets <- MCBothSet
    HighWaterMark = 2
    ServerDies = FALSE
    SendBufferSize = 2
    Lens <- MCLens1
    MaxSends = 2
    kCheapPrepend = 1
    kInitialSize = 2
    ExtraBufSize = 2
PROPERTY NoSendAfterEnd
