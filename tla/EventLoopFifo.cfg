SPECIFICATION FairSpec
CONSTANTS
    t1 = t1  t2 = t2
    f1 = f1  f2 = f2  f3 = f3
    c1 = c1
    Threads <- MCThreads2
    Functors <- MCFunctors3
    Channels <- MCChannels1
    WakeupChannel = wakeupChannel
    EventfdMax = 2
    MaxCalls = 2
INVARIANTS TypeOK NoLostWakeup
PROPERTIES ImplementsFunctorQueue EveryFunctorRuns EventsNotStarved QuitWhileLoopingStops
