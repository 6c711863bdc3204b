SPECIFICATION FairSpec
CONSTANTS
    c1 = c1  c2 = c2  c3 = c3
    t1 = t1
    Clients <- MCClients3
    acceptor = acceptor
    baseThread = baseThread
    Starters <- MCStarters
    MaxThreads = 1
    MaxFds = 2
INVARIANTS TypeOK MapOnOneThread MapHoldsUp RemovedBeforeDestroyed StartedOnce NothingDangles
           EveryoneWatched
PROPERTIES ImplementsService StartListens EveryClientServed EveryEndReleases
CHECK_DEADLOCK FALSE
