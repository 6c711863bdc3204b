SPECIFICATION Spec
CONSTANTS
    c1 = c1  c2 = c2  c3 = c3
    t1 = t1
    Clients <- MCClients2
    acceptor = acceptor
    baseThread = baseThread
    Starters <- MCStarters
    MaxThreads = 2
    MaxFds = 2
INVARIANT OnSubLoop
CHECK_DEADLOCK FALSE
