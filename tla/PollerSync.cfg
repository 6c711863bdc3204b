SPECIFICATION FairSpec
CONSTANTS
    a = a  b = b
    NoChan = NoChan
    Chans <- MCChans2
    Fds <- MCFds2
    Conditions <- MCInOutHup
    InitEventListSize = 1
INVARIANTS TypeOK InterestInSync MapInSync
PROPERTY InputServed
