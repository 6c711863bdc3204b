SPECIFICATION Spec
CONSTANTS
    kCheapPrepend = 1
    kInitialSize = 2
    ExtraBufSize = 2
    Bytes <- MCBytes
    Zero = 0
    MaxLen = 3
    MaxSize = 7
INVARIANTS TypeOK IndicesOK
PROPERTY ImplementsByteQueue
