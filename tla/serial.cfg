SPECIFICATION Spec
CONSTANTS
    LoaderChars = 5
    KernelChars = 5
    FifoDepth = 2
INVARIANTS
    TypeOK
    NothingLostInTransit
    OneDivisor
PROPERTY
    OnlyLoaderTailLost
