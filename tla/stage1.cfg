SPECIFICATION Spec
CONSTANTS
    Radix = 4
    Frames <- MCFrames
    STACK_PAGES = 2
    LapicPage = 60
    HeadroomPages = 30
    MAX_RANGES = 3
    ScanLimit = 6
    Boots <- MCBoots
INVARIANTS
    AllocInv
    AllocFresh
    AllocSparesLive
    OwnMemory
    FailOnlyWhenExhausted
PROPERTIES
    BuildsAddressSpace
    Stops
