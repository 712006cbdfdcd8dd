SPECIFICATION ChainSpec
CONSTANTS
    Ram <- MCRam
    Reserved <- MCReserved
    KernelPages = 1
    StackPages = 1
    ScratchPages = 23
    DescsPerPage = 2
    MaxEvents = 3
    Radix = 4
    Frames <- MCFrames
    LapicPage = 77
    HeadroomPages = 46
    MAX_RANGES = 6
    ScanLimit = 12
    EventPages <- MCEventPages
    Garbage <- MCGarbage
INVARIANTS
    MapCurrentAfterExit
    ScanStaysInBuffer
    RecordMeetsAssumption
    TablesAreFree
    ExtraPagesSuffice
    NoBufferNoTables
PROPERTY
    ChainEnds
