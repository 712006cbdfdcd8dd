SPECIFICATION BootSpec
CONSTANTS
    PAGE = 4
    SectorBytes = 2
    HeaderLists <- MCHeaderLists
    LoaderSizes <- MCLoaderSizes
    Totals <- MCTotals
    EntriesPerSector = 8
    RootSectors = 1
    ClusterLimit = 40
INVARIANTS
    KernelArrives
    ReadableWhenSettled
    RefusedWithReason
