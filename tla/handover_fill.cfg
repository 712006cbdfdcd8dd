SPECIFICATION Spec
CONSTANTS
    Ram <- MCRam
    Reserved <- MCReserved
    KernelPages = 2
    StackPages = 1
    ScratchPages = 2
    DescsPerPage = 2
    MaxEvents = 0
INVARIANT
    KernelFindsMap
