SPECIFICATION LabsSpec
CONSTANTS
    N = 3
    TimeMod = 4
    Objects = {t1, t2, t3}
    Frames = {f1, f2, f3}
    NoFrame = NoFrame
    SizeMod = 32
    PAGE = 4
    Rooms <- MCRooms
    Messages <- MCAnyMessages
    Offers <- MCOffers
    Bytes <- MCBytes
    Capacities <- MCCapacities
    Users <- MCUsers
    SlotCounts <- MCSlotCounts
    Ids <- MCIds
    Spaces <- MCSpaces
    Requests <- MCRequests
INVARIANT
    ChannelCountersMatch
