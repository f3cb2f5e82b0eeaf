SPECIFICATION DisciplinedSpec
CONSTANTS
    a = a
    b = b
    noId = noId
    NumChannels = 3
    ClientIds <- MCClientIds
    EmptyId = noId
    Nobody = Nobody
    Requests <- MCRequests
INVARIANTS TypeOK HeldIsOccupied SetChannelsInHash
PROPERTIES GrantIsExact BusyIsHonest OnlyOwnerFrees WriteAuthority ImplementsAllocation
