SPECIFICATION Spec
CONSTANTS
    a = a
    b = b
    noId = noId
    NumChannels = 2
    ClientIds <- MCClientIds
    EmptyId = noId
    Nobody = Nobody
    Requests <- MCSmallRequests
PROPERTY OnlyOwnerFrees
