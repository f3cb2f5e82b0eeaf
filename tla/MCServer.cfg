SPECIFICATION FairSpec
CONSTANTS
    x = x
    noId = noId
    p = p
    q = q
    ec0 = ec0
    ec1 = ec1
    bit = bit
    NumChannels = 2
    Bits <- MCBits
    PipeCapacity = 1
    Peers <- MCPeers
    IdOf <- MCIdOf
    EmptyId = noId
    Nobody = Nobody
    NotifierOf <- MCNotifierOf
    Others <- MCOthers
    Tidy <- MCTidy
    Requests <- MCRequests
    MaxEntries = 2
INVARIANTS KnownIsTrue SomebodyWillAct
PROPERTIES NeverPassedBy CleanHandover ReachesClient
CHECK_DEADLOCK FALSE
