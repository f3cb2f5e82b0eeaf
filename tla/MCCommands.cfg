SPECIFICATION Spec
CONSTANTS
    p = p
    q = q
    x = x
    y = y
    noId = noId
    Peers <- MCPeers
    ClientIds <- MCClientIds
    EmptyId = noId
    Numbers <- MCNumbers
INVARIANTS TypeOK AnsweredOnce RtypeTellsOutcome
