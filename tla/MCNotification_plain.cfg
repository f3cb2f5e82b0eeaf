SPECIFICATION Spec
CONSTANTS
    p = p
    q = q
    x = x
    y = y
    noId = noId
    ec0 = ec0
    ec1 = ec1
    Peers <- MCPeers
    ClientIds <- MCClientIds
    EmptyId = noId
    Notifiers <- MCNotifiers
    Others <- MCOthers
    MaxEntries = 2
PROPERTY OneNotifierPerCommand
