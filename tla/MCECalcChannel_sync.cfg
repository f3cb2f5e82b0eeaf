SPECIFICATION Spec
CONSTANTS
    NumChannels = 8
    Documents <- MCPlainOnly
    InputParams <- MCInputParams
    SyncParams <- MCSyncParams
    RawWords <- MCRawWords
PROPERTY SyncNamesChannel
