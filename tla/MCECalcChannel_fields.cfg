SPECIFICATION Spec
CONSTANTS
    NumChannels = 254
    Documents <- MCDocuments
    InputParams <- MCInputParams
    SyncParams <- MCWideSyncParams
    RawWords <- MCRawWords
INVARIANTS TypeOK MuxAsConfigured FieldsAsWanted
