SPECIFICATION FairSpec
CONSTANTS
    x = x
    y = y
    NumChannels = 2
    Bits <- MCTwoBits
    PipeCapacity = 2
INVARIANTS TypeOK NoStuckInterrupt ReportedStays
PROPERTIES NoSpuriousIRQ EveryInterruptSeen
