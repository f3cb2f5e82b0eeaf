SPECIFICATION Spec
CONSTANTS
    x = x
    y = y
    NumChannels = 3
    Bits <- MCOneBit
    PipeCapacity = 1
INVARIANT NoStuckInterrupt
