\* Event driven and polled controllers, with a time-out of three intervals.
CONSTANTS
    Length = 4
    BufferSize = 3
    TimeOut = 3
    MaxLengthKnown = TRUE
    CanAbort = TRUE
SPECIFICATION FairSpec
INVARIANTS
    ReturnTellsOutcome
    DataIsComplete
    TimeOutIsExact
PROPERTIES
    TransferReturns
