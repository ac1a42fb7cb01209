CONSTANTS
    Content <- File
    Names <- Listing
    Jobs <- SomeJobs
    Blocks <- Stream
    ReadSize = 2
    ReadMax = 2
    ChunkMax = 3
    Versions <- SomeVersions
    MaxRequests = 4
    MaxPending = 2
    MaxMisc = 1
    MaxFaults = 1
SPECIFICATION Spec
INVARIANTS DownloadIsExact ListingIsExact WrittenIsStored
PROPERTY CallReturns
CHECK_DEADLOCK FALSE
