CONSTANTS
    Content <- File
    Names <- Listing
    Jobs <- SomeJobs
    Blocks <- Stream
    ReadSize = 2
    ReadMax = 2
    ChunkMax = 2
    Versions <- SomeVersions
    MaxRequests = 4
    MaxPending = 2
    MaxMisc = 0
    MaxFaults = 0
SPECIFICATION Spec
INVARIANT UploadIsStored
CHECK_DEADLOCK FALSE
