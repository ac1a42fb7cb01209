\* Transfers with and without a password and a digest, one after the other, from
\* files that return what they are asked for, or in the clear from any stream, and
\* to a destination with enough room or not.
CONSTANTS
    MaxSize = 7
    Block = 2
    ChunkSize = 3
    Passwords = {"none", "set"}
    ShortReads = {"none"}
    Capacities = {4, 7}
SPECIFICATION FairSpec
INVARIANTS
    NothingInClear
    UploadIsComplete
    DigestIsOfWholeFile
    DownloadIsComplete
PROPERTIES
    StoreReturns
