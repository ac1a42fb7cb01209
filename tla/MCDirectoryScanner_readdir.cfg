\* A readdir_r that fails after a subdirectory has been scanned.
CONSTANTS
    Paths <- MCPaths
    InitialDisk <- MCDisk
    Excludable <- MCExcludable
    SystemFiles <- MCSystemFiles
    DotFiles <- MCDotFiles
    DSStores <- MCDSStores
    CompareOptions <- MCOptions
    ScanMetadata = TRUE
    MaxScans = 1
    MaxChanges = 0
    MaxFaults = 1
SPECIFICATION Spec
INVARIANTS
    ErrorsAreReported
CHECK_DEADLOCK FALSE
