\* Two scans, two changes at any moment, one failing call or abort.  The behaviours
\* end when the bounds are used up.
CONSTANTS
    Paths <- MCPaths
    InitialDisk <- MCDisk
    Excludable <- MCExcludable
    SystemFiles <- MCSystemFiles
    DotFiles <- MCDotFiles
    DSStores <- MCDSStores
    CompareOptions <- MCOptions
    ScanMetadata = TRUE
    MaxScans = 2
    MaxChanges = 2
    MaxFaults = 1
SPECIFICATION Spec
INVARIANTS
    ScanIsComplete
PROPERTIES
    ReportExplainsChanges
    RevisionsRecordChanges
    QuietRescanReportsNothing
CHECK_DEADLOCK FALSE
