SPECIFICATION Spec
CONSTANTS
    SUPERSECTORNUM = 2
    NumDisks = 2
    DiskSectors <- MCEven
    Files <- MCLastFile
    NoFile = NoFile
    NoData = NoData
    Ops = {"in", "out"}
    Word32 = 100
    MaxFaults = 1
    SubmitFaults = TRUE
    DeviceFaults = TRUE
INVARIANTS
    CopyComplete
