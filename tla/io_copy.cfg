SPECIFICATION FairSpec
CONSTANTS
    SUPERSECTORNUM = 2
    NumDisks = 3
    DiskSectors <- MCUneven
    Files <- MCFiles
    NoFile = NoFile
    NoData = NoData
    Ops = {"in", "out"}
    Word32 = 15
    MaxFaults = 1
    SubmitFaults = TRUE
    DeviceFaults = TRUE
INVARIANTS
    CopyInv
    BuffersStable
    QueueBounded
    CopiedIn
    CopiedOut
PROPERTIES
    WaitsForAll
    ImplementsBlockStore
    Terminates
