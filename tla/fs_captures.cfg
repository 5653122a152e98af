SPECIFICATION Spec
CONSTANTS
    a = a
    b = b
    c = c
    NoName = NoName
    NoDev = NoDev
    Devices = {d1, d2}
    SUPERSECTORNUM = 2
    MAXDISKS = 2
    MAXFILES = 1
    Sectors <- MCSectors
    Names <- MCNames3
    Sizes = {1, 2}
    Word = 1000
    Byte = 8
    Tools = {"cp", "pcap", "rm", "ls"}
    MaxArgs = 2
    MaxBlock = 8
    MaxFaults = 2
    WriteFaults = TRUE
    ReadFaults = FALSE
    MissingAllowed = FALSE
INVARIANTS
    RaidInv
    CountDriftBounded
PROPERTIES
    ImplementsExtentStore
