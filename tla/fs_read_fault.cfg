SPECIFICATION Spec
CONSTANTS
    a = a
    b = b
    c = c
    NoName = NoName
    NoDev = NoDev
    Devices = {d1}
    SUPERSECTORNUM = 1
    MAXDISKS = 2
    MAXFILES = 1
    Sectors <- MCSectors
    Names <- MCNames
    Sizes = {1, 2}
    Word = 1000
    Byte = 256
    Tools = {"cp", "ls"}
    MaxArgs = 2
    MaxBlock = 20
    MaxFaults = 1
    WriteFaults = FALSE
    ReadFaults = TRUE
    MissingAllowed = FALSE
PROPERTIES
    ListingKeepsFiles
