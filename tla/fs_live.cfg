SPECIFICATION FairSpec
CONSTANTS
    a = a
    b = b
    c = c
    NoName = NoName
    NoDev = NoDev
    Devices = {d1, d2}
    SUPERSECTORNUM = 1
    MAXDISKS = 2
    MAXFILES = 1
    Sectors <- MCSectors
    Names <- MCNames1
    Sizes = {0, 1}
    Word = 1000
    Byte = 4
    Tools = {"cp", "pcap", "rm", "format"}
    MaxArgs = 2
    MaxBlock = 4
    MaxFaults = 1
    WriteFaults = TRUE
    ReadFaults = TRUE
    MissingAllowed = TRUE
PROPERTIES
    Terminates
