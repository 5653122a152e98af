SPECIFICATION Spec
CONSTANTS
    SUPERSECTORNUM = 2
    NumDisks = 2
    SECTORLENGTH = 2
    NUMBUFS = 2
    HEADER = 1
    Packets <- MCPackets
    NoData = NoData
    DiskSectors = 12
    Gaps = {0, 1, 2}
    MaxCaptures = 2
    MaxPackets = 4
    MaxFaults = 0
CHECK_DEADLOCK FALSE
INVARIANT CapturesKeptAnywhere
