SPECIFICATION ContentSpec
CONSTANTS
    a = a
    b = b
    NoName = NoName
    NoDev = NoDev
    NoCopy = NoCopy
    NoData = NoData
    Devices = {d1, d2, d3}
    SUPERSECTORNUM = 1
    MAXDISKS = 3
    MAXFILES = 1
    Sectors <- MCSectors
    Names <- MCNames
    Sizes = {1, 4}
    Word = 1000
    Byte = 256
    Tools = {"cp", "rm", "format"}
    MaxArgs = 1
    MaxBlock = 20
    MaxFaults = 2
    MaxCopies = 2
    WriteFaults = FALSE
    ReadFaults = FALSE
    MissingAllowed = FALSE
SYMMETRY MCSymmetry
INVARIANTS
    MediaDisjoint
    MediaNamesUnique
    SavedAtExit
    RaidOrdered
    WithinRaid
    SectorsDisjoint
    FormattedAtExit
    ReadsBack
    ContentInv
PROPERTIES
    NeverRefusedWithoutFault
    NumbersKept
    OnlyRmAndFormatRemove
    TablesBeforeContent
