SPECIFICATION Spec
CONSTANTS
    Base = 4
    Geometries <- MCGeometries
    MagicWords <- MCMagic
    PackFormats <- MCPackFormats
    MaxWrites = 2
    Capacity = 9
    Pieces <- MCPieces
    MaxPattern = 4
    Subjects <- MCSubjects
    Phrases <- MCPhrases
    MaxPhrases = 2
    IntSize = 256
    Rooms = {0, 2, 3, 7, 500}
    Matches <- GlobMatches
    CommandLines <- MCLines
    Worlds <- MCWorlds
    NumberOf <- MCNumbers
    MaxRuns = 2
    IdSize = 8
    MinBlock = 2
    MaxLength = 3
    BufferLength = 2
    Inode = {2, 3, 4}
    MaxHandles = 3
    Slots = 2
INVARIANTS
    RecordsApart
    ReceivedIsSent
    GlobAgrees
    PrintedIsAsked
    ToolsHonest
    ClosersExact
    OpenedSorted
    SlotsKept
CHECK_DEADLOCK FALSE
