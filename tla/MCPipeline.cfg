SPECIFICATION SystemSpec
CONSTANTS
    Path <- MCPath
    FILES <- MCFILES
    SlotForPath <- MCSlotForPath
    Loads <- MCLoads
    InitPath <- MCInitPath
    MaxProcessSlots = 5
    MaxProcesses = 3
    MaxPid = 3
    MaxIoStdin = 3
    MaxIoStdout = 3
    Byte <- MCByte
    Newline = "nl"
    Stdins = {}
    Caps = {}
    Writes = {}
    ReadLens = {}
    ReturnCodes = {}
    MaxWritten = 0
    StaticTable <- MCStaticTable
    PathPart <- MCPathPart
    Names <- MCNames
    LongNames = {}
    MaxRamFiles = 2
    MaxRamFileLen = 3
    Lines <- MCLines
    BinPath <- MCBinPath
    CatPath <- MCCatPath
    TeePath <- MCTeePath
    EchoPath <- MCEchoPath
    MaxIoBuf = 3
    ReadChunk = 2
    Message <- MCMessage
    MaxTyped = 2
    MaxLines = 4
INVARIANTS
    LineMeansItsStages
    KeyboardOnlyWithoutInput
PROPERTIES
    LineEnds
