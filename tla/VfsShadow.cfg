SPECIFICATION Spec
CONSTANTS
    FILES <- MCFILES
    Paths <- MCPaths
    LongPaths <- MCLongPaths
    Contents <- MCContents
    Caps = {2, 6}
    NameLen <- MCNameLen
    Byte = {1, 2}
    MaxRamFiles = 2
    MaxRamFileLen = 2
INVARIANTS
    WrittenIsRead
