SPECIFICATION Spec
CONSTANTS
    PageSize = 2
    TableSpan = 3
    Frames <- MCFrames
    MemoryMaps <- MCMemoryMaps
    BootMappings <- MCBootMappings
    HeapFirst = 4
    HeapPages = 1
    SlotsFirst = 5
    SlotPages = 2
    NumSlots = 2
    Word = 32
    HeaderSize = 1
    Images <- MCImages
    LOAD = "load"
INVARIANTS
    FramesDistinct
    SlotHoldsImage
PROPERTIES
    LoadStaysInSlot
CHECK_DEADLOCK FALSE
