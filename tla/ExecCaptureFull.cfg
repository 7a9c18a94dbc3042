SPECIFICATION Spec
CONSTANTS
    Path <- MCPath
    FILES <- MCFILES
    SlotForPath <- MCSlotForPath
    Loads <- MCLoads
    InitPath = "init"
    MaxProcessSlots = 3
    MaxProcesses = 3
    MaxPid = 3
    MaxIoStdin = 2
    MaxIoStdout = 2
    Byte <- MCByte
    Newline = "nl"
    Stdins <- MCStdins
    Caps <- MCCaps
    Writes <- MCWrites
    ReadLens = {1, 2}
    ReturnCodes = {0}
    MaxWritten = 4
INVARIANTS
    CapturedOutputStaysOffTerminal
