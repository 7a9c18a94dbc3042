SPECIFICATION Spec
CONSTANTS
    CwdKey <- MCCwdKey
    Keys <- MCKeys
    Vals <- MCVals
    Dirs <- MCDirs
    Files <- MCFiles
    RawLines <- MCRawLines
    Char <- MCChar
    NameChars <- MCNameChars
    MaxEnvVars = 3
    MaxKeyLen = 2
    MaxValLen = 4
    MaxEnvLen = 10
    PathBuf = 8
    MaxExpanded = 6
INVARIANTS
    TypeOK
    ProgramsAgreeWithShell
    ProgramsResolveLikeShell
    PanicsOnlyAfterExport
    ExpansionIsSubstitution
PROPERTIES
    CdThenNameIsPath
    EnvIsTable
CHECK_DEADLOCK FALSE
