SPECIFICATION Spec
CONSTANTS
    Width = 4
    Height = 3
    MaxLine = 7
    Char <- MCChar
    Prompt <- MCPrompt
    Keys <- MCKeys
    Outputs <- MCOutputs
    BootText <- MCBootText
    Leftover = "o"
INVARIANTS
    TypeOK
    ScreenShowsLine
    BlankBeyondCursor
PROPERTIES
    RowsAboveOnlyScroll
