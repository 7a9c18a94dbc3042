SPECIFICATION Spec
CONSTANTS
    Scripts <- MCScripts
    Data <- MCData
    MaxWords = 2
    MaxPattern = 3
    MaxReplacement = 3
    MaxIoBuf = 4
    MaxFiles = 2
INVARIANTS
    TypeOK
    ScriptMatchesGrammar
    OutputIsSubstitution
CHECK_DEADLOCK FALSE
