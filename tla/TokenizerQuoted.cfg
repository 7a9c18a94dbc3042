SPECIFICATION Spec
CONSTANTS
    Chars <- MCChars
    Builtins <- MCBuiltins
    MaxParsed = 5
    MaxTokens = 5
    MaxStages = 2
    MaxStageTokens = 2
    MaxArgs = 3
INVARIANT
    QuotedArgumentsPreserved
CHECK_DEADLOCK FALSE
