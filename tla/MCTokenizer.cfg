SPECIFICATION Spec
CONSTANTS
    Chars <- MCChars
    Builtins <- MCBuiltins
    MaxParsed = 7
    MaxTokens = 5
    MaxStages = 2
    MaxStageTokens = 2
    MaxArgs = 3
INVARIANTS
    TokensTileParsed
    TokensMatchGrammar
    StagesMatchTokens
    PlainWordsReachPrograms
CHECK_DEADLOCK FALSE
