\* All sources, some beyond the largest position, with messages that fail.
SPECIFICATION FairSpec
CONSTANTS
    Characters <- AllCharacters
    Sources <- AllSources
    PosLimit = 5
    LenLimit = 4096
    MaxErrors = 7
    FormatMayFail = TRUE
    Asserts = TRUE
\* The client stops at the end.
CHECK_DEADLOCK FALSE
INVARIANTS
    TypeOK
    TokensTileSource
    TokensAreLexemes
    LexemesAreFound
    LineAndColumn
    ErrorsMatchTokens
    MessagesFit
PROPERTIES
    ReachesEnd
