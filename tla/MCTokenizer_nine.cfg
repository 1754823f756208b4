\* A hexadecimal literal whose first digit is a 9.
SPECIFICATION Spec
CONSTANTS
    Characters <- AllCharacters
    Sources <- AllSources
    PosLimit = 1073741824
    LenLimit = 4096
    MaxErrors = 2
    FormatMayFail = FALSE
    Asserts = TRUE
\* The client stops at the end.
CHECK_DEADLOCK FALSE
INVARIANTS
    MessagesAreTrue
