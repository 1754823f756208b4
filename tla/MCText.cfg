\* Texts of up to three units, and of up to six characters.
SPECIFICATION CutSpec
CONSTANTS
    MaxUnits = 3
    MaxWords = 6
    MaxBytes = 12
CHECK_DEADLOCK FALSE
INVARIANTS
    ChunkIsWholeUnits
    FormattedAtWord
