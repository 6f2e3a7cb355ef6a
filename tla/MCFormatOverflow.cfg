\* The placeholder for a missing field against the size of the buffer.
CONSTANTS
    NULL = NULL
    Bases <- MCBases
    Texts <- MCTexts
    Templates <- MCTemplates
    Files <- MCFiles
    Relativities <- MCRelativities
    StackLimit = 4
    MaxFails = 2
    StepAllocs = 20
    Far = 1000
SPECIFICATION Spec
INVARIANTS WritesInBuffer
