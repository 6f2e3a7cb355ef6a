\* A string with a quote in it is serialized.
CONSTANTS
    NULL = NULL
    Bases <- MCBases
    Texts <- MCTexts
    Docs <- QuoteDocs
    Options <- MCOptions
    Symbols <- MCSymbols
    Alignment = 64
    ListCapacity = 2
    MaxCalls = 1
    MaxFails = 0
    StepAllocs = 0
SPECIFICATION Spec
INVARIANT DocumentIsKept
