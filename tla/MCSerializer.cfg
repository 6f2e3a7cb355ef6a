\* Two calls for each document, with lists that have to grow; any one allocation may fail.
CONSTANTS
    NULL = NULL
    Bases <- MCBases
    Texts <- MCTexts
    Docs <- MCDocs
    Options <- MCOptions
    Symbols <- MCSymbols
    Alignment = 64
    ListCapacity = 2
    MaxCalls = 2
    MaxFails = 1
    StepAllocs = 20
SPECIFICATION Spec
INVARIANTS WritesDocument TextsFit EachBlockOwnedOnce SoundIsWritten CutsInOrder
