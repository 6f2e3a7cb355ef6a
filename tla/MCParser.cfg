\* Valid documents, their edits and short continuations; any two allocations may fail.
CONSTANTS
    x = x
    y = y
    z = z
    s = s
    NULL = NULL
    Bases <- MCBases
    Texts <- MCTexts
    Inputs <- MCInputs
    MaxFails = 2
SPECIFICATION FairSpec
INVARIANTS TypeOK Aligned NamesUnique ParsedExactly FreeIsComplete CrashHasCause
PROPERTIES IsNamespace Terminates
