\* Every order of calls that builds up to five entries, with one failed allocation.
CONSTANTS
    a = a
    b = b
    NULL = NULL
    Bases <- MCBases
    Texts <- MCTexts
    Names <- MCNames
    FieldData <- MCFieldData
    ElementData <- MCElementData
    MaxEntries = 5
    MaxFails = 1
SPECIFICATION Spec
INVARIANTS TypeOK EntriesFound FreeIsComplete
PROPERTIES AddReportsTruth IsNamespace
CHECK_DEADLOCK FALSE
