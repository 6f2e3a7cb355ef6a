\* Freeing a document whose adds all succeeded.
CONSTANTS
    a = a
    b = b
    NULL = NULL
    Bases <- MCBases
    Texts <- MCTexts
    Names <- MCNames
    FieldData <- MCFieldData
    ElementData <- MCElementData
    MaxEntries = 3
    MaxFails = 1
SPECIFICATION Spec
INVARIANT FreeIsSafe
CHECK_DEADLOCK FALSE
