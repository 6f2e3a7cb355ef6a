\* Documents and other texts, from a string or a file; any one call may fail.
CONSTANTS
    NULL = NULL
    Bases <- MCTexts
    Texts <- MCTexts
    Docs <- MCDocs
    OtherTexts <- MCOtherTexts
    Roots <- MCRoots
    MaxFails = 1
SPECIFICATION Spec
INVARIANTS TypeOK TextBecomesDocument NothingStaysBehind ErrorLeavesNoDocument ErrorIsOnItsLine
PROPERTIES Terminates
