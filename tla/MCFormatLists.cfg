\* Lists that are embedded as a whole.
CONSTANTS
    NULL = NULL
    Bases <- MCBases
    Texts <- MCTexts
    Templates <- MCTemplates
    Files <- MCFiles
    Relativities <- MCRelativities
    StackLimit = 4
    MaxFails = 0
    StepAllocs = 20
    Far = 1000
SPECIFICATION Spec
PROPERTY ListsAreInserted
