\* Every template, with two allocations failing anywhere.
CONSTANTS
    NULL = NULL
    Bases <- MCBases
    Texts <- MCTexts
    Templates <- MCTemplates
    Files <- MCFiles
    Relativities <- MCRelativities
    StackLimit = 4
    MaxFails = 2
    StepAllocs = 20
    Far = 1000
SPECIFICATION Spec
INVARIANTS OkIsExpansion OutputFits FreesWhatItTook CrashHasCause PathsReadBack
PROPERTIES Terminates
