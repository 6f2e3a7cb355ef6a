\* Two variables, three blocks of strings that grow by 4 or 5, and a list that grows once.
CONSTANTS
    NULL = NULL
    Chars = {"a", "b"}
    h1 = h1
    h2 = h2
    Holders = {h1, h2}
    Initials <- MCInitials
    Sizes <- MCSizes
    Alignment = 4
    ListCapacity = 1
    ResizeAlign = 1
    MaxBlocks = 3
    MaxLength = 4
    MaxItems = 3
    MaxFails = 1
SYMMETRY Symmetry
SPECIFICATION Spec
INVARIANTS StringsFit
PROPERTIES NothingLost KeepsText CrashHasCause
