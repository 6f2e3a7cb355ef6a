\* Every text of the alphabet, with what malloc may leave in the first node; any one
\* allocation may fail.
CONSTANTS
    NULL = NULL
    Inputs <- MCInputs
    Roots <- MCRoots
    MaxFails = 1
SPECIFICATION FairSpec
INVARIANTS TextIsCovered StringsAreExact IsTreeForParser LinesAreExact OkLosesOnlySeparators
PROPERTY Terminates
