\* Where the lexer goes on behind such a string.
CONSTANTS
    NULL = NULL
    Inputs <- FewInputs
    Roots <- GoodRoots
    MaxFails = 0
SPECIFICATION Spec
INVARIANT StaysInText
