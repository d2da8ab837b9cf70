SPECIFICATION Spec
CONSTANTS
    c1 = c1
    c2 = c2
    Callers <- MCCallers
    Free = Free
    MaxProbes = 3
    MaxInherited = 2
    MaxFrames = 7
CHECK_DEADLOCK FALSE
INVARIANT AnswersLag
INVARIANT ExecutedOnceInOrder
INVARIANT NoVMLeftBehind
PROPERTY AdoptedLeftAlone
PROPERTY SessionReturns
