SPECIFICATION Spec
CONSTANTS
    N = 2
    Edits <- MCEdits
INVARIANT AdoptedMountsAreLive
