SPECIFICATION OverlaySpec
CONSTANTS
    N = 3
    e1 = e1
    e2 = e2
    Edits <- MCEdits
INVARIANT BackingUntouchedUntilCommit
INVARIANT SuccessMeansCommitted
INVARIANT NothingLeftBehind
PROPERTY CommitAddsWrittenOnly
