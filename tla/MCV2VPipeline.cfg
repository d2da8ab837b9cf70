SPECIFICATION Spec
CONSTANTS
    N = 2
    Edits <- MCEdits
INVARIANT CommitWithoutWriters
INVARIANT StagesGetCurrentListener
INVARIANT CommitOnlyConvertedGuests
INVARIANT SuccessMeansEditsOnDisks
INVARIANT NoOrphans
PROPERTY RunReturns
PROPERTY ImplementsOverlay
