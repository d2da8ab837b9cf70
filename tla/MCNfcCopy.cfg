SPECIFICATION FairSpec
CONSTANTS
    d1 = d1
    d2 = d2
    d3 = d3
    NoDisk = NoDisk
    Disks <- MCDisks
    BlockTargets <- MCBlockTargets
    CopyConcurrency = 2
INVARIANT PoolBound
INVARIANT RootCauseReported
INVARIANT SuccessMeansAllRecorded
INVARIANT LeaseOutlivesDownloads
PROPERTY ProgressFileGrows
PROPERTY RunReturns
PROPERTY ImplementsCopyJob
