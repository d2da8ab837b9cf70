SPECIFICATION Spec
CONSTANTS
    Streams <- MCStreams
    SectorSize = 2
    MaxInt = 31
    MaxGrainBytes = 8
INVARIANT NilMeansWholeImage
