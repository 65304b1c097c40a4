CONSTANTS
    SpectrumId <- MCSpectrumId
    MarkerId <- MCMarkerId
    Speed <- MCSpeed
    BatchSize = 2
    MaxRuns = 2
SPECIFICATION PagingSpec
INVARIANTS
    SpeedBatchesCover
    OffsetBounded
PROPERTIES
    RunTerminates
CHECK_DEADLOCK FALSE
