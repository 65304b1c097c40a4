CONSTANTS
    SpectrumId <- MCSpectrumId
    MarkerId <- MCMarkerId
    Speed <- MCSpeed
    BatchSize = 1
    MaxRuns = 2
SPECIFICATION Spec
PROPERTIES
    CopierRefinement
    TargetNeverShrinks
CHECK_DEADLOCK FALSE
