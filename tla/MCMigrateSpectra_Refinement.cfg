CONSTANTS
    SpectrumId <- MCSpectrumId
    MarkerId <- MCMarkerId
    MaxRuns = 2
SPECIFICATION Spec
PROPERTIES
    CopierRefinement
    TargetNeverShrinks
CHECK_DEADLOCK FALSE
