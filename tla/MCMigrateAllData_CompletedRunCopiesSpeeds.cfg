CONSTANTS
    SpectrumId <- MCSpectrumId
    MarkerId <- MCMarkerId
    Speed <- MCSpeed
    BatchSize = 1
    MaxRuns = 2
SPECIFICATION Spec
INVARIANTS
    CompletedRunCopiesSpeeds
CHECK_DEADLOCK FALSE
