CONSTANTS
    SpectrumId <- MCSpectrumId
    MarkerId <- MCMarkerId
    MaxRuns = 2
SPECIFICATION Spec
INVARIANTS
    MigrationAllOrNothing
    CompletedRunCopiesAll
CHECK_DEADLOCK FALSE
