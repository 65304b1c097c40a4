CONSTANTS
    SpectrumId <- MCSpectrumId
    MarkerId <- MCMarkerId
    Speed <- MCSpeed
    BatchSize = 1
    MaxRuns = 2
SPECIFICATION FairSpec
INVARIANTS
    TypeOK
    SpeedValueFaithful
    SpectraAllOrNothing
    FlagsAllOrNothing
    SpeedBatchesCover
PROPERTIES
    RunTerminates
    ScriptStepsTerminate
CHECK_DEADLOCK FALSE
