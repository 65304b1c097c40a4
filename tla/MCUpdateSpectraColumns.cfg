CONSTANTS
    SpectrumId <- MCSpectrumId
    Channels <- MCChannels
    MaxRuns = 2
SPECIFICATION Spec
INVARIANTS
    TypeOK
    ChannelsAllOrNothing
PROPERTIES
    BackfillRefinement
CHECK_DEADLOCK FALSE
