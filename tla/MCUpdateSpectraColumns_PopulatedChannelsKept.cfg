CONSTANTS
    SpectrumId <- MCSpectrumId
    Channels <- MCChannels
    MaxRuns = 2
SPECIFICATION Spec
INVARIANTS
    PopulatedChannelsKept
CHECK_DEADLOCK FALSE
