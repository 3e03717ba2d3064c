SPECIFICATION Spec
CONSTANTS
    NrCis = 2
    Profiles <- MCProfiles
    NrDpus = 2
    MaxRetries = 1
    MaxErrors = 1
    MaxCalls = 4
INVARIANTS
    ColourInStep
    CachesExact
    ReplayHarmless
    BootsWithMram
