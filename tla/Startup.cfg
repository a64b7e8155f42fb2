\* The five attempts of the code; two processes die for other reasons.
SPECIFICATION StartupFairSpec
CONSTANTS
    Attempts = 5
    MaxCrashes = 2
INVARIANTS
    StartupTypeOK
    UpMeansReady
PROPERTY
    EventuallyUp
