\* Two tokens, refilled in three seconds, and two rounding errors.
SPECIFICATION LimiterSpec
CONSTANTS
    Handlers = {h1, h2}
    Sec = 8
    Cost = 12
    Full = 24
    Life = 24
    Ulp = 1
    Steps = {4}
    Delay = 8
    MaxDrift = 2
    Faults <- AllRedisFaults
SYMMETRY HandlersAlike
INVARIANTS
    LimiterTypeOK
    LimitKept
PROPERTY
    DenialDeserved
