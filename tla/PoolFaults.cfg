\* Every kind of fault, three at most, two containers, three tasks.
SPECIFICATION PoolSpec
CONSTANTS
    Tasks = {"email", "other", "bell"}
    Workers <- MCWorkers
    Procs <- MCProcs
    ProcOf <- MCProcOf
    TypeOf <- MCTypeOf
    UnquotableTypes <- MCUnquotableTypes
    MaxRetries = 1
    Faults <- AllFaults
    MaxFaults = 3
    NoMsg = NoMsg
INVARIANTS
    TypeOK
    OutcomeEarned
    CopiesApart
PROPERTY
    FollowsRedeliveryFlow
CHECK_DEADLOCK FALSE
