SPECIFICATION Spec
CONSTANTS
    Tasks = {"email", "video"}
    Workers = {"w1", "w2"}
    Procs = {"p1"}
    ProcOf <- MCProcOf
    TypeOf <- MCTypeOf
    UnquotableTypes <- MCUnquotableTypes
    MaxRetries = 3
    Faults <- NoRedeliveryFaults
    MaxFaults = 5
    FreshBroker = TRUE
    NoMsg = NoMsg
INVARIANTS
    OneWriter
    AttemptsBounded
PROPERTY
    FollowsStatusFlow
CHECK_DEADLOCK FALSE
