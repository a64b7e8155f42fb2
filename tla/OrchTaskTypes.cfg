SPECIFICATION Spec
CONSTANTS
    Tasks = {"video"}
    Workers = {"w1", "w2"}
    Procs = {"p1"}
    ProcOf <- MCProcOf
    TypeOf <- MCTypeOf
    UnquotableTypes <- MCUnquotableTypes
    MaxRetries = 3
    Faults = {}
    MaxFaults = 0
    FreshBroker = FALSE
    NoMsg = NoMsg
INVARIANT
    AdvertisedTypesSucceed
CHECK_DEADLOCK FALSE
