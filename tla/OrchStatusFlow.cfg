SPECIFICATION Spec
CONSTANTS
    Tasks = {"email"}
    Workers = {"w1", "w2"}
    Procs = {"p1"}
    ProcOf <- MCProcOf
    TypeOf <- MCTypeOf
    UnquotableTypes <- MCUnquotableTypes
    MaxRetries = 3
    Faults = {"worker_crash"}
    MaxFaults = 1
    FreshBroker = FALSE
    NoMsg = NoMsg
PROPERTY
    TerminalIsFinal
CHECK_DEADLOCK FALSE
