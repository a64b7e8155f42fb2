SPECIFICATION FairSpec
CONSTANTS
    Tasks = {"email", "bell"}
    Workers = {"w1", "w2"}
    Procs = {"p1"}
    ProcOf <- MCProcOf
    TypeOf <- MCTypeOf
    UnquotableTypes <- MCUnquotableTypes
    MaxRetries = 2
    Faults <- SafeFaults
    MaxFaults = 3
    FreshBroker = FALSE
    NoMsg = NoMsg
INVARIANTS
    OrchestratorTypeOK
    MessagesHaveRows
    ErrorMeansNotRun
    AcceptedNotLost
    NoTaskLost
PROPERTIES
    AcceptedEventuallyFinal
    QueueDrains
    KeepsContract
CHECK_DEADLOCK FALSE
