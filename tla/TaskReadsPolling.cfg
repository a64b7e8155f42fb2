SPECIFICATION ReadSpec
CONSTANTS
    Tasks = {"t1"}
    Users = {"alice"}
    OwnerOf <- MCOwnerOf
    Readers = {"r1"}
    TTL = 3
    Deadline = 1
    Linger = 1
    MaxWrites = 2
    MaxSent = 1
PROPERTY
    PollingShowsChanges
CHECK_DEADLOCK FALSE
