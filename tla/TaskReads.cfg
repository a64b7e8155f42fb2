\* One request at a time and two SETs of earlier ones on their way; an entry and a
\* context live two ticks each, a SET one.
SPECIFICATION ReadFairSpec
CONSTANTS
    Tasks = {"t1"}
    Users = {"alice", "bob"}
    OwnerOf <- MCOwnerOf
    Readers = {"r1"}
    TTL = 2
    Deadline = 2
    Linger = 1
    MaxWrites = 2
    MaxSent = 2
INVARIANTS
    ReadTypeOK
    StalenessBounded
    OwnRowsOnly
PROPERTY
    CacheCatchesUp
CHECK_DEADLOCK FALSE
