\* Three registrations of a name with a pool of two connections.
SPECIFICATION SessionsFairSpec
CONSTANTS
    Requests = {"r1", "r2", "r3"}
    NameOf <- MCNameOf
    PasswordOf <- MCPasswordOf
    MaxOpenConns = 2
    DbFaults <- AllDbFaults
    None = None
    AccessTTL = 2
    RefreshTTL = 4
INVARIANTS
    AccountsTypeOK
    SessionsTypeOK
    CreatedMeansOwned
    ConflictMeansTaken
    SessionsEnd
    SessionsOfOwner
    NoCircle
PROPERTIES
    RegistersAtomically
    RegistrationsEnd
