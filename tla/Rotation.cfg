\* One account and its sessions.
SPECIFICATION SessionsSpec
CONSTANTS
    Requests = {"r1"}
    NameOf <- MCNameOf
    PasswordOf <- MCPasswordOf
    MaxOpenConns = 2
    DbFaults <- AllDbFaults
    None = None
    AccessTTL = 2
    RefreshTTL = 4
INVARIANT
    OldRefreshTokenInvalid
