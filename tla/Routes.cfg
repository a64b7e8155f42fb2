\* Every route with every kind of header.
SPECIFICATION RoutesSpec
INVARIANT
    RegisterNeedsNoToken
CHECK_DEADLOCK FALSE
