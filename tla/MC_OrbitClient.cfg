CONSTANTS
    Addrs = {a1, a2}
    Dials = {1, 2}
    MaxClock = 2
    MaxClears = 1
    ClockSteps = {0, 1}
    NIL = NIL
    Clients = {"c1"}
    Reqs = {"r1", "r2"}
    ReqClient <- MCReqClientSame
SPECIFICATION Spec
INVARIANT TypeOK
PROPERTY ClientRegistryRefinement
PROPERTY RequestsTerminate
