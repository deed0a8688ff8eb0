CONSTANTS
    Addrs = {a1}
    Dials = {1}
    MaxClock = 1
    MaxClears = 0
    ClockSteps = {0, 1}
    NIL = NIL
    Clients = {"c1"}
    Reqs = {"r1"}
    ReqClient <- MCReqClientOne
SPECIFICATION Spec
PROPERTY DialsEnd
