CONSTANTS
    Addrs = {a1}
    Dials = {1, 2}
    MaxClock = 2
    MaxClears = 0
    ClockSteps = {0, 1}
    NIL = NIL
    Clients = {"c1", "c2"}
    Reqs = {"r1", "r2"}
    ReqClient <- MCReqClientPair
SPECIFICATION Spec
INVARIANT HTTP2SubRecordConsistent
