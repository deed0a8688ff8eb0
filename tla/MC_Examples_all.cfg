CONSTANTS
    Addrs = {"httpbin.org:443", "tls.peet.ws:443"}
    Dials = {1, 2, 3, 4, 5, 6, 7, 8, 9, 10, 11, 12, 13, 14, 15, 16, 17, 18, 19, 20, 21, 22, 23, 24, 25, 26, 27}
    MaxClock = 28
    MaxClears = 0
    ClockSteps = {1}
    NIL = NIL
    Clients = {"Chrome138", "Firefox131", "Safari18", "Edge120", "Brave138", "ChromeAndroid", "SafariiOS", "MullvadBrowser"}
    Reqs <- CHHMBIReqs
    ReqClient <- CHHMBIReqClient
    Program <- CHHMBIProgram
    Orders <- CHHMBIOrders
SPECIFICATION ExSpec
INVARIANT HTTP2FromOwnSession
PROPERTY ProgramEnds
CONSTRAINT FailureBound
