CONSTANTS
    Addrs = {"httpbin.org:443", "tls.peet.ws:443"}
    Dials = {1, 2, 3, 4, 5, 6, 7, 8, 9, 10, 11, 12}
    MaxClock = 13
    MaxClears = 0
    ClockSteps = {1}
    NIL = NIL
    Clients = {"Chrome120", "Chrome131", "Chrome138", "Brave131", "Brave138", "ChromeAndroid"}
    Reqs <- MBReqs
    ReqClient <- MBReqClient
    Program <- ModernBrowsers
    Orders <- MBOrders
SPECIFICATION ExSpec
INVARIANT FingerprintFromOwnConnection
