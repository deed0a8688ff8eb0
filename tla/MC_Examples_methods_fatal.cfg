CONSTANTS
    Addrs = {"httpbin.org:443", "tls.peet.ws:443"}
    Dials = {1, 2, 3, 4, 5, 6, 7, 8, 9, 10, 11, 12, 13, 14, 15}
    MaxClock = 16
    MaxClears = 0
    ClockSteps = {1}
    NIL = NIL
    Clients = {"Chrome138", "Firefox131", "Safari18", "Brave138"}
    Reqs <- HMReqs
    ReqClient <- HMReqClient
    Program <- HttpMethods
    Orders <- HMOrders
SPECIFICATION ExSpec
INVARIANT EndsEarlyOnlyOnNetworkError
