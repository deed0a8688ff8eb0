---------------------------- MODULE MC_Examples ----------------------------
(* Instances of Examples, one per example program.  Requests are numbered *)
(* by their place in main's text; one dial per call at most, so the dial  *)
(* ids and the clock need as many values as the program has calls.       *)
EXTENDS Examples

Clients8 == {"Chrome138", "Firefox131", "Safari18", "Edge120", "Brave138",
             "ChromeAndroid", "SafariiOS", "MullvadBrowser"}
ClientsMB == {"Chrome120", "Chrome131", "Chrome138", "Brave131", "Brave138",
              "ChromeAndroid"}

CallClients(p) == [r \in DOMAIN p |-> p[r].client]

HMReqs == DOMAIN HttpMethods
HMReqClient == CallClients(HttpMethods)
BIReqs == DOMAIN BasicImpersonation
BIReqClient == CallClients(BasicImpersonation)
CHReqs == DOMAIN CustomHeaders
CHReqClient == CallClients(CustomHeaders)
MBReqs == DOMAIN ModernBrowsers
MBReqClient == CallClients(ModernBrowsers)

\* Orders restricted by symmetry.  http_methods: call 4 (Put with a map body)
\* can never succeed and is fatal, so the loop after it is never reached.
\* basic_impersonation: the eight clients each make one fresh dial to the
\* same address, so any order is a renaming of the text order.
\* modern_browsers: Chrome120, Chrome131 and Brave131 have no connection
\* before the loop and no call after it, so only where Chrome138 and
\* Brave138 fall among them matters.
HMOrders == {[i \in 1..15 |-> i]}
BIOrders == {[i \in 1..8 |-> i]}
MBOrders == {o \in ModernBrowsersOrders :
                \A i, j \in 6..10 : o[i] \in {6, 7, 9} /\ o[j] \in {6, 7, 9} /\ i < j
                                   => o[i] < o[j]}

\* custom_headers.go and http_methods.go as one instance whose initial state
\* picks the binary that runs: requests are tagged with their program, and
\* the other program's requests stay idle.
Tagged(tag, o) == [i \in DOMAIN o |-> <<tag, o[i]>>]
CHHMReqs == {<<"ch", i>> : i \in DOMAIN CustomHeaders} \cup {<<"hm", i>> : i \in DOMAIN HttpMethods}
CHHMProgram == [r \in CHHMReqs |-> IF r[1] = "ch" THEN CustomHeaders[r[2]] ELSE HttpMethods[r[2]]]
CHHMReqClient == CallClients(CHHMProgram)
CHHMOrders == {Tagged("ch", o) : o \in CustomHeadersOrders} \cup {Tagged("hm", o) : o \in HMOrders}

\* custom_headers.go, http_methods.go and basic_impersonation.go as one
\* instance, in the same way.
CHHMBIReqs == CHHMReqs \cup {<<"bi", i>> : i \in DOMAIN BasicImpersonation}
CHHMBIProgram == [r \in CHHMBIReqs |-> IF r[1] = "bi" THEN BasicImpersonation[r[2]]
                                      ELSE CHHMProgram[r]]
CHHMBIReqClient == CallClients(CHHMBIProgram)
CHHMBIOrders == CHHMOrders \cup {Tagged("bi", o) : o \in BIOrders}

\* Fault bound for basic_impersonation: at most MaxFailedCalls of its calls
\* fail (each failure may leave its dial running into later calls).
MaxFailedCalls == 2
FailureBound == Cardinality({r \in Reqs : pc[r] = "failed"}) <= MaxFailedCalls
=============================================================================
