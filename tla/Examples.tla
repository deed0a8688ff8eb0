----------------------------- MODULE Examples -----------------------------
(***************************************************************************)
(* The example programs of src/example driving the clients that init()    *)
(* builds (OrbitClient).  Each program's main calls the clients one after  *)
(* another: a call is a Request, and the next call starts when it has      *)
(* returned.  After an error main either stops (log.Fatal) or continues    *)
(* with the next iteration of its loop (log.Printf; continue); a loop over *)
(* a Go map visits the clients in an order the runtime picks.  Timed-out   *)
(* requests leave their dial goroutines running, so dials of earlier       *)
(* calls interleave with later calls.  When main returns or log.Fatal      *)
(* exits, the process and all its goroutines stop.                         *)
(*                                                                         *)
(* A call is a record: its client, address, body kind, whether an error   *)
(* ends the program and whether the program slices resp.Text.              *)
(***************************************************************************)
EXTENDS OrbitClient, Sequences, SequencesExt

CONSTANTS
    Program,   \* the calls of main, in program text order (Reqs = its domain)
    Orders     \* the orders main may issue them in (map iteration)

\* The package-level variables of orbit.go: aliases of the clients that
\* init() builds, the only clients the examples call.
OrbitClients == {"Chrome120", "Chrome131", "Chrome138", "Firefox121", "Firefox131",
                 "Safari17", "Safari18", "SafariiOS", "Edge120", "MullvadBrowser",
                 "ChromeAndroid", "Opera115", "Brave131", "Brave138"}

ASSUME Clients \subseteq OrbitClients
ASSUME Reqs = DOMAIN Program
ASSUME \A r \in Reqs : ReqClient[r] = Program[r].client

VARIABLES
    order,     \* the order chosen by the runtime's map iteration
    next,      \* index into order of the next call main makes
    outcome    \* "running", or how the process ended

drvVars == <<order, next, outcome>>
allVars == <<vars, drvVars>>

\* The body the verb helpers pass to Request for an argument of kind arg:
\* Get, Delete, Head and Options pass nil; Post, Put and Patch pass the
\* argument as it is; PostJSON passes a string or []byte as it is and
\* json.Marshal's []byte for anything else (the maps the examples pass
\* marshal without error).
HelperBody(verb, arg) ==
    CASE verb \in {"Get", "Delete", "Head", "Options"} -> "nil"
      [] verb = "PostJSON" -> IF arg \in {"string", "bytes"} THEN arg ELSE "bytes"
      [] OTHER -> arg

Call(c, a, verb, arg, fatal, slices) ==
    [client |-> c, addr |-> a, body |-> HelperBody(verb, arg), fatal |-> fatal,
     slices |-> slices]

\* Orders of a program with one loop over a map: the calls before it, the
\* loop's calls in any order, the calls after it.
LoopOrders(before, loop, after) ==
    LET s == SetToSortSeq(loop, <)
    IN {before \o [i \in DOMAIN s |-> s[p[i]]] \o after : p \in Permutations(DOMAIN s)}

-----------------------------------------------------------------------------
(* The programs                                                            *)

Httpbin == "httpbin.org:443"
Peet == "tls.peet.ws:443"

\* http_methods.go: eleven calls on Chrome138, each followed by log.Fatal
\* on error, then PostJSON on four clients in map order.
HttpMethods ==
    [i \in 1..11 |-> Call("Chrome138", Httpbin,
                          <<"Get", "PostJSON", "Post", "Put", "Patch", "Delete", "Head",
                            "Options", "Get", "Request", "Request">>[i],
                          <<"nil", "map", "values", "map", "map", "nil", "nil", "nil",
                            "nil", "nil", "nil">>[i], TRUE, FALSE)]
    \o [i \in 1..4 |-> Call(<<"Chrome138", "Firefox131", "Safari18", "Brave138">>[i],
                            Httpbin, "PostJSON", "map", FALSE, FALSE)]
HttpMethodsOrders == LoopOrders([i \in 1..11 |-> i], 12..15, <<>>)

\* basic_impersonation.go: one Get per client, in map order.
BasicImpersonation ==
    [i \in 1..8 |-> Call(<<"Chrome138", "Firefox131", "Safari18", "Edge120", "Brave138",
                           "ChromeAndroid", "SafariiOS", "MullvadBrowser">>[i],
                         Httpbin, "Get", "nil", FALSE, FALSE)]
BasicImpersonationOrders == LoopOrders(<<>>, 1..8, <<>>)

\* custom_headers.go: four calls, each followed by log.Fatal on error; the
\* first two print a slice of resp.Text.
CustomHeaders ==
    << Call("Chrome138", Httpbin, "Get", "nil", TRUE, TRUE),
       Call("Chrome138", Httpbin, "Get", "nil", TRUE, TRUE),
       Call("Firefox131", Httpbin, "PostJSON", "map", TRUE, FALSE),
       Call("Safari18", Httpbin, "Get", "nil", TRUE, FALSE) >>
CustomHeadersOrders == {<<1, 2, 3, 4>>}

\* modern_browsers.go: five calls followed by log.Fatal on error, a loop
\* over a map of five clients, and a loop over a slice of two.
ModernBrowsers ==
    << Call("Chrome138", Peet, "Get", "nil", TRUE, FALSE),
       Call("Brave138", Peet, "Get", "nil", TRUE, FALSE),
       Call("Brave138", Httpbin, "Get", "nil", TRUE, FALSE),
       Call("Chrome138", Httpbin, "Get", "nil", TRUE, FALSE),
       Call("ChromeAndroid", Httpbin, "Get", "nil", TRUE, FALSE) >>
    \o [i \in 1..5 |-> Call(<<"Chrome120", "Chrome131", "Chrome138", "Brave131",
                              "Brave138">>[i], Httpbin, "Get", "nil", FALSE, FALSE)]
    \o << Call("Chrome138", Peet, "Get", "nil", FALSE, FALSE),
          Call("Brave138", Peet, "Get", "nil", FALSE, FALSE) >>
ModernBrowsersOrders == LoopOrders(<<1, 2, 3, 4, 5>>, 6..10, <<11, 12>>)
-----------------------------------------------------------------------------
(* main                                                                    *)

\* Request's switch on the body's type: nil, string, []byte, io.Reader and
\* url.Values are accepted, anything else makes Request return
\* "unsupported body type" before any I/O.
BodyAccepted(body) == body \in {"nil", "string", "bytes", "reader", "values"}

\* The default case of that switch: Request returns the error at once.
RequestRejected(r) ==
    /\ pc[r] = "idle"
    /\ pc' = [pc EXCEPT ![r] = "failed"]
    /\ UNCHANGED <<regVars, reqAddr, conn, sel, owner, lastFp, resp>>

Returned(r) == pc[r] \in {"done", "failed"}
Running == outcome = "running"

ExInit ==
    /\ Init
    /\ order \in Orders
    /\ next = 1
    /\ outcome = "running"

\* main makes its next call once the previous one has returned, unless that
\* one failed and its error goes to log.Fatal.
IssueCall ==
    /\ Running
    /\ next <= Len(order)
    /\ next > 1 => /\ Returned(order[next - 1])
                   /\ ~(pc[order[next - 1]] = "failed" /\ Program[order[next - 1]].fatal)
    /\ LET r == order[next] IN
          \/ /\ BodyAccepted(Program[r].body)
             /\ RequestStart(r, Program[r].addr)
          \/ /\ ~BodyAccepted(Program[r].body)
             /\ RequestRejected(r)
    /\ next' = next + 1
    /\ UNCHANGED <<order, outcome>>

\* log.Fatal(err): the process exits.
LogFatal ==
    /\ Running
    /\ next > 1
    /\ pc[order[next - 1]] = "failed"
    /\ Program[order[next - 1]].fatal
    /\ outcome' = "fatal"
    /\ UNCHANGED <<vars, order, next>>

\* resp.Text[:n] on a body shorter than n: a runtime panic.
ShortBodyPanic ==
    /\ Running
    /\ next > 1
    /\ pc[order[next - 1]] = "done"
    /\ Program[order[next - 1]].slices
    /\ outcome' = "panic"
    /\ UNCHANGED <<vars, order, next>>

\* main returns after its last call.
MainReturns ==
    /\ Running
    /\ next > Len(order)
    /\ Returned(order[Len(order)])
    /\ ~(pc[order[Len(order)]] = "failed" /\ Program[order[Len(order)]].fatal)
    /\ outcome' = "completed"
    /\ UNCHANGED <<vars, order, next>>

\* The steps of request and dial goroutines, while the process lives.
Goroutines ==
    /\ Running
    /\ \/ \E r \in Reqs : LocalStep(r) \/ ResponseRead(r) \/ ResponseFailed(r)
       \/ \E d \in Dials : DialStep(d) /\ UNCHANGED clientVars
    /\ UNCHANGED drvVars

\* The process has ended.
Ended ==
    /\ ~Running
    /\ UNCHANGED allVars

ExNext ==
    \/ IssueCall
    \/ LogFatal
    \/ ShortBodyPanic
    \/ MainReturns
    \/ Goroutines
    \/ Ended

(***************************************************************************)
(* Fairness: main and the request goroutines run when they can (the 30s   *)
(* timer included); the network, the peers and the length of a response  *)
(* body are not assumed to do anything.                                    *)
(***************************************************************************)
ExSpec ==
    /\ ExInit
    /\ [][ExNext]_allVars
    /\ WF_allVars(IssueCall \/ LogFatal \/ MainReturns)
    /\ \A r \in Reqs : WF_allVars(Running /\ LocalStep(r) /\ UNCHANGED drvVars)

-----------------------------------------------------------------------------
(* Properties                                                              *)

(***************************************************************************)
(* Every example program ends (main returns, log.Fatal exits or a panic),  *)
(* whatever the network and the peers do: each Request is bounded by the  *)
(* client's 30s timeout even when the dial behind it never returns.       *)
(***************************************************************************)
ProgramEnds == <>(~Running)

(***************************************************************************)
(* Calls issued one at a time never mix HTTP/2 data: the HTTP/2 settings   *)
(* and frames of every response's fingerprint are its own client's,       *)
(* whichever record updateFingerprint selected and whatever late dials of  *)
(* timed-out calls do meanwhile.                                           *)
(***************************************************************************)
HTTP2FromOwnSession ==
    \A r \in Reqs : pc[r] = "done" /\ resp[r].conn # NIL =>
        resp[r].h2s = ReqClient[r] /\ resp[r].h2f = ReqClient[r]

(***************************************************************************)
(* log.Fatal ends an example only after a request that reached the        *)
(* network failed: with every exchange succeeding, main never exits       *)
(* through log.Fatal.                                                      *)
(***************************************************************************)
EndsEarlyOnlyOnNetworkError ==
    outcome = "fatal" =>
        \E r \in Reqs : pc[r] = "failed" /\ BodyAccepted(Program[r].body)
=============================================================================
