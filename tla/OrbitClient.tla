---------------------------- MODULE OrbitClient ----------------------------
(***************************************************************************)
(* Client sessions issuing requests over the shared connection registry,  *)
(* and the fingerprint assembly each request runs when its response has   *)
(* been read: Client.Request and Client.updateFingerprint                 *)
(* (src/unnamed/part_000, package client) with GenerateFingerprintData    *)
(* (src/unnamed/part_003).                                                 *)
(*                                                                         *)
(* Every request is a goroutine of its own.  Its transport (one per        *)
(* Client) either reuses an established connection of that client to the   *)
(* address or dials a new one through the TrackedDialer, whose steps run   *)
(* in the transport's dial goroutine (TLSRegistry).  After the body is     *)
(* read, updateFingerprint picks the registry record with the latest       *)
(* ConnectedAt over all addresses, writes the client's HTTP/2 aggregates   *)
(* into that shared record without any lock, builds the fingerprint from   *)
(* the record, stores it in c.lastFingerprint, and Request then attaches   *)
(* c.lastFingerprint to the response.                                      *)
(*                                                                         *)
(* The HTTP/2 aggregates a client copies are its tracker's; after New      *)
(* seeds the tracker with a profile preset, Request only tracks HEADERS    *)
(* frames without settings or Priority flag, so settings, window and       *)
(* priority never change.  A copied aggregate is therefore named by the   *)
(* client it was copied from.                                              *)
(***************************************************************************)
EXTENDS TLSRegistry, FiniteSets

CONSTANTS
    Clients,    \* Client values (each with its own transport and tracker)
    Reqs,       \* Request calls
    ReqClient   \* the client each request is issued on

ASSUME ReqClient \in [Reqs -> Clients]
ASSUME Dials = 1..Cardinality(Dials)
ASSUME Cardinality(Reqs) <= Cardinality(Dials)

ReqStates == {"idle", "connecting", "dialing", "awaiting", "selecting",
              "writeSettings", "writeFrames", "generating", "responding",
              "done", "failed"}

\* A fingerprint.Data, reduced to where its parts come from: the request
\* whose assembly built it (NIL for the one New builds), the record its TLS
\* fields were read from, and the clients whose HTTP/2 settings and frames
\* its HTTP/2 sub-record holds.
Fingerprints == [by : Reqs \cup {NIL}, conn : Dials \cup {NIL},
                 h2s : Clients \cup {NIL}, h2f : Clients \cup {NIL}]

VARIABLES
    pc,        \* where each request is
    reqAddr,   \* the address a request targets
    conn,      \* the connection (dial) a request is sent on
    sel,       \* the record updateFingerprint selected
    owner,     \* the client whose transport made each dial
    lastFp,    \* c.lastFingerprint
    resp       \* response.Fingerprint

clientVars == <<pc, reqAddr, conn, sel, owner, lastFp, resp>>
vars == <<regVars, clientVars>>

\* generateFallbackFingerprint: JA3 from the profile, no TLS record, no
\* HTTP/2 sub-record.
Fallback(r) == [by |-> r, conn |-> NIL, h2s |-> NIL, h2f |-> NIL]

\* GenerateFingerprintData(profile, details), reading the record now: the
\* HTTP/2 sub-record exists only if HTTP2Settings is non-empty.
GenerateFingerprintData(r, d) ==
    IF d = NIL THEN Fallback(r)
    ELSE [by |-> r, conn |-> d,
          h2s |-> details[d].h2Settings,
          h2f |-> IF details[d].h2Settings = NIL THEN NIL
                  ELSE details[d].h2Frames]

TypeOK ==
    /\ RegTypeOK
    /\ pc \in [Reqs -> ReqStates]
    /\ reqAddr \in [Reqs -> Addrs \cup {NIL}]
    /\ conn \in [Reqs -> Dials \cup {NIL}]
    /\ sel \in [Reqs -> Dials \cup {NIL}]
    /\ owner \in [Dials -> Clients \cup {NIL}]
    /\ lastFp \in [Clients -> Fingerprints]
    /\ resp \in [Reqs -> Fingerprints \cup {NIL}]

\* init(): every Client is built by New before any request; New's own
\* updateFingerprint finds the registry empty and stores the fallback.
Init ==
    /\ RegInit
    /\ pc = [r \in Reqs |-> "idle"]
    /\ reqAddr = [r \in Reqs |-> NIL]
    /\ conn = [r \in Reqs |-> NIL]
    /\ sel = [r \in Reqs |-> NIL]
    /\ owner = [d \in Dials |-> NIL]
    /\ lastFp = [c \in Clients |-> Fallback(NIL)]
    /\ resp = [r \in Reqs |-> NIL]

-----------------------------------------------------------------------------
(* Client.Request                                                          *)

\* Parse the URL, build the request and its headers, track the synthetic
\* HEADERS frame (no state the model keeps changes), hand it to
\* httpClient.Do.  The early return for a bad URL changes no state and is
\* left out; the one for an unsupported body type is RequestRejected in
\* Examples, where the bodies are known.
RequestStart(r, a) ==
    /\ pc[r] = "idle"
    /\ pc' = [pc EXCEPT ![r] = "connecting"]
    /\ reqAddr' = [reqAddr EXCEPT ![r] = a]
    /\ UNCHANGED <<regVars, conn, sel, owner, lastFp, resp>>

\* The transport hands out an idle connection this client's transport
\* established to the same address.
ReuseConnection(r, d) ==
    /\ pc[r] = "connecting"
    /\ dialState[d] = "done"
    /\ owner[d] = ReqClient[r]
    /\ details[d].addr = reqAddr[r]
    /\ conn' = [conn EXCEPT ![r] = d]
    /\ pc' = [pc EXCEPT ![r] = "awaiting"]
    /\ UNCHANGED <<regVars, reqAddr, sel, owner, lastFp, resp>>

\* The transport calls DialTLSContext, i.e. trackedDialer.DialTLS, in a
\* dial goroutine of its own; the dial is named by the next unused id.
DialForRequest(r) ==
    /\ pc[r] = "connecting"
    /\ \E d \in Dials :
          /\ dialState[d] = "idle"
          /\ \A e \in Dials : dialState[e] = "idle" => d <= e
          /\ DialBegin(d, reqAddr[r])
          /\ owner' = [owner EXCEPT ![d] = ReqClient[r]]
          /\ conn' = [conn EXCEPT ![r] = d]
    /\ pc' = [pc EXCEPT ![r] = "dialing"]
    /\ UNCHANGED <<reqAddr, sel, lastFp, resp>>

\* The dial this request waits for has returned a connection.
DialDone(r) ==
    /\ pc[r] = "dialing"
    /\ dialState[conn[r]] = "done"
    /\ pc' = [pc EXCEPT ![r] = "awaiting"]
    /\ UNCHANGED <<regVars, reqAddr, conn, sel, owner, lastFp, resp>>

\* The dial failed: Do returns the error, Request returns "request failed".
DialFailed(r) ==
    /\ pc[r] = "dialing"
    /\ dialState[conn[r]] = "failed"
    /\ pc' = [pc EXCEPT ![r] = "failed"]
    /\ UNCHANGED <<regVars, reqAddr, conn, sel, owner, lastFp, resp>>

RequestTimeoutAfterDial(r) ==
    /\ pc[r] = "awaiting"
    /\ pc' = [pc EXCEPT ![r] = "failed"]
    /\ UNCHANGED <<regVars, reqAddr, conn, sel, owner, lastFp, resp>>

\* http.Client.Timeout (30s) expires while the request waits for its
\* connection or its response: Do returns an error.  The dial goroutine is
\* not stopped by it.
RequestTimeout(r) ==
    /\ pc[r] \in {"dialing", "awaiting"}
    /\ pc' = [pc EXCEPT ![r] = "failed"]
    /\ UNCHANGED <<regVars, reqAddr, conn, sel, owner, lastFp, resp>>

\* Do or io.ReadAll fails: Request returns before updateFingerprint.
ResponseFailed(r) ==
    /\ pc[r] = "awaiting"
    /\ pc' = [pc EXCEPT ![r] = "failed"]
    /\ UNCHANGED <<regVars, reqAddr, conn, sel, owner, lastFp, resp>>

\* The response arrives and its body is read; Request calls
\* updateFingerprint.
ResponseRead(r) ==
    /\ pc[r] = "awaiting"
    /\ pc' = [pc EXCEPT ![r] = "selecting"]
    /\ UNCHANGED <<regVars, reqAddr, conn, sel, owner, lastFp, resp>>

-----------------------------------------------------------------------------
(* Client.updateFingerprint                                                *)

\* The records the registry holds now (GetAllConnections, under RLock).
Registered == {connections[a] : a \in Addrs} \ {NIL}

\* The loop keeping the first record strictly After the latest so far; Go's
\* map order is random, so any record with the greatest ConnectedAt.
Latest == {d \in Registered : \A e \in Registered :
                                  details[e].connectedAt <= details[d].connectedAt}

SelectLatest(r) ==
    /\ pc[r] = "selecting"
    /\ \/ /\ Registered = {}
          /\ sel' = [sel EXCEPT ![r] = NIL]
          /\ pc' = [pc EXCEPT ![r] = "generating"]
       \/ \E d \in Latest :
          /\ sel' = [sel EXCEPT ![r] = d]
          /\ pc' = [pc EXCEPT ![r] = "writeSettings"]
    /\ UNCHANGED <<regVars, reqAddr, conn, owner, lastFp, resp>>

WriteSettingsSkipFrames(r) ==
    /\ pc[r] = "writeSettings"
    /\ details' = [details EXCEPT ![sel[r]].h2Settings = ReqClient[r]]
    /\ pc' = [pc EXCEPT ![r] = "generating"]
    /\ UNCHANGED <<connections, dialState, clock, clears, reqAddr, conn, sel, owner,
                   lastFp, resp>>

\* details.HTTP2Settings = c.http2Tracker.GetSettings(): an unlocked write
\* into the shared record.
WriteSettings(r) ==
    /\ pc[r] = "writeSettings"
    /\ details' = [details EXCEPT ![sel[r]].h2Settings = ReqClient[r]]
    /\ pc' = [pc EXCEPT ![r] = "writeFrames"]
    /\ UNCHANGED <<connections, dialState, clock, clears, reqAddr, conn, sel, owner,
                   lastFp, resp>>

\* details.HTTP2Frames, HTTP2WindowUpdate and HTTP2Priority, likewise.
WriteFrames(r) ==
    /\ pc[r] = "writeFrames"
    /\ details' = [details EXCEPT ![sel[r]].h2Frames = ReqClient[r]]
    /\ pc' = [pc EXCEPT ![r] = "generating"]
    /\ UNCHANGED <<connections, dialState, clock, clears, reqAddr, conn, sel, owner,
                   lastFp, resp>>

\* c.lastFingerprint = GenerateFingerprintData(c.profile, details).
Generate(r) ==
    /\ pc[r] = "generating"
    /\ lastFp' = [lastFp EXCEPT ![ReqClient[r]] = GenerateFingerprintData(r, sel[r])]
    /\ pc' = [pc EXCEPT ![r] = "responding"]
    /\ UNCHANGED <<regVars, reqAddr, conn, sel, owner, resp>>

\* Back in Request: Fingerprint: c.lastFingerprint, read again.
Respond(r) ==
    /\ pc[r] = "responding"
    /\ resp' = [resp EXCEPT ![r] = lastFp[ReqClient[r]]]
    /\ pc' = [pc EXCEPT ![r] = "done"]
    /\ UNCHANGED <<regVars, reqAddr, conn, sel, owner, lastFp>>

-----------------------------------------------------------------------------

\* The steps a request's goroutine takes without waiting on the network.
LocalStep(r) ==
    \/ \E d \in Dials : ReuseConnection(r, d)
    \/ DialForRequest(r)
    \/ DialDone(r)
    \/ DialFailed(r)
    \/ RequestTimeout(r)
    \/ SelectLatest(r)
    \/ WriteSettings(r)
    \/ WriteFrames(r)
    \/ Generate(r)
    \/ Respond(r)

\* All requests have returned: the program may stop.
Finished ==
    /\ \A r \in Reqs : pc[r] \in {"done", "failed"}
    /\ UNCHANGED vars

Next ==
    \/ \E r \in Reqs, a \in Addrs : RequestStart(r, a)
    \/ \E r \in Reqs : LocalStep(r) \/ ResponseRead(r) \/ ResponseFailed(r)
    \/ \E d \in Dials : DialStep(d) /\ UNCHANGED clientVars
    \/ ClearConnections /\ UNCHANGED clientVars
    \/ Finished

(***************************************************************************)
(* Fairness: a request goroutine that can take a local step eventually     *)
(* does (it does not block), and the client's 30s timer eventually fires.  *)
(* Nothing is assumed of the network or the peer: dial steps and the       *)
(* arrival of a response are not fair.                                     *)
(***************************************************************************)
Spec == Init /\ [][Next]_vars /\ \A r \in Reqs : WF_vars(LocalStep(r))

-----------------------------------------------------------------------------
(* Properties                                                              *)

\* The client code never writes the registry map: with requests running,
\* readers still see only published records of successful dials.
ClientRegistryRefinement == Abstract!Spec

(***************************************************************************)
(* Every request that was sent eventually returns, with a response or an  *)
(* error, whatever the peer does: Request's deadline covers the wait for  *)
(* the connection and the response, and updateFingerprint never blocks.   *)
(***************************************************************************)
RequestsTerminate ==
    \A r \in Reqs : pc[r] # "idle" ~> pc[r] \in {"done", "failed"}

(***************************************************************************)
(* Spec 9: "attach this request's TLS facts to this request's             *)
(* fingerprint".  The fingerprint a response carries was built from the   *)
(* record of the connection the request was sent on.                      *)
(***************************************************************************)
FingerprintFromOwnConnection ==
    \A r \in Reqs : pc[r] = "done" => resp[r].conn = conn[r]

(***************************************************************************)
(* Spec 3: the HTTP/2 fields of a record are "copied in just before       *)
(* fingerprint assembly" from one tracker: the settings and the frames a  *)
(* fingerprint's HTTP/2 sub-record holds come from the same session.      *)
(***************************************************************************)
HTTP2SubRecordConsistent ==
    \A r \in Reqs : pc[r] = "done" => resp[r].h2s = resp[r].h2f

(***************************************************************************)
(* Spec 3: FingerprintData is "created once per request by the Assembler; *)
(* owned thereafter by ... the Response it is attached to".  The          *)
(* fingerprint a response carries is the one its own request assembled.   *)
(***************************************************************************)
ResponseCarriesOwnAssembly ==
    \A r \in Reqs : pc[r] = "done" => resp[r].by = r

(***************************************************************************)
(* NewTrackedDialer gives its net.Dialer a 30s Timeout: a dial that has    *)
(* started eventually ends, with a connection or an error, whatever the    *)
(* peer does, and in particular after the request that caused it gave up. *)
(***************************************************************************)
DialsEnd ==
    \A d \in Dials : dialState[d] \in {"handshaking", "verified"}
                        ~> dialState[d] \in {"done", "failed"}
=============================================================================
