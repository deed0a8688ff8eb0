---------------------------- MODULE TLSRegistry ----------------------------
(***************************************************************************)
(* The process-wide connection registry (TLSTracker, GlobalTracker) and    *)
(* the TrackedDialer that fills it, src/unnamed/part_003 lines 15-154      *)
(* (package tracking, file tls.go).                                        *)
(*                                                                         *)
(* A ConnectionDetails record is heap data reached by pointer: the dialer  *)
(* allocates one per DialTLS call, the VerifyConnection closure and        *)
(* updateConnectionDetails write into it, and StoreConnection publishes    *)
(* the pointer under the registry lock.  The model names each record by   *)
(* the dial that allocated it (a member of Dials): details[d] is the       *)
(* record, connections[a] the pointer stored for address a.                *)
(*                                                                         *)
(* TLS parameters (version, cipher, certificates) are abstracted to the    *)
(* HandshakeComplete flag and ConnectedAt; the HTTP/2 fields are written   *)
(* only by the client (OrbitClient) and are left unchanged here.           *)
(***************************************************************************)
EXTENDS Naturals

CONSTANTS
    Addrs,      \* destination addresses ("host:port")
    Dials,      \* identities of DialTLS calls (and of their records)
    MaxClock,   \* bound on time.Now() values
    MaxClears,  \* bound on ClearConnections calls (none in src/ calls it)
    ClockSteps, \* how far time.Now() may move between two dial starts
    NIL         \* nil pointer / absent map entry

ASSUME MaxClock \in Nat \ {0}
ASSUME MaxClears \in Nat
ASSUME ClockSteps \subseteq Nat /\ ClockSteps # {}

DialStates == {"idle", "handshaking", "verified", "done", "failed"}

VARIABLES
    connections,  \* t.connections: address -> record pointer (or NIL)
    details,      \* the ConnectionDetails record of each dial
    dialState,    \* where each DialTLS call is
    clock,        \* time.Now(), as seen by DialTLS
    clears        \* ClearConnections calls so far (bounded by MaxClears)

regVars == <<connections, details, dialState, clock, clears>>

\* A fresh ConnectionDetails{ConnectedAt, ServerName}: HTTP/2 fields nil.
NewDetailsNoTime(a, t) == [addr |-> a, connectedAt |-> 0, handshakeComplete |-> FALSE,
                           h2Settings |-> NIL, h2Frames |-> NIL]
NewDetails(a, t) == [addr |-> a, connectedAt |-> t, handshakeComplete |-> FALSE,
                     h2Settings |-> NIL, h2Frames |-> NIL]

RegTypeOK ==
    /\ connections \in [Addrs -> Dials \cup {NIL}]
    /\ dialState \in [Dials -> DialStates]
    /\ clock \in 1..MaxClock
    /\ clears \in 0..MaxClears
    /\ \A d \in Dials : dialState[d] # "idle" =>
          /\ details[d].addr \in Addrs
          /\ details[d].connectedAt \in 1..MaxClock
          /\ details[d].handshakeComplete \in BOOLEAN

\* NewTLSTracker: an empty map.  No dial has started.
RegInit ==
    /\ connections = [a \in Addrs |-> NIL]
    /\ details = [d \in Dials |-> NewDetails(NIL, 0)]
    /\ dialState = [d \in Dials |-> "idle"]
    /\ clock = 1
    /\ clears = 0

DialBeginStores(d, a) ==
    /\ dialState[d] = "idle"
    /\ \E t \in {clock + i : i \in ClockSteps} :
          /\ t <= MaxClock
          /\ clock' = t
          /\ details' = [details EXCEPT ![d] = NewDetails(a, t)]
    /\ dialState' = [dialState EXCEPT ![d] = "handshaking"]
    /\ connections' = [connections EXCEPT ![a] = d]
    /\ UNCHANGED clears

\* DialTLS, first statements: allocate the record with ConnectedAt =
\* time.Now() (two concurrent dials may read the same time when 0 is in
\* ClockSteps), build the tracked config and enter tls.Dial.
DialBegin(d, a) ==
    /\ dialState[d] = "idle"
    /\ \E t \in {clock + i : i \in ClockSteps} :
          /\ t <= MaxClock
          /\ clock' = t
          /\ details' = [details EXCEPT ![d] = NewDetails(a, t)]
    /\ dialState' = [dialState EXCEPT ![d] = "handshaking"]
    /\ UNCHANGED <<connections, clears>>

\* The VerifyConnection closure of createTrackedTLSConfig, run inside the
\* handshake: it records the negotiated parameters and sets
\* HandshakeComplete before the caller's own hook (if any) is consulted.
VerifyConnection(d) ==
    /\ dialState[d] = "handshaking"
    /\ details' = [details EXCEPT ![d].handshakeComplete = TRUE]
    /\ dialState' = [dialState EXCEPT ![d] = "verified"]
    /\ UNCHANGED <<connections, clock, clears>>

DialFailStores(d) ==
    /\ dialState[d] \in {"handshaking", "verified"}
    /\ dialState' = [dialState EXCEPT ![d] = "failed"]
    /\ connections' = [connections EXCEPT ![details[d].addr] = d]
    /\ UNCHANGED <<details, clock, clears>>

\* tls.Dial returns an error: before verification (TCP or handshake error)
\* or after it (the caller's VerifyConnection rejected the peer, or the
\* handshake failed after the callback).  DialTLS returns at once; the
\* record is dropped and nothing is stored.
DialFail(d) ==
    /\ dialState[d] \in {"handshaking", "verified"}
    /\ dialState' = [dialState EXCEPT ![d] = "failed"]
    /\ UNCHANGED <<connections, details, clock, clears>>

\* tls.Dial succeeds: updateConnectionDetails re-captures the connection
\* state (HandshakeComplete is true for a finished handshake) into the
\* still-private record, then StoreConnection publishes it under the lock,
\* overwriting any record stored for the address.
DialReturn(d) ==
    /\ dialState[d] = "verified"
    /\ details' = [details EXCEPT ![d].handshakeComplete = TRUE]
    /\ connections' = [connections EXCEPT ![details[d].addr] = d]
    /\ dialState' = [dialState EXCEPT ![d] = "done"]
    /\ UNCHANGED <<clock, clears>>

\* ClearConnections: replace the map by an empty one.
ClearConnections ==
    /\ clears < MaxClears
    /\ connections' = [a \in Addrs |-> NIL]
    /\ clears' = clears + 1
    /\ UNCHANGED <<details, dialState, clock>>

\* The steps of a dial that the dialing goroutine takes once DialBegin has
\* run; they depend on the network and the peer.
DialStep(d) == VerifyConnection(d) \/ DialFail(d) \/ DialReturn(d)

RegNext ==
    \/ \E d \in Dials, a \in Addrs : DialBegin(d, a)
    \/ \E d \in Dials : DialStep(d)
    \/ ClearConnections

RegSpec == RegInit /\ [][RegNext]_regVars

-----------------------------------------------------------------------------
(* Refinement: the registry as its callers see it.                        *)

\* The abstract entry an address shows: the dial that published it, the
\* address its record was dialed for and its HandshakeComplete flag.
EntryOf(a) == IF connections[a] = NIL THEN NIL
              ELSE [dial |-> connections[a],
                    addr |-> details[connections[a]].addr,
                    complete |-> details[connections[a]].handshakeComplete]

Abstract == INSTANCE RegistryAbstract WITH
                entries <- [a \in Addrs |-> EntryOf(a)],
                published <- {d \in Dials : dialState[d] = "done"}
=============================================================================
