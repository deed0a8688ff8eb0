-------------------------- MODULE MC_OrbitClient --------------------------
(* Instances of OrbitClient.  The main one (MC_OrbitClient.cfg): one     *)
(* client with two concurrent requests over two addresses, one dial per  *)
(* request and one clear; the others isolate one question each: two      *)
(* clients with a request each (torn), two requests of one client         *)
(* (lastfp), a single request (dialhang).                                 *)
EXTENDS OrbitClient

\* One request on each of two clients.
MCReqClientPair == [r \in {"r1", "r2"} |-> IF r = "r1" THEN "c1" ELSE "c2"]

\* Two requests on one client.
MCReqClientSame == [r \in {"r1", "r2"} |-> "c1"]
\* A single request.
MCReqClientOne == [r \in {"r1"} |-> "c1"]
=============================================================================
