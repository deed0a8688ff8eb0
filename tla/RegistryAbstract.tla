-------------------------- MODULE RegistryAbstract --------------------------
(***************************************************************************)
(* What the connection registry promises its readers (spec 4.2): for each *)
(* address, the record of the latest successful dial to that address that  *)
(* was published, with its handshake complete; a dial publishes once, and  *)
(* only if it succeeded; the map may be cleared wholesale.                 *)
(***************************************************************************)
CONSTANTS Addrs, Dials, NIL

VARIABLES
    entries,    \* address -> [dial, addr, complete] or NIL
    published   \* dials whose record has been published

vars == <<entries, published>>

Init ==
    /\ entries = [a \in Addrs |-> NIL]
    /\ published = {}

\* A dial that succeeded publishes its completed record at its address,
\* replacing whatever was there.
Publish(d, a) ==
    /\ d \notin published
    /\ entries' = [entries EXCEPT ![a] = [dial |-> d, addr |-> a, complete |-> TRUE]]
    /\ published' = published \cup {d}

Clear ==
    /\ entries' = [a \in Addrs |-> NIL]
    /\ UNCHANGED published

Next == \/ \E d \in Dials, a \in Addrs : Publish(d, a)
        \/ Clear

Spec == Init /\ [][Next]_vars
=============================================================================
