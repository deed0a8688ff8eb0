----------------------------- MODULE HeaderStore -----------------------------
(***************************************************************************)
(* What a Client's custom-header set promises its callers and readers     *)
(* (GetHeader, GetHeaders, applyAllHeaders): a map from lower-cased header *)
(* names to values, in which a name matches whatever case the caller      *)
(* writes it in.                                                           *)
(*                                                                         *)
(* call is the interface: the operation the last step performed, with the *)
(* names as the caller wrote them.  A set call with the pairs F gives each *)
(* name F carries, whatever its case, one of the values F pairs it with,  *)
(* and leaves every other name as it was; a delete removes its name in    *)
(* any case; a clear empties the map.  A reader sees each name once.       *)
(***************************************************************************)
CONSTANTS
    HNames,    \* names as callers write them
    HValues,   \* header values
    Lower      \* strings.ToLower on HNames

VARIABLES
    store,     \* the map a reader sees
    call       \* the last operation: [op |-> "set", pairs], [op |-> "del", name], [op |-> "clear"]

EmptyStore == [n \in {} |-> ""]

NoCall == [op |-> "none"]

StoreInit == store = EmptyStore /\ call = NoCall

\* The lower-cased names the pairs F carry.
NamesOf(F) == {Lower[p[1]] : p \in F}

\* A set call: the caller passes any pairs F.
SetCalls == [op : {"set"}, pairs : SUBSET (HNames \X HValues)]

Put ==
    /\ call' \in SetCalls
    /\ LET F == call'.pairs
       IN /\ store' \in [DOMAIN store \cup NamesOf(F) -> HValues]
          /\ \A n \in NamesOf(F) : store'[n] \in {p[2] : p \in {q \in F : Lower[q[1]] = n}}
          /\ \A n \in DOMAIN store \ NamesOf(F) : store'[n] = store[n]

Remove(n) ==
    /\ call' = [op |-> "del", name |-> n]
    /\ store' = [m \in DOMAIN store \ {Lower[n]} |-> store[m]]

Clear == call' = [op |-> "clear"] /\ store' = EmptyStore

StoreNext ==
    \/ Put
    \/ \E n \in HNames : Remove(n)
    \/ Clear

StoreSpec == StoreInit /\ [][StoreNext]_<<store, call>>
=============================================================================
