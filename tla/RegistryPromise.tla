---------------------------- MODULE RegistryPromise ----------------------------
(***************************************************************************)
(* What the service registry promises: however many API servers write it,  *)
(* every write changes one entry, or the version of the API, and nothing   *)
(* that another write put there.                                           *)
(***************************************************************************)
CONSTANTS Services, Writers, None
VARIABLES limits, listeners, api

entries == <<limits, listeners>>

Init ==
    /\ limits \in [Services -> Writers \union {None}]
    /\ listeners = [s \in Services |-> None]
    /\ api \in {"old", "new"}

Register(s, w) ==
    /\ limits' = [limits EXCEPT ![s] = w]
    /\ listeners' = [listeners EXCEPT ![s] = None]
    /\ UNCHANGED api

UpdateLimits(s, w) ==
    /\ limits[s] # None
    /\ limits' = [limits EXCEPT ![s] = w]
    /\ UNCHANGED <<listeners, api>>

UpdateListeners(s, w) ==
    /\ limits[s] # None
    /\ listeners' = [listeners EXCEPT ![s] = w]
    /\ UNCHANGED <<limits, api>>

SetApiVersion == api' = "new" /\ UNCHANGED entries

Next ==
    \/ SetApiVersion
    \/ \E s \in Services, w \in Writers :
          Register(s, w) \/ UpdateLimits(s, w) \/ UpdateListeners(s, w)

Spec == Init /\ [][Next]_<<limits, listeners, api>>
================================================================================
