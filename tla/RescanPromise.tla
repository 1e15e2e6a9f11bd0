--------------------------- MODULE RescanPromise ---------------------------
(***************************************************************************)
(* What entity-manager's rescan engine promises its clients: a requested   *)
(* rescan is never forgotten, scans do not overlap, and nothing is         *)
(* rescanned once the system is going down.  Module Rescan implements it.  *)
(***************************************************************************)
VARIABLES
    pending,    \* a rescan was requested and none has begun since
    scanning,   \* a scan is running
    stopped     \* the system is shutting down

promiseVars == <<pending, scanning, stopped>>

Init == pending = FALSE /\ scanning = FALSE /\ stopped = FALSE

Request == /\ ~stopped
           /\ pending' = TRUE
           /\ UNCHANGED <<scanning, stopped>>

\* A scan that has nothing to ask for begins and ends at once.
Begin == /\ ~stopped /\ ~scanning
         /\ pending' = FALSE
         /\ scanning' \in BOOLEAN
         /\ UNCHANGED stopped

End == /\ scanning
       /\ scanning' = FALSE
       /\ UNCHANGED <<pending, stopped>>

Stop == /\ stopped' = TRUE
        /\ UNCHANGED <<pending, scanning>>

Next == Request \/ Begin \/ End \/ Stop

Spec == Init /\ [][Next]_promiseVars

FairSpec == Spec /\ WF_promiseVars(pending /\ Begin) /\ WF_promiseVars(End)

=============================================================================
