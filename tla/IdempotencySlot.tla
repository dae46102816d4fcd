--------------------------- MODULE IdempotencySlot ---------------------------
(***************************************************************************)
(* What the idempotency table promises the agents: for each key one        *)
(* request at a time does the work, the outcome it records stays, and      *)
(* nobody works under a key that has an outcome, until it is forgotten.    *)
(***************************************************************************)
CONSTANTS Keys, Requests, Posts, None

VARIABLES
    workers,   \* the requests that work under each key
    outcome    \* the post recorded for each key

Init ==
    /\ workers = [k \in Keys |-> {}]
    /\ outcome = [k \in Keys |-> None]

Enter(k, r) ==
    /\ workers[k] = {} /\ outcome[k] = None
    /\ workers' = [workers EXCEPT ![k] = {r}]
    /\ UNCHANGED outcome

Complete(k, r, p) ==
    /\ workers[k] = {r}
    /\ workers' = [workers EXCEPT ![k] = {}]
    /\ outcome' = [outcome EXCEPT ![k] = p]

\* The request gives up or dies.
Leave(k, r) ==
    /\ workers[k] = {r}
    /\ workers' = [workers EXCEPT ![k] = {}]
    /\ UNCHANGED outcome

Forget(k) ==
    /\ workers[k] = {}
    /\ outcome' = [outcome EXCEPT ![k] = None]
    /\ UNCHANGED workers

Next ==
    \E k \in Keys :
        \/ Forget(k)
        \/ \E r \in Requests : Enter(k, r) \/ Leave(k, r) \/ \E p \in Posts : Complete(k, r, p)

Spec == Init /\ [][Next]_<<workers, outcome>>
==============================================================================
