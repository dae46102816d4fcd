--------------------------- MODULE SubmissionLedger ---------------------------
(***************************************************************************)
(* What the engine promises the platforms: each time a row is scheduled    *)
(* allows one more submission of it, and a submission, once made, is never *)
(* withdrawn and settles at most once.                                     *)
(***************************************************************************)
EXTENDS Naturals, Sequences

CONSTANT Posts

VARIABLES
    allowed,   \* how often each row was scheduled
    sent       \* the states of the submissions of each row, in order

Init ==
    /\ allowed = [p \in Posts |-> 1]
    /\ sent = [p \in Posts |-> <<>>]

Schedule(p) ==
    /\ allowed' = [allowed EXCEPT ![p] = @ + 1]
    /\ UNCHANGED sent

Submit(p, state) ==
    /\ Len(sent[p]) < allowed[p]
    /\ sent' = [sent EXCEPT ![p] = Append(@, state)]
    /\ UNCHANGED allowed

Settle(p, i, outcome) ==
    /\ sent[p][i] = "pending"
    /\ sent' = [sent EXCEPT ![p][i] = outcome]
    /\ UNCHANGED allowed

Next ==
    \E p \in Posts :
        \/ Schedule(p)
        \/ \E state \in {"pending", "published", "failed"} : Submit(p, state)
        \/ \E i \in DOMAIN sent[p], outcome \in {"published", "failed"} : Settle(p, i, outcome)

Spec == Init /\ [][Next]_<<allowed, sent>>
===============================================================================
