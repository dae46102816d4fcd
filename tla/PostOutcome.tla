------------------------------ MODULE PostOutcome ------------------------------
(***************************************************************************)
(* What publishing promises the author of a post: a platform shows it at   *)
(* most once, each row is called published or failed at most once and      *)
(* truthfully, and nothing appears on the platform after that.             *)
(***************************************************************************)
CONSTANT Posts

VARIABLES
    shown,   \* the rows whose platform shows the post
    told     \* "open" until the row is called "published" or "failed"

Init ==
    /\ shown = {}
    /\ told = [p \in Posts |-> "open"]

Show(p) ==
    /\ told[p] = "open"
    /\ p \notin shown
    /\ shown' = shown \cup {p}
    /\ UNCHANGED told

\* A cycle may give up several rows of a post together.
Tell(S) ==
    /\ \A p \in S : told[p] = "open"
    /\ told' = [p \in Posts |-> IF p \notin S THEN told[p]
                                ELSE IF p \in shown THEN "published" ELSE "failed"]
    /\ UNCHANGED shown

Next == (\E p \in Posts : Show(p)) \/ (\E S \in SUBSET Posts : Tell(S))

Spec == Init /\ [][Next]_<<shown, told>>
================================================================================
