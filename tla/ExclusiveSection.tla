--------------------------- MODULE ExclusiveSection ---------------------------
(***************************************************************************)
(* What redis_lock promises the tasks that use it: at most one of them is  *)
(* inside the "with" block.                                                *)
(***************************************************************************)
CONSTANT Tasks

VARIABLE running   \* the tasks inside the block

Init == running = {}

Enter(t) == running = {} /\ running' = {t}

\* The block ends, or the task dies in it.
Leave(t) == running = {t} /\ running' = {}

Next == \E t \in Tasks : Enter(t) \/ Leave(t)

Spec == Init /\ [][Next]_running
===============================================================================
