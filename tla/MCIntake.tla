------------------------------- MODULE MCIntake -------------------------------
(***************************************************************************)
(* Intake for TLC: the cfg names the instance.                             *)
(***************************************************************************)
EXTENDS Intake

CONSTANTS w1, w2, u1, u2

\* Gated, and not understood.
SheetRows == {
    [status |-> "accepted", hold |-> FALSE, gated |-> TRUE],
    [status |-> "review_queue", hold |-> FALSE, gated |-> FALSE]}
=============================================================================
