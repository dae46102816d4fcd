----------------------------- MODULE MCApprovals -----------------------------
(***************************************************************************)
(* Approvals for TLC: the cfg names the instance.                          *)
(***************************************************************************)
EXTENDS Approvals, TLC

CONSTANTS r1, s1, s2

Symmetry == Permutations(Servers)
=============================================================================
