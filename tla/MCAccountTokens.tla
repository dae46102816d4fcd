--------------------------- MODULE MCAccountTokens ---------------------------
(***************************************************************************)
(* AccountTokens for TLC: the cfg names the instance.                      *)
(***************************************************************************)
EXTENDS AccountTokens

CONSTANTS t1, t2
=============================================================================
