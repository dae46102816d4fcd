---------------------------- MODULE MCApiRequests ----------------------------
(***************************************************************************)
(* ApiRequests for TLC: the cfg names the instance.                        *)
(***************************************************************************)
EXTENDS ApiRequests

CONSTANTS r1, r2, k1, draft, post
=============================================================================
