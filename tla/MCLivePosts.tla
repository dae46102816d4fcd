----------------------------- MODULE MCLivePosts -----------------------------
(***************************************************************************)
(* LivePosts for TLC: the cfg names the instance.                          *)
(***************************************************************************)
EXTENDS LivePosts, TLC

CONSTANTS s1, s2, s3

Symmetry == Permutations(Requests)
=============================================================================
