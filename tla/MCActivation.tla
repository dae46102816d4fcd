---------------------------- MODULE MCActivation ----------------------------
(***************************************************************************)
(* Activation for TLC: the cfg names the instance.                         *)
(***************************************************************************)
EXTENDS Activation

CONSTANTS v1, w1, w2
=============================================================================
