--------------------------- MODULE MCPublishEngine ---------------------------
(***************************************************************************)
(* PublishEngine for TLC: the cfg files name the instance.                 *)
(***************************************************************************)
EXTENDS PublishEngine

CONSTANTS p1, p2, tick, tick2, console, user, a, b

OnePost == {p1}
TwoPosts == {p1, p2}
Siblings == {{p1, p2}}
Apart == {{p1}, {p2}}
Alone == {{p1}}
===============================================================================
