----------------------------- MODULE MCRedisLock -----------------------------
(***************************************************************************)
(* RedisLock for TLC: two invocations under the hard limit and one that    *)
(* overstays it.                                                           *)
(***************************************************************************)
EXTENDS RedisLock

CONSTANTS t1, t2, slow
===============================================================================
