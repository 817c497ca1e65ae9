----------------------------- MODULE MCPoolTester -----------------------------
(***************************************************************************)
(* Instances of PoolTester for TLC: two tasks, and a goroutine more than   *)
(* they need.                                                              *)
(***************************************************************************)
EXTENDS PoolTester

CONSTANTS t1, t2, g1, g2, g3
=============================================================================
