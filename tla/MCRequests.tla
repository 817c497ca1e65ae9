----------------------------- MODULE MCRequests -----------------------------
(***************************************************************************)
(* Instances of Requests for TLC.  Neither objects nor users nor nodes nor *)
(* goroutines of one kind are told apart.                                  *)
(***************************************************************************)
EXTENDS Requests, TLC

CONSTANTS h1, h2, s1, s2, d1, d2, r1, r2, u1, u2, n1, n2, a1, x1

Symmetric ==
  UNION {Permutations(S) :
           S \in {{r1, r2}, {u1, u2}, {n1, n2}, {h1, h2}, {d1, d2}}}
=============================================================================
