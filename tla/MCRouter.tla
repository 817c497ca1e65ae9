------------------------------ MODULE MCRouter ------------------------------
(***************************************************************************)
(* Instances of Router for TLC, with one session id that two Route calls   *)
(* ask for.  The instance of the passing run has one node and two pools,   *)
(* and one of the calls goes through a pool; the instance of the run that  *)
(* finds a violation has two nodes that the session can be bound to, and   *)
(* no pools.                                                               *)
(***************************************************************************)
EXTENDS Router, TLC

CONSTANTS p1, p2, s1, n1, n2, r1, r2, k1, k2

OnePeer == {p1}
TwoPeers == {p1, p2}
OneSession == {s1}
TwoRequests == {r1, r2}

AllEligible == [r \in Requests |-> Peers]
AllSticky == [r \in Requests |-> s1]
NoPool == [r \in Requests |-> None]
FirstPool == [r \in Requests |-> IF r = r1 THEN n1 ELSE None]

TwoPools == {n1, n2}
=============================================================================
