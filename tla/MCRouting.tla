------------------------------ MODULE MCRouting ------------------------------
(***************************************************************************)
(* Instance of Routing for TLC: one node that comes and goes, one handler, *)
(* and two requests with one sticky session, so that the one is given what *)
(* the other has bound.                                                    *)
(***************************************************************************)
EXTENDS Routing, TLC

CONSTANTS p1, h1, r1, r2, ipA, s1

OneAddress == [p \in Peers |-> ipA]
HandlersAndRequests == Handlers \cup Requests
AllEligible == [r \in Requests |-> Peers]
AllSticky == [r \in Requests |-> s1]
NoPool == [r \in Requests |-> None]
=============================================================================
