----------------------------- MODULE MCRegistry -----------------------------
(***************************************************************************)
(* Instance of Registry for TLC: two peers with valid keys behind one IPv4 *)
(* address and one with an invalid key and an address of its own.          *)
(***************************************************************************)
EXTENDS Registry, TLC

CONSTANTS p1, p2, p3, h1, h2, d1, ipA, ipB

ThreePeers == {p1, p2, p3}
MCIP == p1 :> ipA @@ p2 :> ipA @@ p3 :> ipB
MCIPv4 == {ipA}
=============================================================================
