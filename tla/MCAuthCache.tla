----------------------------- MODULE MCAuthCache -----------------------------
(***************************************************************************)
(* Instance of AuthCache for TLC: one user and two calls that authenticate *)
(* it.  Users share nothing but the order of the messages.                 *)
(***************************************************************************)
EXTENDS AuthCache

CONSTANTS u1, c1, c2
=============================================================================
