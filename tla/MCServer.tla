------------------------------ MODULE MCServer ------------------------------
(* Two connections; a worker for each or for one of them. *)
EXTENDS Server

Config(n, m, stops) == [concurrency |-> n, maxConnsPerIP |-> m, stops |-> stops]

(* Shutdown without a limit of connections by address, as the proxy runs   *)
(* the server, and the limit without Shutdown.                             *)
AsTheProxy == {Config(2, 0, TRUE), Config(1, 0, TRUE), Config(2, 1, FALSE)}
=============================================================================
