-------------------------------- MODULE Nodes --------------------------------
(***************************************************************************)
(* What registration and the router share: the table of nodes (nodes in    *)
(* the database of src/pkg/router/genji.go), which the one has rows added  *)
(* to and removed from and the other routes by.                            *)
(***************************************************************************)
CONSTANTS
  Peers,     \* nodes, by peer id
  Requests,  \* the proxy's requests; one is the slot of one at a time (bound)
  None

VARIABLE
  nodes      \* peers with a row in nodes
=============================================================================
