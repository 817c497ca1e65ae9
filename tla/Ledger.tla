------------------------------- MODULE Ledger -------------------------------
(***************************************************************************)
(* What traffic accounting promises, whatever goroutines, channels and     *)
(* caches implement it.  Every byte the proxy reads from a connection is   *)
(* metered once; from then on it is in exactly one of four places:         *)
(*                                                                         *)
(*   open      metered by a transfer that has not handed it over yet       *)
(*   reported  handed to the accountant (Decrement has returned nil)       *)
(*   billed    delivered to the usage channel of the billing system        *)
(*   lost      will never be billed                                        *)
(*                                                                         *)
(* A byte may only be lost after it was reported, by a failed publish, or  *)
(* when the process is going down.  A transfer that ends, for whatever     *)
(* reason, never loses what it metered.                                    *)
(***************************************************************************)
CONSTANT Byte

VARIABLES open, reported, billed, lost, down

vars == <<open, reported, billed, lost, down>>

TypeOK ==
  /\ open \subseteq Byte
  /\ reported \subseteq Byte
  /\ billed \subseteq Byte
  /\ lost \subseteq Byte
  /\ down \in BOOLEAN

Init ==
  /\ open = {}
  /\ reported = {}
  /\ billed = {}
  /\ lost = {}
  /\ down = FALSE

Seen == open \cup reported \cup billed \cup lost

(* A transfer reads bytes nobody has read before. *)
Meter(S) ==
  /\ S \cap Seen = {}
  /\ open' = open \cup S
  /\ UNCHANGED <<reported, billed, lost, down>>

(* A transfer hands its open bytes over to the accountant. *)
Report(S) ==
  /\ S \subseteq open
  /\ open' = open \ S
  /\ reported' = reported \cup S
  /\ UNCHANGED <<billed, lost, down>>

(* A batch of reported bytes reaches the billing system. *)
Bill(S) ==
  /\ S \subseteq reported
  /\ reported' = reported \ S
  /\ billed' = billed \cup S
  /\ UNCHANGED <<open, lost, down>>

(* A batch of reported bytes could not be published. *)
Drop(S) ==
  /\ S \subseteq reported
  /\ reported' = reported \ S
  /\ lost' = lost \cup S
  /\ UNCHANGED <<open, billed, down>>

(* The process is told to stop. *)
GoDown ==
  /\ down' = TRUE
  /\ UNCHANGED <<open, reported, billed, lost>>

(* Once it has been told to stop, memory may be thrown away. *)
Discard(S) ==
  /\ down
  /\ S \subseteq open \cup reported
  /\ open' = open \ S
  /\ reported' = reported \ S
  /\ lost' = lost \cup S
  /\ UNCHANGED <<billed, down>>

Next ==
  \/ \E S \in SUBSET Byte :
        Meter(S) \/ Report(S) \/ Bill(S) \/ Drop(S) \/ Discard(S)
  \/ GoDown

Spec == Init /\ [][Next]_vars
=============================================================================
