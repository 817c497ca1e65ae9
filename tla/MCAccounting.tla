---------------------------- MODULE MCAccounting ----------------------------
(***************************************************************************)
(* Instance of Accounting for TLC: two transfers of different accounts     *)
(* share a channel of one slot.  t1 has enough bytes to pass AccountBytes  *)
(* in the loop more than once, and reads of one or two bytes.              *)
(***************************************************************************)
EXTENDS Accounting, TLC

CONSTANTS t1, t2, a1, a2

TwoAccounts == {a1, a2}
TwoTransfers == {t1, t2}
TwoAccount == t1 :> a1 @@ t2 :> a2
TwoLength == t1 :> 4 @@ t2 :> 2
=============================================================================
