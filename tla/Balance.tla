------------------------------ MODULE Balance ------------------------------
(***************************************************************************)
(* LBClient (fasthttp/lbclient.go): calls are spread over clients, and one *)
(* that fails is avoided for some time.                                    *)
(***************************************************************************)
EXTENDS Integers, FiniteSets, Sequences

CONSTANTS
  Calls,       \* calls of Do, by goroutines
  Clients,     \* those that LBClient.Clients and AddClient may name
  First,       \* Clients at the beginning, in their order
  MaxPenalty,
  Totals,      \* bound: the requests counted of a client
  None

VARIABLES
  cs,          \* the clients in use, in order
  penalty,     \* of each
  total,       \* of each, the requests it was healthy for
  timers,      \* of each, how many decPenalty calls wait for their time
  at,          \* where each call is
  scan,        \* how far it has compared
  best,        \* minC, with minN and minT
  locked       \* the calls that hold the read lock

vars == <<cs, penalty, total, timers, at, scan, best, locked>>

Init ==
  /\ cs = First
  /\ penalty = [l \in Clients |-> 0] /\ total = penalty /\ timers = penalty
  /\ at = [c \in Calls |-> "start"] /\ scan = [c \in Calls |-> 0]
  /\ best = [c \in Calls |-> None] /\ locked = {}

Goto(c, place) == at' = [at EXCEPT ![c] = place]

Has(c, l) == best[c] # None /\ best[c].client = l
Busy(l) == Cardinality({c \in Calls : at[c] = "do" /\ Has(c, l)})

(* PendingRequests: what runs, and the penalty. *)
Load(l) == Busy(l) + penalty[l]

-----------------------------------------------------------------------------
(* get: with none left, cs[0] is out of range and the process panics; the  *)
(* model does not remove the last.                                         *)

Look(l) == [client |-> l, n |-> Load(l), t |-> total[l]]

Get(c) ==
  /\ at[c] = "start" /\ locked' = locked \cup {c}
  /\ best' = [best EXCEPT ![c] = Look(cs[1])] /\ scan' = [scan EXCEPT ![c] = 1]
  /\ Goto(c, "scan")
  /\ UNCHANGED <<cs, penalty, total, timers>>

Better(x, y) == x.n < y.n \/ (x.n = y.n /\ x.t < y.t)

Compare(c) ==
  /\ at[c] = "scan" /\ scan[c] < Len(cs) /\ scan' = [scan EXCEPT ![c] = @ + 1]
  /\ LET next == Look(cs[scan[c] + 1]) IN
     best' = [best EXCEPT ![c] = IF Better(next, @) THEN next ELSE @]
  /\ UNCHANGED <<cs, penalty, total, timers, at, locked>>

Got(c) ==
  /\ at[c] = "scan" /\ scan[c] = Len(cs) /\ scan' = [scan EXCEPT ![c] = 0]
  /\ locked' = locked \ {c} /\ Goto(c, "do")
  /\ UNCHANGED <<cs, penalty, total, timers, best>>

-----------------------------------------------------------------------------
(* DoDeadline of the lbClient *)

Return(c) == Goto(c, "start") /\ best' = [best EXCEPT ![c] = None]

Healthy(c) ==
  /\ at[c] = "do" /\ total[best[c].client] < Totals
  /\ total' = [total EXCEPT ![best[c].client] = @ + 1] /\ Return(c)
  /\ UNCHANGED <<cs, penalty, timers, scan, locked>>

(* incPenalty *)
Penalize(c) ==
  /\ at[c] = "do" /\ penalty' = [penalty EXCEPT ![best[c].client] = @ + 1]
  /\ Goto(c, IF penalty'[best[c].client] > MaxPenalty THEN "excess" ELSE "timer")
  /\ UNCHANGED <<cs, total, timers, scan, best, locked>>

Excess(c) ==
  /\ at[c] = "excess" /\ total[best[c].client] < Totals
  /\ penalty' = [penalty EXCEPT ![best[c].client] = @ - 1] /\ Goto(c, "count")
  /\ UNCHANGED <<cs, total, timers, scan, best, locked>>

(* A request that failed is counted when it could not be penalized. *)
Count(c) ==
  /\ at[c] = "count" /\ total' = [total EXCEPT ![best[c].client] = @ + 1] /\ Return(c)
  /\ UNCHANGED <<cs, penalty, timers, scan, locked>>

StartTimer(c) ==
  /\ at[c] = "timer" /\ timers' = [timers EXCEPT ![best[c].client] = @ + 1] /\ Return(c)
  /\ UNCHANGED <<cs, penalty, total, scan, locked>>

Forgive(l) ==
  /\ timers[l] > 0 /\ timers' = [timers EXCEPT ![l] = @ - 1]
  /\ penalty' = [penalty EXCEPT ![l] = @ - 1]
  /\ UNCHANGED <<cs, total, at, scan, best, locked>>

-----------------------------------------------------------------------------
(* AddClient makes an lbClient with no penalty; in the model, of a client  *)
(* that no call has any more.                                              *)
AddClient(l) ==
  /\ locked = {} /\ \A i \in 1 .. Len(cs) : cs[i] # l
  /\ timers[l] = 0 /\ \A c \in Calls : ~ Has(c, l)
  /\ cs' = Append(cs, l) /\ total' = [total EXCEPT ![l] = 0]
  /\ UNCHANGED <<penalty, timers, at, scan, best, locked>>

RemoveClients(l) ==
  /\ locked = {} /\ Len(cs) > 1
  /\ \E i \in 1 .. Len(cs) :
       cs[i] = l /\ cs' = SubSeq(cs, 1, i - 1) \o SubSeq(cs, i + 1, Len(cs))
  /\ UNCHANGED <<penalty, total, timers, at, scan, best, locked>>

CallStep(c) ==
  \/ Get(c) \/ Compare(c) \/ Got(c) \/ Healthy(c) \/ Penalize(c) \/ Excess(c) \/ Count(c)
  \/ StartTimer(c)
Next ==
  \/ \E c \in Calls : CallStep(c)
  \/ \E l \in Clients : Forgive(l) \/ AddClient(l) \/ RemoveClients(l)

Spec == Init /\ [][Next]_vars

-----------------------------------------------------------------------------
(* A client that failed is avoided for a time only: each unit of its       *)
(* penalty has a timer that takes it back, or a call about to start one or *)
(* to take it back itself, so that the counter never wraps below zero; and *)
(* no more than MaxPenalty timers run for it (lbclient.go:179-192).        *)
Owing(l) == {c \in Calls : at[c] \in {"timer", "excess"} /\ Has(c, l)}
StartingTimer(l) == {c \in Calls : at[c] = "timer" /\ Has(c, l)}
PenaltiesEnd ==
  \A l \in Clients :
    /\ penalty[l] = timers[l] + Cardinality(Owing(l))
    /\ timers[l] + Cardinality(StartingTimer(l)) <= MaxPenalty

(* A call that is past its choice has a client, one of those there are.    *)
Looks == [client : Clients, n : Int, t : Int]
TypeOK ==
  /\ cs \in Seq(Clients) /\ Len(cs) > 0
  /\ penalty \in [Clients -> Int] /\ total \in [Clients -> Int] /\ timers \in [Clients -> Int]
  /\ at \in [Calls -> {"start", "scan", "do", "timer", "excess", "count"}]
  /\ scan \in [Calls -> Nat] /\ locked \subseteq Calls
  /\ best \in [Calls -> Looks \cup {None}]
  /\ \A c \in Calls : at[c] = "start" <=> best[c] = None

Inv == TypeOK /\ PenaltiesEnd
=============================================================================
