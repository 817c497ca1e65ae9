------------------------------- MODULE Dialer -------------------------------
(***************************************************************************)
(* TCPDialer (fasthttp/tcpdialer.go): the cache of resolved addresses, the *)
(* attempts of a dial, and the bound on how many run at once.              *)
(***************************************************************************)
EXTENDS Naturals, FiniteSets

CONSTANTS
  Calls,        \* calls of Dial, all to the same address, by goroutines
  None,
  Addresses,    \* how many addresses a name has
  Concurrency,
  Entries       \* bound: how often the name is resolved

VARIABLES
  cached,    \* the entry in tcpAddrsMap, or None
  made,      \* how many entries there were
  age,       \* of an entry: fresh, stale (DNSCacheDuration) or expired (twice that)
  pending,   \* of an entry
  slots,     \* concurrencyCh: the calls in it
  at,        \* where each call is
  entry,     \* the entry a call loaded
  n,         \* the counter of its loop
  asking     \* history: the entry a resolving call is to renew, or None

cacheVars == <<cached, made, age, pending>>
vars == <<cacheVars, slots, at, entry, n, asking>>

Objects == 1 .. Entries

Init ==
  /\ cached = None /\ made = 0 /\ age = [e \in Objects |-> "fresh"]
  /\ pending = [e \in Objects |-> FALSE]
  /\ slots = {} /\ at = [c \in Calls |-> "start"] /\ entry = [c \in Calls |-> None]
  /\ n = [c \in Calls |-> 0]
  /\ asking = [c \in Calls |-> None]

Goto(c, place) == at' = [at EXCEPT ![c] = place]

-----------------------------------------------------------------------------
(* getTCPAddrs *)

Load(c) ==
  /\ at[c] = "start" /\ entry' = [entry EXCEPT ![c] = cached]
  /\ Goto(c, IF cached = None THEN "resolve" ELSE IF age[cached] = "fresh" THEN "use" ELSE "swap")
  /\ UNCHANGED <<cacheVars, slots, n, asking>>

(* Of the calls that find an entry stale one resolves, the others use it. *)
Swap(c) ==
  /\ at[c] = "swap" /\ pending' = [pending EXCEPT ![entry[c]] = TRUE]
  /\ IF pending[entry[c]] THEN Goto(c, "use") /\ UNCHANGED asking
     ELSE Goto(c, "resolve") /\ asking' = [asking EXCEPT ![c] = entry[c]]
  /\ UNCHANGED <<cached, made, age, slots, entry, n>>

Resolved(c) ==
  /\ at[c] = "resolve" /\ made < Entries /\ made' = made + 1
  /\ cached' = made' /\ entry' = [entry EXCEPT ![c] = made'] /\ Goto(c, "use")
  /\ asking' = [asking EXCEPT ![c] = None]
  /\ UNCHANGED <<age, pending, slots, n>>

ResolveFails(c) ==
  /\ at[c] = "resolve" /\ Goto(c, "reload")
  /\ UNCHANGED <<cacheVars, slots, entry, n, asking>>

(* What is cached now may be re, whether or not this call was to renew it. *)
Reload(c) ==
  /\ at[c] = "reload" /\ entry' = [entry EXCEPT ![c] = cached]
  /\ Goto(c, IF cached = None THEN "failed" ELSE "unset")
  /\ asking' = [asking EXCEPT ![c] = IF cached = None THEN None ELSE @]
  /\ UNCHANGED <<cacheVars, slots, n>>

Unset(c) ==
  /\ at[c] = "unset" /\ pending' = [pending EXCEPT ![entry[c]] = FALSE]
  /\ Goto(c, "failed") /\ asking' = [asking EXCEPT ![c] = None]
  /\ UNCHANGED <<cached, made, age, slots, entry, n>>

Use(c) ==
  /\ at[c] = "use" /\ n' = [n EXCEPT ![c] = Addresses] /\ Goto(c, "try")
  /\ UNCHANGED <<cacheVars, slots, entry, asking>>

-----------------------------------------------------------------------------
(* dial and tryDial: the deadline may pass at every step.  Which address   *)
(* an attempt takes is left out: it is the one at idx % n, where idx grows *)
(* and n falls, so that one may be taken twice and another never.          *)

Acquire(c) ==
  /\ at[c] = "try" /\ Cardinality(slots) < Concurrency
  /\ slots' = slots \cup {c} /\ Goto(c, "dial")
  /\ UNCHANGED <<cacheVars, entry, n, asking>>

Overdue(c) ==
  /\ at[c] = "try" /\ Goto(c, "timedout")
  /\ UNCHANGED <<cacheVars, slots, entry, n, asking>>

Connect(c) ==
  /\ at[c] = "dial" /\ slots' = slots \ {c} /\ Goto(c, "connected")
  /\ UNCHANGED <<cacheVars, entry, n, asking>>

ConnectFails(c) ==
  /\ at[c] = "dial" /\ slots' = slots \ {c}
  /\ n' = [n EXCEPT ![c] = @ - 1]
  /\ Goto(c, IF n'[c] = 0 THEN "failed" ELSE "try")
  /\ UNCHANGED <<cacheVars, entry, asking>>

ConnectTimesOut(c) ==
  /\ at[c] = "dial" /\ slots' = slots \ {c} /\ Goto(c, "timedout")
  /\ UNCHANGED <<cacheVars, entry, n, asking>>

-----------------------------------------------------------------------------
(* Time, and tcpAddrsClean *)

Grow ==
  /\ \E e \in 1 .. made : /\ age[e] # "expired"
                          /\ age' = [age EXCEPT ![e] = IF @ = "fresh" THEN "stale" ELSE "expired"]
  /\ UNCHANGED <<cached, made, pending, slots, at, entry, n, asking>>

Clean ==
  /\ cached # None /\ age[cached] = "expired" /\ cached' = None
  /\ UNCHANGED <<made, age, pending, slots, at, entry, n, asking>>

CallStep(c) ==
  \/ Load(c) \/ Swap(c) \/ Resolved(c) \/ ResolveFails(c) \/ Reload(c) \/ Unset(c) \/ Use(c)
  \/ Acquire(c) \/ Overdue(c) \/ Connect(c) \/ ConnectFails(c) \/ ConnectTimesOut(c)
Next == (\E c \in Calls : CallStep(c)) \/ Grow \/ Clean

Spec == Init /\ [][Next]_vars

(* An entry is renewed while it can be: one that is pending has a call     *)
(* that is about to replace it or to take the mark back, so that a name    *)
(* whose resolution failed once is resolved again (tcpdialer.go:388-404).  *)
PendingIsRenewed ==
  cached # None /\ pending[cached] => \E c \in Calls : asking[c] = cached

(* At most Concurrency dials run, and every slot is one of them: neither a *)
(* failure nor a timeout keeps one (tcpdialer.go:317-333).                 *)
SlotsAreDials ==
  /\ slots = {c \in Calls : at[c] = "dial"} /\ Cardinality(slots) <= Concurrency

-----------------------------------------------------------------------------
(* Why both hold: entries are numbered as they are made and the last is    *)
(* the one that is cached; a call that is to renew one takes the mark back *)
(* from an entry that is no older, so from that one while it is cached.    *)
Places == {"start", "resolve", "swap", "use", "reload", "unset", "try", "dial",
           "failed", "timedout", "connected"}

TypeOK ==
  /\ made \in Nat /\ made <= Entries /\ cached \in {None, made} /\ DOMAIN pending = Objects
  /\ at \in [Calls -> Places]
  /\ entry \in [Calls -> {None} \cup Objects] /\ asking \in [Calls -> {None} \cup Objects]

EntriesAreOrdered ==
  /\ cached # None => made > 0
  /\ \A e \in Objects : e > made => ~pending[e]
  /\ \A c \in Calls : at[c] \in {"swap", "unset"} => entry[c] \in 1 .. made
  /\ \A c \in Calls : asking[c] # None =>
       /\ at[c] \in {"resolve", "reload", "unset"} /\ asking[c] \in 1 .. made
       /\ at[c] = "unset" => asking[c] <= entry[c]

Inv == TypeOK /\ EntriesAreOrdered /\ PendingIsRenewed /\ SlotsAreDials
=============================================================================
