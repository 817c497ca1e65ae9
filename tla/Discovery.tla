----------------------------- MODULE Discovery -----------------------------
(***************************************************************************)
(* How a proxy keeps itself listed in Redis (pkg/discovery/redis.go), and  *)
(* how that ends: with the process, in the order of main's deferred calls, *)
(* or by a crash.  Clients read the listing; time passes in seconds.       *)
(***************************************************************************)
EXTENDS Naturals

CONSTANTS
  Addresses,   \* the hosts of a proxy
  Expiration,  \* how long a key of Redis lives, in seconds
  Failures,    \* bound: calls to Redis that fail
  Horizon      \* bound: seconds

VARIABLES
  ttl,      \* of each host: what its key has left, 0 if there is none
  loop,     \* where Join's goroutine is
  todo,     \* the hosts it has still to set or to delete
  timer,    \* seconds to the next tick, and whether one waits in t.C
  ticked,
  process,  \* where main is: joining, up, leaving, closing, exited
  client,   \* whether redisAuth is open
  left,     \* whether Leave has sent to c.close
  failures, time,
  late,     \* history: the hosts whose key was not set when it was due
  gone,     \* history: the hosts whose key was deleted
  since     \* history: seconds since the process ended

vars == <<ttl, loop, todo, timer, ticked, process, client, left, failures, time, late, gone, since>>

Period == Expiration - 1

Init ==
  /\ ttl = [h \in Addresses |-> 0] /\ loop = "none" /\ todo = Addresses
  /\ timer = 0 /\ ticked = FALSE /\ process = "joining" /\ client = TRUE /\ left = FALSE
  /\ failures = 0 /\ time = 0 /\ late = {} /\ gone = {} /\ since = 0

Running == process # "exited"

(* A call to Redis fails when the client is closed, or for a cause of its own. *)
Fails == ~client \/ failures < Failures
Failed == failures' = IF client THEN failures + 1 ELSE failures

Set(h) ==
  /\ client /\ ttl' = [ttl EXCEPT ![h] = Expiration] /\ late' = late \ {h}
  /\ UNCHANGED failures

-----------------------------------------------------------------------------
(* Join *)

JoinHost ==
  /\ process = "joining"
  /\ \E h \in todo :
       /\ todo' = todo \ {h}
       /\ \/ Set(h) /\ UNCHANGED process
          \/ Fails /\ Failed /\ process' = "exited" /\ UNCHANGED <<ttl, late>>
  /\ UNCHANGED <<loop, timer, ticked, client, left, time, gone, since>>

(* Mutant of StartLoop: the key is set when it ends. *)
StartLoopLate ==
  /\ process = "joining" /\ todo = {} /\ process' = "up"
  /\ loop' = "select" /\ timer' = Expiration /\ ticked' = FALSE
  /\ UNCHANGED <<ttl, todo, client, left, failures, time, late, gone, since>>

StartLoop ==
  /\ process = "joining" /\ todo = {} /\ process' = "up"
  /\ loop' = "select" /\ timer' = Period /\ ticked' = FALSE
  /\ UNCHANGED <<ttl, todo, client, left, failures, time, late, gone, since>>

-----------------------------------------------------------------------------
(* The goroutine: select takes either when both are ready. *)

TakeTick ==
  /\ Running /\ loop = "select" /\ ticked
  /\ ticked' = FALSE /\ loop' = "set" /\ todo' = Addresses
  /\ UNCHANGED <<ttl, timer, process, client, left, failures, time, late, gone, since>>

Refresh ==
  /\ Running /\ loop = "set"
  /\ \E h \in todo :
       /\ todo' = todo \ {h}
       /\ loop' = IF todo = {h} THEN "select" ELSE "set"
       /\ \/ Set(h)
          \/ Fails /\ Failed /\ late' = late \cup {h} /\ UNCHANGED ttl
  /\ UNCHANGED <<timer, ticked, process, client, left, time, gone, since>>

TakeClose ==
  /\ Running /\ loop = "select" /\ left /\ loop' = "delete" /\ todo' = Addresses
  /\ UNCHANGED <<ttl, timer, ticked, process, client, left, failures, time, late, gone, since>>

Delete ==
  /\ Running /\ loop = "delete"
  /\ \E h \in todo :
       /\ todo' = todo \ {h}
       /\ loop' = IF todo = {h} THEN "ended" ELSE "delete"
       /\ \/ client /\ ttl' = [ttl EXCEPT ![h] = 0] /\ gone' = gone \cup {h} /\ UNCHANGED failures
          \/ Fails /\ Failed /\ UNCHANGED <<ttl, gone>>
  /\ UNCHANGED <<timer, ticked, process, client, left, time, late, since>>

-----------------------------------------------------------------------------
(* main: Leave, then the other deferred calls, then the end; or a crash. *)

Leave ==
  /\ process = "up" /\ process' = "leaving" /\ left' = TRUE
  /\ UNCHANGED <<ttl, loop, todo, timer, ticked, client, failures, time, late, gone, since>>
CloseClient ==
  /\ process = "leaving" /\ process' = "closing" /\ client' = FALSE
  /\ UNCHANGED <<ttl, loop, todo, timer, ticked, left, failures, time, late, gone, since>>
Exit ==
  /\ process = "closing" /\ process' = "exited"
  /\ UNCHANGED <<ttl, loop, todo, timer, ticked, client, left, failures, time, late, gone, since>>
Crash ==
  /\ Running /\ process' = "exited"
  /\ UNCHANGED <<ttl, loop, todo, timer, ticked, client, left, failures, time, late, gone, since>>

-----------------------------------------------------------------------------
(* A second: the keys age, the ticker ticks; a tick that waits is enough.  *)
(* A host whose tick is still being handled is late.                       *)
Second ==
  /\ time < Horizon /\ time' = time + 1
  /\ ttl' = [h \in Addresses |-> IF ttl[h] = 0 THEN 0 ELSE ttl[h] - 1]
  /\ IF loop \in {"none", "ended"} \/ ~Running THEN UNCHANGED <<timer, ticked>>
     ELSE IF timer = 1 THEN timer' = Period /\ ticked' = TRUE
     ELSE timer' = timer - 1 /\ UNCHANGED ticked
  /\ late' = late \cup (IF ticked THEN Addresses ELSE IF loop = "set" THEN todo ELSE {})
                  \cup (IF process = "joining" THEN Addresses ELSE {})
  /\ since' = IF Running THEN 0 ELSE since + 1
  /\ UNCHANGED <<loop, todo, process, client, left, failures, gone>>

Next ==
  \/ JoinHost \/ StartLoop \/ TakeTick \/ Refresh \/ TakeClose \/ Delete
  \/ Leave \/ CloseClient \/ Exit \/ Crash \/ Second

Spec == Init /\ [][Next]_vars

FlagsOK == ticked \in BOOLEAN /\ client \in BOOLEAN /\ left \in BOOLEAN

TypeOK ==
  /\ ttl \in [Addresses -> 0 .. Expiration] /\ todo \subseteq Addresses
  /\ loop \in {"none", "select", "set", "delete", "ended"}
  /\ timer \in 0 .. Expiration
  /\ process \in {"joining", "up", "leaving", "closing", "exited"}
  /\ failures \in 0 .. Failures /\ time \in 0 .. Horizon /\ since \in 0 .. Horizon
  /\ late \subseteq Addresses /\ gone \subseteq Addresses
  /\ FlagsOK

(* A proxy that is up is listed with every host, unless the last call for  *)
(* it failed or was late: the goroutine sets a key a second before it ends *)
(* (discovery/redis.go:36, 55).                                            *)
StaysListed ==
  process = "up" => \A h \in Addresses : h \notin late => ttl[h] > 0

(* A host that was deleted is not listed again, though a tick may wait     *)
(* beside the close; and whatever way the process ended, Leave's goroutine *)
(* cut off by it included, Redis itself ends the listing (redis.go:39-66). *)
LeavesTheList ==
  /\ \A h \in gone : ttl[h] = 0
  /\ since >= Expiration => \A h \in Addresses : ttl[h] = 0

-----------------------------------------------------------------------------
(* Why both hold: of a host that is not late the key is newer than the     *)
(* next tick, or that tick is being handled and the key is still there;    *)
(* the goroutine deletes only when Leave has been called, and then sets no *)
(* more; and no key is set once the process has ended.                     *)
LoopFollowsMain ==
  /\ process = "joining" => loop = "none"
  /\ process = "up" => loop \in {"select", "set"}
  /\ loop # "none" => timer > 0 /\ timer < Expiration
  /\ process \in {"joining", "up"} => ~left
  /\ gone # {} => loop \in {"delete", "ended"} /\ process # "joining"

KeysOutliveTicks ==
  /\ process = "joining" => \A h \in Addresses \ (todo \cup late) : ttl[h] = Expiration
  /\ process = "up" => \A h \in Addresses \ late :
       /\ ttl[h] > 0
       /\ ticked \/ (loop = "set" /\ h \in todo) \/ ttl[h] > timer

KeysEnd ==
  /\ \A h \in gone : ttl[h] = 0
  /\ since <= time /\ (Running => since = 0)
  /\ \A h \in Addresses : ttl[h] = 0 \/ ttl[h] + since <= Expiration

Inv == TypeOK /\ LoopFollowsMain /\ KeysOutliveTicks /\ KeysEnd
=============================================================================
