----------------------------- MODULE HostClient -----------------------------
(***************************************************************************)
(* The connection pool of a client of one host (fasthttp/client.go,        *)
(* HostClient): calls of Do that take, dial, wait for, return and close    *)
(* connections, the goroutines that dial for a waiting call, the cleaner   *)
(* of idle connections and CloseIdleConnections.                           *)
(***************************************************************************)
EXTENDS Integers, Sequences, Functions, FiniteSets

CONSTANTS
  Calls, Connections, None,
  Idempotent,      \* the calls that isRequestRetryable accepts
  Closing,         \* the calls with Connection: close
  MaxConns,        \* HostClient.MaxConns
  MaxAttempts,     \* HostClient.MaxIdemponentCallAttempts
  Configurations   \* whether MaxConnWaitTimeout is set, the order of the pool

VARIABLES
  config,
  connsCount,   \* c.connsCount
  conns,        \* c.conns
  connsWait,    \* c.connsWait, a queue of calls
  cleaner,      \* where connsCleaner is; off is ~connsCleanerRun
  scratch,      \* the connections connsCleaner and CloseIdleConnections close
  at,           \* where each call is
  held,         \* the connection of a call
  want,         \* the wantConn of a call
  dialing,      \* dialConnFor of a call: none, dial, count or a connection
  failure,      \* of an attempt: final ones are of the dial or of a large body
  attempts,
  late, lost, uncleaned  \* history, see below

poolVars == <<connsCount, conns, connsWait>>
cleanVars == <<cleaner, scratch>>
callVars == <<at, held, failure, attempts>>
history == <<late, lost, uncleaned>>
vars == <<config, poolVars, cleanVars, callVars, want, dialing, history>>

Init ==
  /\ config \in Configurations
  /\ connsCount = 0 /\ conns = <<>> /\ connsWait = <<>>
  /\ cleaner = "off" /\ scratch = {}
  /\ at = [c \in Calls |-> "acquire"] /\ held = [c \in Calls |-> None]
  /\ failure = [c \in Calls |-> "none"] /\ attempts = [c \in Calls |-> 0]
  /\ want = [c \in Calls |-> "none"] /\ dialing = [c \in Calls |-> "none"]
  /\ late = {} /\ lost = FALSE /\ uncleaned = FALSE

-----------------------------------------------------------------------------
(* The queue of waiting calls: those that wait no more are dropped from    *)
(* its front when it is looked at.                                         *)

Waiting(c) == want[c] = "waiting"
SomeoneWaits == \E c \in Range(connsWait) : Waiting(c)
FirstWaiting == CHOOSE i \in DOMAIN connsWait :
                  Waiting(connsWait[i]) /\ \A j \in 1 .. i - 1 : ~Waiting(connsWait[j])
Behind(i) == SubSeq(connsWait, i + 1, Len(connsWait))

(* Mutant of DecConnsCount: the count goes down for a waiting call too. *)
DecConnsCountAlways ==
  /\ connsCount' = connsCount - 1
  /\ IF SomeoneWaits
     THEN /\ dialing' = [dialing EXCEPT ![connsWait[FirstWaiting]] = "dial"]
          /\ connsWait' = Behind(FirstWaiting)
     ELSE connsWait' = <<>> /\ UNCHANGED dialing
  /\ UNCHANGED <<conns, uncleaned>>

(* The place of a connection that ends goes to the first waiting call. *)
DecConnsCount ==
  /\ IF SomeoneWaits
     THEN /\ dialing' = [dialing EXCEPT ![connsWait[FirstWaiting]] = "dial"]
          /\ connsWait' = Behind(FirstWaiting)
          /\ uncleaned' = (uncleaned \/ cleaner = "off")
          /\ UNCHANGED connsCount
     ELSE /\ connsCount' = connsCount - 1 /\ connsWait' = <<>>
          /\ UNCHANGED <<dialing, uncleaned>>
  /\ UNCHANGED conns

(* Mutant of ReleaseConn: the queue is not looked at. *)
ReleaseConnIdle(n, calls) ==
  /\ conns' = Append(conns, n) /\ at' = calls
  /\ UNCHANGED <<connsCount, connsWait, want, lost>>

(* A connection that is free goes to the first waiting call, else to the   *)
(* pool.  Between waiting() and tryDeliver the call may give up: the       *)
(* connection then goes to the pool whoever else waits.                    *)
ReleaseConn(n, calls) ==
  /\ IF SomeoneWaits
     THEN LET w == connsWait[FirstWaiting] IN
          /\ connsWait' = Behind(FirstWaiting)
          /\ \/ want' = [want EXCEPT ![w] = n] /\ at' = calls /\ UNCHANGED <<conns, lost>>
             \/ /\ at[w] = "cancel"
                /\ want' = [want EXCEPT ![w] = "none"]
                /\ at' = [calls EXCEPT ![w] = "failed"]
                /\ conns' = Append(conns, n) /\ lost' = TRUE
     ELSE /\ conns' = Append(conns, n) /\ connsWait' = <<>>
          /\ at' = calls /\ UNCHANGED <<want, lost>>
  /\ UNCHANGED connsCount

Goto(c, l) == [at EXCEPT ![c] = l]

-----------------------------------------------------------------------------
(* acquireConn                                                             *)

TakeIdle(c) ==
  /\ at[c] = "acquire" /\ conns # <<>>
  /\ held' = [held EXCEPT ![c] = IF config.lifo THEN conns[Len(conns)] ELSE Head(conns)]
  /\ conns' = IF config.lifo THEN SubSeq(conns, 1, Len(conns) - 1) ELSE Tail(conns)
  /\ at' = Goto(c, "write")
  /\ UNCHANGED <<config, connsCount, connsWait, cleanVars, failure, attempts, want, dialing,
                 history>>

(* The cleaner is started with the first connection that will be kept. *)
Create(c) ==
  /\ at[c] = "acquire" /\ conns = <<>> /\ connsCount < MaxConns
  /\ connsCount' = connsCount + 1 /\ at' = Goto(c, "dial")
  /\ cleaner' = IF cleaner = "off" /\ c \notin Closing THEN "scan" ELSE cleaner
  /\ UNCHANGED <<config, conns, connsWait, scratch, held, failure, attempts, want, dialing,
                 history>>

NoFreeConns(c) ==
  /\ at[c] = "acquire" /\ conns = <<>> /\ connsCount >= MaxConns
  /\ at' = Goto(c, IF config.wait THEN "queue" ELSE "failed")
  /\ UNCHANGED <<config, poolVars, cleanVars, held, failure, attempts, want, dialing, history>>

(* The lock has been free since: what the call found may be stale. *)
QueueForIdle(c) ==
  /\ at[c] = "queue"
  /\ want' = [want EXCEPT ![c] = "waiting"]
  /\ connsWait' = Append(IF SomeoneWaits THEN Behind(FirstWaiting - 1) ELSE <<>>, c)
  /\ late' = IF conns # <<>> \/ connsCount < MaxConns THEN late \cup {c} ELSE late
  /\ at' = Goto(c, "wait")
  /\ UNCHANGED <<config, connsCount, conns, cleanVars, held, failure, attempts, dialing, lost,
                 uncleaned>>

Delivered(c) ==
  /\ at[c] = "wait" /\ want[c] \in Connections
  /\ held' = [held EXCEPT ![c] = want[c]] /\ want' = [want EXCEPT ![c] = "none"]
  /\ at' = Goto(c, "write")
  /\ UNCHANGED <<config, poolVars, cleanVars, failure, attempts, dialing, history>>

DialFailed(c) ==
  /\ at[c] = "wait" /\ want[c] = "error"
  /\ at' = Goto(c, "failed") /\ want' = [want EXCEPT ![c] = "none"]
  /\ UNCHANGED <<config, poolVars, cleanVars, held, failure, attempts, dialing, history>>

WaitEnds(c) ==
  /\ at[c] = "wait"
  /\ at' = Goto(c, "cancel")
  /\ UNCHANGED <<config, poolVars, cleanVars, held, failure, attempts, want, dialing, history>>

(* A connection delivered at the last moment is passed on. *)
Cancel(c) ==
  /\ at[c] = "cancel"
  /\ IF want[c] \in Connections
     THEN held' = [held EXCEPT ![c] = want[c]] /\ at' = Goto(c, "give")
     ELSE at' = Goto(c, "failed") /\ UNCHANGED held
  /\ want' = [want EXCEPT ![c] = "none"]
  /\ UNCHANGED <<config, poolVars, cleanVars, failure, attempts, dialing, history>>

(* Connections that are closed are taken for new ones again. *)
Unused == Connections \ (Range(conns) \cup scratch
                            \cup UNION {{held[c], want[c], dialing[c]} : c \in Calls})
New == CHOOSE n \in Unused : TRUE

Dial(c) ==
  /\ at[c] = "dial"
  /\ \/ /\ Unused # {}
        /\ held' = [held EXCEPT ![c] = New] /\ at' = Goto(c, "write")
        /\ UNCHANGED failure
     \/ /\ failure' = [failure EXCEPT ![c] = "final"] /\ at' = Goto(c, "count")
        /\ UNCHANGED held
  /\ UNCHANGED <<config, poolVars, cleanVars, attempts, want, dialing, history>>

-----------------------------------------------------------------------------
(* dialConnFor                                                             *)

DialFor(w) ==
  /\ dialing[w] = "dial"
  /\ \/ /\ Unused # {}
        /\ IF Waiting(w)
           THEN want' = [want EXCEPT ![w] = New] /\ dialing' = [dialing EXCEPT ![w] = "none"]
           ELSE dialing' = [dialing EXCEPT ![w] = New] /\ UNCHANGED want
     \/ /\ want' = IF Waiting(w) THEN [want EXCEPT ![w] = "error"] ELSE want
        /\ dialing' = [dialing EXCEPT ![w] = "count"]
  /\ UNCHANGED <<config, poolVars, cleanVars, callVars, history>>

DialForReleases(w) ==
  /\ dialing[w] \in Connections
  /\ ReleaseConn(dialing[w], at)
  /\ dialing' = [dialing EXCEPT ![w] = "none"]
  /\ UNCHANGED <<config, cleanVars, held, failure, attempts, late, uncleaned>>

DialForUncounts(w) ==
  /\ dialing[w] = "count"
  /\ \/ /\ SomeoneWaits
        /\ dialing' = [dialing EXCEPT ![w] = "none", ![connsWait[FirstWaiting]] = "dial"]
        /\ connsWait' = Behind(FirstWaiting)
        /\ uncleaned' = (uncleaned \/ cleaner = "off")
        /\ UNCHANGED connsCount
     \/ /\ ~SomeoneWaits
        /\ dialing' = [dialing EXCEPT ![w] = "none"]
        /\ connsCount' = connsCount - 1 /\ connsWait' = <<>>
        /\ UNCHANGED uncleaned
  /\ UNCHANGED <<config, conns, cleanVars, callVars, want, late, lost>>

-----------------------------------------------------------------------------
(* Do                                                                      *)

Write(c) ==
  /\ at[c] = "write"
  /\ \/ at' = Goto(c, "read") /\ UNCHANGED failure
     \/ at' = Goto(c, "count") /\ failure' = [failure EXCEPT ![c] = "broken"]
  /\ UNCHANGED <<config, poolVars, cleanVars, held, attempts, want, dialing, history>>

(* The response, or its absence: the server has closed the connection      *)
(* before the first byte (eof), the body is too large, another error.      *)
Read(c) ==
  /\ at[c] = "read"
  /\ \/ c \notin Closing /\ at' = Goto(c, "release") /\ UNCHANGED failure
     \/ at' = Goto(c, "count") /\ UNCHANGED failure
     \/ /\ at' = Goto(c, "count")
        /\ \E f \in {"eof", "broken", "final"} : failure' = [failure EXCEPT ![c] = f]
  /\ UNCHANGED <<config, poolVars, cleanVars, held, attempts, want, dialing, history>>

Release(c) ==
  /\ at[c] \in {"release", "give"}
  /\ ReleaseConn(held[c], Goto(c, IF at[c] = "give" THEN "failed" ELSE "done"))
  /\ held' = [held EXCEPT ![c] = None]
  /\ UNCHANGED <<config, cleanVars, failure, attempts, dialing, late, uncleaned>>

(* closeConn: the place is free before the connection is closed. *)
Uncount(c) ==
  /\ at[c] = "count"
  /\ DecConnsCount
  /\ at' = Goto(c, "close")
  /\ UNCHANGED <<config, cleanVars, held, failure, attempts, want, late, lost>>

Retried(c) ==
  /\ failure[c] \in {"broken", "eof"}
  /\ c \in Idempotent \/ failure[c] = "eof"
  /\ attempts[c] + 1 < MaxAttempts

Close(c) ==
  /\ at[c] = "close"
  /\ held' = [held EXCEPT ![c] = None]
  /\ IF Retried(c)
     THEN /\ at' = Goto(c, "acquire")
          /\ attempts' = [attempts EXCEPT ![c] = @ + 1]
     ELSE /\ at' = Goto(c, IF failure[c] = "none" THEN "done" ELSE "failed")
          /\ attempts' = [attempts EXCEPT ![c] = 0]
  /\ failure' = [failure EXCEPT ![c] = "none"]
  /\ UNCHANGED <<config, poolVars, cleanVars, want, dialing, history>>

-----------------------------------------------------------------------------
(* connsCleaner, CloseIdleConnections                                      *)

Scan ==
  /\ cleaner = "scan"
  /\ \E i \in 0 .. Len(conns) :
       /\ scratch' = scratch \cup Range(SubSeq(conns, 1, i))
       /\ conns' = SubSeq(conns, i + 1, Len(conns))
  /\ cleaner' = "close"
  /\ UNCHANGED <<config, connsCount, connsWait, callVars, want, dialing, history>>

CloseIdleConnections ==
  /\ conns # <<>>
  /\ scratch' = scratch \cup Range(conns) /\ conns' = <<>>
  /\ UNCHANGED <<config, connsCount, connsWait, cleaner, callVars, want, dialing, history>>

(* As by closeConn; nobody else has the connection. *)
CloseScratch(n) ==
  /\ n \in scratch
  /\ DecConnsCount
  /\ scratch' = scratch \ {n}
  /\ UNCHANGED <<config, cleaner, callVars, want, late, lost>>

CleanerStops ==
  /\ cleaner = "close"
  /\ cleaner' = IF connsCount = 0 THEN "off" ELSE "scan"
  /\ UNCHANGED <<config, poolVars, scratch, callVars, want, dialing, history>>

-----------------------------------------------------------------------------
CallStep(c) ==
  \/ TakeIdle(c) \/ Create(c) \/ NoFreeConns(c) \/ QueueForIdle(c)
  \/ Delivered(c) \/ DialFailed(c) \/ WaitEnds(c) \/ Cancel(c) \/ Dial(c)
  \/ Write(c) \/ Read(c) \/ Release(c) \/ Uncount(c) \/ Close(c)

Next ==
  \/ \E c \in Calls : CallStep(c) \/ DialFor(c) \/ DialForReleases(c) \/ DialForUncounts(c)
  \/ Scan \/ CloseIdleConnections \/ CleanerStops
  \/ \E n \in Connections : CloseScratch(n)

Spec == Init /\ [][Next]_vars

-----------------------------------------------------------------------------
(* Every open connection has one owner, and the count is that of the       *)
(* connections that are owned or being dialled, so that it never exceeds   *)
(* MaxConns and never stays up for a connection nobody has (client.go,     *)
(* acquireConn, decConnsCount, releaseConn, cancel).                       *)
Pooled == Range(conns) \cup scratch
Delivering == {c \in Calls : want[c] \in Connections}
Dialling == {c \in Calls : dialing[c] # "none"}
Using == {c \in Calls : at[c] \in {"dial", "give", "write", "read", "release", "count"}}
CountIsExact ==
  connsCount = Cardinality(Pooled) + Cardinality(Delivering) + Cardinality(Dialling)
                 + Cardinality(Using)
PoolIsOwn ==
  /\ IsInjective(conns) /\ Range(conns) \cap scratch = {}
  /\ \A c, d \in Calls : c # d /\ held[c] # None => held[c] # held[d]
  /\ \A c \in Calls, n \in Pooled : n \notin {held[c], want[c], dialing[c]}
ConnsAreCounted == CountIsExact /\ connsCount <= MaxConns /\ PoolIsOwn

(* While a call waits no connection is idle and no place is free, but for  *)
(* the two races: the connection was released after the call had found     *)
(* none and before it was queued (late), or while the call before it in    *)
(* the queue gave up (lost) (client.go, acquireConn, releaseConn).         *)
FreeConnsReachWaiters ==
  ~lost => \A c \in Range(connsWait) \ late :
             Waiting(c) => conns = <<>> /\ connsCount = MaxConns

(* Idle connections are closed in time: there is a cleaner while the pool  *)
(* holds any, unless the connection was dialled for a waiting call while   *)
(* only calls with Connection: close had connections (client.go,           *)
(* acquireConn, connsCleaner, decConnsCount).                              *)
IdleIsCleaned == conns # <<>> /\ ~uncleaned => cleaner # "off"

-----------------------------------------------------------------------------
(* Why they hold.  A connection is in one place.                           *)
Places == {"acquire", "queue", "wait", "cancel", "give", "dial", "write", "read", "release",
           "count", "close", "done", "failed"}
TypeOK ==
  /\ connsCount \in Int /\ conns \in Seq(Connections) /\ connsWait \in Seq(Calls)
  /\ cleaner \in {"off", "scan", "close"} /\ scratch \subseteq Connections
  /\ at \in [Calls -> Places] /\ held \in [Calls -> Connections \cup {None}]
  /\ want \in [Calls -> Connections \cup {"none", "waiting", "error"}]
  /\ dialing \in [Calls -> Connections \cup {"none", "dial", "count"}]

OwnersDiffer ==
  /\ \A c \in Calls : at[c] \in {"give", "write", "read", "release"} => held[c] \in Connections
  /\ \A c, d \in Calls :
       /\ c # d /\ want[c] \in Connections => want[c] # want[d]
       /\ c # d /\ dialing[c] \in Connections => dialing[c] # dialing[d]
       /\ held[c] \in Connections => held[c] # want[d] /\ held[c] # dialing[d]
       /\ want[c] \in Connections => want[c] # dialing[d]

(* A call is in the queue once, while it waits or after it has given up,   *)
(* and a goroutine dials for it only when it has left the queue.           *)
QueueIsOrdered ==
  /\ IsInjective(connsWait)
  /\ \A c \in Calls : want[c] # "none" <=> at[c] \in {"wait", "cancel"}
  /\ \A c \in Range(connsWait) :
       /\ dialing[c] = "none"
       /\ (at[c] \in {"wait", "cancel"} /\ Waiting(c)) \/ at[c] = "failed"
  /\ \A c \in Calls : dialing[c] # "none" => want[c] \in {"waiting", "error"} \/ at[c] = "failed"

(* Without a cleaner, only calls that close their connection have one.     *)
OnlyClosing ==
  cleaner = "off" /\ ~uncleaned =>
    /\ conns = <<>> /\ scratch = {} /\ Delivering = {} /\ Dialling = {}
    /\ \A c \in Using : c \in Closing /\ at[c] \notin {"give", "release"}

Inv ==
  /\ TypeOK /\ OwnersDiffer /\ QueueIsOrdered
  /\ ConnsAreCounted /\ OnlyClosing /\ FreeConnsReachWaiters
=============================================================================
