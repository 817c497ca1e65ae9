----------------------------- MODULE Accounting -----------------------------
(***************************************************************************)
(* Traffic accounting: the copy loop of a proxied connection              *)
(* (src/pkg/transfer.go) and the accountant goroutine that collects what   *)
(* the loops report (src/pkg/accountant/redis.go).                         *)
(*                                                                         *)
(* A tunnel runs two Transfer calls (client to node, node to client); each *)
(* counts the bytes it reads, hands the count to Decrement when it passes  *)
(* AccountBytes and once more when it ends.  Decrement puts the count on   *)
(* the bounded channel dataCh.  One goroutine folds the channel into a     *)
(* map, and on a ticker starts a goroutine that publishes the map.  A      *)
(* termination signal stops that goroutine, which closes the channel: a    *)
(* Decrement on a closed channel panics.                                   *)
(*                                                                         *)
(* The code adds up int64 counts.  Here every byte has an identity and a   *)
(* count is the set of bytes it stands for, so that "counted twice" and    *)
(* "not counted" are states TLC can see; a sum is a disjoint union.        *)
(***************************************************************************)
EXTENDS Integers, Sequences, FiniteSets

CONSTANTS
  Transfers,     \* Transfer calls, two per tunnel
  Accounts,      \* the (user id, node id) pairs of cache[nodeId].Users[userId]
  Account,       \* Account[t]: the pair transfer t was called with
  Length,        \* Length[t]: bytes the source of t has to offer (bound)
  BufferSize,    \* Transfer.buffer
  AccountBytes,  \* Redis.accountBytes
  ChSize         \* capacity of dataCh

ASSUME ConstantsAssumption ==
  /\ Account \in [Transfers -> Accounts]
  /\ Length \in [Transfers -> Nat]
  /\ BufferSize \in Nat \ {0}
  /\ AccountBytes \in Nat \ {0}
  /\ ChSize \in Nat \ {0}

Byte == UNION {{t} \X (1 .. Length[t]) : t \in Transfers}

(* A value sent on dataCh: usage{userId, nodeId, data}. *)
Usage == [account : Accounts, data : SUBSET Byte]

(* cache map[string]result: only the accounts with an entry are in its     *)
(* domain.                                                                 *)
Tally(D) == [D -> SUBSET Byte]
EmptyTally == [a \in {} |-> {}]

VARIABLES
  pc,          \* where each Transfer call is
  read,        \* Transfer's named result read
  accounted,   \* Transfer's local accounted
  sourceDone,  \* er # nil was returned by the read being processed
  dataCh,      \* the buffered channel
  chClosed,    \* close(dataCh) has run
  cache,       \* the accountant goroutine's map
  publishing,  \* maps handed to publish goroutines that have not finished
  billed,      \* usage delivered to the Redis channel, per account
  lost,        \* bytes that will never be delivered (history variable)
  stopping,    \* signalCtx is done
  process      \* "up", "exited" (main returned) or "panicked"

transferVars == <<pc, read, accounted, sourceDone>>
accountantVars == <<dataCh, chClosed, cache, publishing, billed>>
vars == <<pc, read, accounted, sourceDone, dataCh, chClosed, cache,
          publishing, billed, lost, stopping, process>>

TallyBytes(m) == UNION {m[a] : a \in DOMAIN m}
QueueBytes(q) == UNION {q[i].data : i \in 1 .. Len(q)}

ChannelBytes == QueueBytes(dataCh)
CacheBytes == TallyBytes(cache)
PublishingBytes == UNION {TallyBytes(m) : m \in publishing}
BilledBytes == UNION {billed[a] : a \in Accounts}
OpenBytes == UNION {accounted[t] : t \in Transfers}

(* The bytes t has read so far. *)
ReadBytes(t) == {t} \X (1 .. read[t])

Init ==
  /\ pc = [t \in Transfers |-> "loop"]
  /\ read = [t \in Transfers |-> 0]
  /\ accounted = [t \in Transfers |-> {}]
  /\ sourceDone = [t \in Transfers |-> FALSE]
  /\ dataCh = << >>
  /\ chClosed = FALSE
  /\ cache = EmptyTally
  /\ publishing = {}
  /\ billed = [a \in Accounts |-> {}]
  /\ lost = {}
  /\ stopping = FALSE
  /\ process = "up"

Goto(t, l) == pc' = [pc EXCEPT ![t] = l]

(* Mutant of Break: the remainder is not reported after the loop. *)
BreakSkipsFlush(t) == Goto(t, "returned")

(* After the loop: the remainder is reported, if there is any. *)
Break(t) == Goto(t, IF accounted[t] # {} THEN "flush" ELSE "returned")

-----------------------------------------------------------------------------
(* Transfer *)

(* Mutant of Loop: > where the code has >=. *)
LoopOffByOne(t) ==
  /\ process = "up"
  /\ pc[t] = "loop"
  /\ Goto(t, IF Cardinality(accounted[t]) > AccountBytes THEN "report" ELSE "read")
  /\ UNCHANGED <<read, accounted, sourceDone, accountantVars, lost, stopping, process>>

(* The head of the loop: SetReadDeadline, then report if enough has been   *)
(* copied.                                                                 *)
Loop(t) ==
  /\ process = "up"
  /\ pc[t] = "loop"
  /\ Goto(t, IF Cardinality(accounted[t]) >= AccountBytes THEN "report" ELSE "read")
  /\ UNCHANGED <<read, accounted, sourceDone, accountantVars, lost, stopping, process>>

(* SetReadDeadline fails because the connection is gone: break. *)
DeadlineFails(t) ==
  /\ process = "up"
  /\ pc[t] = "loop"
  /\ Break(t)
  /\ UNCHANGED <<read, accounted, sourceDone, accountantVars, lost, stopping, process>>

(* Mutant of ReadData: accounted = nr where the code has +=. *)
ReadDataOverwrites(t) ==
  /\ process = "up"
  /\ pc[t] = "read"
  /\ \E n \in 1 .. BufferSize, done \in BOOLEAN :
       /\ read[t] + n <= Length[t]
       /\ read' = [read EXCEPT ![t] = @ + n]
       /\ accounted' = [accounted EXCEPT ![t] = {t} \X (read[t] + 1 .. read[t] + n)]
       /\ sourceDone' = [sourceDone EXCEPT ![t] = done]
  /\ Goto(t, "write")
  /\ UNCHANGED <<accountantVars, lost, stopping, process>>

(* src.Read returns n > 0 bytes, with or without an error beside them. *)
ReadData(t) ==
  /\ process = "up"
  /\ pc[t] = "read"
  /\ \E n \in 1 .. BufferSize, done \in BOOLEAN :
       /\ read[t] + n <= Length[t]
       /\ read' = [read EXCEPT ![t] = @ + n]
       /\ accounted' = [accounted EXCEPT ![t] =
                          @ \cup ({t} \X (read[t] + 1 .. read[t] + n))]
       /\ sourceDone' = [sourceDone EXCEPT ![t] = done]
  /\ Goto(t, "write")
  /\ UNCHANGED <<accountantVars, lost, stopping, process>>

(* src.Read returns io.EOF, a reset or the deadline, and no data: break. *)
ReadEnds(t) ==
  /\ process = "up"
  /\ pc[t] = "read"
  /\ Break(t)
  /\ UNCHANGED <<read, accounted, sourceDone, accountantVars, lost, stopping, process>>

(* dst.Write takes everything; the loop goes on unless Read also failed. *)
WriteAll(t) ==
  /\ process = "up"
  /\ pc[t] = "write"
  /\ IF sourceDone[t] THEN Break(t) ELSE Goto(t, "loop")
  /\ UNCHANGED <<read, accounted, sourceDone, accountantVars, lost, stopping, process>>

(* dst.Write fails or is short: break.  What was read stays accounted. *)
WriteFails(t) ==
  /\ process = "up"
  /\ pc[t] = "write"
  /\ Break(t)
  /\ UNCHANGED <<read, accounted, sourceDone, accountantVars, lost, stopping, process>>

(* Mutant of Decrement: the send does not wait: select with a default. *)
DecrementGivesUp(t) ==
  /\ process = "up"
  /\ pc[t] \in {"report", "flush"}
  /\ ~chClosed
  /\ IF Len(dataCh) < ChSize
     THEN /\ dataCh' = Append(dataCh, [account |-> Account[t], data |-> accounted[t]])
          /\ lost' = lost
     ELSE /\ dataCh' = dataCh
          /\ lost' = lost \cup accounted[t]
  /\ accounted' = [accounted EXCEPT ![t] = {}]
  /\ Goto(t, IF pc[t] = "report" THEN "read" ELSE "returned")
  /\ UNCHANGED <<read, sourceDone, chClosed, cache, publishing, billed, stopping, process>>

(* Decrement: the send on dataCh, which blocks while the channel is full.  *)
(* The report inside the loop resets accounted and reads on, the one after *)
(* the loop returns.                                                       *)
Decrement(t) ==
  /\ process = "up"
  /\ pc[t] \in {"report", "flush"}
  /\ ~chClosed
  /\ Len(dataCh) < ChSize
  /\ dataCh' = Append(dataCh, [account |-> Account[t], data |-> accounted[t]])
  /\ accounted' = [accounted EXCEPT ![t] = {}]
  /\ Goto(t, IF pc[t] = "report" THEN "read" ELSE "returned")
  /\ UNCHANGED <<read, sourceDone, chClosed, cache, publishing, billed,
                 lost, stopping, process>>

-----------------------------------------------------------------------------
(* The accountant goroutine and the publish goroutines it starts *)

(* Mutant of AddUsage: an entry that exists is used for everybody. *)
AddUsageToAnyEntry(m, r) ==
  LET key == IF DOMAIN m = {} THEN r.account ELSE CHOOSE a \in DOMAIN m : TRUE
      old == IF key \in DOMAIN m THEN m[key] ELSE {}
  IN  [a \in DOMAIN m \cup {key} |-> IF a = key THEN old \cup r.data ELSE m[a]]

(* rr.Users[r.userId] += r.data, with a new entry if there is none. *)
AddUsage(m, r) ==
  LET old == IF r.account \in DOMAIN m THEN m[r.account] ELSE {}
  IN  [a \in DOMAIN m \cup {r.account} |->
         IF a = r.account THEN old \cup r.data ELSE m[a]]

(* case r := <-dataCh *)
Receive ==
  /\ process = "up"
  /\ ~chClosed
  /\ dataCh # << >>
  /\ cache' = AddUsage(cache, Head(dataCh))
  /\ dataCh' = Tail(dataCh)
  /\ UNCHANGED <<transferVars, chClosed, publishing, billed, lost, stopping, process>>

(* Mutant of Flush: the map is published and kept. *)
FlushKeepsCache ==
  /\ process = "up"
  /\ ~chClosed
  /\ DOMAIN cache # {}
  /\ publishing' = publishing \cup {cache}
  /\ UNCHANGED <<transferVars, dataCh, chClosed, cache, billed, lost, stopping, process>>

(* case <-ticker.C with a non-empty map: hand it to a publish goroutine. *)
Flush ==
  /\ process = "up"
  /\ ~chClosed
  /\ DOMAIN cache # {}
  /\ publishing' = publishing \cup {cache}
  /\ cache' = EmptyTally
  /\ UNCHANGED <<transferVars, dataCh, chClosed, billed, lost, stopping, process>>

(* rdb.Publish succeeds. *)
Publish(m) ==
  /\ process = "up"
  /\ m \in publishing
  /\ publishing' = publishing \ {m}
  /\ billed' = [a \in Accounts |->
                  IF a \in DOMAIN m THEN billed[a] \cup m[a] ELSE billed[a]]
  /\ UNCHANGED <<transferVars, dataCh, chClosed, cache, lost, stopping, process>>

(* rdb.Publish fails or takes more than redisPublishTimeout: only logged. *)
PublishFails(m) ==
  /\ process = "up"
  /\ m \in publishing
  /\ publishing' = publishing \ {m}
  /\ lost' = lost \cup TallyBytes(m)
  /\ UNCHANGED <<transferVars, dataCh, chClosed, cache, billed, stopping, process>>

-----------------------------------------------------------------------------
(* Shutdown *)

(* The signal: signal.NotifyContext cancels signalCtx. *)
Signal ==
  /\ process = "up"
  /\ ~stopping
  /\ stopping' = TRUE
  /\ UNCHANGED <<transferVars, accountantVars, lost, process>>

(* case <-signalCtx.Done(): return, then the deferred close(dataCh).  The  *)
(* map and whatever is still in the channel are gone.                      *)
AccountantStops ==
  /\ process = "up"
  /\ stopping
  /\ ~chClosed
  /\ chClosed' = TRUE
  /\ lost' = lost \cup ChannelBytes \cup CacheBytes
  /\ dataCh' = << >>
  /\ cache' = EmptyTally
  /\ UNCHANGED <<transferVars, publishing, billed, stopping, process>>

(* The end of the process, whichever way: everything in memory is gone. *)
Die(how) ==
  /\ process' = how
  /\ lost' = lost \cup OpenBytes \cup ChannelBytes \cup CacheBytes \cup PublishingBytes
  /\ accounted' = [t \in Transfers |-> {}]
  /\ dataCh' = << >>
  /\ cache' = EmptyTally
  /\ publishing' = {}
  /\ UNCHANGED <<pc, read, sourceDone, chClosed, billed, stopping>>

(* send on closed channel: the panic of one goroutine ends the process. *)
DecrementPanics(t) ==
  /\ process = "up"
  /\ pc[t] \in {"report", "flush"}
  /\ chClosed
  /\ Die("panicked")

(* main returns after <-ctx.Done(). *)
MainReturns ==
  /\ process = "up"
  /\ stopping
  /\ Die("exited")

-----------------------------------------------------------------------------
TransferStep(t) ==
  \/ Loop(t) \/ DeadlineFails(t)
  \/ ReadData(t) \/ ReadEnds(t)
  \/ WriteAll(t) \/ WriteFails(t)
  \/ Decrement(t) \/ DecrementPanics(t)

PublishStep == \E m \in publishing : Publish(m) \/ PublishFails(m)

(* Nothing left to do: the process is gone, or it is idle until a signal.  *)
Done ==
  /\ process # "up"
  /\ UNCHANGED vars

Next ==
  \/ \E t \in Transfers : TransferStep(t)
  \/ Receive \/ Flush \/ PublishStep
  \/ Signal \/ AccountantStops \/ MainReturns
  \/ Done

(* Go runs every goroutine that can run, and wakes the senders of a full   *)
(* channel in the order they queued: a Decrement that could proceed again  *)
(* and again does.  The read deadline ends every Read, and redis publishes *)
(* are bounded by redisPublishTimeout.  Nothing makes the signal arrive.   *)
(* The ticker and main's return are as inevitable as any goroutine.        *)
Fairness ==
  /\ \A t \in Transfers : WF_vars(TransferStep(t))
  /\ \A t \in Transfers : SF_vars(Decrement(t))
  /\ WF_vars(Receive)
  /\ WF_vars(Flush)
  /\ WF_vars(PublishStep)
  /\ WF_vars(AccountantStops)
  /\ WF_vars(MainReturns)

Spec == Init /\ [][Next]_vars

FairSpec == Spec /\ Fairness

-----------------------------------------------------------------------------
(* Properties *)

Places == {"loop", "report", "read", "write", "flush", "returned"}

(* Every variable has the shape the code gives it, and the channel never   *)
(* holds more than its capacity.                                           *)
TypeOK ==
  /\ pc \in [Transfers -> Places]
  /\ read \in [Transfers -> Nat]
  /\ \A t \in Transfers : read[t] <= Length[t]
  /\ accounted \in [Transfers -> SUBSET Byte]
  /\ sourceDone \in [Transfers -> BOOLEAN]
  /\ dataCh \in Seq(Usage)
  /\ Len(dataCh) <= ChSize
  /\ chClosed \in BOOLEAN
  /\ \E D \in SUBSET Accounts : cache \in Tally(D)
  /\ \A m \in publishing : \E D \in SUBSET Accounts : m \in Tally(D)
  /\ billed \in [Accounts -> SUBSET Byte]
  /\ lost \subseteq Byte
  /\ stopping \in BOOLEAN
  /\ process \in {"up", "exited", "panicked"}

PlacesDisjoint ==
  /\ OpenBytes \cap (ChannelBytes \cup CacheBytes \cup PublishingBytes
                        \cup BilledBytes \cup lost) = {}
  /\ ChannelBytes \cap (CacheBytes \cup PublishingBytes \cup BilledBytes \cup lost) = {}
  /\ CacheBytes \cap (PublishingBytes \cup BilledBytes \cup lost) = {}
  /\ PublishingBytes \cap (BilledBytes \cup lost) = {}
  /\ BilledBytes \cap lost = {}

QueueDisjoint ==
  \A i, j \in 1 .. Len(dataCh) :
    i # j => dataCh[i].data \cap dataCh[j].data = {}

BatchesDisjoint ==
  \A m, n \in publishing : m # n => TallyBytes(m) \cap TallyBytes(n) = {}

(* No byte is counted twice: the local counters of the copy loops, the     *)
(* channel, the accountant's map, the batches being published, the usage   *)
(* delivered and the lost bytes never overlap, and neither do two usages   *)
(* of the channel or two batches.                                          *)
NoDoubleCount == PlacesDisjoint /\ QueueDisjoint /\ BatchesDisjoint

(* No byte is forgotten: what the transfers have read is exactly what is   *)
(* in one of those places.                                                 *)
NothingForgotten ==
  UNION {ReadBytes(t) : t \in Transfers} =
    OpenBytes \cup ChannelBytes \cup CacheBytes \cup PublishingBytes
      \cup BilledBytes \cup lost

(* A transfer that has returned has handed over everything it read, on     *)
(* each of its four ways out of the loop (deadline, read error, write      *)
(* error, short write).                                                    *)
ReturnedHasReported ==
  \A t \in Transfers : pc[t] = "returned" => accounted[t] = {}

(* What was read is somewhere, and it is not in a Transfer that is over    *)
(* (transfer.go; accountant/redis.go).                                     *)
BytesAreKept == NothingForgotten /\ ReturnedHasReported

(* Usage is delivered under the user and node of the connection it was     *)
(* read from, never under those of another connection sharing the channel. *)
BilledToItsOwner ==
  \A a \in Accounts : \A b \in billed[a] : Account[b[1]] = a

(* What a live transfer holds back is bounded: it never reads on with      *)
(* AccountBytes or more unreported, so at most one buffer comes on top.    *)
BoundedExposure ==
  \A t \in Transfers : Cardinality(accounted[t]) < AccountBytes + BufferSize

(* The places of this module seen as the four of the ledger. *)
Abstract == INSTANCE Ledger WITH
  open <- OpenBytes,
  reported <- ChannelBytes \cup CacheBytes \cup PublishingBytes,
  billed <- BilledBytes,
  lost <- lost,
  down <- stopping

(* Accounting implements the ledger: each step meters, reports, bills,     *)
(* drops a batch, or discards memory while the process goes down.          *)
ImplementsLedger == Abstract!Spec

(* Every Transfer call returns unless the process ends: a full channel     *)
(* delays it but the accountant drains it.                                 *)
TransfersReturn ==
  \A t \in Transfers : <>(pc[t] = "returned" \/ process # "up")

(* Every byte metered is eventually delivered or known to be lost: no      *)
(* counter, channel slot or map entry keeps it for good.                   *)
EverythingSettles ==
  \A b \in Byte : (b \in OpenBytes) ~> (b \in BilledBytes \cup lost)

(* Nothing that a connection starts goes on for ever: neither its Transfer *)
(* call nor the way of a byte to the bill (transfer.go; accountant/redis.go). *)
TransfersEnd == TransfersReturn /\ EverythingSettles
=============================================================================
