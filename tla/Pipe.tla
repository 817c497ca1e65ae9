-------------------------------- MODULE Pipe --------------------------------
(***************************************************************************)
(* One direction of an in-memory connection                                *)
(* (fasthttp/fasthttputil/pipeconns.go): a goroutine that writes at one    *)
(* end, one that reads at the other, deadlines, and Close by either.  The  *)
(* buffers come from a pool all connections share, in which a buffer that  *)
(* is put twice would be there twice.                                      *)
(***************************************************************************)
EXTENDS Naturals, Sequences

CONSTANTS
  Buffers, None,
  Capacity,    \* of a channel
  Units,       \* what a Write has: a Read may take less
  MaxWrites    \* bound

VARIABLES
  pool,      \* how often each buffer is in byteBufferPool
  content,   \* of a buffer: the number of the Write it holds
  ch,        \* the channel
  stopCh,    \* whether it is closed
  writer, holding,           \* where a Write is, and its buffer
  reader, current, rest,     \* where a Read is, c.b, and how much is left in c.bb
  begun,     \* history: how many Writes have begun
  written,   \* history: the Writes that were sent
  got,       \* history: what was read
  atClose    \* history: what had been sent when stopCh was closed

writeVars == <<writer, holding, begun, written>>
readVars == <<reader, current, rest, got>>
vars == <<pool, content, ch, stopCh, writeVars, readVars, atClose>>

Init ==
  /\ pool = [b \in Buffers |-> 1] /\ content = [b \in Buffers |-> 0]
  /\ ch = <<>> /\ stopCh = FALSE /\ writer = "idle" /\ holding = None
  /\ reader = "idle" /\ current = None /\ rest = 0
  /\ begun = 0 /\ written = <<>> /\ got = <<>> /\ atClose = 0

Put(b) == pool' = IF b = None THEN pool ELSE [pool EXCEPT ![b] = @ + 1]

-----------------------------------------------------------------------------
(* Write *)

BeginWrite ==
  /\ writer = "idle" /\ begun < MaxWrites /\ begun' = begun + 1
  /\ \E b \in Buffers :
       /\ pool[b] > 0 /\ pool' = [pool EXCEPT ![b] = @ - 1]
       /\ content' = [content EXCEPT ![b] = begun'] /\ holding' = b
  /\ writer' = "check"
  /\ UNCHANGED <<ch, stopCh, written, readVars, atClose>>

Refuse ==
  /\ stopCh /\ (writer = "check" \/ (writer = "send" /\ Len(ch) = Capacity))
  /\ Put(holding) /\ holding' = None /\ writer' = "idle"
  /\ UNCHANGED <<content, ch, stopCh, begun, written, readVars, atClose>>

Check ==
  /\ writer = "check" /\ ~stopCh /\ writer' = "send"
  /\ UNCHANGED <<pool, content, ch, stopCh, holding, begun, written, readVars, atClose>>

Send ==
  /\ writer = "send" /\ Len(ch) < Capacity /\ ch' = Append(ch, holding)
  /\ written' = Append(written, content[holding])
  /\ holding' = None /\ writer' = "idle"
  /\ UNCHANGED <<pool, content, stopCh, begun, readVars, atClose>>

(* The buffer is left to the garbage collector. *)
WriteTimesOut ==
  /\ writer = "send" /\ Len(ch) = Capacity /\ holding' = None /\ writer' = "idle"
  /\ UNCHANGED <<pool, content, ch, stopCh, begun, written, readVars, atClose>>

-----------------------------------------------------------------------------
(* Read: what is left of c.bb, else the next buffer.                       *)

Copy ==
  /\ reader = "idle" /\ rest > 0
  /\ \E n \in 1 .. rest :
       /\ got' = got \o [i \in 1 .. n |-> content[current]] /\ rest' = rest - n
  /\ UNCHANGED <<pool, content, ch, stopCh, writeVars, reader, current, atClose>>

(* Mutant of ReadNext: c.b is still set when the next read puts it back. *)
ReadNextTwice ==
  /\ reader = "idle" /\ rest = 0 /\ Put(current) /\ reader' = "take"
  /\ UNCHANGED <<content, ch, stopCh, writeVars, current, rest, got, atClose>>

ReadNext ==
  /\ reader = "idle" /\ rest = 0 /\ Put(current) /\ current' = None /\ reader' = "take"
  /\ UNCHANGED <<content, ch, stopCh, writeVars, rest, got, atClose>>

Take ==
  /\ reader \in {"take", "wait", "timeout", "stop"} /\ ch # <<>>
  /\ current' = Head(ch) /\ ch' = Tail(ch) /\ rest' = Units /\ reader' = "idle"
  /\ UNCHANGED <<pool, content, stopCh, writeVars, got, atClose>>

WouldBlock ==
  /\ reader = "take" /\ ch = <<>> /\ reader' = "idle"
  /\ UNCHANGED <<pool, content, ch, stopCh, writeVars, current, rest, got, atClose>>

MayBlock ==
  /\ reader = "take" /\ ch = <<>> /\ reader' = "wait"
  /\ UNCHANGED <<pool, content, ch, stopCh, writeVars, current, rest, got, atClose>>

(* Of what is ready any may be chosen: the deadline or the end, too. *)
SeeDeadline ==
  /\ reader = "wait" /\ reader' = "timeout"
  /\ UNCHANGED <<pool, content, ch, stopCh, writeVars, current, rest, got, atClose>>
TimeOut ==
  /\ reader = "timeout" /\ ch = <<>> /\ reader' = "idle"
  /\ UNCHANGED <<pool, content, ch, stopCh, writeVars, current, rest, got, atClose>>

SeeStop ==
  /\ reader = "wait" /\ stopCh /\ reader' = "stop"
  /\ UNCHANGED <<pool, content, ch, stopCh, writeVars, current, rest, got, atClose>>
EndOfFile ==
  /\ reader = "stop" /\ ch = <<>> /\ reader' = "eof"
  /\ UNCHANGED <<pool, content, ch, stopCh, writeVars, current, rest, got, atClose>>

Close ==
  /\ ~stopCh /\ stopCh' = TRUE /\ atClose' = Len(written)
  /\ UNCHANGED <<pool, content, ch, writeVars, readVars>>

Next ==
  \/ BeginWrite \/ Refuse \/ Check \/ Send \/ WriteTimesOut
  \/ Copy \/ ReadNext \/ Take \/ WouldBlock \/ MayBlock \/ SeeDeadline \/ TimeOut
  \/ SeeStop \/ EndOfFile \/ Close

Spec == Init /\ [][Next]_vars

(* The units of what was sent that are the k-th Write's. *)
UnitsOf(k) == Units * (k - 1) + 1 .. Units * k

(* What is read is what was sent, in order and from buffers nobody else    *)
(* has; all that was sent before Close is read before the end              *)
(* (pipeconns.go:156-195: c.b is put back before the next is taken).  What *)
(* a Write that had passed its check sends after Close may be lost.        *)
PipesKeepOrder ==
  /\ Len(got) <= Units * Len(written)
  /\ \A k \in DOMAIN written : \A i \in UnitsOf(k) \cap DOMAIN got : got[i] = written[k]
  /\ reader = "eof" => Len(got) >= Units * atClose
  /\ \A b \in Buffers : pool[b] <= 1

-----------------------------------------------------------------------------
(* Why it holds.                                                           *)

TypeOK ==
  /\ pool \in [Buffers -> Nat] /\ content \in [Buffers -> Nat]
  /\ ch \in Seq(Buffers) /\ stopCh \in BOOLEAN
  /\ writer \in {"idle", "check", "send"} /\ holding \in Buffers \cup {None}
  /\ reader \in {"idle", "take", "wait", "timeout", "stop", "eof"}
  /\ current \in Buffers \cup {None} /\ rest \in 0 .. Units
  /\ begun \in Nat /\ written \in Seq(Nat) /\ got \in Seq(Nat) /\ atClose \in Nat

(* A Write has a buffer until it ends, a Read one while it reads from it.  *)
Places ==
  /\ (writer = "idle") <=> (holding = None)
  /\ rest > 0 => current # None
  /\ reader # "idle" => rest = 0 /\ current = None

(* A buffer is at one place: with the Write, with the Read, in the channel *)
(* once, or in the pool once; or nowhere, left to the collector.           *)
BuffersAreOwn ==
  /\ \A b \in Buffers : pool[b] <= 1
  /\ \A b \in Buffers :
       pool[b] = 1 => b # holding /\ b # current /\ \A i \in DOMAIN ch : ch[i] # b
  /\ \A i, j \in DOMAIN ch : ch[i] = ch[j] => i = j
  /\ \A i \in DOMAIN ch : ch[i] # holding /\ ch[i] # current
  /\ holding = None \/ holding # current

(* How many of the Writes that were sent have left the channel. *)
taken == Len(written) - Len(ch)

(* They have been read but for the rest of the last; the others are in the *)
(* channel, in order.                                                      *)
Order ==
  /\ Len(ch) <= Len(written)
  /\ Len(got) + rest = Units * taken
  /\ rest > 0 => taken > 0 /\ content[current] = written[taken]
  /\ \A i \in DOMAIN ch : content[ch[i]] = written[taken + i]
  /\ \A k \in DOMAIN written : \A i \in UnitsOf(k) \cap DOMAIN got : got[i] = written[k]

Ends ==
  /\ atClose <= Len(written)
  /\ ~stopCh => atClose = 0
  /\ reader \in {"stop", "eof"} => stopCh
  /\ reader = "eof" => Len(got) >= Units * atClose

Inv == TypeOK /\ Places /\ BuffersAreOwn /\ Order /\ Ends
=============================================================================
