--------------------------- MODULE PipelineClient ---------------------------
(***************************************************************************)
(* A client that writes requests to one connection without waiting for     *)
(* their responses (fasthttp/client.go, pipelineConnClient): the calls,    *)
(* the goroutine that keeps a worker running, and the worker's writer and  *)
(* reader.  Requests go through the channel chW to the writer and, once    *)
(* written, through chR to the reader, which takes the responses in the    *)
(* order of the requests.  Batching (MaxBatchDelay) is left out: what is   *)
(* written is flushed in time, or the connection fails.                    *)
(***************************************************************************)
EXTENDS Naturals, Sequences, Functions

CONSTANTS
  Calls, None, Stopped,
  Deadlines,      \* the calls of DoDeadline; the others are of Do
  Capacity,       \* MaxPendingRequests
  Runners,        \* goroutines that init starts
  Channels        \* bound: pairs of channels that init makes

VARIABLES
  current,    \* the pair of channels in the client's fields, 0 for nil
  made,       \* how many pairs have been made
  chW, chR,   \* the requests in each pair
  runner,     \* where each goroutine is
  writer, reader,  \* where its writer and its reader are
  wch, rch,   \* the channels they use
  writing, reading, \* the request each holds
  wire,       \* requests on its connection that have no response yet
  clean,      \* the worker ends without an error
  at,         \* where each call is
  answer      \* what is in its work: a response (to a call), Stopped or None

chanVars == <<current, made, chW, chR>>
ends == <<writer, reader, wch, rch, writing, reading>>
callVars == <<at, answer>>
vars == <<chanVars, runner, ends, wire, clean, callVars>>

Pairs == 0 .. Channels   \* nothing goes through the pair of nils, 0

Init ==
  /\ current = 0 /\ made = 0
  /\ chW = [p \in Pairs |-> <<>>] /\ chR = [p \in Pairs |-> <<>>]
  /\ runner = [r \in Runners |-> "off"]
  /\ writer = [r \in Runners |-> "off"] /\ reader = [r \in Runners |-> "off"]
  /\ wch = [r \in Runners |-> 0] /\ rch = [r \in Runners |-> 0]
  /\ writing = [r \in Runners |-> None] /\ reading = [r \in Runners |-> None]
  /\ wire = [r \in Runners |-> <<>>] /\ clean = [r \in Runners |-> FALSE]
  /\ at = [c \in Calls |-> "init"] /\ answer = [c \in Calls |-> None]

-----------------------------------------------------------------------------
(* Calls                                                                   *)

Goto(c, l) == at' = [at EXCEPT ![c] = l]
Finish(cs, a) == answer' = [c \in Calls |-> IF c \in cs THEN a ELSE answer[c]]

(* init: no channel means no goroutine, and only then is one started. *)
Start(c) ==
  /\ at[c] = "init" /\ current = 0 /\ made < Channels
  /\ current' = made + 1 /\ made' = made + 1
  /\ \E r \in Runners : runner[r] = "off" /\ runner' = [runner EXCEPT ![r] = "dial"]
  /\ Goto(c, "send")
  /\ UNCHANGED <<chW, chR, ends, wire, clean, answer>>

Initialised(c) ==
  /\ at[c] = "init" /\ current # 0
  /\ Goto(c, "send")
  /\ UNCHANGED <<chanVars, runner, ends, wire, clean, answer>>

(* The field is read again: init's lock is not held. *)
Send(c) ==
  /\ at[c] = "send" /\ current # 0
  /\ Len(chW[current]) < Capacity
  /\ chW' = [chW EXCEPT ![current] = Append(@, c)]
  /\ Goto(c, "wait")
  /\ UNCHANGED <<current, made, chR, runner, ends, wire, clean, answer>>

(* Do makes room by refusing the oldest request ... *)
Overflow(c) ==
  /\ at[c] = "send" /\ c \notin Deadlines /\ current # 0
  /\ Len(chW[current]) = Capacity
  /\ chW' = [chW EXCEPT ![current] = Tail(@)]
  /\ Finish({Head(chW[current])}, Stopped)
  /\ Goto(c, "room")
  /\ UNCHANGED <<current, made, chR, runner, ends, wire, clean>>

(* ... and is refused itself if another call takes the room. *)
SendAgain(c) ==
  /\ \/ at[c] = "room"
     \/ at[c] = "send" /\ c \notin Deadlines /\ current = 0
  /\ IF current # 0 /\ Len(chW[current]) < Capacity
     THEN chW' = [chW EXCEPT ![current] = Append(@, c)] /\ Goto(c, "wait")
     ELSE Goto(c, "refused") /\ UNCHANGED chW
  /\ UNCHANGED <<current, made, chR, runner, ends, wire, clean, answer>>

Return(c) ==
  /\ at[c] = "wait" /\ answer[c] # None
  /\ Goto(c, "done")
  /\ UNCHANGED <<chanVars, runner, ends, wire, clean, answer>>

(* The work stays with the client, it is not used again. *)
TimesOut(c) ==
  /\ c \in Deadlines /\ at[c] \in {"send", "wait"}
  /\ Goto(c, "timeout")
  /\ UNCHANGED <<chanVars, runner, ends, wire, clean, answer>>

-----------------------------------------------------------------------------
(* The goroutine and its worker                                            *)

Dial(r) ==
  /\ runner[r] = "dial"
  /\ runner' = [runner EXCEPT ![r] = "work"]
  /\ writer' = [writer EXCEPT ![r] = "start"] /\ reader' = [reader EXCEPT ![r] = "start"]
  /\ wire' = [wire EXCEPT ![r] = <<>>]
  /\ UNCHANGED <<chanVars, wch, rch, writing, reading, clean, callVars>>

WriterStarts(r) ==
  /\ writer[r] = "start"
  /\ writer' = [writer EXCEPT ![r] = "take"] /\ wch' = [wch EXCEPT ![r] = current]
  /\ UNCHANGED <<chanVars, runner, reader, rch, writing, reading, wire, clean, callVars>>

ReaderStarts(r) ==
  /\ reader[r] = "start"
  /\ reader' = [reader EXCEPT ![r] = "take"] /\ rch' = [rch EXCEPT ![r] = current]
  /\ UNCHANGED <<chanVars, runner, writer, wch, writing, reading, wire, clean, callVars>>

(* Of a request whose time is over no byte is written. *)
Take(r) ==
  /\ writer[r] = "take" /\ chW[wch[r]] # <<>>
  /\ LET w == Head(chW[wch[r]]) IN
       \/ /\ writing' = [writing EXCEPT ![r] = w] /\ writer' = [writer EXCEPT ![r] = "write"]
          /\ UNCHANGED answer
       \/ w \in Deadlines /\ Finish({w}, Stopped) /\ UNCHANGED <<writing, writer>>
  /\ chW' = [chW EXCEPT ![wch[r]] = Tail(@)]
  /\ UNCHANGED <<current, made, chR, runner, reader, wch, rch, reading, wire, clean, at>>

Write(r) ==
  /\ writer[r] = "write"
  /\ \/ /\ wire' = [wire EXCEPT ![r] = Append(@, writing[r])]
        /\ writer' = [writer EXCEPT ![r] = "pass"]
        /\ UNCHANGED <<writing, answer>>
     \/ /\ Finish({writing[r]}, Stopped)
        /\ writing' = [writing EXCEPT ![r] = None] /\ writer' = [writer EXCEPT ![r] = "failed"]
        /\ UNCHANGED wire
  /\ UNCHANGED <<chanVars, runner, reader, wch, rch, reading, clean, at>>

(* Mutant of Pass: a request overtakes the one before it. *)
PassFirst(r) ==
  /\ writer[r] = "pass" /\ wch[r] # 0 /\ Len(chR[wch[r]]) < Capacity
  /\ chR' = [chR EXCEPT ![wch[r]] = <<writing[r]>> \o @]
  /\ writing' = [writing EXCEPT ![r] = None] /\ writer' = [writer EXCEPT ![r] = "take"]
  /\ UNCHANGED <<current, made, chW, runner, reader, wch, rch, reading, wire, clean, callVars>>

Pass(r) ==
  /\ writer[r] = "pass" /\ wch[r] # 0 /\ Len(chR[wch[r]]) < Capacity
  /\ chR' = [chR EXCEPT ![wch[r]] = Append(@, writing[r])]
  /\ writing' = [writing EXCEPT ![r] = None] /\ writer' = [writer EXCEPT ![r] = "take"]
  /\ UNCHANGED <<current, made, chW, runner, reader, wch, rch, reading, wire, clean, callVars>>

(* The writer is stopped while chR is full, or its flush fails. *)
PassFails(r) ==
  /\ writer[r] = "pass"
  /\ wch[r] # 0 => Len(chR[wch[r]]) = Capacity
  /\ Finish({writing[r]}, Stopped)
  /\ writing' = [writing EXCEPT ![r] = None] /\ writer' = [writer EXCEPT ![r] = "failed"]
  /\ UNCHANGED <<chanVars, runner, reader, wch, rch, reading, wire, clean, at>>

(* Nothing to write for MaxIdleConnDuration, or told to stop; a request    *)
(* may come at the same time.                                              *)
WriterIdle(r) ==
  /\ writer[r] = "take"
  /\ writer' = [writer EXCEPT ![r] = "ended"]
  /\ UNCHANGED <<chanVars, runner, reader, wch, rch, writing, reading, wire, clean, callVars>>

ReaderTakes(r) ==
  /\ reader[r] = "take" /\ chR[rch[r]] # <<>>
  /\ reading' = [reading EXCEPT ![r] = Head(chR[rch[r]])]
  /\ chR' = [chR EXCEPT ![rch[r]] = Tail(@)]
  /\ reader' = [reader EXCEPT ![r] = "read"]
  /\ UNCHANGED <<current, made, chW, runner, writer, wch, rch, writing, wire, clean, callVars>>

(* The next response on the connection, or an error. *)
Read(r) ==
  /\ reader[r] = "read"
  /\ \/ /\ wire[r] # <<>> /\ runner[r] = "work"
        /\ Finish({reading[r]}, Head(wire[r]))
        /\ wire' = [wire EXCEPT ![r] = Tail(@)]
        /\ reader' = [reader EXCEPT ![r] = "take"]
     \/ /\ Finish({reading[r]}, Stopped)
        /\ reader' = [reader EXCEPT ![r] = "failed"]
        /\ UNCHANGED wire
  /\ reading' = [reading EXCEPT ![r] = None]
  /\ UNCHANGED <<chanVars, runner, writer, wch, rch, writing, clean, at>>

ReaderStops(r) ==
  /\ reader[r] = "take" /\ runner[r] = "stopR" /\ chR[rch[r]] = <<>>
  /\ reader' = [reader EXCEPT ![r] = "ended"]
  /\ UNCHANGED <<chanVars, runner, writer, wch, rch, writing, reading, wire, clean, callVars>>

Ended == {"ended", "failed"}

(* Whichever ends first takes the connection and the other with it; its    *)
(* error is the worker's.                                                  *)
StopOther(r) ==
  /\ runner[r] = "work"
  /\ \/ writer[r] \in Ended /\ runner' = [runner EXCEPT ![r] = "stopR"]
        /\ clean' = [clean EXCEPT ![r] = writer[r] = "ended"]
     \/ reader[r] \in Ended /\ runner' = [runner EXCEPT ![r] = "stopW"]
        /\ clean' = [clean EXCEPT ![r] = FALSE]
  /\ UNCHANGED <<chanVars, ends, wire, callVars>>

(* What has been written and not answered fails. *)
Drain(r) ==
  /\ runner[r] \in {"stopR", "stopW"} /\ {writer[r], reader[r]} \subseteq Ended
  /\ Finish(Range(chR[current]), Stopped)
  /\ chR' = [chR EXCEPT ![current] = <<>>]
  /\ runner' = [runner EXCEPT ![r] = IF clean[r] THEN "check" ELSE "dial"]
  /\ writer' = [writer EXCEPT ![r] = "off"] /\ reader' = [reader EXCEPT ![r] = "off"]
  /\ wire' = [wire EXCEPT ![r] = <<>>]
  /\ UNCHANGED <<current, made, chW, wch, rch, writing, reading, clean, at>>

(* An idle worker ends with empty channels, which stay in the fields; if a *)
(* request has come meanwhile it goes on without them.                     *)
Check(r) ==
  /\ runner[r] = "check"
  /\ IF chW[current] = <<>> /\ chR[current] = <<>>
     THEN runner' = [runner EXCEPT ![r] = "off"] /\ UNCHANGED current
     ELSE runner' = [runner EXCEPT ![r] = "dial"] /\ current' = 0
  /\ UNCHANGED <<made, chW, chR, ends, wire, clean, callVars>>

-----------------------------------------------------------------------------
CallStep(c) ==
  \/ Start(c) \/ Initialised(c) \/ Send(c) \/ Overflow(c) \/ SendAgain(c) \/ Return(c)
WriterStep(r) == WriterStarts(r) \/ Take(r) \/ Write(r) \/ Pass(r) \/ PassFails(r)
ReaderStep(r) == ReaderStarts(r) \/ ReaderTakes(r) \/ Read(r) \/ ReaderStops(r)
RunnerStep(r) == Dial(r) \/ StopOther(r) \/ Drain(r) \/ Check(r)

Next ==
  \/ \E c \in Calls : CallStep(c) \/ TimesOut(c)
  \/ \E r \in Runners : WriterStep(r) \/ WriterIdle(r) \/ ReaderStep(r) \/ RunnerStep(r)

Spec == Init /\ [][Next]_vars

-----------------------------------------------------------------------------
(* Two goroutines have worked on one pair of channels, which a request     *)
(* that came to an idle worker brings about.                               *)
Shared == made > 1

(* A response goes to the request it answers, whatever fails between the   *)
(* two, while one goroutine works (client.go, writer, reader, worker).     *)
ResponsesMatch == Shared \/ \A c \in Calls : answer[c] \in {None, Stopped, c}

(* A call that waits has its request in a channel, with the writer or with *)
(* the reader: it is never dropped without an answer (client.go, writer,   *)
(* reader, worker, Do).                                                    *)
NoRequestIsDropped ==
  \A c \in Calls : at[c] = "wait" /\ answer[c] = None =>
    \/ \E p \in Pairs : c \in Range(chW[p]) \cup Range(chR[p])
    \/ \E r \in Runners : c \in {writing[r], reading[r]}

-----------------------------------------------------------------------------
(* Why both hold: a request is in one place after another, and what the    *)
(* reader holds, chR and the request that is on its way there are, in this *)
(* order, the requests on the connection.  One goroutine works while one   *)
(* pair of channels has been made.                                         *)
TypeOK ==
  /\ made \in Nat /\ made <= Channels /\ current \in 0 .. made
  /\ chW \in [Pairs -> Seq(Calls)] /\ chR \in [Pairs -> Seq(Calls)]
  /\ runner \in [Runners -> {"off", "dial", "work", "stopR", "stopW", "check"}]
  /\ writer \in [Runners -> {"off", "start", "take", "write", "pass"} \cup Ended]
  /\ reader \in [Runners -> {"off", "start", "take", "read"} \cup Ended]
  /\ wch \in [Runners -> Pairs] /\ rch \in [Runners -> Pairs]
  /\ writing \in [Runners -> Calls \cup {None}] /\ reading \in [Runners -> Calls \cup {None}]
  /\ wire \in [Runners -> Seq(Calls)]
  /\ at \in [Calls -> {"init", "send", "room", "wait", "refused", "timeout", "done"}]
  /\ answer \in [Calls -> Calls \cup {None, Stopped}]

RequestsAreHeld ==
  \A r \in Runners :
    /\ writing[r] # None <=> writer[r] \in {"write", "pass"}
    /\ reading[r] # None <=> reader[r] = "read"
    /\ runner[r] \in {"off", "dial", "check"} => writer[r] = "off" /\ reader[r] = "off"

OneWorks ==
  /\ \A q, r \in Runners : runner[q] # "off" /\ runner[r] # "off" => made > 0 /\ q = r
  /\ \A r \in Runners :
       /\ writer[r] \notin {"off", "start"} => wch[r] = current
       /\ reader[r] \notin {"off", "start"} => rch[r] = current
  /\ \A p \in Pairs : chR[p] # <<>> =>
       p = current /\ p # 0 /\ \E r \in Runners : runner[r] \in {"work", "stopR", "stopW"}

Held(x) == IF x = None THEN <<>> ELSE <<x>>
Passing(r) == IF writer[r] = "pass" THEN <<writing[r]>> ELSE <<>>
Unanswered(r) == Held(reading[r]) \o (chR[current] \o Passing(r))

ResponsesAreInOrder ==
  \A r \in Runners : runner[r] = "work" /\ reader[r] # "failed" =>
    \E rest \in Seq(Calls) :
      /\ wire[r] = Unanswered(r) \o rest
      /\ writer[r] # "failed" => rest = <<>>

Inv ==
  /\ TypeOK /\ RequestsAreHeld /\ (~Shared => OneWorks /\ ResponsesAreInOrder)
  /\ ResponsesMatch /\ NoRequestIsDropped
=============================================================================
