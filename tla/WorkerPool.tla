----------------------------- MODULE WorkerPool -----------------------------
(***************************************************************************)
(* The pool of goroutines that serve a listener's connections              *)
(* (fasthttp/workerpool.go).  A worker has a channel of one place; ready   *)
(* is a stack of the workers that wait on theirs.  What a worker does with *)
(* a connection is left to the module that extends this one.               *)
(***************************************************************************)
EXTENDS Integers, Sequences, SequencesExt, FiniteSets

CONSTANTS Conns, Workers, None

VARIABLES
  maxWorkersCount,  \* wp.maxWorkersCount
  ready,         \* wp.ready
  workersCount,  \* wp.workersCount
  mustStop,      \* wp.mustStop
  ch,            \* the channel of each worker; None is the nil that ends it
  worker,        \* where each worker is
  serving        \* the connection each worker has received

poolVars == <<maxWorkersCount, ready, workersCount, mustStop, ch, worker, serving>>

PoolInit ==
  /\ ready = <<>> /\ workersCount = 0 /\ mustStop = FALSE
  /\ ch = [w \in Workers |-> <<>>]
  /\ worker = [w \in Workers |-> "free"]
  /\ serving = [w \in Workers |-> None]

(* Serve sends the connection to the worker that was ready last ... *)
ServeReady(c) ==
  /\ ready # <<>>
  /\ ready' = Front(ready)
  /\ ch' = [ch EXCEPT ![Last(ready)] = Append(@, c)]
  /\ UNCHANGED <<maxWorkersCount, workersCount, mustStop, worker, serving>>

(* ... or to a new one while there are fewer than the maximum. *)
ServeNew(c) ==
  /\ ready = <<>> /\ workersCount < maxWorkersCount
  /\ LET w == CHOOSE w \in Workers : worker[w] = "free" IN
       /\ worker' = [worker EXCEPT ![w] = "wait"]
       /\ ch' = [ch EXCEPT ![w] = Append(@, c)]
  /\ workersCount' = workersCount + 1
  /\ UNCHANGED <<maxWorkersCount, ready, mustStop, serving>>

Full == ready = <<>> /\ workersCount >= maxWorkersCount

Receive(w) ==
  /\ worker[w] = "wait" /\ ch[w] # <<>>
  /\ ch' = [ch EXCEPT ![w] = Tail(@)]
  /\ serving' = [serving EXCEPT ![w] = Head(ch[w])]
  /\ worker' = [worker EXCEPT ![w] = IF Head(ch[w]) = None THEN "exit" ELSE "serve"]
  /\ UNCHANGED <<maxWorkersCount, ready, workersCount, mustStop>>

(* The worker is ready again, or ends when the pool has been stopped. *)
Release(w) ==
  /\ worker[w] = "release"
  /\ ready' = IF mustStop THEN ready ELSE Append(ready, w)
  /\ worker' = [worker EXCEPT ![w] = IF mustStop THEN "exit" ELSE "wait"]
  /\ serving' = [serving EXCEPT ![w] = None]
  /\ UNCHANGED <<maxWorkersCount, workersCount, mustStop, ch>>

Exit(w) ==
  /\ worker[w] = "exit"
  /\ workersCount' = workersCount - 1
  /\ worker' = [worker EXCEPT ![w] = "free"]
  /\ UNCHANGED <<maxWorkersCount, ready, mustStop, ch, serving>>

SendNil(ws) == [w \in Workers |-> IF w \in ws THEN Append(ch[w], None) ELSE ch[w]]

(* Mutant of Clean: the workers stay on the stack. *)
CleanKeeps(i) ==
  /\ ch' = SendNil(ToSet(SubSeq(ready, 1, i)))
  /\ UNCHANGED <<maxWorkersCount, ready, workersCount, mustStop, worker, serving>>

(* The workers that have been idle for long are at the bottom. *)
Clean(i) ==
  /\ ready' = SubSeq(ready, i + 1, Len(ready))
  /\ ch' = SendNil(ToSet(SubSeq(ready, 1, i)))
  /\ UNCHANGED <<maxWorkersCount, workersCount, mustStop, worker, serving>>

(* Stop sends to every ready worker while it holds the lock. *)
Stop ==
  /\ mustStop' = TRUE
  /\ ready' = <<>>
  /\ ch' = SendNil(ToSet(ready))
  /\ UNCHANGED <<maxWorkersCount, workersCount, worker, serving>>

-----------------------------------------------------------------------------
(* The count is the number of the workers, which is what bounds them, a    *)
(* channel never holds more than its one place takes, so that no send      *)
(* waits, and a worker is ready or has something to do, never both         *)
(* (workerpool.go, getCh, Stop, clean, release).                           *)
WorkersAreCounted ==
  /\ workersCount = Cardinality({w \in Workers : worker[w] # "free"})
  /\ workersCount <= maxWorkersCount
  /\ IsInjective(ready)
  /\ \A w \in Workers :
       /\ Len(ch[w]) <= 1
       /\ w \in ToSet(ready) => worker[w] = "wait" /\ ch[w] = <<>>
=============================================================================
