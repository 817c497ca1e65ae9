------------------------------- MODULE Server -------------------------------
(***************************************************************************)
(* The HTTP server the proxy runs (fasthttp/server.go, peripconn.go): the  *)
(* loop that accepts connections, the workers of WorkerPool that serve     *)
(* their requests, handlers that run into a timeout (TimeoutHandler) or    *)
(* take the connection over (Hijack), and Shutdown.  What a message holds  *)
(* is left to Framing and what the proxy's handler does to Requests.      *)
(***************************************************************************)
EXTENDS WorkerPool

CONSTANTS
  Contexts,        \* RequestCtx objects
  Wrappers,        \* perIPConn objects
  Configurations,  \* of the server and of the program that runs it
  Slow,            \* the connections whose requests have a TimeoutHandler
  MaxRequests      \* bound: requests of a connection

(* There are goroutines for as many workers as may run. *)
ASSUME ConstantsAssumption ==
  /\ IsFiniteSet(Conns) /\ IsFiniteSet(Workers)
  /\ None \notin Conns \cup Wrappers /\ Conns \cap Wrappers = {}
  /\ \A g \in Configurations : g.concurrency \in 0 .. Cardinality(Workers)

(* A context is allocated whenever none is pooled: there are more of them  *)
(* than connections and timed-out handlers can have.                       *)
ASSUME ContextsAssumption ==
  /\ IsFiniteSet(Contexts) /\ None \notin Contexts
  /\ Cardinality(Contexts) > Cardinality(Conns) + Cardinality(Workers)

VARIABLES
  config,       \* Concurrency, MaxConnsPerIP (0 is none), and whether Shutdown is called
  listener,     \* where Serve is
  open,         \* s.open
  concurrency,  \* s.concurrency
  stop,         \* s.stop
  shutdown,     \* where Shutdown is
  conn,         \* each connection: absent, open or closed
  at,           \* where serveConn is
  requests,     \* connRequestNum
  hijack,       \* a hijack handler: none, wanted, running or ended
  table,        \* s.idleConns
  ctx,          \* the context of a connection
  ctxPool,      \* s.ctxPool
  late,         \* contexts that the goroutine of a TimeoutHandler uses
  perIP,        \* the count of perIPConnCounter; all connections have one address
  wrapper,      \* the perIPConn that was made of a connection
  inside        \* perIPConn.Conn

serverVars == <<listener, open, concurrency>>
stopVars == <<stop, shutdown>>
connVars == <<conn, perIP, inside>>
serveVars == <<at, requests, hijack>>
ctxVars == <<ctx, ctxPool, late>>
vars == <<poolVars, config, serverVars, stopVars, connVars, serveVars, table, ctxVars, wrapper>>

Init ==
  /\ PoolInit
  /\ config \in Configurations /\ maxWorkersCount = config.concurrency
  /\ listener = "init" /\ open = 0 /\ concurrency = 0
  /\ stop = FALSE /\ shutdown = "no"
  /\ conn = [c \in Conns |-> "absent"] /\ perIP = 0
  /\ inside = [o \in Wrappers |-> None] /\ wrapper = [c \in Conns |-> None]
  /\ at = [c \in Conns |-> "none"] /\ requests = [c \in Conns |-> 0]
  /\ hijack = [c \in Conns |-> "none"]
  /\ table = [k \in Conns \cup Wrappers |-> "none"]
  /\ ctx = [c \in Conns |-> None] /\ ctxPool = {} /\ late = {}

-----------------------------------------------------------------------------
(* Connections.  A server that limits the connections of an address wraps  *)
(* them in pooled objects, which are also their keys in the idle table.    *)

Key(c) == IF wrapper[c] = None THEN c ELSE wrapper[c]

(* The connection that is in fact closed by closing k, None when the       *)
(* wrapper has been closed and released before: its Conn is nil.           *)
Closed(k) == IF k \in Wrappers THEN inside[k] ELSE k

Close(k) ==
  /\ conn' = [c \in Conns |-> IF c = Closed(k) THEN "closed" ELSE conn[c]]
  /\ inside' = IF k \in Wrappers THEN [inside EXCEPT ![k] = None] ELSE inside
  /\ perIP' = IF k \in Wrappers /\ inside[k] # None THEN perIP - 1 ELSE perIP

SetState(c, s) == table' = [table EXCEPT ![Key(c)] = s]

Goto(c, l) == at' = [at EXCEPT ![c] = l] /\ UNCHANGED <<requests, hijack>>

-----------------------------------------------------------------------------
(* Serve                                                                   *)

Listen ==
  /\ listener = "init"
  /\ listener' = "listed"
  /\ UNCHANGED <<poolVars, config, open, concurrency, stopVars, connVars, serveVars, table,
                 ctxVars, wrapper>>

(* Waiting for a connection counts as an open connection. *)
CountListener ==
  /\ listener = "listed"
  /\ listener' = "accept" /\ open' = open + 1
  /\ UNCHANGED <<poolVars, config, concurrency, stopVars, connVars, serveVars, table, ctxVars,
                 wrapper>>

Listening == shutdown \in {"no", "early"}

Accept(c) ==
  /\ listener = "accept" /\ Listening
  /\ conn[c] = "absent"
  /\ \/ /\ config.maxConnsPerIP = 0
        /\ conn' = [conn EXCEPT ![c] = "open"]
        /\ listener' = "accepted" /\ at' = [at EXCEPT ![c] = "new"]
        /\ UNCHANGED <<perIP, inside, wrapper>>
     \/ /\ config.maxConnsPerIP > perIP
        /\ \E o \in Wrappers :
             /\ inside[o] = None
             /\ inside' = [inside EXCEPT ![o] = c]
             /\ wrapper' = [wrapper EXCEPT ![c] = o]
        /\ conn' = [conn EXCEPT ![c] = "open"] /\ perIP' = perIP + 1
        /\ listener' = "accepted" /\ at' = [at EXCEPT ![c] = "new"]
     \/ /\ config.maxConnsPerIP # 0 /\ config.maxConnsPerIP <= perIP
        /\ conn' = [conn EXCEPT ![c] = "closed"]
        /\ UNCHANGED <<perIP, inside, wrapper, listener, at>>
  /\ UNCHANGED <<poolVars, config, open, concurrency, stopVars, requests, hijack, table, ctxVars>>

Count(c) ==
  /\ listener = "accepted" /\ at[c] = "new"
  /\ SetState(c, "new")
  /\ open' = open + 1 /\ listener' = "dispatch"
  /\ UNCHANGED <<poolVars, config, concurrency, stopVars, connVars, serveVars, ctxVars, wrapper>>

Dispatch(c) ==
  /\ listener = "dispatch" /\ at[c] = "new"
  /\ ServeReady(c) \/ ServeNew(c)
  /\ listener' = "accept" /\ Goto(c, "queued")
  /\ UNCHANGED <<config, open, concurrency, stopVars, connVars, table, ctxVars, wrapper>>

(* All workers are busy: 503, and the connection is closed. *)
Overflow(c) ==
  /\ listener = "dispatch" /\ at[c] = "new"
  /\ Full
  /\ open' = open - 1 /\ listener' = "accept"
  /\ Close(Key(c)) /\ SetState(c, "none") /\ Goto(c, "gone")
  /\ UNCHANGED <<poolVars, config, concurrency, stopVars, ctxVars, wrapper>>

(* The listener has been closed, or Accept fails for another reason: a     *)
(* connection that does not take TCP keep-alive is one.                    *)
AcceptFails ==
  /\ listener = "accept"
  /\ ~Listening \/ \E c \in Conns : conn[c] = "absent"
  /\ Stop
  /\ listener' = "down" /\ open' = open - 1
  /\ UNCHANGED <<config, concurrency, stopVars, connVars, serveVars, table, ctxVars, wrapper>>

-----------------------------------------------------------------------------
(* Contexts                                                                *)

Held == {ctx[c] : c \in Conns} \ {None}

(* A pooled context, else a new one: the garbage is free to be used again. *)
(* Contexts are alike, so which one it is makes no difference.             *)
Available ==
  CHOOSE x \in IF ctxPool # {} THEN ctxPool ELSE Contexts \ (Held \cup late) : TRUE

AcquireCtx(c) ==
  ctx' = [ctx EXCEPT ![c] = Available] /\ ctxPool' = ctxPool \ {Available}

-----------------------------------------------------------------------------
(* serveConn                                                               *)

Begin(w) ==
  /\ Receive(w)
  /\ Head(ch[w]) # None =>
       /\ concurrency' = concurrency + 1
       /\ AcquireCtx(Head(ch[w])) /\ Goto(Head(ch[w]), "next")
  /\ Head(ch[w]) = None => UNCHANGED <<concurrency, ctx, ctxPool, serveVars>>
  /\ UNCHANGED <<config, listener, open, stopVars, connVars, table, late, wrapper>>

(* A kept-alive connection waits for the first byte of a request ... *)
FirstByte(c) ==
  /\ at[c] = "next" /\ requests[c] < MaxRequests
  /\ requests[c] > 0 => conn[c] = "open"
  /\ at' = [at EXCEPT ![c] = "peeked"]
  /\ requests' = [requests EXCEPT ![c] = @ + 1]
  /\ UNCHANGED <<poolVars, config, serverVars, stopVars, connVars, hijack, table, ctxVars, wrapper>>

(* ... and ends without a word when none comes in time. *)
NothingRead(c) ==
  /\ at[c] = "next" /\ requests[c] > 0
  /\ Goto(c, "return")
  /\ UNCHANGED <<poolVars, config, serverVars, stopVars, connVars, table, ctxVars, wrapper>>

(* Mutant of SetActive: the connection stays in the idle table. *)
SetActiveIdle(c) ==
  /\ at[c] = "peeked"
  /\ Goto(c, "read")
  /\ UNCHANGED <<poolVars, config, serverVars, stopVars, connVars, table, ctxVars, wrapper>>

SetActive(c) ==
  /\ at[c] = "peeked"
  /\ SetState(c, "none") /\ Goto(c, "read")
  /\ UNCHANGED <<poolVars, config, serverVars, stopVars, connVars, ctxVars, wrapper>>

ReadRequest(c) ==
  /\ at[c] = "read" /\ conn[c] = "open"
  /\ Goto(c, "handle")
  /\ UNCHANGED <<poolVars, config, serverVars, stopVars, connVars, table, ctxVars, wrapper>>

(* A bad request or a timeout is answered with an error, a closed          *)
(* connection is not; serveConn returns.                                   *)
ReadFails(c) ==
  /\ at[c] = "read"
  /\ Goto(c, "return")
  /\ UNCHANGED <<poolVars, config, serverVars, stopVars, connVars, table, ctxVars, wrapper>>

(* The handler returns; it may have asked for the connection. *)
Handle(c) ==
  /\ at[c] = "handle"
  /\ at' = [at EXCEPT ![c] = "respond"]
  /\ \E h \in {"none", "wanted"} : hijack' = [hijack EXCEPT ![c] = h]
  /\ UNCHANGED <<poolVars, config, serverVars, stopVars, connVars, requests, table, ctxVars,
                 wrapper>>

(* TimeoutHandler runs the handler in a goroutine; concurrencyCh bounds    *)
(* these, and over the bound answers 429 without a handler.                *)
HandleAside(c) ==
  /\ at[c] = "handle" /\ c \in Slow
  /\ Cardinality(late) < maxWorkersCount
  /\ late' = late \cup {ctx[c]}
  /\ Goto(c, "aside")
  /\ UNCHANGED <<poolVars, config, serverVars, stopVars, connVars, table, ctx, ctxPool, wrapper>>

HandlerReturns(x) ==
  /\ x \in late
  /\ late' = late \ {x}
  /\ UNCHANGED <<poolVars, config, serverVars, stopVars, connVars, serveVars, table, ctx, ctxPool,
                 wrapper>>

InTime(c) ==
  /\ at[c] = "aside" /\ ctx[c] \notin late
  /\ Goto(c, "respond")
  /\ UNCHANGED <<poolVars, config, serverVars, stopVars, connVars, table, ctxVars, wrapper>>

(* Mutant of TimesOut: the context goes back to the pool. *)
TimesOutReleases(c) ==
  /\ at[c] = "aside"
  /\ ctx' = [ctx EXCEPT ![c] = Available]
  /\ ctxPool' = (ctxPool \cup {ctx[c]}) \ {Available}
  /\ Goto(c, "respond")
  /\ UNCHANGED <<poolVars, config, serverVars, stopVars, connVars, table, late, wrapper>>

(* The timer goes first, or at once with the handler: the context is left  *)
(* to the handler, the response is written from another one.               *)
TimesOut(c) ==
  /\ at[c] = "aside"
  /\ AcquireCtx(c) /\ Goto(c, "respond")
  /\ UNCHANGED <<poolVars, config, serverVars, stopVars, connVars, table, late, wrapper>>

(* The response is written; a client's or the server's wish, or a          *)
(* shutdown, makes it the last one.                                        *)
LastResponse(c) ==
  /\ at[c] = "respond"
  /\ Goto(c, "return")
  /\ UNCHANGED <<poolVars, config, serverVars, stopVars, connVars, table, ctxVars, wrapper>>

Respond(c) ==
  /\ at[c] = "respond" /\ conn[c] = "open" /\ ~stop
  /\ Goto(c, "answered")
  /\ UNCHANGED <<poolVars, config, serverVars, stopVars, connVars, table, ctxVars, wrapper>>

(* The hijack handler gets a goroutine and serveConn returns errHijacked.  *)
StartHijack(c) ==
  /\ at[c] = "answered" /\ hijack[c] = "wanted"
  /\ at' = [at EXCEPT ![c] = "return"] /\ hijack' = [hijack EXCEPT ![c] = "running"]
  /\ UNCHANGED <<poolVars, config, serverVars, stopVars, connVars, requests, table, ctxVars,
                 wrapper>>

(* Mutant of SetIdle: the connection is not put in the table. *)
SetIdleUntracked(c) ==
  /\ at[c] = "answered" /\ hijack[c] = "none"
  /\ Goto(c, "idle")
  /\ UNCHANGED <<poolVars, config, serverVars, stopVars, connVars, table, ctxVars, wrapper>>

SetIdle(c) ==
  /\ at[c] = "answered" /\ hijack[c] = "none"
  /\ SetState(c, "idle") /\ Goto(c, "idle")
  /\ UNCHANGED <<poolVars, config, serverVars, stopVars, connVars, ctxVars, wrapper>>

NextRequest(c) ==
  /\ at[c] = "idle"
  /\ Goto(c, IF stop THEN "return" ELSE "next")
  /\ UNCHANGED <<poolVars, config, serverVars, stopVars, connVars, table, ctxVars, wrapper>>

(* The context is released unless a hijack handler was asked for, whether  *)
(* it runs or not; the deferred cleanup uncounts the connection.           *)
Return(c) ==
  /\ at[c] = "return"
  /\ open' = open - 1 /\ concurrency' = concurrency - 1
  /\ IF hijack[c] = "none"
     THEN ctxPool' = ctxPool \cup {ctx[c]} /\ ctx' = [ctx EXCEPT ![c] = None]
     ELSE /\ ctx' = IF hijack[c] = "wanted" THEN [ctx EXCEPT ![c] = None] ELSE ctx
          /\ UNCHANGED ctxPool
  /\ at' = [at EXCEPT ![c] = "returned"] /\ requests' = [requests EXCEPT ![c] = 0]
  /\ UNCHANGED <<poolVars, config, listener, stopVars, connVars, hijack, table, late, wrapper>>

HijackEnds(c) ==
  /\ hijack[c] = "running" /\ at[c] \in {"returned", "closed", "gone"}
  /\ hijack' = [hijack EXCEPT ![c] = "ended"]
  /\ Close(Key(c))
  /\ ctxPool' = ctxPool \cup {ctx[c]} /\ ctx' = [ctx EXCEPT ![c] = None]
  /\ UNCHANGED <<poolVars, config, serverVars, stopVars, at, requests, table, late, wrapper>>

WorkerCloses(c) ==
  /\ at[c] = "returned"
  /\ IF hijack[c] \in {"running", "ended"} THEN UNCHANGED connVars ELSE Close(Key(c))
  /\ Goto(c, "closed")
  /\ UNCHANGED <<poolVars, config, serverVars, stopVars, table, ctxVars, wrapper>>

(* The state is set after the connection was closed. *)
WorkerReleases(w) ==
  /\ worker[w] = "serve" /\ at[serving[w]] = "closed"
  /\ SetState(serving[w], "none") /\ Goto(serving[w], "gone")
  /\ worker' = [worker EXCEPT ![w] = "release"]
  /\ UNCHANGED <<maxWorkersCount, ready, workersCount, mustStop, ch, serving, config, serverVars, stopVars,
                 connVars, ctxVars, wrapper>>

PoolStep ==
  /\ \/ \E w \in Workers : Release(w) \/ Exit(w)
     \/ listener \notin {"init", "down"} /\ \E i \in 1 .. Len(ready) : Clean(i)
  /\ UNCHANGED <<config, serverVars, stopVars, connVars, serveVars, table, ctxVars, wrapper>>

-----------------------------------------------------------------------------
(* Shutdown                                                                *)

(* Before Serve has listed its listener there is nothing to shut down. *)
ShutdownEarly ==
  /\ shutdown = "no" /\ config.stops /\ listener = "init"
  /\ shutdown' = "early"
  /\ UNCHANGED <<poolVars, config, serverVars, stop, connVars, serveVars, table, ctxVars, wrapper>>

Shutdown ==
  /\ shutdown = "no" /\ config.stops /\ listener # "init"
  /\ stop' = TRUE /\ shutdown' = "wait"
  /\ UNCHANGED <<poolVars, config, serverVars, connVars, serveVars, table, ctxVars, wrapper>>

(* The idle connections are closed, and those new for five seconds. *)
CloseIdleConns ==
  /\ shutdown = "wait"
  /\ \E k \in {k \in DOMAIN table : table[k] # "none"} :
       Close(k) /\ table' = [table EXCEPT ![k] = "none"]
  /\ UNCHANGED <<poolVars, config, serverVars, stopVars, serveVars, ctxVars, wrapper>>

ShutdownReturns ==
  /\ shutdown = "wait" /\ open = 0
  /\ stop' = FALSE /\ shutdown' = "done"
  /\ UNCHANGED <<poolVars, config, serverVars, connVars, serveVars, table, ctxVars, wrapper>>

-----------------------------------------------------------------------------
ServeStep(c) ==
  \/ SetActive(c) \/ ReadRequest(c) \/ ReadFails(c)
  \/ Handle(c) \/ HandleAside(c) \/ InTime(c) \/ TimesOut(c)
  \/ LastResponse(c) \/ Respond(c) \/ StartHijack(c) \/ SetIdle(c) \/ NextRequest(c)
  \/ Return(c) \/ WorkerCloses(c)

ServeLoop ==
  \/ Listen \/ CountListener \/ AcceptFails
  \/ \E c \in Conns : Accept(c) \/ Count(c) \/ Dispatch(c) \/ Overflow(c)

WorkerStep(w) == Begin(w) \/ WorkerReleases(w)

Next ==
  \/ ServeLoop \/ PoolStep
  \/ \E w \in Workers : WorkerStep(w)
  \/ \E c \in Conns : ServeStep(c) \/ FirstByte(c) \/ NothingRead(c) \/ HijackEnds(c)
  \/ \E x \in Contexts : HandlerReturns(x)
  \/ ShutdownEarly \/ Shutdown \/ CloseIdleConns \/ ShutdownReturns

(* Goroutines that can run do; the proxy sets timeouts for reading and     *)
(* writing, and a handler is taken to return.  No client is taken to send  *)
(* a request or to close a connection that is kept alive.                  *)
Fairness ==
  /\ WF_vars(CountListener) /\ WF_vars(PoolStep)
  /\ WF_vars(AcceptFails /\ ~Listening)
  /\ WF_vars(CloseIdleConns) /\ WF_vars(ShutdownReturns)
  /\ \A c \in Conns :
       /\ WF_vars(Count(c) \/ Dispatch(c) \/ Overflow(c)) /\ WF_vars(ServeStep(c))
       /\ WF_vars(NothingRead(c) /\ conn[c] = "closed")
       /\ WF_vars(FirstByte(c) /\ requests[c] = 0)
  /\ \A w \in Workers : WF_vars(WorkerStep(w))

Spec == Init /\ [][Next]_vars /\ Fairness

-----------------------------------------------------------------------------
(* The open count is the connections that are served and the listener, so  *)
(* a Shutdown that reads 0 misses none (server.go, Serve, serveConn).      *)
Serving == {c \in Conns : at[c] \notin {"none", "new", "returned", "closed", "gone"}}
OpenIsCounted ==
  /\ open = Cardinality(Serving)
              + (IF listener = "dispatch" THEN 1 ELSE 0)
              + (IF listener \in {"init", "listed", "down"} THEN 0 ELSE 1)
  /\ concurrency = Cardinality({c \in Serving : at[c] # "queued"})

(* After Shutdown no request is read, handled or answered, unless it came  *)
(* before Serve; only handlers that have timed out or taken a connection   *)
(* over go on (server.go, Shutdown).                                       *)
DoneIsQuiet == shutdown = "done" => Serving = {} /\ listener \in {"listed", "accept", "down"}

(* The idle table holds no connection that a request is being read from,   *)
(* handled for or answered on: Shutdown interrupts none (server.go,        *)
(* trackConn, closeIdleConns).                                             *)
ActiveIsNotIdle ==
  \A c \in Conns :
    /\ at[c] \in {"read", "handle", "aside", "respond", "answered"} => table[Key(c)] = "none"
    /\ at[c] \in {"read", "handle", "aside", "respond"} /\ conn[c] = "closed" => shutdown # "no"

(* A context is one connection's, and none is pooled while a connection or *)
(* a handler that timed out uses it (server.go, acquireCtx, releaseCtx).   *)
ContextsAreOwn ==
  /\ \A c, d \in Conns : c # d /\ ctx[c] # None => ctx[c] # ctx[d]
  /\ ctxPool \cap (Held \cup late) = {}

(* A connection is closed by the one that owns it: while a hijack handler  *)
(* has it, it is open (server.go, hijackConnHandler, workerFunc).          *)
HijackedIsOpen == \A c \in Conns : hijack[c] = "running" => conn[c] = "open"

(* The counter of an address counts its open connections, and whoever      *)
(* closes a connection through its wrapper closes that connection: the     *)
(* wrapper has not been closed and pooled before (peripconn.go, Close).    *)
WrappersAreOwn ==
  /\ perIP = Cardinality({c \in Conns : wrapper[c] # None /\ conn[c] = "open"})
  /\ \A c \in Conns :
       wrapper[c] # None /\ at[c] \notin {"closed", "gone"} /\ hijack[c] # "ended" =>
         inside[wrapper[c]] = c

(* Shutdown ends although clients keep their connections open, and the     *)
(* pool it stops is left by its workers (server.go, Shutdown;              *)
(* workerpool.go, Stop).                                                   *)
ShutdownEnds == shutdown = "wait" ~> shutdown = "done" /\ workersCount = 0

(* Shutdown counts what it waits for, ends what it counted, and interrupts *)
(* nothing on the way (server.go, Serve, trackConn, Shutdown).             *)
StopsQuietly == OpenIsCounted /\ DoneIsQuiet /\ ActiveIsNotIdle

(* A connection has its context, its wrapper and, when it was hijacked,    *)
(* itself to itself (server.go, acquireCtx, hijackConnHandler;             *)
(* peripconn.go, Close).                                                   *)
ConnectionsAreOwn == ContextsAreOwn /\ HijackedIsOpen /\ WrappersAreOwn
=============================================================================
