------------------------------ MODULE Requests ------------------------------
(***************************************************************************)
(* The life of a request through the proxy services                        *)
(* (src/pkg/service_proxy_http.go, src/pkg/service_proxy_socks5.go): the   *)
(* pooled Request object it is described in, the stream to its node, and   *)
(* the account its traffic is put to.                                      *)
(*                                                                         *)
(* A goroutine serves each HTTP or SOCKS5 connection and each UDP          *)
(* datagram.  They share the pool of Request objects, the nodes (whose     *)
(* streams all end when one of them disconnects it) and the UDP            *)
(* associations.  One action is one use of what is shared; steps that use  *)
(* only the goroutine's own variables are merged with it.                  *)
(***************************************************************************)
EXTENDS Naturals, FiniteSets

CONSTANTS
  HTTPCalls,   \* goroutines that serve HTTP connections (bound)
  SOCKSCalls,  \* goroutines that serve SOCKS5 connections (bound)
  Datagrams,   \* goroutines that serve UDP datagrams (bound)
  Requests,    \* Request objects that are in use at one time (bound)
  Users,       \* users; a user stands for its password too
  Peers,       \* nodes
  Addrs,       \* UDP source addresses
  Dsts,        \* UDP destinations
  None,
  ReuseOverdue \* objects that are overdue are acquired again (FALSE: bound)

Calls == HTTPCalls \cup SOCKSCalls
Goroutines == Calls \cup Datagrams

ASSUME ConstantsAssumption ==
  /\ HTTPCalls \cap SOCKSCalls = {}
  /\ Calls \cap Datagrams = {}
  /\ None \notin Requests \cup Users \cup Peers \cup (Addrs \X Dsts)
  /\ ReuseOverdue \in BOOLEAN

VARIABLES
  pool,      \* how many times requestPool holds each object
  object,    \* the fields of each object
  req,       \* the object each goroutine holds
  at,        \* where each goroutine is
  own,       \* the user at the other end of the connection
  stream,    \* its stream to a node; "left": returned without closing it
  target,    \* the node the stream was opened to
  copying,   \* its Transfer goroutines that have not ended
  bill,      \* accounts it has named to the accountant, with the node
  requests,  \* UDP associations: the object each address belongs to
  exchanges, \* exchangesUDP: addresses and destinations that are relayed
  key,       \* source and destination of each datagram
  overdue    \* history: objects released while another goroutine held them

callVars == <<own, copying, bill>>
udpVars == <<requests, exchanges, key>>
streamVars == <<stream, target>>
vars == <<pool, object, req, at, own, stream, target, copying, bill,
          requests, exchanges, key, overdue>>

Locations == {"idle", "parse", "auth", "route", "dial", "connect", "readHeader", "copy",
              "writeRequest", "readResponse", "release", "negotiate", "username",
              "request", "forward", "exchange", "send", "relay", "delete", "releaseUDP"}

(* SessionID is the digest of what it is computed from; 0 is << >>. *)
Digest(password) == <<password>>

Sessions == {<< >>} \cup {Digest(p) : p \in Users \cup {None}}

NewRequest == [user |-> None, password |-> None, session |-> << >>, peer |-> None]

(* reset forgets every field but the password. *)
Reset(r) == [NewRequest EXCEPT !.password = r.password]

Directions == {"up", "down"}

Init ==
  /\ pool = [o \in Requests |-> 0]
  /\ object = [o \in Requests |-> NewRequest]
  /\ req = [g \in Goroutines |-> None]
  /\ at = [g \in Goroutines |-> "idle"]
  /\ own = [c \in Calls |-> None]
  /\ stream = [g \in Goroutines |-> "none"]
  /\ target = [g \in Goroutines |-> None]
  /\ copying = [c \in Calls |-> {}]
  /\ bill = [c \in Calls |-> {}]
  /\ requests = [a \in Addrs |-> None]
  /\ exchanges = {}
  /\ key = [d \in Datagrams |-> None]
  /\ overdue = {}

-----------------------------------------------------------------------------
(* What the actions are made of. *)

Referenced(o) ==
  \/ pool[o] > 0
  \/ \E g \in Goroutines : req[g] = o
  \/ \E a \in Addrs : requests[a] = o

Goto(g, l) == at' = [at EXCEPT ![g] = l]

(* AcquireRequest: an object of the pool, or a new one. *)
Acquire(g, o) ==
  /\ pool[o] > 0 \/ ~Referenced(o)
  /\ ReuseOverdue \/ o \notin overdue
  /\ pool' = [pool EXCEPT ![o] = IF @ > 0 THEN @ - 1 ELSE 0]
  /\ req' = [req EXCEPT ![g] = o]
  /\ stream' = [stream EXCEPT ![g] = "none"]
  /\ UNCHANGED <<object, overdue, target>>

(* ReleaseRequest: the object, with fields r, is reset and put in the pool. *)
ReleaseAs(g, r) ==
  LET o == req[g]
  IN  /\ pool' = [pool EXCEPT ![o] = @ + 1]
      /\ object' = [object EXCEPT ![o] = Reset(r)]
      /\ req' = [req EXCEPT ![g] = None]
      /\ overdue' = IF \E f \in Goroutines \ {g} : req[f] = o
                      THEN overdue \cup {o} ELSE overdue

Release(g) == ReleaseAs(g, object[req[g]])

(* An object that nothing refers to any more is garbage; the next that is  *)
(* created may take its name.                                              *)
CollectGarbage ==
  /\ object' = [o \in Requests |-> IF Referenced(o)' THEN object[o] ELSE NewRequest]
  /\ overdue' = {o \in overdue : Referenced(o)'}

(* Goroutine g returns without releasing its object. *)
Drop(g) ==
  /\ req' = [req EXCEPT ![g] = None]
  /\ UNCHANGED pool
  /\ CollectGarbage

Keep == UNCHANGED <<pool, object, req, overdue>>

SetFields(g, fields) ==
  /\ object' = [object EXCEPT ![req[g]] = fields]
  /\ UNCHANGED <<pool, req, overdue>>

(* The streams that are open when goroutine g closes its own and           *)
(* disconnects the peers ps.                                               *)
Closing(g, closed, ps) ==
  [f \in Goroutines |->
     IF stream[f] = "open" /\ (target[f] \in ps \/ (f = g /\ closed))
       THEN "closed" ELSE stream[f]]

(* Goroutine g returns, after it has closed its stream or disconnected ps. *)
ReturnWith(g, closed, ps) ==
  LET after == Closing(g, closed, ps)
  IN  /\ Goto(g, "idle")
      /\ stream' = [after EXCEPT ![g] = IF @ = "open" THEN "left" ELSE "none"]
      /\ target' = [target EXCEPT ![g] = None]

ForgetCall(c) ==
  /\ own' = [own EXCEPT ![c] = None]
  /\ copying' = [copying EXCEPT ![c] = {}]
  /\ bill' = [bill EXCEPT ![c] = {}]

CallReturns(c, closed, ps) ==
  ReturnWith(c, closed, ps) /\ ForgetCall(c) /\ UNCHANGED udpVars

DatagramReturns(d, closed) ==
  /\ ReturnWith(d, closed, {})
  /\ key' = [key EXCEPT ![d] = None]

(* The call names its account, with its node, to the accountant. *)
Bill(c) ==
  bill' = [bill EXCEPT ![c] = @ \cup {<<object[req[c]].user, object[req[c]].peer>>}]

Disconnected(c) == {object[req[c]].peer} \ {None}

-----------------------------------------------------------------------------
(* HTTP: httpProxyHandler *)

AcceptHTTP(c, o, u) ==
  /\ at[c] = "idle"
  /\ Acquire(c, o)
  /\ own' = [own EXCEPT ![c] = u]
  /\ Goto(c, "parse")
  /\ UNCHANGED <<copying, bill, udpVars>>

(* Mutant of ParseHTTP: the username is parsed before the password is stored. *)
ParseHTTPFirst(c) ==
  LET o == req[c]
  IN  /\ at[c] = "parse"
      /\ \E s \in {<< >>, Digest(object[o].password)} :
           SetFields(c, [object[o] EXCEPT !.password = own[c], !.session = s])
      /\ Goto(c, "auth")
      /\ UNCHANGED <<streamVars, callVars, udpVars>>

(* parseRequest: the password is stored before the username is parsed,     *)
(* which may name a session or not.                                        *)
ParseHTTP(c) ==
  LET o == req[c]
  IN  /\ at[c] = "parse"
      /\ \E s \in {<< >>, Digest(own[c])} :
           SetFields(c, [object[o] EXCEPT !.password = own[c], !.session = s])
      /\ Goto(c, "auth")
      /\ UNCHANGED <<streamVars, callVars, udpVars>>

(* No credentials, or a username that is no good. *)
RefuseHTTP(c) ==
  /\ at[c] = "parse"
  /\ \E p \in {object[req[c]].password, own[c]} :
       ReleaseAs(c, [object[req[c]] EXCEPT !.password = p])
  /\ CallReturns(c, FALSE, {})

AuthenticateHTTP(c) ==
  /\ at[c] = "auth"
  /\ SetFields(c, [object[req[c]] EXCEPT !.user = object[req[c]].password])
  /\ Goto(c, "route")
  /\ UNCHANGED <<streamVars, callVars, udpVars>>

(* Authenticate or Route fails: the request is released. *)
Reject(c) ==
  /\ at[c] \in {"auth", "route"}
  /\ Release(c)
  /\ CallReturns(c, FALSE, {})

Route(c, n) ==
  /\ at[c] = "route"
  /\ SetFields(c, [object[req[c]] EXCEPT !.peer = n])
  /\ Goto(c, IF c \in HTTPCalls THEN "dial" ELSE "request")
  /\ UNCHANGED <<streamVars, callVars, udpVars>>

-----------------------------------------------------------------------------
(* Dialing, for both services *)

Open(g, l) ==
  /\ object[req[g]].peer # None
  /\ stream' = [stream EXCEPT ![g] = "open"]
  /\ target' = [target EXCEPT ![g] = object[req[g]].peer]
  /\ Goto(g, l)

(* Dial and SetService; the HTTP service then looks at the method. *)
Dial(c) ==
  /\ at[c] = "dial"
  /\ \E l \in IF c \in HTTPCalls THEN {"connect", "writeRequest"} ELSE {"forward"} : Open(c, l)
  /\ Keep /\ UNCHANGED <<callVars, udpVars>>

(* Dial fails: only the HTTP service disconnects the node.  SetService     *)
(* fails: the stream is closed at once.                                    *)
DialFails(c) ==
  /\ at[c] = "dial"
  /\ Release(c)
  /\ \E ps \in {{}, Disconnected(c)} : (c \in SOCKSCalls => ps = {}) /\ CallReturns(c, FALSE, ps)

-----------------------------------------------------------------------------
(* CONNECT: serveHTTPS.  The accountant's Decrement never fails.           *)

WriteHeader(c) ==
  /\ at[c] = "connect"
  /\ stream[c] = "open"
  /\ Bill(c)
  /\ Goto(c, "readHeader")
  /\ Keep /\ UNCHANGED <<streamVars, own, copying, udpVars>>

(* Writing the request or reading the answer fails: the node goes. *)
HeaderFails(c) ==
  /\ at[c] \in {"connect", "readHeader"}
  /\ Release(c)
  /\ CallReturns(c, FALSE, Disconnected(c))

(* The answer is not 200: the stream stays as it is. *)
BadStatus(c) ==
  /\ at[c] = "readHeader"
  /\ stream[c] = "open"
  /\ Release(c)
  /\ CallReturns(c, FALSE, {})

(* It is: fasthttp answers the client and runs the hijack handler ... *)
Hijack(c) ==
  /\ at[c] = "readHeader"
  /\ stream[c] = "open"
  /\ copying' = [copying EXCEPT ![c] = Directions]
  /\ Goto(c, "copy")
  /\ Keep /\ UNCHANGED <<streamVars, own, bill, udpVars>>

(* ... or cannot, or closes the connection: the handler never runs. *)
NotHijacked(c) ==
  /\ at[c] = "readHeader"
  /\ stream[c] = "open"
  /\ CallReturns(c, FALSE, {})
  /\ Drop(c)

-----------------------------------------------------------------------------
(* The two Transfers of CONNECT and of SOCKS5 (module Accounting has their *)
(* loops): each reads the request when it starts; the one from the node    *)
(* closes the stream when it ends.                                         *)

Transfer(c, t) ==
  /\ at[c] = "copy" /\ t \in copying[c]
  /\ copying' = [copying EXCEPT ![c] = @ \ {t}]
  /\ stream' = IF t = "down" THEN [stream EXCEPT ![c] = "closed"] ELSE stream
  /\ Bill(c)
  /\ Keep /\ UNCHANGED <<at, target, own, udpVars>>

(* Both are over: serveHTTPS releases the request, handleTCP forgets it. *)
Copied(c) ==
  /\ at[c] = "copy"
  /\ copying[c] = {}
  /\ CallReturns(c, FALSE, {})
  /\ IF c \in HTTPCalls THEN Release(c) ELSE Drop(c)

-----------------------------------------------------------------------------
(* Plain HTTP: serveHTTP.  Neither the write nor the read has a deadline.  *)

WriteRequest(c) ==
  /\ at[c] = "writeRequest"
  /\ stream[c] = "open"
  /\ Goto(c, "readResponse")
  /\ Keep /\ UNCHANGED <<streamVars, callVars, udpVars>>

(* Mutant of WriteFails: the error path releases the request as others do. *)
WriteFailsReleases(c) ==
  /\ at[c] = "writeRequest"
  /\ pool' = [pool EXCEPT ![req[c]] = @ + 1]
  /\ Goto(c, "release")
  /\ UNCHANGED <<object, req, overdue, streamVars, callVars, udpVars>>

WriteFails(c) ==
  /\ at[c] = "writeRequest"
  /\ Goto(c, "release")
  /\ Keep /\ UNCHANGED <<streamVars, callVars, udpVars>>

ReadResponse(c) ==
  /\ at[c] = "readResponse"
  /\ stream[c] = "open"
  /\ Bill(c)
  /\ Goto(c, "release")
  /\ Keep /\ UNCHANGED <<streamVars, own, copying, udpVars>>

ReadFails(c) ==
  /\ at[c] = "readResponse"
  /\ stream' = Closing(c, FALSE, Disconnected(c))
  /\ Goto(c, "release")
  /\ Keep /\ UNCHANGED <<target, callVars, udpVars>>

(* The deferred function releases the request and closes the stream. *)
Deferred(c) ==
  /\ at[c] = "release"
  /\ Release(c)
  /\ CallReturns(c, TRUE, {})

-----------------------------------------------------------------------------
(* SOCKS5: Serve, negotiate, handleTCP, handleUDP *)

AcceptSOCKS(c, o, u) ==
  /\ at[c] = "idle"
  /\ Acquire(c, o)
  /\ own' = [own EXCEPT ![c] = u]
  /\ Goto(c, "negotiate")
  /\ UNCHANGED <<copying, bill, udpVars>>

(* Mutant of AuthenticateSOCKS: as the HTTP service, by the request. *)
AuthenticateSOCKSByRequest(c) ==
  /\ at[c] = "negotiate"
  /\ SetFields(c, [object[req[c]] EXCEPT !.user = object[req[c]].password])
  /\ Goto(c, "username")
  /\ UNCHANGED <<streamVars, callVars, udpVars>>

AuthenticateSOCKS(c) ==
  /\ at[c] = "negotiate"
  /\ SetFields(c, [object[req[c]] EXCEPT !.user = own[c]])
  /\ Goto(c, "username")
  /\ UNCHANGED <<streamVars, callVars, udpVars>>

(* The digest takes the password of the request, which nothing here sets. *)
ParseSOCKS(c) ==
  LET o == req[c]
  IN  /\ at[c] = "username"
      /\ \E s \in {<< >>, Digest(object[o].password)} :
           SetFields(c, [object[o] EXCEPT !.session = s])
      /\ Goto(c, "route")
      /\ UNCHANGED <<streamVars, callVars, udpVars>>

(* negotiate or NewRequestFrom fails, or the command is not served. *)
RefuseSOCKS(c) ==
  /\ at[c] \in {"negotiate", "username", "request"}
  /\ Release(c)
  /\ CallReturns(c, FALSE, {})

Connect(c) ==
  /\ at[c] = "request"
  /\ Goto(c, "dial")
  /\ Keep /\ UNCHANGED <<streamVars, callVars, udpVars>>

(* The request is left to the datagrams of address a.  (Bound: one that is *)
(* overdue is not associated again, or the pool would grow.)               *)
Associate(c, a) ==
  /\ at[c] = "request"
  /\ req[c] \notin overdue
  /\ requests' = [requests EXCEPT ![a] = req[c]]
  /\ Drop(c)
  /\ ReturnWith(c, FALSE, {}) /\ ForgetCall(c)
  /\ UNCHANGED <<exchanges, key>>

Forward(c) ==
  /\ at[c] = "forward"
  /\ stream[c] = "open"
  /\ copying' = [copying EXCEPT ![c] = Directions]
  /\ Goto(c, "copy")
  /\ Keep /\ UNCHANGED <<streamVars, own, bill, udpVars>>

(* Mutant of ForwardFails: the stream is not closed. *)
ForwardFailsOpen(c) ==
  /\ at[c] = "forward"
  /\ Release(c)
  /\ CallReturns(c, FALSE, {})

ForwardFails(c) ==
  /\ at[c] = "forward"
  /\ Release(c)
  /\ CallReturns(c, TRUE, {})

-----------------------------------------------------------------------------
(* UDP: UDPHandle.  The datagrams of an address share its request.  What   *)
(* they carry goes past the node, whose stream is opened all the same, and *)
(* past the accountant.                                                    *)

Lookup(d, a, x) ==
  /\ at[d] = "idle"
  /\ requests[a] # None
  /\ req' = [req EXCEPT ![d] = requests[a]]
  /\ key' = [key EXCEPT ![d] = <<a, x>>]
  /\ stream' = [stream EXCEPT ![d] = "none"]
  /\ Goto(d, "dial")
  /\ UNCHANGED <<pool, object, overdue, target, callVars, requests, exchanges>>

DialUDP(d) ==
  /\ at[d] = "dial"
  /\ Open(d, "exchange")
  /\ Keep /\ UNCHANGED <<callVars, udpVars>>

(* Dial or SetService fails: neither association nor request is let go. *)
DialUDPFails(d) ==
  /\ at[d] = "dial"
  /\ DatagramReturns(d, FALSE)
  /\ UNCHANGED <<callVars, requests, exchanges>>
  /\ Drop(d)

(* There is an exchange already: the datagram is sent, or not, through it. *)
SendThrough(d) ==
  /\ at[d] = "exchange"
  /\ key[d] \in exchanges
  /\ DatagramReturns(d, FALSE)
  /\ UNCHANGED <<callVars, requests, exchanges>>
  /\ Drop(d)

(* There is none: a new one is dialled ... *)
NewExchange(d) ==
  /\ at[d] = "exchange"
  /\ key[d] \notin exchanges
  /\ Goto(d, "send") \/ Goto(d, "delete")
  /\ Keep /\ UNCHANGED <<streamVars, callVars, udpVars>>

(* ... and known to others once the datagram is sent. *)
Send(d) ==
  /\ at[d] = "send"
  /\ exchanges' = exchanges \cup {key[d]}
  /\ Goto(d, "relay")
  /\ Keep /\ UNCHANGED <<streamVars, callVars, requests, key>>

SendFails(d) ==
  /\ at[d] = "send"
  /\ Goto(d, "delete")
  /\ Keep /\ UNCHANGED <<streamVars, callVars, udpVars>>

RelayEnds(d) ==
  /\ at[d] = "relay"
  /\ exchanges' = exchanges \ {key[d]}
  /\ Goto(d, "delete")
  /\ Keep /\ UNCHANGED <<streamVars, callVars, requests, key>>

(* onReturn: the association goes, whoever's it is by now, ... *)
DeleteAssociation(d) ==
  /\ at[d] = "delete"
  /\ requests' = [requests EXCEPT ![key[d][1]] = None]
  /\ Goto(d, "releaseUDP")
  /\ UNCHANGED <<pool, req>> /\ CollectGarbage
  /\ UNCHANGED <<streamVars, callVars, exchanges, key>>

(* ... and the request, whoever else holds it; the stream is closed. *)
ReleaseUDP(d) ==
  /\ at[d] = "releaseUDP"
  /\ Release(d)
  /\ DatagramReturns(d, TRUE)
  /\ UNCHANGED <<callVars, requests, exchanges>>

-----------------------------------------------------------------------------
(* sync.Pool lets go of an object it holds (external). *)
Collect(o) ==
  /\ pool[o] > 0
  /\ pool' = [pool EXCEPT ![o] = @ - 1]
  /\ UNCHANGED <<req, at, streamVars, callVars, udpVars>>
  /\ CollectGarbage

HTTPStep(c) ==
  \/ \E o \in Requests, u \in Users : AcceptHTTP(c, o, u)
  \/ ParseHTTP(c) \/ RefuseHTTP(c) \/ AuthenticateHTTP(c)
  \/ WriteHeader(c) \/ HeaderFails(c) \/ BadStatus(c) \/ Hijack(c) \/ NotHijacked(c)
  \/ WriteRequest(c) \/ WriteFails(c) \/ ReadResponse(c) \/ ReadFails(c) \/ Deferred(c)

SOCKSStep(c) ==
  \/ \E o \in Requests, u \in Users : AcceptSOCKS(c, o, u)
  \/ AuthenticateSOCKS(c) \/ ParseSOCKS(c) \/ RefuseSOCKS(c) \/ Connect(c)
  \/ \E a \in Addrs : Associate(c, a)
  \/ Forward(c) \/ ForwardFails(c)

CallStep(c) ==
  \/ Reject(c) \/ \E n \in Peers : Route(c, n)
  \/ Dial(c) \/ DialFails(c)
  \/ \E t \in Directions : Transfer(c, t)
  \/ Copied(c)

DatagramStep(d) ==
  \/ \E a \in Addrs, x \in Dsts : Lookup(d, a, x)
  \/ DialUDP(d) \/ DialUDPFails(d) \/ SendThrough(d) \/ NewExchange(d)
  \/ Send(d) \/ SendFails(d) \/ RelayEnds(d)
  \/ DeleteAssociation(d) \/ ReleaseUDP(d)

Next ==
  \/ \E c \in HTTPCalls : HTTPStep(c)
  \/ \E c \in SOCKSCalls : SOCKSStep(c)
  \/ \E c \in Calls : CallStep(c)
  \/ \E d \in Datagrams : DatagramStep(d)
  \/ \E o \in Requests : Collect(o)

Spec == Init /\ [][Next]_vars

-----------------------------------------------------------------------------
(* Properties *)

(* Type correctness: every variable of requests stays in its type. *)
TypeOK ==
  /\ pool \in [Requests -> Nat]
  /\ object \in [Requests -> [user : Users \cup {None}, password : Users \cup {None},
                              session : Sessions, peer : Peers \cup {None}]]
  /\ req \in [Goroutines -> Requests \cup {None}]
  /\ at \in [Goroutines -> Locations]
  /\ own \in [Calls -> Users \cup {None}]
  /\ stream \in [Goroutines -> {"none", "open", "closed", "left"}]
  /\ target \in [Goroutines -> Peers \cup {None}]
  /\ copying \in [Calls -> SUBSET Directions]
  /\ bill \in [Calls -> SUBSET ((Users \cup {None}) \X (Peers \cup {None}))]
  /\ requests \in [Addrs -> Requests \cup {None}]
  /\ exchanges \subseteq Addrs \X Dsts
  /\ key \in [Datagrams -> (Addrs \X Dsts) \cup {None}]
  /\ overdue \subseteq Requests

(* A pooled request is nobody's: the next goroutine that acquires it has   *)
(* it to itself (utils.go, AcquireRequest and ReleaseRequest), unless one  *)
(* datagram of an association has released it while another held it.       *)
PooledIsFree ==
  \A o \in Requests \ overdue :
    pool[o] > 0 =>
      /\ pool[o] = 1
      /\ \A g \in Goroutines : req[g] # o
      /\ \A a \in Addrs : requests[a] # o

(* A call has its request to itself until it leaves it to the datagrams of *)
(* an address (service_proxy_socks5.go:203), with the same exception.      *)
CallsHoldAlone ==
  \A c \in Calls : req[c] \in Requests \ overdue =>
    /\ \A g \in Goroutines \ {c} : req[g] # req[c]
    /\ \A a \in Addrs : requests[a] # req[c]

(* A request is the pool's, one call's, or the association's              *)
(* (utils.go; service_proxy_http.go; service_proxy_socks5.go).             *)
RequestsAreOwn == PooledIsFree /\ CallsHoldAlone

(* Traffic is put to the account of the user at the other end and of the   *)
(* node that carries it (the Transfer and Decrement calls of both          *)
(* services), with the same exception.                                     *)
BilledToClient ==
  \A c \in Calls : req[c] \in overdue \/ bill[c] \subseteq {<<own[c], target[c]>>}

(* The session an HTTP client asks for is its own: it is derived from its  *)
(* own password (username.go:146-171), with the same exception.            *)
SessionsAreOwn ==
  \A c \in HTTPCalls :
    at[c] \in {"auth", "route"} /\ req[c] \notin overdue =>
      object[req[c]].session \in {<< >>, Digest(own[c])}

(* A goroutine that returns has closed its stream or disconnected its      *)
(* node.  Three paths do neither: a bad status (service_proxy_http.go:229),*)
(* a hijack handler that never runs, and a datagram of an exchange that    *)
(* exists (service_proxy_socks5.go:364).                                   *)
StreamsEnd ==
  [][\A g \in Goroutines :
       stream'[g] = "left" /\ stream[g] # "left" =>
         at[g] \in {"readHeader", "exchange"} \/ req[g] \in overdue]_vars

(* Two SOCKS5 clients that give one username and one password have one     *)
(* session (src/README.md:30): the session id says who asks for what.      *)
SessionIsSticky ==
  \A c, d \in SOCKSCalls :
    /\ at[c] = "route" /\ at[d] = "route" /\ own[c] = own[d]
    /\ object[req[c]].session # << >> /\ object[req[d]].session # << >>
    => object[req[c]].session = object[req[d]].session
=============================================================================
