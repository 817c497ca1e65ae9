------------------------------ MODULE Registry ------------------------------
(***************************************************************************)
(* Registration of nodes: ServiceAuth (src/pkg/service_auth.go), the       *)
(* libp2p host that feeds it, and the one other place that disconnects a   *)
(* node, Dialer.Disconnect (src/pkg/dialer.go).                            *)
(*                                                                         *)
(* The host keeps connections and emits an event when a peer becomes       *)
(* connected or stops being so.  Serve takes the events in order but       *)
(* starts a goroutine for each, so OnConnect and OnDisconnect of one peer  *)
(* run concurrently and in any order, and every call to the network, Redis *)
(* or the router is a point where others run.                              *)
(*                                                                         *)
(* The router is seen through its nodes table only (module Router has the  *)
(* rest, and Routing composes the two): Add, Remove and GetByIP are atomic *)
(* here.                                                                   *)
(***************************************************************************)
EXTENDS Naturals, Sequences, FiniteSets, Nodes

CONSTANTS
  IP,         \* IP[p]: the address of p's connections; None if it has none
  IPv4,       \* those addresses that are IPv4
  Valid,      \* the peers that present a key the Auth service accepts
  Handlers,   \* goroutines Serve has started and that have not returned (bound)
  MaxEvents   \* events that wait when a peer comes or goes by itself (bound)

ASSUME RegistryAssumption ==
  /\ None \notin Peers
  /\ IPv4 \subseteq {IP[p] : p \in Peers} \ {None}
  /\ Valid \subseteq Peers
  /\ MaxEvents \in Nat \ {0}

VARIABLES
  connected,  \* the host has a connection to these peers
  events,     \* subscription.Out()
  at,         \* what each handler is about to do
  peer,       \* its pid
  dup,        \* the node it found under its address
  dialer,     \* where each proxy request is
  dialed,     \* and the node it was given
  late        \* history: peers added when their OnDisconnect was over, and
              \* not connected or removed since

hostVars == <<connected, events>>
handlerVars == <<at, peer, dup>>
dialerVars == <<dialer, dialed>>
registryVars == <<connected, events, nodes, at, peer, dup, dialer, dialed, late>>

Event(p, c) == [peer |-> p, connected |-> c]

RegistryInit ==
  /\ connected = {}
  /\ events = << >>
  /\ nodes = {}
  /\ at = [h \in Handlers |-> "free"]
  /\ peer = [h \in Handlers |-> None]
  /\ dup = [h \in Handlers |-> None]
  /\ dialer = [d \in Requests |-> "free"]
  /\ dialed = [d \in Requests |-> None]
  /\ late = {}

(* router.Add and router.Remove.  An OnDisconnect of p is due while its    *)
(* event waits or its goroutine has yet to run: a p that is added after    *)
(* its connection and that OnDisconnect have gone is late.                 *)
DisconnectDue(p) ==
  \/ \E i \in 1 .. Len(events) : events[i] = Event(p, FALSE)
  \/ \E h \in Handlers : at[h] = "onDisconnect" /\ peer[h] = p

List(p) ==
  /\ nodes' = nodes \cup {p}
  /\ late' = IF p \in connected \/ DisconnectDue(p) THEN late ELSE late \cup {p}

Unlist(p) ==
  /\ nodes' = nodes \ {p}
  /\ late' = late \ {p}

-----------------------------------------------------------------------------
(* The host (external).  MaxEvents bounds the peers that come and go. *)

Room == Len(events) < MaxEvents

Connect(p) ==
  /\ p \notin connected /\ Room
  /\ connected' = connected \cup {p}
  /\ events' = Append(events, Event(p, TRUE))
  /\ late' = late \ {p}
  /\ UNCHANGED <<nodes, handlerVars, dialerVars>>

(* The node goes away by itself. *)
Drop(p) ==
  /\ p \in connected /\ Room
  /\ connected' = connected \ {p}
  /\ events' = Append(events, Event(p, FALSE))
  /\ UNCHANGED <<nodes, handlerVars, dialerVars, late>>

(* Peerstore().RemovePeer and Network().ClosePeer: nothing happens, and    *)
(* no event is emitted, if the peer has no connection.                     *)
ClosePeer(p) ==
  IF p \in connected
  THEN /\ connected' = connected \ {p}
       /\ events' = Append(events, Event(p, FALSE))
  ELSE UNCHANGED hostVars

-----------------------------------------------------------------------------
(* Serve: one goroutine per event *)

(* Mutant of Serve: the case of NotConnected is missing. *)
ServeConnectedOnly(h) ==
  /\ events # << >>
  /\ at[h] = "free"
  /\ events' = Tail(events)
  /\ IF Head(events).connected
     THEN /\ at' = [at EXCEPT ![h] = "conns"]
          /\ peer' = [peer EXCEPT ![h] = Head(events).peer]
     ELSE UNCHANGED <<at, peer>>
  /\ UNCHANGED <<connected, nodes, dup, dialerVars, late>>

(* OnConnect or OnDisconnect starts, in a goroutine of its own. *)
Serve(h) ==
  /\ events # << >>
  /\ at[h] = "free"
  /\ events' = Tail(events)
  /\ at' = [at EXCEPT ![h] = IF Head(events).connected THEN "conns" ELSE "onDisconnect"]
  /\ peer' = [peer EXCEPT ![h] = Head(events).peer]
  /\ UNCHANGED <<connected, nodes, dup, dialerVars, late>>

Continue(h, l) == at' = [at EXCEPT ![h] = l] /\ UNCHANGED <<peer, dup>>

(* The goroutine returns. *)
Return(h) ==
  /\ at' = [at EXCEPT ![h] = "free"]
  /\ peer' = [peer EXCEPT ![h] = None]
  /\ dup' = [dup EXCEPT ![h] = None]

(* disconnect(s.host, pid); return *)
Reject(h) ==
  /\ ClosePeer(peer[h])
  /\ Return(h)
  /\ UNCHANGED <<nodes, dialerVars, late>>

(* ConnsToPeer and the address of the connection *)
Conns(h) ==
  /\ at[h] = "conns"
  /\ peer[h] \in connected /\ IP[peer[h]] # None
  /\ Continue(h, "getByIP")
  /\ UNCHANGED <<hostVars, nodes, dialerVars, late>>

ConnsFails(h) ==
  /\ at[h] = "conns"
  /\ peer[h] \notin connected \/ IP[peer[h]] = None
  /\ Reject(h)

(* GetByIP looks in the ipv4 column only; the row may be pid's own. *)
SameIP(h) == {n \in nodes : IP[n] = IP[peer[h]] /\ IP[n] \in IPv4}

GetByIPNone(h) ==
  /\ at[h] = "getByIP"
  /\ SameIP(h) = {}
  /\ Continue(h, "authorise")
  /\ UNCHANGED <<hostVars, nodes, dialerVars, late>>

(* The address is taken: the node that has it is disconnected ... *)
GetByIPFound(h, n) ==
  /\ at[h] = "getByIP"
  /\ n \in SameIP(h)
  /\ at' = [at EXCEPT ![h] = "replace"]
  /\ dup' = [dup EXCEPT ![h] = n]
  /\ UNCHANGED <<hostVars, nodes, peer, dialerVars, late>>

ReplaceClose(h) ==
  /\ at[h] = "replace"
  /\ ClosePeer(dup[h])
  /\ Continue(h, "replaceRemove")
  /\ UNCHANGED <<nodes, dialerVars, late>>

(* ... and removed from the router. *)
ReplaceRemove(h) ==
  /\ at[h] = "replaceRemove"
  /\ Unlist(dup[h])
  /\ Continue(h, "authorise")
  /\ UNCHANGED <<hostVars, dialerVars>>

(* Remove fails: pid is left connected and is not looked at again. *)
ReplaceFails(h) ==
  /\ at[h] = "replaceRemove"
  /\ Return(h)
  /\ UNCHANGED <<hostVars, nodes, dialerVars, late>>

(* Mutant of Authorise: the error of Authenticate is not looked at. *)
AuthoriseAnyone(h) ==
  /\ at[h] = "authorise"
  /\ peer[h] \in connected
  /\ Continue(h, "add")
  /\ UNCHANGED <<hostVars, nodes, dialerVars, late>>

(* NewStream to Write(ok): the node has been told it is authorised. *)
Authorise(h) ==
  /\ at[h] = "authorise"
  /\ peer[h] \in connected /\ peer[h] \in Valid
  /\ Continue(h, "add")
  /\ UNCHANGED <<hostVars, nodes, dialerVars, late>>

(* No stream, no or a bad message, a key that is not accepted, no answer: *)
(* unauthorized(stream, pid); disconnect(s.host, pid).                     *)
AuthoriseFails(h) ==
  /\ at[h] = "authorise"
  /\ Reject(h)

(* stream.Close, LookupIP or Add fails: the goroutine returns, and leaves  *)
(* the node connected.                                                     *)
AddSkipped(h) ==
  /\ at[h] = "add"
  /\ Return(h)
  /\ UNCHANGED <<hostVars, nodes, dialerVars, late>>

(* router.Add, whatever has become of the connection. *)
AddNode(h) ==
  /\ at[h] = "add"
  /\ List(peer[h])
  /\ Return(h)
  /\ UNCHANGED <<hostVars, dialerVars>>

(* Mutant of OnDisconnect: the call of Remove is missing. *)
OnDisconnectKeepsNode(h) ==
  /\ at[h] = "onDisconnect"
  /\ Return(h)
  /\ UNCHANGED <<hostVars, nodes, dialerVars, late>>

(* OnDisconnect: router.Remove, whether or not pid has come back. *)
OnDisconnect(h) ==
  /\ at[h] = "onDisconnect"
  /\ Unlist(peer[h])
  /\ Return(h)
  /\ UNCHANGED <<hostVars, dialerVars>>

-----------------------------------------------------------------------------
(* A proxy request: Route has returned p.  Which peers it may return is    *)
(* left open here (a cached session may be bound to one that has gone):    *)
(* see module Routing.  If Dial or the exchange with the node fails, by    *)
(* which time p may have gone or come back, the request calls              *)
(* Dialer.Disconnect.                                                      *)

Routed(d, p) ==
  /\ dialer[d] = "free"
  /\ dialer' = [dialer EXCEPT ![d] = "routed"]
  /\ dialed' = [dialed EXCEPT ![d] = p]
  /\ UNCHANGED <<hostVars, nodes, handlerVars, late>>

DialSucceeds(d) ==
  /\ dialer[d] = "routed"
  /\ dialer' = [dialer EXCEPT ![d] = "free"]
  /\ dialed' = [dialed EXCEPT ![d] = None]
  /\ UNCHANGED <<hostVars, nodes, handlerVars, late>>

DialerClose(d) ==
  /\ dialer[d] = "routed"
  /\ ClosePeer(dialed[d])
  /\ dialer' = [dialer EXCEPT ![d] = "remove"]
  /\ UNCHANGED <<nodes, handlerVars, dialed, late>>

DialerRemove(d) ==
  /\ dialer[d] = "remove"
  /\ Unlist(dialed[d])
  /\ dialer' = [dialer EXCEPT ![d] = "free"]
  /\ dialed' = [dialed EXCEPT ![d] = None]
  /\ UNCHANGED <<hostVars, handlerVars>>

-----------------------------------------------------------------------------
HandlerStep(h) ==
  \/ Conns(h) \/ ConnsFails(h)
  \/ GetByIPNone(h) \/ \E n \in nodes : GetByIPFound(h, n)
  \/ ReplaceClose(h) \/ ReplaceRemove(h) \/ ReplaceFails(h)
  \/ Authorise(h) \/ AuthoriseFails(h)
  \/ AddNode(h) \/ AddSkipped(h)
  \/ OnDisconnect(h)

DialerStep(d) == DialSucceeds(d) \/ DialerClose(d) \/ DialerRemove(d)

ServeStep == \E h \in Handlers : Serve(h)

RegistryNext ==
  \/ \E p \in Peers : Connect(p) \/ Drop(p)
  \/ ServeStep
  \/ \E h \in Handlers : HandlerStep(h)
  \/ \E d \in Requests : DialerStep(d) \/ \E p \in Peers : Routed(d, p)

(* Serve and the goroutines it starts run when they can; the network calls *)
(* of OnConnect are taken to return.  Dial is bounded by dialTimeout.      *)
(* Nothing makes peers come or go, or requests arrive.                     *)
RegistryFairness ==
  /\ WF_registryVars(ServeStep)
  /\ \A h \in Handlers : WF_registryVars(HandlerStep(h))
  /\ \A d \in Requests : WF_registryVars(DialerStep(d))

RegistrySpec == RegistryInit /\ [][RegistryNext]_registryVars

FairRegistrySpec == RegistrySpec /\ RegistryFairness

-----------------------------------------------------------------------------
(* Properties *)

(* Every variable has the shape the code gives it, and a goroutine that    *)
(* runs has a peer.                                                        *)
RegistryTypeOK ==
  /\ connected \subseteq Peers
  /\ events \in Seq([peer : Peers, connected : BOOLEAN])
  /\ nodes \subseteq Peers
  /\ at \in [Handlers -> {"free", "conns", "getByIP", "replace", "replaceRemove",
                          "authorise", "add", "onDisconnect"}]
  /\ peer \in [Handlers -> Peers \cup {None}]
  /\ dup \in [Handlers -> Peers \cup {None}]
  /\ dialer \in [Requests -> {"free", "routed", "remove"}]
  /\ dialed \in [Requests -> Peers \cup {None}]
  /\ late \subseteq Peers
  /\ \A h \in Handlers : at[h] # "free" => peer[h] \in Peers
  /\ \A h \in Handlers : at[h] \in {"replace", "replaceRemove"} => dup[h] \in Peers
  /\ \A d \in Requests : dialer[d] # "free" => dialed[d] \in Peers

(* Nobody is routed to without a key, on whatever path it was registered.  *)
OnlyAuthorised == nodes \subseteq Valid

(* A node that is listed and not connected is about to be removed, unless  *)
(* it was added when its OnDisconnect had already run: OnConnect does not  *)
(* look at the connection again before Add, and nothing else keeps a node  *)
(* that has gone.                                                          *)
GhostsAreLate ==
  \A p \in nodes \ connected : DisconnectDue(p) \/ p \in late

(* A node whose connection is gone leaves the table, or comes back, or was *)
(* added too late for its OnDisconnect.                                    *)
DisconnectedLeaves ==
  \A p \in Peers :
    p \in nodes /\ p \notin connected ~> p \notin nodes \/ p \in connected \/ p \in late

(* Serve has handled every event, and every goroutine has returned. *)
Quiet ==
  /\ events = << >>
  /\ \A h \in Handlers : at[h] = "free"
  /\ \A d \in Requests : dialer[d] = "free"

(* The list of nodes is the list of connected nodes, once everything that  *)
(* happened has been handled.                                              *)
NodesAreConnected == Quiet => nodes \subseteq connected
=============================================================================
