------------------------------- MODULE Routing -------------------------------
(***************************************************************************)
(* Registration and the router together: the nodes that ServiceAuth adds   *)
(* and removes are those that the proxy's requests are routed to, dial and *)
(* disconnect.                                                             *)
(*                                                                         *)
(* Registry sees Add and Remove of the router as one step each, and leaves *)
(* open which node a request is given; Router leaves open who adds and     *)
(* removes, and when.  Here a goroutine that calls Remove (the handler of  *)
(* an event, or a request whose dial has failed) goes on only when all its *)
(* steps are done, while others add, remove, route and dial; and a request *)
(* is a Route call, then a dial of the node that it returned.  An action   *)
(* is an action of one of the two modules, or of both at once.             *)
(***************************************************************************)
EXTENDS Registry, Router

(* Each goroutine that calls Remove makes one call at a time. *)
ASSUME RoutingAssumption == Removers = Handlers \cup Requests

routingVars == <<registryVars, routerVars>>

RoutingInit == RegistryInit /\ RouterInit

(* The goroutine g is not in a call of Remove. *)
NotRemoving(g) == rpc[g] = "idle"

-----------------------------------------------------------------------------
(* Serve and the goroutines it starts.  The first DELETE of Remove is the  *)
(* step in which Registry takes the node from the table.                   *)

ServeEvent(h) == NotRemoving(h) /\ Serve(h) /\ UNCHANGED routerVars

(* The steps of OnConnect that do not write to the router. *)
OnConnectGoesOn(h) ==
  \/ Conns(h) \/ ConnsFails(h)
  \/ GetByIPNone(h) \/ \E n \in nodes : GetByIPFound(h, n)
  \/ ReplaceClose(h) \/ ReplaceFails(h)
  \/ Authorise(h) \/ AuthoriseFails(h)
  \/ AddSkipped(h)

Handle(h) ==
  /\ NotRemoving(h)
  /\ \/ OnConnectGoesOn(h) /\ UNCHANGED routerVars
     \/ ReplaceRemove(h) /\ RemoveNode(h, dup[h])
     \/ AddNode(h) /\ Add(peer[h])
     \/ OnDisconnect(h) /\ RemoveNode(h, peer[h])

-----------------------------------------------------------------------------
(* A request of the proxy *)

(* Route has returned a node, or an error, or goes on. *)
Returned(d) ==
  IF pc'[d] = "idle" /\ picked'[d] # None THEN Routed(d, picked'[d])
                                          ELSE UNCHANGED registryVars

Route(d) ==
  /\ NotRemoving(d) /\ dialer[d] = "free"
  /\ RouteStart(d) \/ RouteCached(d) \/ RouteStep(d)
  /\ Returned(d)

(* DialSucceeds is also the end of a request that has disconnected nobody. *)
Dial(d) ==
  /\ NotRemoving(d)
  /\ \/ (DialSucceeds(d) \/ DialerClose(d)) /\ UNCHANGED routerVars
     \/ DialerRemove(d) /\ RemoveNode(d, dialed[d])

-----------------------------------------------------------------------------
RoutingNext ==
  \/ \E p \in Peers : (Connect(p) \/ Drop(p)) /\ UNCHANGED routerVars
  \/ \E h \in Handlers : ServeEvent(h) \/ Handle(h)
  \/ \E d \in Requests : Route(d) \/ Dial(d)
  \/ \E d \in Requests : ExpireStep(d) /\ UNCHANGED registryVars
  \/ \E g \in Removers : RemoveStep(g) /\ UNCHANGED registryVars
  \/ ((\E s \in Sessions : Evict(s)) \/ PoolWrite) /\ UNCHANGED registryVars

RoutingSpec == RoutingInit /\ [][RoutingNext]_routingVars

-----------------------------------------------------------------------------
(* Properties *)

(* No request dials a peer without a key: not by the table, and not by a   *)
(* session that was cached when the table was another.                     *)
RoutedIsAuthorised ==
  /\ nodes \subseteq Valid
  /\ \A s \in Sessions : sessions[s] # None => sessions[s] \in Valid
  /\ \A d \in Requests : dialer[d] # "free" => dialed[d] \in Valid

(* The removal of p has been lost on the request d: it, or a call that     *)
(* bound its session, held p while p was removed.                          *)
Overtakes(p, d) ==
  \E r \in overtaken :
    /\ picked[r] = p
    /\ r = d \/ (SessionID[r] = SessionID[d] /\ job[r] = "pending")

(* A request is given a node that is listed and connected, except in four  *)
(* races: the node's OnDisconnect is still to come; the node was added     *)
(* when its OnDisconnect was over; it is being removed, or its session is  *)
(* expiring, at this moment; or the Route call that picked it overlapped   *)
(* its removal.  (Route looks at neither the table nor the host again: it  *)
(* relies on Remove to find every session of the node.)                    *)
RoutedIsReachable ==
  [][\A d \in Requests : dialer[d] = "free" /\ dialer'[d] = "routed" =>
       LET p == dialed'[d] IN
       IF p \in nodes
       THEN p \in connected \/ DisconnectDue(p) \/ p \in late
       ELSE BeingRemoved(p) \/ Expiring(SessionID[d]) \/ Overtakes(p, d)]_routingVars
=============================================================================
