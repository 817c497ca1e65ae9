---------------------------- MODULE RoutingProofs ----------------------------
(***************************************************************************)
(* What holds of Router, of Registry, and of the two together, for any     *)
(* number of nodes, sessions, pools, calls, goroutines and events.         *)
(***************************************************************************)
EXTENDS Routing, TLAPS

-----------------------------------------------------------------------------
(* The session cache by itself *)


(* A Route call that has left pick and is still running. *)
Holds(r, p) == pc[r] \notin {"idle", "pick"} /\ picked[r] = p

(* A Route call notices every removal of the node it holds: one that was   *)
(* running when it picked the node, and one that started since.            *)
HoldersAreOvertaken ==
  \A r \in Requests, p \in Peers :
    Holds(r, p) /\ BeingRemoved(p) => r \in overtaken

(* Past the lookup, the node it holds was registered, so it can only be    *)
(* missing if a removal has taken it.                                      *)
GoneIsOvertaken ==
  \A r \in Requests :
    pc[r] \in {"rank", "poolRank", "bind", "insert"} /\ picked[r] \notin nodes
      => r \in overtaken

(* Overtaken, with the job of the binding of s to p still to fire. *)
Excused(r, s, p) ==
  /\ r \in overtaken
  /\ SessionID[r] = s /\ picked[r] = p /\ job[r] = "pending"

(* Once Remove has queried the table, the sessions of its node are those   *)
(* it is going to drop, or are excused.                                    *)
RemoveDropsAll ==
  \A k \in Removers, s \in Sessions :
    rpc[k] \in {"drop", "rows"} /\ sessions[s] = target[k] =>
      \/ rpc[k] = "drop" /\ s \in found[k]
      \/ Expiring(s)
      \/ \E r \in Requests : Excused(r, s, sessions[s])

(* A call that has not bound yet has no job: what a job vouches for does   *)
(* not change under it.                                                    *)
NoJobYet ==
  \A r \in Requests :
    pc[r] \in {"pick", "lookup", "rank", "poolRank", "bind"} => job[r] = "none"

Linked ==
  /\ NoJobYet
  /\ HoldersAreOvertaken
  /\ GoneIsOvertaken
  /\ RemoveDropsAll
  /\ CachedIsIndexed
  /\ OrphansAreRaces

RouterInv == RouterTypeOK /\ CachedHasJob /\ Linked

-----------------------------------------------------------------------------
(* Types *)

LEMMA RouterTypeInit == RouterInit => RouterTypeOK
<1> SUFFICES ASSUME RouterInit  PROVE RouterTypeOK
  OBVIOUS
<1> USE DEF RouterInit
<1>1. /\ nodes \subseteq Peers /\ rows \subseteq Peers \X Sessions
      /\ overtaken \subseteq Requests /\ resetting \in BOOLEAN
  OBVIOUS
<1>2. /\ ranking \in [Peers -> Nat] /\ poolRanking \in [Peers -> Nat]
      /\ poolOf \in [Peers -> PoolNames \cup {None}]
      /\ sessions \in [Sessions -> Peers \cup {None}]
  OBVIOUS
<1>3. /\ job \in [Requests -> {"none", "pending", "firing"}]
      /\ pc \in [Requests -> {"idle", "pick", "lookup", "rank", "poolRank", "bind", "insert"}]
      /\ picked \in [Requests -> Peers \cup {None}]
  OBVIOUS
<1>4. /\ rpc \in [Removers -> {"idle", "pool", "query", "drop", "rows"}]
      /\ target \in [Removers -> Peers \cup {None}]
      /\ found \in [Removers -> SUBSET Sessions]
  OBVIOUS
<1>5. /\ \A r \in Requests : pc[r] = "idle" /\ job[r] = "none"
      /\ \A k \in Removers : rpc[k] = "idle"
  OBVIOUS
<1> QED  BY <1>1, <1>2, <1>3, <1>4, <1>5 DEF RouterTypeOK

LEMMA TypeRoute ==
  ASSUME RouterTypeOK, NEW r \in Requests, RouteCached(r) \/ RouteStart(r) \/ RouteStep(r)
  PROVE  RouterTypeOK'
<1>1. CASE RouteCached(r)
  BY <1>1, RouterAssumption DEF RouterTypeOK, RouteCached, Sticky, storeVars, sessionVars, removeVars
<1>2. CASE RouteStart(r)
  BY <1>2 DEF RouterTypeOK, RouteStart, Goto, storeVars, sessionVars, removeVars
<1>3. CASE Pick(r)
  BY <1>3 DEF RouterTypeOK, Pick, Candidates, Least, Goto, storeVars, sessionVars, removeVars
<1>4. CASE PickFails(r)
  BY <1>4 DEF RouterTypeOK, PickFails, Goto, storeVars, sessionVars, removeVars
<1>5. CASE LookupNode(r) \/ LookupFails(r)
  BY <1>5 DEF RouterTypeOK, LookupNode, LookupFails, Goto, storeVars, sessionVars, removeVars
<1>6. CASE RankNode(r)
  BY <1>6 DEF RouterTypeOK, RankNode, Picked, Goto, sessionVars, removeVars
<1>7. CASE RankPool(r)
  BY <1>7 DEF RouterTypeOK, RankPool, Picked, Goto, sessionVars, removeVars
<1>8. CASE Bind(r)
  BY <1>8, RouterAssumption DEF RouterTypeOK, Bind, Sticky, Goto, storeVars, removeVars
<1>9. CASE InsertRow(r)
  <2>1. <<picked[r], SessionID[r]>> \in Peers \X Sessions
    BY <1>9, RouterAssumption DEF RouterTypeOK, InsertRow, Sticky
  <2>2. rows' \subseteq Peers \X Sessions
    BY <1>9, <2>1 DEF RouterTypeOK, InsertRow
  <2> QED  BY <1>9, <2>2 DEF RouterTypeOK, InsertRow, Goto, storeVars, removeVars
<1> QED  BY <1>1, <1>2, <1>3, <1>4, <1>5, <1>6, <1>7, <1>8, <1>9 DEF RouteStep

LEMMA TypeExpire ==
  ASSUME RouterTypeOK, NEW r \in Requests, ExpireStep(r)
  PROVE  RouterTypeOK'
<1>1. CASE ExpireRows(r)
  BY <1>1 DEF RouterTypeOK, ExpireRows, storeVars, routeVars, removeVars
<1>2. CASE ExpireEntry(r)
  BY <1>2 DEF RouterTypeOK, ExpireEntry, storeVars, routeVars, removeVars
<1> QED  BY <1>1, <1>2 DEF ExpireStep

LEMMA TypeRemove ==
  ASSUME RouterTypeOK, NEW k \in Removers, RemoveStep(k) \/ \E p \in Peers : RemoveNode(k, p)
  PROVE  RouterTypeOK'
<1>1. ASSUME NEW p \in Peers, RemoveNode(k, p)  PROVE RouterTypeOK'
  BY <1>1 DEF RouterTypeOK, RemoveNode, Active, sessionVars, routeVars
<1>2. CASE RemovePool(k)
  BY <1>2 DEF RouterTypeOK, RemovePool, DeletePoolRows, sessionVars, routeVars
<1>3. CASE RemoveQuery(k)
  BY <1>3 DEF RouterTypeOK, RemoveQuery, RowsOf, storeVars, sessionVars, routeVars
<1>4. ASSUME NEW s \in Sessions, RemoveDrop(k, s)  PROVE RouterTypeOK'
  BY <1>4 DEF RouterTypeOK, RemoveDrop, storeVars, routeVars
<1>5. CASE RemoveRows(k)
  BY <1>5 DEF RouterTypeOK, RemoveRows, storeVars, routeVars
<1> QED  BY <1>1, <1>2, <1>3, <1>4, <1>5 DEF RemoveStep

LEMMA TypeOthers ==
  ASSUME RouterTypeOK, PoolWrite \/ (\E p \in Peers : Add(p)) \/ (\E s \in Sessions : Evict(s))
  PROVE  RouterTypeOK'
<1>1. ASSUME NEW p \in Peers, Add(p)  PROVE RouterTypeOK'
  BY <1>1 DEF RouterTypeOK, Add, sessionVars, routeVars, removeVars
<1>2. ASSUME NEW s \in Sessions, Evict(s)  PROVE RouterTypeOK'
  BY <1>2 DEF RouterTypeOK, Evict, storeVars, routeVars, removeVars
<1>3. ASSUME NEW name \in PoolNames, NEW p \in Peers, PoolAdd(name, p)  PROVE RouterTypeOK'
  BY <1>3 DEF RouterTypeOK, PoolAdd, sessionVars, routeVars, removeVars
<1>4. ASSUME NEW S \in SUBSET Peers, DeletePoolRows(S), UNCHANGED <<removeVars, overtaken>>
      PROVE RouterTypeOK'
  BY <1>4 DEF RouterTypeOK, DeletePoolRows, sessionVars, routeVars, removeVars
<1>5. ASSUME NEW name \in PoolNames, NEW ids \in SUBSET Peers, PoolDelete(name, ids)
      PROVE RouterTypeOK'
  BY <1>4, <1>5 DEF PoolDelete
<1>6. ASSUME NEW names \in SUBSET PoolNames, PoolCleanNameNotIn(names)  PROVE RouterTypeOK'
  BY <1>4, <1>6 DEF PoolCleanNameNotIn
<1>7. CASE ResetNodes
  BY <1>7 DEF RouterTypeOK, ResetNodes, sessionVars, routeVars, removeVars
<1>8. CASE ResetPools
  BY <1>8 DEF RouterTypeOK, ResetPools, sessionVars, routeVars, removeVars
<1> QED  BY <1>1, <1>2, <1>3, <1>5, <1>6, <1>7, <1>8 DEF PoolWrite

LEMMA TypeStep == RouterTypeOK /\ [RouterNext]_routerVars => RouterTypeOK'
<1> SUFFICES ASSUME RouterTypeOK, [RouterNext]_routerVars  PROVE RouterTypeOK'
  OBVIOUS
<1>1. CASE UNCHANGED routerVars
  BY <1>1 DEF RouterTypeOK, routerVars
<1> QED
  BY <1>1, TypeRoute, TypeExpire, TypeRemove, TypeOthers DEF RouterNext, PoolWrite

(* Every variable of the router keeps its shape, and no Route call ranks,  *)
(* binds or inserts without a node and a session id (genji.go, Route).     *)
THEOREM RouterTypeCorrect == RouterSpec => []RouterTypeOK
<1>1. RouterInit => RouterTypeOK
  BY RouterTypeInit
<1>2. RouterTypeOK /\ [RouterNext]_routerVars => RouterTypeOK'
  BY TypeStep
<1> QED  BY <1>1, <1>2, PTL DEF RouterSpec

-----------------------------------------------------------------------------
(* Groups of steps *)

(* What the invariants read. *)
linkVars == <<nodes, sessionVars, routeVars, removeVars, overtaken>>

(* The steps of Route between pick and the cache. *)
RouteGoesOn(r) ==
  PickFails(r) \/ LookupNode(r) \/ LookupFails(r) \/ RankNode(r) \/ RankPool(r)

(* They touch neither the cache nor the table of sessions, and a call that *)
(* is still running after them holds the node it has held before.          *)
LEMMA GoesOnEffect ==
  ASSUME RouterTypeOK, NEW r \in Requests, RouteGoesOn(r)
  PROVE  /\ UNCHANGED <<nodes, sessionVars, removeVars, overtaken>>
         /\ \A q \in Requests : q # r => pc'[q] = pc[q] /\ picked'[q] = picked[q]
         /\ pc[r] \in {"pick", "lookup", "rank", "poolRank"}
         /\ pc'[r] \in {"idle", "rank", "poolRank", "bind"}
         /\ pc'[r] # "idle" => /\ pc[r] # "pick" /\ picked'[r] = picked[r]
                               /\ picked[r] \in nodes \/ pc[r] \in {"rank", "poolRank"}
<1>1. CASE PickFails(r)
  BY <1>1 DEF RouterTypeOK, PickFails, Goto, storeVars, sessionVars
<1>2. CASE LookupNode(r) \/ LookupFails(r)
  BY <1>2 DEF RouterTypeOK, LookupNode, LookupFails, Goto, storeVars, sessionVars
<1>3. CASE RankNode(r)
  BY <1>3 DEF RouterTypeOK, RankNode, Picked, Goto
<1>4. CASE RankPool(r)
  BY <1>4 DEF RouterTypeOK, RankPool, Picked, Goto
<1> QED  BY <1>1, <1>2, <1>3, <1>4 DEF RouteGoesOn

LEMMA ElsewhereEffect ==
  ASSUME PoolWrite \/ UNCHANGED routerVars
  PROVE  UNCHANGED linkVars
BY DEF PoolWrite, PoolAdd, PoolDelete, PoolCleanNameNotIn, DeletePoolRows, ResetNodes,
       ResetPools, sessionVars, routeVars, removeVars, routerVars, linkVars

(* A job is scheduled with each binding and outlives it.                   *)
LEMMA CachedStep ==
  ASSUME RouterTypeOK, CachedHasJob, [RouterNext]_routerVars
  PROVE  CachedHasJob'
<1>1. ASSUME NEW r \in Requests, RouteCached(r) \/ RouteStart(r)  PROVE CachedHasJob'
  BY <1>1 DEF RouterTypeOK, RouteCached, RouteStart, Goto, storeVars, sessionVars,
     removeVars, CachedHasJob, Scheduled
<1>2. ASSUME NEW r \in Requests, Pick(r)  PROVE CachedHasJob'
  BY <1>2 DEF RouterTypeOK, Pick, Goto, storeVars, sessionVars, removeVars, CachedHasJob,
     Scheduled
<1>3. ASSUME NEW r \in Requests, RouteGoesOn(r)  PROVE CachedHasJob'
  BY <1>3, GoesOnEffect DEF RouterTypeOK, sessionVars, removeVars, CachedHasJob, Scheduled
<1>4. ASSUME NEW r \in Requests, Bind(r)  PROVE CachedHasJob'
  BY <1>4 DEF RouterTypeOK, Bind, Goto, storeVars, removeVars, CachedHasJob, Scheduled
<1>5. ASSUME NEW r \in Requests, InsertRow(r)  PROVE CachedHasJob'
  BY <1>5 DEF RouterTypeOK, InsertRow, Goto, storeVars, removeVars, CachedHasJob, Scheduled
<1>6. ASSUME NEW r \in Requests, ExpireRows(r)  PROVE CachedHasJob'
  BY <1>6 DEF RouterTypeOK, ExpireRows, storeVars, routeVars, removeVars, CachedHasJob,
     Scheduled
<1>7. ASSUME NEW r \in Requests, ExpireEntry(r)  PROVE CachedHasJob'
  BY <1>7 DEF RouterTypeOK, ExpireEntry, storeVars, routeVars, removeVars, CachedHasJob,
     Scheduled
<1>8. ASSUME NEW s \in Sessions, Evict(s)  PROVE CachedHasJob'
  BY <1>8 DEF RouterTypeOK, Evict, storeVars, routeVars, removeVars, CachedHasJob, Scheduled
<1>9. ASSUME NEW k \in Removers, NEW p \in Peers, RemoveNode(k, p)  PROVE CachedHasJob'
  BY <1>9 DEF RouterTypeOK, RemoveNode, sessionVars, routeVars, CachedHasJob, Scheduled
<1>10. ASSUME NEW k \in Removers, RemovePool(k)  PROVE CachedHasJob'
  BY <1>10 DEF RouterTypeOK, RemovePool, DeletePoolRows, sessionVars, routeVars, CachedHasJob,
     Scheduled
<1>11. ASSUME NEW k \in Removers, RemoveQuery(k)  PROVE CachedHasJob'
  BY <1>11 DEF RouterTypeOK, RemoveQuery, RowsOf, storeVars, sessionVars, routeVars,
     CachedHasJob, Scheduled
<1>12. ASSUME NEW k \in Removers, NEW s \in Sessions, RemoveDrop(k, s)  PROVE CachedHasJob'
  BY <1>12 DEF RouterTypeOK, RemoveDrop, storeVars, routeVars, CachedHasJob, Scheduled
<1>13. ASSUME NEW k \in Removers, RemoveRows(k)  PROVE CachedHasJob'
  BY <1>13 DEF RouterTypeOK, RemoveRows, storeVars, routeVars, CachedHasJob, Scheduled
<1>14. ASSUME NEW p \in Peers, Add(p)  PROVE CachedHasJob'
  BY <1>14 DEF RouterTypeOK, Add, sessionVars, routeVars, removeVars, CachedHasJob, Scheduled
<1>15. ASSUME PoolWrite \/ UNCHANGED routerVars  PROVE CachedHasJob'
  BY <1>15, ElsewhereEffect DEF linkVars, sessionVars, routeVars, removeVars,
     CachedHasJob, Scheduled
<1> QED
  BY <1>1, <1>2, <1>3, <1>4, <1>5, <1>6, <1>7, <1>8, <1>9, <1>10, <1>11, <1>12,
     <1>13, <1>14, <1>15 DEF RouterNext, RouteStep, RouteGoesOn, ExpireStep, RemoveStep,
     PoolWrite

(* Pick looks for removals that are running, RemoveNode for calls.         *)
LEMMA HoldersStep ==
  ASSUME RouterTypeOK, HoldersAreOvertaken, [RouterNext]_routerVars
  PROVE  HoldersAreOvertaken'
<1>1. ASSUME NEW r \in Requests, RouteCached(r) \/ RouteStart(r)  PROVE HoldersAreOvertaken'
  BY <1>1 DEF RouterTypeOK, RouteCached, RouteStart, Goto, storeVars, sessionVars,
     removeVars, HoldersAreOvertaken, Holds, BeingRemoved, Active
<1>2. ASSUME NEW r \in Requests, Pick(r)  PROVE HoldersAreOvertaken'
  BY <1>2 DEF RouterTypeOK, Pick, Goto, storeVars, sessionVars, removeVars,
     HoldersAreOvertaken, Holds, BeingRemoved, Active
<1>3. ASSUME NEW r \in Requests, RouteGoesOn(r)  PROVE HoldersAreOvertaken'
  BY <1>3, GoesOnEffect DEF RouterTypeOK, sessionVars, removeVars, HoldersAreOvertaken,
     Holds, BeingRemoved, Active
<1>4. ASSUME NEW r \in Requests, Bind(r)  PROVE HoldersAreOvertaken'
  BY <1>4 DEF RouterTypeOK, Bind, Goto, storeVars, removeVars, HoldersAreOvertaken, Holds,
     BeingRemoved, Active
<1>5. ASSUME NEW r \in Requests, InsertRow(r)  PROVE HoldersAreOvertaken'
  BY <1>5 DEF RouterTypeOK, InsertRow, Goto, storeVars, removeVars, HoldersAreOvertaken,
     Holds, BeingRemoved, Active
<1>6. ASSUME NEW r \in Requests, ExpireRows(r)  PROVE HoldersAreOvertaken'
  BY <1>6 DEF RouterTypeOK, ExpireRows, storeVars, routeVars, removeVars,
     HoldersAreOvertaken, Holds, BeingRemoved, Active
<1>7. ASSUME NEW r \in Requests, ExpireEntry(r)  PROVE HoldersAreOvertaken'
  BY <1>7 DEF RouterTypeOK, ExpireEntry, storeVars, routeVars, removeVars,
     HoldersAreOvertaken, Holds, BeingRemoved, Active
<1>8. ASSUME NEW s \in Sessions, Evict(s)  PROVE HoldersAreOvertaken'
  BY <1>8 DEF RouterTypeOK, Evict, storeVars, routeVars, removeVars, HoldersAreOvertaken,
     Holds, BeingRemoved, Active
<1>9. ASSUME NEW k \in Removers, NEW p \in Peers, RemoveNode(k, p)  PROVE HoldersAreOvertaken'
  BY <1>9 DEF RouterTypeOK, RemoveNode, sessionVars, routeVars, HoldersAreOvertaken, Holds,
     BeingRemoved, Active
<1>10. ASSUME NEW k \in Removers, RemovePool(k)  PROVE HoldersAreOvertaken'
  BY <1>10 DEF RouterTypeOK, RemovePool, DeletePoolRows, sessionVars, routeVars,
     HoldersAreOvertaken, Holds, BeingRemoved, Active
<1>11. ASSUME NEW k \in Removers, RemoveQuery(k)  PROVE HoldersAreOvertaken'
  BY <1>11 DEF RouterTypeOK, RemoveQuery, RowsOf, storeVars, sessionVars, routeVars,
     HoldersAreOvertaken, Holds, BeingRemoved, Active
<1>12. ASSUME NEW k \in Removers, NEW s \in Sessions, RemoveDrop(k, s)  PROVE HoldersAreOvertaken'
  BY <1>12 DEF RouterTypeOK, RemoveDrop, storeVars, routeVars, HoldersAreOvertaken, Holds,
     BeingRemoved, Active
<1>13. ASSUME NEW k \in Removers, RemoveRows(k)  PROVE HoldersAreOvertaken'
  BY <1>13 DEF RouterTypeOK, RemoveRows, storeVars, routeVars, HoldersAreOvertaken, Holds,
     BeingRemoved, Active
<1>14. ASSUME NEW p \in Peers, Add(p)  PROVE HoldersAreOvertaken'
  BY <1>14 DEF RouterTypeOK, Add, sessionVars, routeVars, removeVars, HoldersAreOvertaken,
     Holds, BeingRemoved, Active
<1>15. ASSUME PoolWrite \/ UNCHANGED routerVars  PROVE HoldersAreOvertaken'
  BY <1>15, ElsewhereEffect DEF linkVars, sessionVars, routeVars, removeVars,
     HoldersAreOvertaken, Holds, BeingRemoved, Active
<1> QED
  BY <1>1, <1>2, <1>3, <1>4, <1>5, <1>6, <1>7, <1>8, <1>9, <1>10, <1>11, <1>12,
     <1>13, <1>14, <1>15 DEF RouterNext, RouteStep, RouteGoesOn, ExpireStep, RemoveStep,
     PoolWrite

(* Only RemoveNode takes a node away.                                      *)
LEMMA GoneStep ==
  ASSUME RouterTypeOK, GoneIsOvertaken, [RouterNext]_routerVars
  PROVE  GoneIsOvertaken'
<1>1. ASSUME NEW r \in Requests, RouteCached(r) \/ RouteStart(r)  PROVE GoneIsOvertaken'
  BY <1>1 DEF RouterTypeOK, RouteCached, RouteStart, Goto, storeVars, sessionVars,
     removeVars, GoneIsOvertaken, Active, Candidates, Least
<1>2. ASSUME NEW r \in Requests, Pick(r)  PROVE GoneIsOvertaken'
  BY <1>2 DEF RouterTypeOK, Pick, Goto, storeVars, sessionVars, removeVars, GoneIsOvertaken,
     Active, Candidates, Least
<1>3. ASSUME NEW r \in Requests, RouteGoesOn(r)  PROVE GoneIsOvertaken'
  BY <1>3, GoesOnEffect DEF RouterTypeOK, sessionVars, removeVars, GoneIsOvertaken, Active,
     Candidates, Least
<1>4. ASSUME NEW r \in Requests, Bind(r)  PROVE GoneIsOvertaken'
  BY <1>4 DEF RouterTypeOK, Bind, Goto, storeVars, removeVars, GoneIsOvertaken, Active,
     Candidates, Least
<1>5. ASSUME NEW r \in Requests, InsertRow(r)  PROVE GoneIsOvertaken'
  BY <1>5 DEF RouterTypeOK, InsertRow, Goto, storeVars, removeVars, GoneIsOvertaken, Active,
     Candidates, Least
<1>6. ASSUME NEW r \in Requests, ExpireRows(r)  PROVE GoneIsOvertaken'
  BY <1>6 DEF RouterTypeOK, ExpireRows, storeVars, routeVars, removeVars, GoneIsOvertaken,
     Active, Candidates, Least
<1>7. ASSUME NEW r \in Requests, ExpireEntry(r)  PROVE GoneIsOvertaken'
  BY <1>7 DEF RouterTypeOK, ExpireEntry, storeVars, routeVars, removeVars, GoneIsOvertaken,
     Active, Candidates, Least
<1>8. ASSUME NEW s \in Sessions, Evict(s)  PROVE GoneIsOvertaken'
  BY <1>8 DEF RouterTypeOK, Evict, storeVars, routeVars, removeVars, GoneIsOvertaken, Active,
     Candidates, Least
<1>9. ASSUME NEW k \in Removers, NEW p \in Peers, RemoveNode(k, p)  PROVE GoneIsOvertaken'
  BY <1>9 DEF RouterTypeOK, RemoveNode, sessionVars, routeVars, GoneIsOvertaken, Active,
     Candidates, Least
<1>10. ASSUME NEW k \in Removers, RemovePool(k)  PROVE GoneIsOvertaken'
  BY <1>10 DEF RouterTypeOK, RemovePool, DeletePoolRows, sessionVars, routeVars,
     GoneIsOvertaken, Active, Candidates, Least
<1>11. ASSUME NEW k \in Removers, RemoveQuery(k)  PROVE GoneIsOvertaken'
  BY <1>11 DEF RouterTypeOK, RemoveQuery, RowsOf, storeVars, sessionVars, routeVars,
     GoneIsOvertaken, Active, Candidates, Least
<1>12. ASSUME NEW k \in Removers, NEW s \in Sessions, RemoveDrop(k, s)  PROVE GoneIsOvertaken'
  BY <1>12 DEF RouterTypeOK, RemoveDrop, storeVars, routeVars, GoneIsOvertaken, Active,
     Candidates, Least
<1>13. ASSUME NEW k \in Removers, RemoveRows(k)  PROVE GoneIsOvertaken'
  BY <1>13 DEF RouterTypeOK, RemoveRows, storeVars, routeVars, GoneIsOvertaken, Active,
     Candidates, Least
<1>14. ASSUME NEW p \in Peers, Add(p)  PROVE GoneIsOvertaken'
  BY <1>14 DEF RouterTypeOK, Add, sessionVars, routeVars, removeVars, GoneIsOvertaken, Active,
     Candidates, Least
<1>15. ASSUME PoolWrite \/ UNCHANGED routerVars  PROVE GoneIsOvertaken'
  BY <1>15, ElsewhereEffect DEF linkVars, sessionVars, routeVars, removeVars,
     GoneIsOvertaken, Active, Candidates, Least
<1> QED
  BY <1>1, <1>2, <1>3, <1>4, <1>5, <1>6, <1>7, <1>8, <1>9, <1>10, <1>11, <1>12,
     <1>13, <1>14, <1>15 DEF RouterNext, RouteStep, RouteGoesOn, ExpireStep, RemoveStep,
     PoolWrite

(* Bind is the last step before the row is inserted.                       *)
LEMMA NoJobStep ==
  ASSUME RouterTypeOK, NoJobYet, [RouterNext]_routerVars
  PROVE  NoJobYet'
<1>1. ASSUME NEW r \in Requests, RouteCached(r) \/ RouteStart(r)  PROVE NoJobYet'
  BY <1>1 DEF RouterTypeOK, RouteCached, RouteStart, Goto, storeVars, sessionVars,
     removeVars, NoJobYet
<1>2. ASSUME NEW r \in Requests, Pick(r)  PROVE NoJobYet'
  BY <1>2 DEF RouterTypeOK, Pick, Goto, storeVars, sessionVars, removeVars, NoJobYet
<1>3. ASSUME NEW r \in Requests, RouteGoesOn(r)  PROVE NoJobYet'
  BY <1>3, GoesOnEffect DEF RouterTypeOK, sessionVars, removeVars, NoJobYet
<1>4. ASSUME NEW r \in Requests, Bind(r)  PROVE NoJobYet'
  BY <1>4 DEF RouterTypeOK, Bind, Goto, storeVars, removeVars, NoJobYet
<1>5. ASSUME NEW r \in Requests, InsertRow(r)  PROVE NoJobYet'
  BY <1>5 DEF RouterTypeOK, InsertRow, Goto, storeVars, removeVars, NoJobYet
<1>6. ASSUME NEW r \in Requests, ExpireRows(r)  PROVE NoJobYet'
  BY <1>6 DEF RouterTypeOK, ExpireRows, storeVars, routeVars, removeVars, NoJobYet
<1>7. ASSUME NEW r \in Requests, ExpireEntry(r)  PROVE NoJobYet'
  BY <1>7 DEF RouterTypeOK, ExpireEntry, storeVars, routeVars, removeVars, NoJobYet
<1>8. ASSUME NEW s \in Sessions, Evict(s)  PROVE NoJobYet'
  BY <1>8 DEF RouterTypeOK, Evict, storeVars, routeVars, removeVars, NoJobYet
<1>9. ASSUME NEW k \in Removers, NEW p \in Peers, RemoveNode(k, p)  PROVE NoJobYet'
  BY <1>9 DEF RouterTypeOK, RemoveNode, sessionVars, routeVars, NoJobYet
<1>10. ASSUME NEW k \in Removers, RemovePool(k)  PROVE NoJobYet'
  BY <1>10 DEF RouterTypeOK, RemovePool, DeletePoolRows, sessionVars, routeVars, NoJobYet
<1>11. ASSUME NEW k \in Removers, RemoveQuery(k)  PROVE NoJobYet'
  BY <1>11 DEF RouterTypeOK, RemoveQuery, RowsOf, storeVars, sessionVars, routeVars, NoJobYet
<1>12. ASSUME NEW k \in Removers, NEW s \in Sessions, RemoveDrop(k, s)  PROVE NoJobYet'
  BY <1>12 DEF RouterTypeOK, RemoveDrop, storeVars, routeVars, NoJobYet
<1>13. ASSUME NEW k \in Removers, RemoveRows(k)  PROVE NoJobYet'
  BY <1>13 DEF RouterTypeOK, RemoveRows, storeVars, routeVars, NoJobYet
<1>14. ASSUME NEW p \in Peers, Add(p)  PROVE NoJobYet'
  BY <1>14 DEF RouterTypeOK, Add, sessionVars, routeVars, removeVars, NoJobYet
<1>15. ASSUME PoolWrite \/ UNCHANGED routerVars  PROVE NoJobYet'
  BY <1>15, ElsewhereEffect DEF linkVars, sessionVars, routeVars, removeVars, NoJobYet
<1> QED
  BY <1>1, <1>2, <1>3, <1>4, <1>5, <1>6, <1>7, <1>8, <1>9, <1>10, <1>11, <1>12,
     <1>13, <1>14, <1>15 DEF RouterNext, RouteStep, RouteGoesOn, ExpireStep, RemoveStep,
     PoolWrite

(* While p is being removed, a binding to p has its row in the table, or   *)
(* is excused.                                                             *)
LEMMA QueriedIsExcused ==
  ASSUME RouterTypeOK, Linked, NEW k \in Removers, rpc[k] # "idle",
         NEW s \in Sessions, sessions[s] = target[k]
  PROVE  \/ s \in RowsOf(target[k])
         \/ Expiring(s)
         \/ \E r \in Requests : Excused(r, s, sessions[s])
<1>1. sessions[s] \in Peers /\ sessions[s] # None /\ BeingRemoved(sessions[s])
  BY RouterAssumption DEF RouterTypeOK, BeingRemoved
<1>2. ASSUME NEW r \in Requests, Vouches(r, s, sessions[s])
      PROVE  Excused(r, s, sessions[s])
  BY <1>1, <1>2 DEF Vouches, Excused, Linked, HoldersAreOvertaken, Holds
<1> QED  BY <1>1, <1>2 DEF RowsOf, Linked, CachedIsIndexed

(* What the query of Remove does not find is excused.                      *)
LEMMA DropsStep ==
  ASSUME RouterTypeOK, Linked, [RouterNext]_routerVars
  PROVE  RemoveDropsAll'
<1>1. ASSUME NEW r \in Requests, RouteCached(r) \/ RouteStart(r)  PROVE RemoveDropsAll'
  BY <1>1 DEF RouterTypeOK, RouteCached, RouteStart, Goto, storeVars, sessionVars,
     removeVars, RemoveDropsAll, Excused, Expiring, NoJobYet, Linked
<1>2. ASSUME NEW r \in Requests, Pick(r)  PROVE RemoveDropsAll'
  BY <1>2 DEF RouterTypeOK, Pick, Goto, storeVars, sessionVars, removeVars, RemoveDropsAll,
     Excused, Expiring, NoJobYet, Linked
<1>3. ASSUME NEW r \in Requests, RouteGoesOn(r)  PROVE RemoveDropsAll'
  BY <1>3, GoesOnEffect DEF RouterTypeOK, sessionVars, removeVars, RemoveDropsAll, Excused,
     Expiring, NoJobYet, Linked
<1>4. ASSUME NEW r \in Requests, Bind(r)  PROVE RemoveDropsAll'
  <2>1. /\ rpc' = rpc /\ target' = target /\ found' = found /\ overtaken' = overtaken
        /\ picked' = picked /\ pc[r] = "bind"
        /\ sessions' = [sessions EXCEPT ![SessionID[r]] = picked[r]]
        /\ job' = [job EXCEPT ![r] = "pending"] /\ job[r] = "none"
    BY <1>4 DEF Bind, NoJobYet, Linked, removeVars
  <2> SUFFICES ASSUME NEW k \in Removers, NEW s \in Sessions,
                      rpc[k] \in {"drop", "rows"}, sessions'[s] = target[k]
               PROVE  \/ rpc[k] = "drop" /\ s \in found[k]
                      \/ Expiring(s)'
                      \/ \E q \in Requests : Excused(q, s, sessions[s])'
    BY <2>1 DEF RemoveDropsAll
  <2>2. CASE s = SessionID[r]
    <3>1. picked[r] = target[k] /\ picked[r] \in Peers
      BY <2>1, <2>2 DEF RouterTypeOK
    <3>2. r \in overtaken
      BY <2>1, <3>1 DEF Linked, HoldersAreOvertaken, Holds, BeingRemoved
    <3> QED  BY <2>1, <2>2, <3>1, <3>2 DEF Excused, RouterTypeOK
  <2>3. CASE s # SessionID[r]
    <3>1. sessions'[s] = sessions[s]
      BY <2>1, <2>3 DEF RouterTypeOK
    <3>2. \/ rpc[k] = "drop" /\ s \in found[k]
          \/ Expiring(s)
          \/ \E q \in Requests : Excused(q, s, sessions[s])
      BY <3>1 DEF Linked, RemoveDropsAll
    <3>3. \A q \in Requests : job[q] # "none" => job'[q] = job[q]
      BY <2>1 DEF RouterTypeOK
    <3> QED  BY <2>1, <3>1, <3>2, <3>3 DEF Excused, Expiring
  <2> QED  BY <2>2, <2>3
<1>5. ASSUME NEW r \in Requests, InsertRow(r)  PROVE RemoveDropsAll'
  BY <1>5 DEF RouterTypeOK, InsertRow, Goto, storeVars, removeVars, RemoveDropsAll, Excused,
     Expiring, NoJobYet, Linked
<1>6. ASSUME NEW r \in Requests, ExpireRows(r)  PROVE RemoveDropsAll'
  BY <1>6 DEF RouterTypeOK, ExpireRows, storeVars, routeVars, removeVars, RemoveDropsAll,
     Excused, Expiring, NoJobYet, Linked
<1>7. ASSUME NEW r \in Requests, ExpireEntry(r)  PROVE RemoveDropsAll'
  BY <1>7, RouterAssumption DEF RouterTypeOK, ExpireEntry, storeVars, routeVars,
     removeVars, RemoveDropsAll, Excused, Expiring, NoJobYet, Linked
<1>8. ASSUME NEW s \in Sessions, Evict(s)  PROVE RemoveDropsAll'
  BY <1>8, RouterAssumption DEF RouterTypeOK, Evict, storeVars, routeVars, removeVars,
     RemoveDropsAll, Excused, Expiring, NoJobYet, Linked
<1>9. ASSUME NEW k \in Removers, NEW p \in Peers, RemoveNode(k, p)  PROVE RemoveDropsAll'
  BY <1>9 DEF RouterTypeOK, RemoveNode, sessionVars, routeVars, RemoveDropsAll, Excused,
     Expiring, NoJobYet, Linked
<1>10. ASSUME NEW k \in Removers, RemovePool(k)  PROVE RemoveDropsAll'
  BY <1>10 DEF RouterTypeOK, RemovePool, DeletePoolRows, sessionVars, routeVars,
     RemoveDropsAll, Excused, Expiring, NoJobYet, Linked
<1>11. ASSUME NEW k \in Removers, RemoveQuery(k)  PROVE RemoveDropsAll'
  <2>1. /\ sessions' = sessions /\ job' = job /\ picked' = picked /\ target' = target
        /\ overtaken' = overtaken /\ rpc[k] = "query"
        /\ found' = [found EXCEPT ![k] = RowsOf(target[k])]
        /\ \A j \in Removers : j # k => rpc'[j] = rpc[j] /\ found'[j] = found[j]
        /\ rpc'[k] \in {"idle", "drop"} /\ found'[k] = RowsOf(target[k])
    BY <1>11 DEF RouterTypeOK, RemoveQuery, sessionVars, routeVars
  <2> SUFFICES ASSUME NEW j \in Removers, NEW s \in Sessions,
                      rpc'[j] \in {"drop", "rows"}, sessions[s] = target[j]
               PROVE  \/ rpc'[j] = "drop" /\ s \in found'[j]
                      \/ Expiring(s)
                      \/ \E r \in Requests : Excused(r, s, sessions[s])
    BY <2>1 DEF RemoveDropsAll, Expiring, Excused
  <2>2. CASE j = k
    BY <2>1, <2>2, QueriedIsExcused
  <2>3. CASE j # k
    BY <2>1, <2>3 DEF Linked, RemoveDropsAll
  <2> QED  BY <2>2, <2>3
<1>12. ASSUME NEW k \in Removers, NEW s \in Sessions, RemoveDrop(k, s)  PROVE RemoveDropsAll'
  BY <1>12, RouterAssumption DEF RouterTypeOK, RemoveDrop, storeVars, routeVars,
     RemoveDropsAll, Excused, Expiring, NoJobYet, Linked
<1>13. ASSUME NEW k \in Removers, RemoveRows(k)  PROVE RemoveDropsAll'
  BY <1>13 DEF RouterTypeOK, RemoveRows, storeVars, routeVars, RemoveDropsAll, Excused,
     Expiring, NoJobYet, Linked
<1>14. ASSUME NEW p \in Peers, Add(p)  PROVE RemoveDropsAll'
  BY <1>14 DEF RouterTypeOK, Add, sessionVars, routeVars, removeVars, RemoveDropsAll, Excused,
     Expiring, NoJobYet, Linked
<1>15. ASSUME PoolWrite \/ UNCHANGED routerVars  PROVE RemoveDropsAll'
  BY <1>15, ElsewhereEffect DEF linkVars, sessionVars, routeVars, removeVars,
     RemoveDropsAll, Excused, Expiring, NoJobYet, Linked
<1> QED
  BY <1>1, <1>2, <1>3, <1>4, <1>5, <1>6, <1>7, <1>8, <1>9, <1>10, <1>11, <1>12,
     <1>13, <1>14, <1>15 DEF RouterNext, RouteStep, RouteGoesOn, ExpireStep, RemoveStep,
     PoolWrite

(* A binding has its row, or will have it, or is excused.                  *)
LEMMA IndexedStep ==
  ASSUME RouterTypeOK, Linked, [RouterNext]_routerVars
  PROVE  CachedIsIndexed'
<1>1. ASSUME NEW r \in Requests, RouteCached(r) \/ RouteStart(r)  PROVE CachedIsIndexed'
  BY <1>1 DEF RouterTypeOK, RouteCached, RouteStart, Goto, storeVars, sessionVars,
     removeVars, CachedIsIndexed, Vouches, Expiring, NoJobYet, Linked
<1>2. ASSUME NEW r \in Requests, Pick(r)  PROVE CachedIsIndexed'
  BY <1>2 DEF RouterTypeOK, Pick, Goto, storeVars, sessionVars, removeVars, CachedIsIndexed,
     Vouches, Expiring, NoJobYet, Linked
<1>3. ASSUME NEW r \in Requests, RouteGoesOn(r)  PROVE CachedIsIndexed'
  BY <1>3, GoesOnEffect DEF RouterTypeOK, sessionVars, removeVars, CachedIsIndexed, Vouches,
     Expiring, NoJobYet, Linked
<1>4. ASSUME NEW r \in Requests, Bind(r)  PROVE CachedIsIndexed'
  BY <1>4 DEF RouterTypeOK, Bind, Goto, storeVars, removeVars, CachedIsIndexed, Vouches,
     Expiring, NoJobYet, Linked
<1>5. ASSUME NEW r \in Requests, InsertRow(r)  PROVE CachedIsIndexed'
  BY <1>5 DEF RouterTypeOK, InsertRow, Goto, storeVars, removeVars, CachedIsIndexed, Vouches,
     Expiring, NoJobYet, Linked
<1>6. ASSUME NEW r \in Requests, ExpireRows(r)  PROVE CachedIsIndexed'
  BY <1>6 DEF RouterTypeOK, ExpireRows, storeVars, routeVars, removeVars, CachedIsIndexed,
     Vouches, Expiring, NoJobYet, Linked
<1>7. ASSUME NEW r \in Requests, ExpireEntry(r)  PROVE CachedIsIndexed'
  BY <1>7 DEF RouterTypeOK, ExpireEntry, storeVars, routeVars, removeVars, CachedIsIndexed,
     Vouches, Expiring, NoJobYet, Linked
<1>8. ASSUME NEW s \in Sessions, Evict(s)  PROVE CachedIsIndexed'
  BY <1>8 DEF RouterTypeOK, Evict, storeVars, routeVars, removeVars, CachedIsIndexed,
     Vouches, Expiring, NoJobYet, Linked
<1>9. ASSUME NEW k \in Removers, NEW p \in Peers, RemoveNode(k, p)  PROVE CachedIsIndexed'
  BY <1>9 DEF RouterTypeOK, RemoveNode, sessionVars, routeVars, CachedIsIndexed, Vouches,
     Expiring, NoJobYet, Linked
<1>10. ASSUME NEW k \in Removers, RemovePool(k)  PROVE CachedIsIndexed'
  BY <1>10 DEF RouterTypeOK, RemovePool, DeletePoolRows, sessionVars, routeVars,
     CachedIsIndexed, Vouches, Expiring, NoJobYet, Linked
<1>11. ASSUME NEW k \in Removers, RemoveQuery(k)  PROVE CachedIsIndexed'
  BY <1>11 DEF RouterTypeOK, RemoveQuery, RowsOf, storeVars, sessionVars, routeVars,
     CachedIsIndexed, Vouches, Expiring, NoJobYet, Linked
<1>12. ASSUME NEW k \in Removers, NEW s \in Sessions, RemoveDrop(k, s)  PROVE CachedIsIndexed'
  BY <1>12 DEF RouterTypeOK, RemoveDrop, storeVars, routeVars, CachedIsIndexed, Vouches,
     Expiring, NoJobYet, Linked
<1>13. ASSUME NEW k \in Removers, RemoveRows(k)  PROVE CachedIsIndexed'
  <2>1. ASSUME NEW s \in Sessions, sessions[s] = target[k]
        PROVE  Expiring(s) \/ \E r \in Requests : Excused(r, s, sessions[s])
    BY <1>13, <2>1 DEF RemoveRows, Linked, RemoveDropsAll
  <2>2. ASSUME NEW s \in Sessions, sessions[s] # None, sessions[s] # target[k]
        PROVE  \/ <<sessions[s], s>> \in rows'
               \/ Expiring(s)
               \/ \E r \in Requests : Vouches(r, s, sessions[s])
    BY <1>13, <2>2 DEF RemoveRows, Linked, CachedIsIndexed
  <2>3. UNCHANGED <<sessions, job, pc, picked, overtaken>>
    BY <1>13 DEF RemoveRows, routeVars
  <2> QED  BY <2>1, <2>2, <2>3 DEF CachedIsIndexed, Expiring, Vouches, Excused
<1>14. ASSUME NEW p \in Peers, Add(p)  PROVE CachedIsIndexed'
  BY <1>14 DEF RouterTypeOK, Add, sessionVars, routeVars, removeVars, CachedIsIndexed,
     Vouches, Expiring, NoJobYet, Linked
<1>15. ASSUME PoolWrite \/ UNCHANGED routerVars  PROVE CachedIsIndexed'
  BY <1>15, ElsewhereEffect DEF linkVars, sessionVars, routeVars, removeVars,
     CachedIsIndexed, Vouches, Expiring, NoJobYet, Linked
<1> QED
  BY <1>1, <1>2, <1>3, <1>4, <1>5, <1>6, <1>7, <1>8, <1>9, <1>10, <1>11, <1>12,
     <1>13, <1>14, <1>15 DEF RouterNext, RouteStep, RouteGoesOn, ExpireStep, RemoveStep,
     PoolWrite

(* A removal that ends leaves no binding that is not excused.              *)
LEMMA OrphansStep ==
  ASSUME RouterTypeOK, Linked, [RouterNext]_routerVars
  PROVE  OrphansAreRaces'
<1>1. ASSUME NEW r \in Requests, RouteCached(r) \/ RouteStart(r)  PROVE OrphansAreRaces'
  BY <1>1 DEF RouterTypeOK, RouteCached, RouteStart, Goto, storeVars, sessionVars,
     removeVars, OrphansAreRaces, BeingRemoved, Expiring, NoJobYet, Linked
<1>2. ASSUME NEW r \in Requests, Pick(r)  PROVE OrphansAreRaces'
  BY <1>2 DEF RouterTypeOK, Pick, Goto, storeVars, sessionVars, removeVars, OrphansAreRaces,
     BeingRemoved, Expiring, NoJobYet, Linked
<1>3. ASSUME NEW r \in Requests, RouteGoesOn(r)  PROVE OrphansAreRaces'
  BY <1>3, GoesOnEffect DEF RouterTypeOK, sessionVars, removeVars, OrphansAreRaces,
     BeingRemoved, Expiring, NoJobYet, Linked
<1>4. ASSUME NEW r \in Requests, Bind(r)  PROVE OrphansAreRaces'
  <2>1. /\ nodes' = nodes /\ rpc' = rpc /\ target' = target /\ overtaken' = overtaken
        /\ picked' = picked /\ pc[r] = "bind"
        /\ sessions' = [sessions EXCEPT ![SessionID[r]] = picked[r]]
        /\ job' = [job EXCEPT ![r] = "pending"] /\ job[r] = "none"
    BY <1>4 DEF Bind, NoJobYet, Linked, removeVars, storeVars
  <2> SUFFICES ASSUME NEW s \in Sessions, sessions'[s] # None, sessions'[s] \notin nodes
               PROVE  \/ BeingRemoved(sessions[s])'
                      \/ Expiring(s)'
                      \/ \E q \in Requests : Excused(q, s, sessions[s])'
    BY <2>1 DEF OrphansAreRaces, Excused
  <2>2. CASE s = SessionID[r]
    <3>1. sessions'[s] = picked[r] /\ picked[r] \notin nodes
      BY <2>1, <2>2 DEF RouterTypeOK
    <3>2. r \in overtaken
      BY <2>1, <3>1 DEF Linked, GoneIsOvertaken
    <3> QED  BY <2>1, <2>2, <3>1, <3>2 DEF Excused, RouterTypeOK
  <2>3. CASE s # SessionID[r]
    <3>1. sessions'[s] = sessions[s]
      BY <2>1, <2>3 DEF RouterTypeOK
    <3>2. \/ BeingRemoved(sessions[s])
          \/ Expiring(s)
          \/ \E q \in Requests : Excused(q, s, sessions[s])
      BY <2>1, <3>1 DEF RouterTypeOK, Linked, OrphansAreRaces, Excused
    <3>3. \A q \in Requests : job[q] # "none" => job'[q] = job[q]
      BY <2>1 DEF RouterTypeOK
    <3> QED  BY <2>1, <3>1, <3>2, <3>3 DEF Excused, Expiring, BeingRemoved
  <2> QED  BY <2>2, <2>3
<1>5. ASSUME NEW r \in Requests, InsertRow(r)  PROVE OrphansAreRaces'
  BY <1>5 DEF RouterTypeOK, InsertRow, Goto, storeVars, removeVars, OrphansAreRaces,
     BeingRemoved, Expiring, NoJobYet, Linked
<1>6. ASSUME NEW r \in Requests, ExpireRows(r)  PROVE OrphansAreRaces'
  BY <1>6 DEF RouterTypeOK, ExpireRows, storeVars, routeVars, removeVars, OrphansAreRaces,
     BeingRemoved, Expiring, NoJobYet, Linked
<1>7. ASSUME NEW r \in Requests, ExpireEntry(r)  PROVE OrphansAreRaces'
  BY <1>7 DEF RouterTypeOK, ExpireEntry, storeVars, routeVars, removeVars, OrphansAreRaces,
     BeingRemoved, Expiring, NoJobYet, Linked
<1>8. ASSUME NEW s \in Sessions, Evict(s)  PROVE OrphansAreRaces'
  BY <1>8 DEF RouterTypeOK, Evict, storeVars, routeVars, removeVars, OrphansAreRaces,
     BeingRemoved, Expiring, NoJobYet, Linked
<1>9. ASSUME NEW k \in Removers, NEW p \in Peers, RemoveNode(k, p)  PROVE OrphansAreRaces'
  BY <1>9 DEF RouterTypeOK, RemoveNode, sessionVars, routeVars, OrphansAreRaces,
     BeingRemoved, Expiring, NoJobYet, Linked
<1>10. ASSUME NEW k \in Removers, RemovePool(k)  PROVE OrphansAreRaces'
  BY <1>10 DEF RouterTypeOK, RemovePool, DeletePoolRows, sessionVars, routeVars,
     OrphansAreRaces, BeingRemoved, Expiring, NoJobYet, Linked
<1>11. ASSUME NEW k \in Removers, RemoveQuery(k)  PROVE OrphansAreRaces'
  <2>1. ASSUME NEW s \in Sessions, sessions[s] = target[k], rpc'[k] = "idle"
        PROVE  Expiring(s) \/ \E r \in Requests : Excused(r, s, sessions[s])
    BY <1>11, <2>1, QueriedIsExcused DEF RemoveQuery, RouterTypeOK
  <2>2. UNCHANGED <<nodes, sessions, job, picked, overtaken, target>>
    BY <1>11 DEF RemoveQuery, storeVars, sessionVars, routeVars
  <2>3. ASSUME NEW s \in Sessions, sessions[s] # None, BeingRemoved(sessions[s])
        PROVE  \/ BeingRemoved(sessions[s])'
               \/ Expiring(s) \/ \E r \in Requests : Excused(r, s, sessions[s])
    <3>1. PICK j \in Removers : rpc[j] # "idle" /\ target[j] = sessions[s]
      BY <2>3 DEF BeingRemoved
    <3>2. j # k => rpc'[j] = rpc[j]
      BY <1>11 DEF RouterTypeOK, RemoveQuery
    <3> QED  BY <2>1, <2>2, <3>1, <3>2 DEF BeingRemoved
  <2> QED  BY <2>2, <2>3 DEF Linked, OrphansAreRaces, Expiring, Excused
<1>12. ASSUME NEW k \in Removers, NEW s \in Sessions, RemoveDrop(k, s)  PROVE OrphansAreRaces'
  BY <1>12 DEF RouterTypeOK, RemoveDrop, storeVars, routeVars, OrphansAreRaces, BeingRemoved,
     Expiring, NoJobYet, Linked
<1>13. ASSUME NEW k \in Removers, RemoveRows(k)  PROVE OrphansAreRaces'
  <2>1. ASSUME NEW s \in Sessions, sessions[s] = target[k]
        PROVE  Expiring(s) \/ \E r \in Requests : Excused(r, s, sessions[s])
    BY <1>13, <2>1 DEF RemoveRows, Linked, RemoveDropsAll
  <2>2. UNCHANGED <<nodes, sessions, job, picked, overtaken, target>>
    BY <1>13 DEF RemoveRows, storeVars, sessionVars, routeVars
  <2>3. ASSUME NEW s \in Sessions, sessions[s] # None, BeingRemoved(sessions[s])
        PROVE  \/ BeingRemoved(sessions[s])'
               \/ Expiring(s) \/ \E r \in Requests : Excused(r, s, sessions[s])
    <3>1. PICK j \in Removers : rpc[j] # "idle" /\ target[j] = sessions[s]
      BY <2>3 DEF BeingRemoved
    <3>2. j # k => rpc'[j] = rpc[j]
      BY <1>13 DEF RouterTypeOK, RemoveRows
    <3> QED  BY <2>1, <2>2, <3>1, <3>2 DEF BeingRemoved
  <2> QED  BY <2>2, <2>3 DEF Linked, OrphansAreRaces, Expiring, Excused
<1>14. ASSUME NEW p \in Peers, Add(p)  PROVE OrphansAreRaces'
  BY <1>14 DEF RouterTypeOK, Add, sessionVars, routeVars, removeVars, OrphansAreRaces,
     BeingRemoved, Expiring, NoJobYet, Linked
<1>15. ASSUME PoolWrite \/ UNCHANGED routerVars  PROVE OrphansAreRaces'
  BY <1>15, ElsewhereEffect DEF linkVars, sessionVars, routeVars, removeVars,
     OrphansAreRaces, BeingRemoved, Expiring, NoJobYet, Linked
<1> QED
  BY <1>1, <1>2, <1>3, <1>4, <1>5, <1>6, <1>7, <1>8, <1>9, <1>10, <1>11, <1>12,
     <1>13, <1>14, <1>15 DEF RouterNext, RouteStep, RouteGoesOn, ExpireStep, RemoveStep,
     PoolWrite

-----------------------------------------------------------------------------
(* The inductive invariant and what follows from it *)

LEMMA RouterInductive == RouterSpec => []RouterInv
<1>1. RouterInit => RouterInv
  <2> SUFFICES ASSUME RouterInit  PROVE RouterInv
    OBVIOUS
  <2>1. RouterTypeOK
    BY RouterTypeInit
  <2>2. /\ \A s \in Sessions : sessions[s] = None
        /\ \A r \in Requests : pc[r] = "idle"
        /\ \A k \in Removers : rpc[k] = "idle"
    BY DEF RouterInit
  <2> QED
    BY <2>1, <2>2 DEF RouterInv, CachedHasJob, Linked, NoJobYet, HoldersAreOvertaken, Holds,
       GoneIsOvertaken, RemoveDropsAll, CachedIsIndexed, OrphansAreRaces
<1>2. RouterInv /\ [RouterNext]_routerVars => RouterInv'
  <2> SUFFICES ASSUME RouterInv, [RouterNext]_routerVars  PROVE RouterInv'
    OBVIOUS
  <2>1. RouterTypeOK /\ CachedHasJob /\ Linked
    BY DEF RouterInv
  <2>2. RouterTypeOK' /\ CachedHasJob'
    BY <2>1, TypeStep, CachedStep
  <2>3. NoJobYet' /\ HoldersAreOvertaken' /\ GoneIsOvertaken'
    BY <2>1, NoJobStep, HoldersStep, GoneStep DEF Linked
  <2>4. RemoveDropsAll' /\ CachedIsIndexed' /\ OrphansAreRaces'
    BY <2>1, DropsStep, IndexedStep, OrphansStep
  <2> QED  BY <2>2, <2>3, <2>4 DEF RouterInv, Linked
<1> QED  BY <1>1, <1>2, PTL DEF RouterSpec

(* No sticky session is immortal: every entry of the cache has an expiry   *)
(* job that is going to delete it (fastcache.go, SetWithExpire).           *)
THEOREM NeverImmortal == RouterSpec => []CachedHasJob
<1>1. RouterInv => CachedHasJob
  BY DEF RouterInv
<1> QED  BY <1>1, RouterInductive, PTL

(* Remove finds the sessions of its node, but for those of a Route call    *)
(* that overlaps it and those about to expire (genji.go, Route, Remove).   *)
THEOREM RemoveFindsSessions == RouterSpec => []CachedIsIndexed
<1>1. RouterInv => CachedIsIndexed
  BY DEF RouterInv, Linked
<1> QED  BY <1>1, RouterInductive, PTL

(* A session whose node is gone was bound by a Route call that overlapped  *)
(* the removal, and ends with the job of that call, or the removal or the  *)
(* expiry is running (genji.go, Route, Remove, onSessionExpired).          *)
THEOREM OrphansExpire == RouterSpec => []OrphansAreRaces
<1>1. RouterInv => OrphansAreRaces
  BY DEF RouterInv, Linked
<1> QED  BY <1>1, RouterInductive, PTL

(* No row of the sessions table outlives the last job of its session that  *)
(* was waiting (genji.go, onSessionExpired).                               *)
THEOREM RowsEndWithJobs == RouterSpec => RowsFollowJobs
<1>1. ASSUME RouterTypeOK, [RouterNext]_routerVars, NEW row \in rows,
             Pending(row[2]), ~Pending(row[2])'
      PROVE  row \notin rows'
  <2>1. PICK q \in Requests : SessionID[q] = row[2] /\ job[q] = "pending" /\ job'[q] # "pending"
    BY <1>1 DEF Pending
  <2>2. ExpireRows(q)
    BY <1>1, <2>1, ElsewhereEffect, GoesOnEffect
    DEF RouterTypeOK, RouterNext, RouteStep, RouteGoesOn, ExpireStep, RemoveStep, PoolWrite, linkVars,
        sessionVars, storeVars, routeVars, RouteCached, RouteStart, Pick, Bind, InsertRow,
        ExpireRows, ExpireEntry, Evict, RemoveNode, RemovePool, DeletePoolRows, RemoveQuery,
        RemoveDrop, RemoveRows, Add
  <2> QED  BY <2>1, <2>2 DEF ExpireRows
<1>2. RouterTypeOK /\ [RouterNext]_routerVars =>
        [\A row \in rows : Pending(row[2]) /\ ~Pending(row[2])' => row \notin rows']_routerVars
  BY <1>1
<1> QED  BY <1>2, RouterTypeCorrect, PTL DEF RouterSpec, RowsFollowJobs

(* A pool row is left without its node only when the tester adds the row   *)
(* after the removal: Remove itself leaves none (genji.go, Remove).        *)
THEOREM DeadRowsAreLate == RouterSpec => DeadPoolRowsAreLateAdds
<1>1. ASSUME RouterTypeOK, [RouterNext]_routerVars, NEW p \in Peers, ~DeadPoolRow(p), DeadPoolRow(p)'
      PROVE  p \notin nodes /\ poolOf[p] = None
  <2>1. CASE poolOf'[p] = poolOf[p] /\ (p \in nodes' <=> p \in nodes)
    <3>1. PICK k \in Removers : rpc[k] = "pool" /\ target[k] = p /\ ~(rpc'[k] = "pool" /\ target'[k] = p)
      BY <1>1, <2>1 DEF DeadPoolRow
    <3>2. RemovePool(k)
      BY <1>1, <3>1, ElsewhereEffect, GoesOnEffect
      DEF RouterTypeOK, RouterNext, RouteStep, RouteGoesOn, ExpireStep, RemoveStep, PoolWrite, linkVars,
          sessionVars, storeVars, routeVars, removeVars, RouteCached, RouteStart, Pick, Bind,
          InsertRow, ExpireRows, ExpireEntry, Evict, RemoveNode, RemovePool, DeletePoolRows,
          RemoveQuery, RemoveDrop, RemoveRows, Add
    <3> QED  BY <1>1, <3>1, <3>2 DEF RemovePool, DeletePoolRows, DeadPoolRow
  <2>2. CASE p \in nodes /\ p \notin nodes'
    <3>1. PICK k \in Removers : RemoveNode(k, p)
      BY <1>1, <2>2, ElsewhereEffect, GoesOnEffect
      DEF RouterTypeOK, RouterNext, RouteStep, RouteGoesOn, ExpireStep, RemoveStep, PoolWrite, linkVars,
          sessionVars, storeVars, routeVars, removeVars, RouteCached, RouteStart, Pick, Bind,
          InsertRow, ExpireRows, ExpireEntry, Evict, RemoveNode, RemovePool, DeletePoolRows,
          RemoveQuery, RemoveDrop, RemoveRows, Add
    <3> QED  BY <1>1, <3>1 DEF RemoveNode, DeadPoolRow, RouterTypeOK
  <2>3. CASE poolOf'[p] # poolOf[p] /\ (p \in nodes => p \in nodes')
    <3>1. poolOf[p] = None \/ poolOf'[p] = None \/ \E name \in PoolNames : PoolAdd(name, p)
      BY <1>1, <2>3, GoesOnEffect
      DEF RouterTypeOK, RouterNext, RouteStep, RouteGoesOn, ExpireStep, RemoveStep, PoolWrite, routerVars,
          sessionVars, storeVars, routeVars, removeVars, RouteCached, RouteStart, Pick, Bind,
          PickFails, LookupNode, LookupFails, RankNode, RankPool, PoolAdd, PoolDelete,
          PoolCleanNameNotIn, ResetNodes, ResetPools,
          InsertRow, ExpireRows, ExpireEntry, Evict, RemoveNode, RemovePool, DeletePoolRows,
          RemoveQuery, RemoveDrop, RemoveRows, Add
    <3> QED  BY <1>1, <2>3, <3>1 DEF DeadPoolRow, PoolAdd, RouterTypeOK, removeVars
  <2> QED  BY <1>1, <2>1, <2>2, <2>3 DEF DeadPoolRow
<1>2. RouterTypeOK /\ [RouterNext]_routerVars =>
        [\A p \in Peers : ~DeadPoolRow(p) /\ DeadPoolRow(p)' =>
           p \notin nodes /\ poolOf[p] = None]_routerVars
  BY <1>1
<1> QED  BY <1>2, RouterTypeCorrect, PTL DEF RouterSpec, DeadPoolRowsAreLateAdds

(* Cached sessions and their rows end with the jobs that were started for  *)
(* them, in every interleaving of Route, Remove and expiry.                *)
THEOREM SessionsEndWithJobs == RouterSpec => JobsEndSessions
<1> QED  BY NeverImmortal, RowsEndWithJobs, PTL DEF JobsEndSessions

-----------------------------------------------------------------------------
(* Registration by itself *)

(* The goroutine that is about to add a peer has seen its key accepted. *)
AddedIsAuthorised == \A h \in Handlers : at[h] = "add" => peer[h] \in Valid

RegistryInv ==
  /\ RegistryTypeOK
  /\ AddedIsAuthorised
  /\ OnlyAuthorised
  /\ GhostsAreLate

(* DisconnectDue, as an event that waits and as a goroutine that runs. *)
Waiting(p) == \E i \in 1 .. Len(events) : events[i] = Event(p, FALSE)
Running(p) == \E h \in Handlers : at[h] = "onDisconnect" /\ peer[h] = p

LEMMA DueIs == \A p : DisconnectDue(p) <=> Waiting(p) \/ Running(p)
BY DEF DisconnectDue, Waiting, Running

LEMMA EventType == \A p \in Peers, c \in BOOLEAN : Event(p, c) \in [peer : Peers, connected : BOOLEAN]
BY DEF Event

(* Sequences of any kind *)
LEMMA AppendSeq == ASSUME NEW S, NEW s \in Seq(S), NEW e \in S PROVE Append(s, e) \in Seq(S)
OBVIOUS

LEMMA HeadTailSeq ==
  ASSUME NEW S, NEW s \in Seq(S), s # << >>
  PROVE  /\ Head(s) \in S /\ Tail(s) \in Seq(S)
         /\ Head(s) = s[1]
         /\ \A i \in 1 .. Len(s) : i # 1 =>
              i - 1 \in 1 .. Len(Tail(s)) /\ Tail(s)[i - 1] = s[i]
OBVIOUS

-----------------------------------------------------------------------------
(* Types *)

LEMMA RegistryTypeInit == RegistryInit => RegistryTypeOK
<1> SUFFICES ASSUME RegistryInit PROVE RegistryTypeOK OBVIOUS
<1>1. events \in Seq([peer : Peers, connected : BOOLEAN]) BY DEF RegistryInit
<1>2. at \in [Handlers -> {"free", "conns", "getByIP", "replace", "replaceRemove",
                           "authorise", "add", "onDisconnect"}]
  BY DEF RegistryInit
<1>3. /\ peer \in [Handlers -> Peers \cup {None}] /\ dup \in [Handlers -> Peers \cup {None}]
      /\ dialer \in [Requests -> {"free", "routed", "remove"}]
      /\ dialed \in [Requests -> Peers \cup {None}]
  BY DEF RegistryInit
<1> QED BY <1>1, <1>2, <1>3 DEF RegistryInit, RegistryTypeOK

LEMMA CloseType ==
  ASSUME RegistryTypeOK, NEW p \in Peers, ClosePeer(p)
  PROVE  connected' \subseteq Peers /\ events' \in Seq([peer : Peers, connected : BOOLEAN])
<1>1. Event(p, FALSE) \in [peer : Peers, connected : BOOLEAN] BY EventType
<1>2. CASE p \in connected
  <2>1. connected' = connected \ {p} /\ events' = Append(events, Event(p, FALSE))
    BY <1>2 DEF ClosePeer
  <2>2. Append(events, Event(p, FALSE)) \in Seq([peer : Peers, connected : BOOLEAN])
    BY <1>1, AppendSeq DEF RegistryTypeOK
  <2> QED BY <2>1, <2>2 DEF RegistryTypeOK
<1>3. CASE p \notin connected BY <1>3 DEF RegistryTypeOK, ClosePeer, hostVars
<1> QED BY <1>2, <1>3

LEMMA RejectType ==
  ASSUME RegistryTypeOK, NEW h \in Handlers, at[h] # "free", Reject(h)
  PROVE RegistryTypeOK'
<1>1. peer[h] \in Peers BY DEF RegistryTypeOK
<1>2. connected' \subseteq Peers /\ events' \in Seq([peer : Peers, connected : BOOLEAN])
  BY <1>1, CloseType DEF Reject
<1> QED BY <1>2 DEF RegistryTypeOK, Reject, Return, dialerVars

LEMMA RegistryTypeNext == RegistryTypeOK /\ [RegistryNext]_registryVars => RegistryTypeOK'
<1> SUFFICES ASSUME RegistryTypeOK, [RegistryNext]_registryVars PROVE RegistryTypeOK' OBVIOUS
<1> USE DEF Continue, Return, List, Unlist, hostVars, handlerVars, dialerVars
<1>1. ASSUME NEW p \in Peers, Connect(p) PROVE RegistryTypeOK'
  <2>1. Event(p, TRUE) \in [peer : Peers, connected : BOOLEAN] BY EventType
  <2>2. events' \in Seq([peer : Peers, connected : BOOLEAN]) 
    BY <1>1, <2>1, AppendSeq DEF Connect, RegistryTypeOK
  <2> QED BY <1>1, <2>2 DEF Connect, RegistryTypeOK
<1>2. ASSUME NEW p \in Peers, Drop(p) PROVE RegistryTypeOK'
  <2>1. Event(p, FALSE) \in [peer : Peers, connected : BOOLEAN] BY EventType
  <2>2. events' \in Seq([peer : Peers, connected : BOOLEAN]) 
    BY <1>2, <2>1, AppendSeq DEF Drop, RegistryTypeOK
  <2> QED BY <1>2, <2>2 DEF Drop, RegistryTypeOK
<1>3. ASSUME NEW h \in Handlers, Serve(h) PROVE RegistryTypeOK'
  <2>1. Head(events) \in [peer : Peers, connected : BOOLEAN]
    BY <1>3, HeadTailSeq DEF Serve, RegistryTypeOK
  <2>2. Tail(events) \in Seq([peer : Peers, connected : BOOLEAN])
    BY <1>3, HeadTailSeq DEF Serve, RegistryTypeOK
  <2> QED BY <1>3, <2>1, <2>2 DEF Serve, RegistryTypeOK
<1>4. ASSUME NEW h \in Handlers, Conns(h) PROVE RegistryTypeOK' BY <1>4 DEF Conns, RegistryTypeOK
<1>5. ASSUME NEW h \in Handlers, ConnsFails(h) PROVE RegistryTypeOK'
  BY <1>5, RejectType DEF ConnsFails
<1>6. ASSUME NEW h \in Handlers, GetByIPNone(h) PROVE RegistryTypeOK'
  BY <1>6 DEF GetByIPNone, RegistryTypeOK
<1>7. ASSUME NEW h \in Handlers, NEW n \in nodes, GetByIPFound(h, n) PROVE RegistryTypeOK'
  BY <1>7 DEF GetByIPFound, RegistryTypeOK
<1>8. ASSUME NEW h \in Handlers, ReplaceClose(h) PROVE RegistryTypeOK'
  <2>1. dup[h] \in Peers BY <1>8 DEF ReplaceClose, RegistryTypeOK
  <2>2. connected' \subseteq Peers /\ events' \in Seq([peer : Peers, connected : BOOLEAN])
    BY <1>8, <2>1, CloseType DEF ReplaceClose
  <2> QED BY <1>8, <2>1, <2>2 DEF ReplaceClose, RegistryTypeOK
<1>9. ASSUME NEW h \in Handlers, ReplaceRemove(h) PROVE RegistryTypeOK'
  BY <1>9 DEF ReplaceRemove, RegistryTypeOK
<1>10. ASSUME NEW h \in Handlers, ReplaceFails(h) PROVE RegistryTypeOK'
  BY <1>10 DEF ReplaceFails, RegistryTypeOK
<1>11. ASSUME NEW h \in Handlers, Authorise(h) PROVE RegistryTypeOK'
  BY <1>11 DEF Authorise, RegistryTypeOK
<1>12. ASSUME NEW h \in Handlers, AuthoriseFails(h) PROVE RegistryTypeOK'
  BY <1>12, RejectType DEF AuthoriseFails
<1>13. ASSUME NEW h \in Handlers, AddNode(h) PROVE RegistryTypeOK'
  BY <1>13 DEF AddNode, RegistryTypeOK
<1>14. ASSUME NEW h \in Handlers, AddSkipped(h) PROVE RegistryTypeOK'
  BY <1>14 DEF AddSkipped, RegistryTypeOK
<1>15. ASSUME NEW h \in Handlers, OnDisconnect(h) PROVE RegistryTypeOK'
  BY <1>15 DEF OnDisconnect, RegistryTypeOK
<1>16. ASSUME NEW d \in Requests, NEW p \in Peers, Routed(d, p) PROVE RegistryTypeOK'
  BY <1>16 DEF Routed, RegistryTypeOK
<1>17. ASSUME NEW d \in Requests, DialSucceeds(d) PROVE RegistryTypeOK'
  BY <1>17 DEF DialSucceeds, RegistryTypeOK
<1>18. ASSUME NEW d \in Requests, DialerClose(d) PROVE RegistryTypeOK'
  <2>1. dialed[d] \in Peers BY <1>18 DEF DialerClose, RegistryTypeOK
  <2>2. connected' \subseteq Peers /\ events' \in Seq([peer : Peers, connected : BOOLEAN])
    BY <1>18, <2>1, CloseType DEF DialerClose
  <2> QED BY <1>18, <2>1, <2>2 DEF DialerClose, RegistryTypeOK
<1>19. ASSUME NEW d \in Requests, DialerRemove(d) PROVE RegistryTypeOK'
  BY <1>19 DEF DialerRemove, RegistryTypeOK
<1>20. CASE UNCHANGED registryVars BY <1>20 DEF registryVars, RegistryTypeOK
<1> QED
  BY <1>1, <1>2, <1>3, <1>4, <1>5, <1>6, <1>7, <1>8, <1>9, <1>10, <1>11, <1>12, <1>13,
     <1>14, <1>15, <1>16, <1>17, <1>18, <1>19, <1>20
  DEF RegistryNext, ServeStep, HandlerStep, DialerStep

-----------------------------------------------------------------------------
(* OnlyAuthorised: one action makes a goroutine add its peer, and it has   *)
(* seen the key; no other changes the peer of a goroutine that adds.       *)

LEMMA AuthorisedNext ==
  RegistryTypeOK /\ AddedIsAuthorised /\ OnlyAuthorised /\ [RegistryNext]_registryVars
    => AddedIsAuthorised' /\ OnlyAuthorised'
<1> SUFFICES ASSUME RegistryTypeOK, AddedIsAuthorised, OnlyAuthorised, [RegistryNext]_registryVars
             PROVE  AddedIsAuthorised' /\ OnlyAuthorised'
  OBVIOUS
<1> USE DEF AddedIsAuthorised, OnlyAuthorised, RegistryTypeOK, Continue, Return, Reject, List, Unlist,
            hostVars, handlerVars, dialerVars
<1> DEFINE Goal == AddedIsAuthorised' /\ OnlyAuthorised'
<1>1. ASSUME NEW p \in Peers, Connect(p) \/ Drop(p) PROVE Goal BY <1>1 DEF Connect, Drop
<1>2. ASSUME NEW h \in Handlers, Serve(h) PROVE Goal BY <1>2 DEF Serve
<1>3. ASSUME NEW h \in Handlers, Conns(h) \/ ConnsFails(h) PROVE Goal
  BY <1>3 DEF Conns, ConnsFails
<1>4. ASSUME NEW h \in Handlers, GetByIPNone(h) \/ (\E n \in nodes : GetByIPFound(h, n)) PROVE Goal
  BY <1>4 DEF GetByIPNone, GetByIPFound
<1>5. ASSUME NEW h \in Handlers, ReplaceClose(h) \/ ReplaceRemove(h) \/ ReplaceFails(h) PROVE Goal
  BY <1>5 DEF ReplaceClose, ReplaceRemove, ReplaceFails
<1>6. ASSUME NEW h \in Handlers, Authorise(h) \/ AuthoriseFails(h) PROVE Goal
  BY <1>6 DEF Authorise, AuthoriseFails
<1>7. ASSUME NEW h \in Handlers, AddNode(h) PROVE Goal BY <1>7 DEF AddNode
<1>8. ASSUME NEW h \in Handlers, AddSkipped(h) \/ OnDisconnect(h) PROVE Goal
  BY <1>8 DEF AddSkipped, OnDisconnect
<1>9. ASSUME NEW d \in Requests, NEW p \in Peers, Routed(d, p) PROVE Goal BY <1>9 DEF Routed
<1>10. ASSUME NEW d \in Requests, DialerStep(d) PROVE Goal
  BY <1>10 DEF DialerStep, DialSucceeds, DialerClose, DialerRemove
<1>11. CASE UNCHANGED registryVars BY <1>11 DEF registryVars
<1> QED
  BY <1>1, <1>2, <1>3, <1>4, <1>5, <1>6, <1>7, <1>8, <1>9, <1>10, <1>11
  DEF RegistryNext, ServeStep, HandlerStep

-----------------------------------------------------------------------------
(* GhostsAreLate: a disconnect that is due stays due until OnDisconnect    *)
(* removes the node.                                                       *)

LEMMA WaitingAppend ==
  ASSUME RegistryTypeOK, NEW e, events' = Append(events, e)
  PROVE  (\A q : Waiting(q) => Waiting(q)') /\ \A q : e = Event(q, FALSE) => Waiting(q)'
<1> events \in Seq([peer : Peers, connected : BOOLEAN]) BY DEF RegistryTypeOK
<1>1. ASSUME NEW q, Waiting(q) PROVE Waiting(q)'
  <2>1. PICK i \in 1 .. Len(events) : events[i] = Event(q, FALSE) BY <1>1 DEF Waiting
  <2>2. i \in 1 .. Len(events') /\ events'[i] = Event(q, FALSE)
    <3>1. Len(events') = Len(events) + 1 /\ events'[i] = events[i] OBVIOUS
    <3> QED BY <2>1, <3>1
  <2> QED BY <2>2 DEF Waiting, Event
<1>2. ASSUME NEW q, e = Event(q, FALSE) PROVE Waiting(q)'
  <2>1. Len(events') = Len(events) + 1 /\ events'[Len(events) + 1] = e OBVIOUS
  <2>2. Len(events) + 1 \in 1 .. Len(events') BY <2>1
  <2> QED BY <1>2, <2>1, <2>2 DEF Waiting, Event
<1> QED BY <1>1, <1>2

LEMMA WaitingTail ==
  ASSUME RegistryTypeOK, events # << >>, events' = Tail(events)
  PROVE  \A q : Waiting(q) => Waiting(q)' \/ Head(events) = Event(q, FALSE)
<1> events \in Seq([peer : Peers, connected : BOOLEAN]) BY DEF RegistryTypeOK
<1> SUFFICES ASSUME NEW q, Waiting(q), Head(events) # Event(q, FALSE) PROVE Waiting(q)'
  OBVIOUS
<1>1. PICK i \in 1 .. Len(events) : events[i] = Event(q, FALSE) BY DEF Waiting
<1>2. i # 1 BY <1>1, HeadTailSeq
<1>3. i - 1 \in 1 .. Len(Tail(events)) /\ Tail(events)[i - 1] = events[i]
  BY <1>1, <1>2, HeadTailSeq
<1> QED BY <1>1, <1>3 DEF Waiting, Event

LEMMA WaitingSame == UNCHANGED events => \A q : Waiting(q) => Waiting(q)'
BY DEF Waiting, Event

(* A connection that is closed makes its disconnect due. *)
LEMMA CloseIsDue ==
  ASSUME RegistryTypeOK, NEW p \in Peers, ClosePeer(p)
  PROVE  /\ \A q : Waiting(q) => Waiting(q)'
         /\ p \in connected => Waiting(p)'
         /\ connected' = connected \ {p}
<1>1. CASE p \in connected BY <1>1, WaitingAppend DEF ClosePeer
<1>2. CASE p \notin connected BY <1>2, WaitingSame DEF ClosePeer, hostVars
<1> QED BY <1>1, <1>2

LEMMA RunningKept ==
  ASSUME RegistryTypeOK, NEW h \in Handlers, at[h] # "onDisconnect", NEW l, NEW p,
         at' = [at EXCEPT ![h] = l], peer' = [peer EXCEPT ![h] = p]
  PROVE  \A q : Running(q) => Running(q)'
BY DEF Running, RegistryTypeOK

LEMMA RunningSame == UNCHANGED <<at, peer>> => \A q : Running(q) => Running(q)'
BY DEF Running

LEMMA RejectGhosts ==
  ASSUME RegistryTypeOK, GhostsAreLate, NEW h \in Handlers,
         at[h] \notin {"free", "onDisconnect"}, Reject(h)
  PROVE  GhostsAreLate'
<1>1. PICK p \in Peers : p = peer[h] BY DEF RegistryTypeOK
<1>2. ClosePeer(p) /\ UNCHANGED <<nodes, late>> BY <1>1 DEF Reject
<1>3. \A q : Running(q) => Running(q)'
  BY RunningKept DEF Reject, Return
<1>4. \A q : DisconnectDue(q)' <=> Waiting(q)' \/ Running(q)'
  BY DEF DisconnectDue, Waiting, Running
<1>5. /\ \A q : Waiting(q) => Waiting(q)'
      /\ p \in connected => Waiting(p)'
      /\ connected' = connected \ {p}
  BY <1>2, CloseIsDue
<1> QED BY <1>2, <1>3, <1>4, <1>5, DueIs DEF GhostsAreLate

LEMMA GhostsNext == RegistryTypeOK /\ GhostsAreLate /\ [RegistryNext]_registryVars => GhostsAreLate'
<1> SUFFICES ASSUME RegistryTypeOK, GhostsAreLate, [RegistryNext]_registryVars PROVE GhostsAreLate' OBVIOUS
<1>0. \A q : DisconnectDue(q)' <=> Waiting(q)' \/ Running(q)'
  BY DEF DisconnectDue, Waiting, Running
<1> USE DueIs, <1>0 DEF GhostsAreLate, hostVars, handlerVars, dialerVars
<1>1. ASSUME NEW p \in Peers, Connect(p) PROVE GhostsAreLate'
  BY <1>1, WaitingAppend, RunningSame DEF Connect
<1>2. ASSUME NEW p \in Peers, Drop(p) PROVE GhostsAreLate'
  BY <1>2, WaitingAppend, RunningSame DEF Drop
<1>3. ASSUME NEW h \in Handlers, Serve(h) PROVE GhostsAreLate'
  <2>1. \A q : Running(q) => Running(q)' BY <1>3, RunningKept DEF Serve
  <2>2. \A q : Waiting(q) => Waiting(q)' \/ Head(events) = Event(q, FALSE)
    BY <1>3, WaitingTail DEF Serve
  <2>3. \A q : Head(events) = Event(q, FALSE) => Running(q)'
    BY <1>3 DEF Serve, Running, Event, RegistryTypeOK
  <2> QED BY <1>3, <2>1, <2>2, <2>3 DEF Serve
<1>4. ASSUME NEW h \in Handlers, Conns(h) PROVE GhostsAreLate'
  <2>1. \A q : Running(q) => Running(q)' BY <1>4 DEF Conns, Continue, Running, RegistryTypeOK
  <2> QED BY <1>4, <2>1, WaitingSame DEF Conns
<1>5. ASSUME NEW h \in Handlers, ConnsFails(h) PROVE GhostsAreLate'
  BY <1>5, RejectGhosts DEF ConnsFails
<1>6. ASSUME NEW h \in Handlers, GetByIPNone(h) PROVE GhostsAreLate'
  <2>1. \A q : Running(q) => Running(q)' BY <1>6 DEF GetByIPNone, Continue, Running, RegistryTypeOK
  <2> QED BY <1>6, <2>1, WaitingSame DEF GetByIPNone
<1>7. ASSUME NEW h \in Handlers, NEW n \in nodes, GetByIPFound(h, n) PROVE GhostsAreLate'
  <2>1. \A q : Running(q) => Running(q)' BY <1>7 DEF GetByIPFound, Running, RegistryTypeOK
  <2> QED BY <1>7, <2>1, WaitingSame DEF GetByIPFound
<1>8. ASSUME NEW h \in Handlers, ReplaceClose(h) PROVE GhostsAreLate'
  <2>1. \A q : Running(q) => Running(q)' BY <1>8 DEF ReplaceClose, Continue, Running, RegistryTypeOK
  <2>2. dup[h] \in Peers BY <1>8 DEF ReplaceClose, RegistryTypeOK
  <2> QED BY <1>8, <2>1, <2>2, CloseIsDue DEF ReplaceClose
<1>9. ASSUME NEW h \in Handlers, ReplaceRemove(h) PROVE GhostsAreLate'
  <2>1. \A q : Running(q) => Running(q)' BY <1>9 DEF ReplaceRemove, Continue, Running, RegistryTypeOK
  <2> QED BY <1>9, <2>1, WaitingSame DEF ReplaceRemove, Unlist
<1>10. ASSUME NEW h \in Handlers, ReplaceFails(h) PROVE GhostsAreLate'
  <2>1. \A q : Running(q) => Running(q)' BY <1>10 DEF ReplaceFails, Return, Running, RegistryTypeOK
  <2> QED BY <1>10, <2>1, WaitingSame DEF ReplaceFails
<1>11. ASSUME NEW h \in Handlers, Authorise(h) PROVE GhostsAreLate'
  <2>1. \A q : Running(q) => Running(q)' BY <1>11 DEF Authorise, Continue, Running, RegistryTypeOK
  <2> QED BY <1>11, <2>1, WaitingSame DEF Authorise
<1>12. ASSUME NEW h \in Handlers, AuthoriseFails(h) PROVE GhostsAreLate'
  BY <1>12, RejectGhosts DEF AuthoriseFails
<1>13. ASSUME NEW h \in Handlers, AddNode(h) PROVE GhostsAreLate'
  <2>1. \A q : Running(q) => Running(q)' BY <1>13 DEF AddNode, Return, Running, RegistryTypeOK
  <2> QED BY <1>13, <2>1, WaitingSame DEF AddNode, List
<1>14. ASSUME NEW h \in Handlers, AddSkipped(h) PROVE GhostsAreLate'
  <2>1. \A q : Running(q) => Running(q)' BY <1>14 DEF AddSkipped, Return, Running, RegistryTypeOK
  <2> QED BY <1>14, <2>1, WaitingSame DEF AddSkipped
<1>15. ASSUME NEW h \in Handlers, OnDisconnect(h) PROVE GhostsAreLate'
  <2>1. \A q : q # peer[h] /\ Running(q) => Running(q)'
    BY <1>15 DEF OnDisconnect, Return, Running, RegistryTypeOK
  <2> QED BY <1>15, <2>1, WaitingSame DEF OnDisconnect, Unlist
<1>16. ASSUME NEW d \in Requests, NEW p \in Peers, Routed(d, p) PROVE GhostsAreLate'
  BY <1>16, WaitingSame, RunningSame DEF Routed
<1>17. ASSUME NEW d \in Requests, DialSucceeds(d) PROVE GhostsAreLate'
  BY <1>17, WaitingSame, RunningSame DEF DialSucceeds
<1>18. ASSUME NEW d \in Requests, DialerClose(d) PROVE GhostsAreLate'
  <2>1. dialed[d] \in Peers BY <1>18 DEF DialerClose, RegistryTypeOK
  <2> QED BY <1>18, <2>1, CloseIsDue, RunningSame DEF DialerClose
<1>19. ASSUME NEW d \in Requests, DialerRemove(d) PROVE GhostsAreLate'
  BY <1>19, WaitingSame, RunningSame DEF DialerRemove, Unlist
<1>20. CASE UNCHANGED registryVars BY <1>20, WaitingSame, RunningSame DEF registryVars
<1> QED
  BY <1>1, <1>2, <1>3, <1>4, <1>5, <1>6, <1>7, <1>8, <1>9, <1>10, <1>11, <1>12, <1>13,
     <1>14, <1>15, <1>16, <1>17, <1>18, <1>19, <1>20
  DEF RegistryNext, ServeStep, HandlerStep, DialerStep

-----------------------------------------------------------------------------
LEMMA RegistryInvariance == RegistrySpec => []RegistryInv
<1>1. RegistryInit => RegistryInv
  BY RegistryTypeInit DEF RegistryInit, RegistryInv, AddedIsAuthorised, OnlyAuthorised, GhostsAreLate
<1>2. RegistryInv /\ [RegistryNext]_registryVars => RegistryInv'
  BY RegistryTypeNext, AuthorisedNext, GhostsNext DEF RegistryInv
<1> QED BY <1>1, <1>2, PTL DEF RegistrySpec

(* Every reachable state is well-typed: a goroutine that runs has a peer.  *)
THEOREM RegistryTypeCorrect == RegistrySpec => []RegistryTypeOK
<1>1. RegistryInv => RegistryTypeOK BY DEF RegistryInv
<1> QED BY <1>1, RegistryInvariance, PTL

(* Whatever OnConnect goroutines overlap, and whatever they replace, only  *)
(* peers whose key was accepted are in the table.                          *)
THEOREM NobodySlipsIn == RegistrySpec => []OnlyAuthorised
<1>1. RegistryInv => OnlyAuthorised BY DEF RegistryInv
<1> QED BY <1>1, RegistryInvariance, PTL

(* A node that is listed and gone is about to be removed, or was added     *)
(* when its OnDisconnect was over: OnConnect's blind Add is the one way to *)
(* a ghost.                                                                *)
THEOREM GhostsComeLate == RegistrySpec => []GhostsAreLate
<1>1. RegistryInv => GhostsAreLate BY DEF RegistryInv
<1> QED BY <1>1, RegistryInvariance, PTL

-----------------------------------------------------------------------------
(* Registration with the router: a step of the whole is a step of each of  *)
(* the two, or leaves it alone.                                            *)

(* The peers that Remove is called with. *)
LEMMA RemovedIsPeer ==
  ASSUME RegistryTypeOK
  PROVE  /\ \A h \in Handlers : at[h] = "replaceRemove" => dup[h] \in Peers
         /\ \A h \in Handlers : at[h] # "free" => peer[h] \in Peers
         /\ \A d \in Requests : dialer[d] # "free" => dialed[d] \in Peers
BY DEF RegistryTypeOK

LEMMA RouterSteps ==
  ASSUME RegistryTypeOK, [RoutingNext]_routingVars
  PROVE  [RouterNext]_routerVars
<1>1. ASSUME NEW h \in Handlers, Handle(h) PROVE [RouterNext]_routerVars
  <2>1. h \in Removers BY RoutingAssumption
  <2>2. CASE ReplaceRemove(h) /\ RemoveNode(h, dup[h])
    BY <2>1, <2>2, RemovedIsPeer DEF ReplaceRemove, RouterNext
  <2>3. CASE AddNode(h) /\ Add(peer[h])
    BY <2>3, RemovedIsPeer DEF AddNode, RouterNext
  <2>4. CASE OnDisconnect(h) /\ RemoveNode(h, peer[h])
    BY <2>1, <2>4, RemovedIsPeer DEF OnDisconnect, RouterNext
  <2> QED BY <1>1, <2>2, <2>3, <2>4 DEF Handle
<1>2. ASSUME NEW d \in Requests, Dial(d) PROVE [RouterNext]_routerVars
  <2>1. d \in Removers BY RoutingAssumption
  <2>2. CASE DialerRemove(d) /\ RemoveNode(d, dialed[d])
    BY <2>1, <2>2, RemovedIsPeer DEF DialerRemove, RouterNext
  <2> QED BY <1>2, <2>2 DEF Dial
<1>3. ASSUME NEW d \in Requests, Route(d) PROVE [RouterNext]_routerVars
  BY <1>3 DEF Route, RouterNext
<1>4. CASE UNCHANGED routingVars BY <1>4 DEF routingVars
<1> QED BY <1>1, <1>2, <1>3, <1>4 DEF RoutingNext, ServeEvent, RouterNext

(* The node a Route call returns is a peer. *)
LEMMA RegistrySteps ==
  ASSUME RouterTypeOK', [RoutingNext]_routingVars
  PROVE  [RegistryNext]_registryVars
<1>1. ASSUME NEW h \in Handlers, Handle(h) PROVE HandlerStep(h)
  BY <1>1 DEF Handle, OnConnectGoesOn, HandlerStep
<1>2. ASSUME NEW d \in Requests, Dial(d) PROVE DialerStep(d)
  BY <1>2 DEF Dial, DialerStep
<1>3. ASSUME NEW d \in Requests, Route(d) PROVE [RegistryNext]_registryVars
  <2>1. CASE picked'[d] # None /\ Routed(d, picked'[d])
    <3>1. picked'[d] \in Peers BY <2>1 DEF RouterTypeOK
    <3> QED BY <2>1, <3>1 DEF RegistryNext
  <2> QED BY <1>3, <2>1 DEF Route, Returned
<1>4. CASE UNCHANGED routingVars BY <1>4 DEF routingVars
<1> QED BY <1>1, <1>2, <1>3, <1>4 DEF RoutingNext, ServeEvent, RegistryNext, ServeStep

LEMMA BothTypes == RoutingSpec => [](RegistryTypeOK /\ RouterTypeOK)
<1>1. RoutingInit => RegistryTypeOK /\ RouterTypeOK
  BY RegistryTypeInit, RouterTypeInit DEF RoutingInit
<1>2. RegistryTypeOK /\ RouterTypeOK /\ [RoutingNext]_routingVars
        => RegistryTypeOK' /\ RouterTypeOK'
  BY RouterSteps, RegistrySteps, TypeStep, RegistryTypeNext
<1> QED BY <1>1, <1>2, PTL DEF RoutingSpec

(* The router in the whole behaves as Router says: whoever calls Add and   *)
(* Remove, and whenever, is one of the callers Router allows for.          *)
THEOREM RoutesAsRouter == RoutingSpec => RouterSpec
<1>1. RoutingInit => RouterInit BY DEF RoutingInit
<1>2. RegistryTypeOK /\ [RoutingNext]_routingVars => [RouterNext]_routerVars BY RouterSteps
<1> QED BY <1>1, <1>2, BothTypes, PTL DEF RoutingSpec, RouterSpec

(* Registration in the whole behaves as Registry says: that Remove takes   *)
(* several steps while its caller waits, and that Route reads a cache, is  *)
(* nothing that Registry has not allowed for.                              *)
THEOREM RegistersAsRegistry == RoutingSpec => RegistrySpec
<1>1. RoutingInit => RegistryInit BY DEF RoutingInit
<1>2. RouterTypeOK' /\ [RoutingNext]_routingVars => [RegistryNext]_registryVars
  BY RegistrySteps
<1> QED BY <1>1, <1>2, BothTypes, PTL DEF RoutingSpec, RegistrySpec

LEMMA BothInvariants == RoutingSpec => [](RegistryInv /\ RouterInv)
BY RoutesAsRouter, RegistersAsRegistry, RegistryInvariance, RouterInductive, PTL

-----------------------------------------------------------------------------
(* RoutedIsAuthorised: a key is checked before a peer is listed, and what  *)
(* Route holds, caches and returns was listed when it was picked.          *)

(* Past the look-up a Route call holds a node that was once listed. *)
HeldIsAuthorised ==
  \A d \in Requests :
    pc[d] \in {"rank", "poolRank", "bind", "insert"} => picked[d] \in Valid

(* Before its SELECT it holds none: it returns an error if that fails. *)
NothingPicked == \A d \in Requests : pc[d] = "pick" => picked[d] = None

CachedIsAuthorised == \A s \in Sessions : sessions[s] # None => sessions[s] \in Valid

DialedIsAuthorised == \A d \in Requests : dialer[d] # "free" => dialed[d] \in Valid

AuthorisedInv ==
  HeldIsAuthorised /\ NothingPicked /\ CachedIsAuthorised /\ DialedIsAuthorised

(* What the steps of a Route call hand on is what they have. *)
LEMMA RouteAuthorised ==
  ASSUME RouterTypeOK, OnlyAuthorised, HeldIsAuthorised, NothingPicked, CachedIsAuthorised,
         NEW d \in Requests, RouteStart(d) \/ RouteCached(d) \/ RouteStep(d)
  PROVE  /\ HeldIsAuthorised' /\ NothingPicked' /\ CachedIsAuthorised'
         /\ pc'[d] = "idle" /\ picked'[d] # None => picked'[d] \in Valid
<1> USE DEF RouterTypeOK, OnlyAuthorised, HeldIsAuthorised, NothingPicked, CachedIsAuthorised,
            Goto, storeVars, sessionVars, removeVars
<1>1. CASE RouteStart(d) BY <1>1 DEF RouteStart
<1>2. CASE RouteCached(d)
  <2>1. SessionID[d] \in Sessions BY <1>2, RouterAssumption DEF RouteCached, Sticky
  <2> QED BY <1>2, <2>1 DEF RouteCached
<1>3. CASE Pick(d)
  <2>1. PICK p \in Candidates(d) : picked' = [picked EXCEPT ![d] = p] BY <1>3 DEF Pick
  <2>2. Pool[d] = None => p \in nodes BY <2>1 DEF Candidates, Least
  <2> QED BY <1>3, <2>1, <2>2 DEF Pick
<1>4. CASE PickFails(d) BY <1>4 DEF PickFails
<1>5. CASE LookupNode(d) \/ LookupFails(d) BY <1>5 DEF LookupNode, LookupFails
<1>6. CASE RankNode(d) BY <1>6 DEF RankNode, Picked
<1>7. CASE RankPool(d) BY <1>7 DEF RankPool, Picked
<1>8. CASE Bind(d) BY <1>8 DEF Bind
<1>9. CASE InsertRow(d) BY <1>9 DEF InsertRow
<1> QED BY <1>1, <1>2, <1>3, <1>4, <1>5, <1>6, <1>7, <1>8, <1>9 DEF RouteStep

(* The other steps of the router put nothing into the cache. *)
LEMMA OthersAuthorised ==
  ASSUME RouterTypeOK, HeldIsAuthorised, NothingPicked, CachedIsAuthorised,
         \/ \E d \in Requests : ExpireStep(d)
         \/ \E g \in Removers : RemoveStep(g) \/ \E p \in Peers : RemoveNode(g, p)
         \/ \E p \in Peers : Add(p)
         \/ \E s \in Sessions : Evict(s)
         \/ PoolWrite
         \/ UNCHANGED routerVars
  PROVE  HeldIsAuthorised' /\ NothingPicked' /\ CachedIsAuthorised'
<1>1. UNCHANGED <<pc, picked>>
  BY ElsewhereEffect
  DEF ExpireStep, ExpireRows, ExpireEntry, RemoveStep, RemovePool, RemoveQuery, RemoveDrop,
      RemoveRows, RemoveNode, Add, Evict, DeletePoolRows, routeVars, linkVars
<1>2. \A s \in Sessions : sessions'[s] = sessions[s] \/ sessions'[s] = None
  BY ElsewhereEffect
  DEF ExpireStep, ExpireRows, ExpireEntry, RemoveStep, RemovePool, RemoveQuery, RemoveDrop,
      RemoveRows, RemoveNode, Add, Evict, DeletePoolRows, sessionVars, linkVars, RouterTypeOK
<1> QED BY <1>1, <1>2 DEF HeldIsAuthorised, NothingPicked, CachedIsAuthorised

LEMMA AuthorisedStep ==
  ASSUME RegistryTypeOK, RouterTypeOK, OnlyAuthorised, AuthorisedInv,
         [RoutingNext]_routingVars
  PROVE  AuthorisedInv'
<1>1. ASSUME NEW d \in Requests, Route(d) PROVE AuthorisedInv'
  <2>1. /\ HeldIsAuthorised' /\ NothingPicked' /\ CachedIsAuthorised'
        /\ pc'[d] = "idle" /\ picked'[d] # None => picked'[d] \in Valid
    BY <1>1, RouteAuthorised DEF Route, AuthorisedInv
  <2>2. DialedIsAuthorised'
    BY <1>1, <2>1
    DEF Route, Returned, Routed, AuthorisedInv, DialedIsAuthorised, RegistryTypeOK,
        registryVars
  <2> QED BY <2>1, <2>2 DEF AuthorisedInv
<1>2. CASE ~ \E d \in Requests : Route(d)
  <2>1. \/ \E d \in Requests : ExpireStep(d)
        \/ \E g \in Removers : RemoveStep(g) \/ \E p \in Peers : RemoveNode(g, p)
        \/ \E p \in Peers : Add(p)
        \/ \E s \in Sessions : Evict(s)
        \/ PoolWrite
        \/ UNCHANGED routerVars
    <3>1. ASSUME NEW h \in Handlers, Handle(h)
          PROVE  \/ \E p \in Peers : RemoveNode(h, p) \/ Add(p)
                 \/ UNCHANGED routerVars
      BY <3>1, RemovedIsPeer DEF Handle, ReplaceRemove, AddNode, OnDisconnect
    <3>2. ASSUME NEW d \in Requests, Dial(d)
          PROVE  (\E p \in Peers : RemoveNode(d, p)) \/ UNCHANGED routerVars
      BY <3>2, RemovedIsPeer DEF Dial, DialerRemove
    <3> QED
      BY <1>2, <3>1, <3>2, RoutingAssumption DEF RoutingNext, ServeEvent, routingVars
  <2>2. HeldIsAuthorised' /\ NothingPicked' /\ CachedIsAuthorised'
    BY <2>1, OthersAuthorised DEF AuthorisedInv
  <2>3. \A d \in Requests : dialer'[d] # "free" => dialer[d] # "free" /\ dialed'[d] = dialed[d]
    BY <1>2
    DEF RoutingNext, ServeEvent, Serve, Connect, Drop, Handle, OnConnectGoesOn, Conns,
        ConnsFails, Reject, GetByIPNone, GetByIPFound, ReplaceClose, ReplaceFails, Authorise,
        AuthoriseFails, AddSkipped, ReplaceRemove, AddNode, OnDisconnect, Dial, DialSucceeds,
        DialerClose, DialerRemove, dialerVars, registryVars, routingVars, RegistryTypeOK
  <2>4. DialedIsAuthorised' BY <2>3 DEF AuthorisedInv, DialedIsAuthorised
  <2> QED BY <2>2, <2>4 DEF AuthorisedInv
<1> QED BY <1>1, <1>2

(* Whatever interleaving of connections, removals, route calls, expiries   *)
(* and dials: a request dials only peers whose key was accepted            *)
(* (service_auth.go, OnConnect; genji.go, Route).                          *)
THEOREM DialsAreAuthorised == RoutingSpec => []RoutedIsAuthorised
<1>1. RoutingInit => AuthorisedInv
  BY DEF RoutingInit, RegistryInit, RouterInit, AuthorisedInv, HeldIsAuthorised, NothingPicked,
         CachedIsAuthorised, DialedIsAuthorised
<1>2. /\ RegistryInv /\ RouterInv
      /\ AuthorisedInv /\ [RoutingNext]_routingVars
      => AuthorisedInv'
  BY AuthorisedStep DEF RegistryInv, RouterInv
<1>3. RegistryInv /\ AuthorisedInv => RoutedIsAuthorised
  BY DEF RegistryInv, OnlyAuthorised, AuthorisedInv, CachedIsAuthorised, DialedIsAuthorised,
         RoutedIsAuthorised
<1> QED BY <1>1, <1>2, <1>3, BothInvariants, PTL DEF RoutingSpec

-----------------------------------------------------------------------------
(* RoutedIsReachable: what a Route call returns is in the cache, where     *)
(* OrphansAreRaces applies, or has been held since it was listed, where    *)
(* GoneIsOvertaken does.                                                   *)

(* What Route returns, and why if it is not listed. *)
LEMMA ReturnedIsExcused ==
  ASSUME RouterTypeOK, Linked, NothingPicked, NEW d \in Requests,
         RouteStart(d) \/ RouteCached(d) \/ RouteStep(d),
         pc'[d] = "idle", picked'[d] # None, picked'[d] \notin nodes
  PROVE  \/ BeingRemoved(picked'[d])
         \/ Expiring(SessionID[d])
         \/ Overtakes(picked'[d], d)
<1>1. CASE RouteStart(d) BY <1>1 DEF RouteStart, Goto, RouterTypeOK
<1>2. CASE RouteCached(d)
  <2>1. SessionID[d] \in Sessions BY <1>2, RouterAssumption DEF RouteCached, Sticky
  <2>2. picked'[d] = sessions[SessionID[d]] BY <1>2 DEF RouteCached, RouterTypeOK
  <2>3. \/ BeingRemoved(sessions[SessionID[d]])
        \/ Expiring(SessionID[d])
        \/ \E r \in overtaken : /\ SessionID[r] = SessionID[d]
                                /\ picked[r] = sessions[SessionID[d]]
                                /\ job[r] = "pending"
    BY <2>1, <2>2 DEF Linked, OrphansAreRaces
  <2> QED BY <2>2, <2>3 DEF Overtakes
<1>3. CASE RouteStep(d) /\ pc[d] \in {"rank", "poolRank", "insert"}
  <2>1. picked' = picked
    BY <1>3 DEF RouteStep, Pick, PickFails, LookupNode, LookupFails, RankNode, RankPool, Bind,
                InsertRow
  <2>2. d \in overtaken BY <1>3, <2>1 DEF Linked, GoneIsOvertaken
  <2> QED BY <2>1, <2>2 DEF Overtakes
<1>4. CASE RouteStep(d) /\ pc[d] \notin {"rank", "poolRank", "insert"}
  BY <1>4 DEF RouteStep, Pick, PickFails, LookupNode, LookupFails, RankNode, RankPool, Bind,
              InsertRow, Goto, RouterTypeOK, NothingPicked
<1> QED BY <1>1, <1>2, <1>3, <1>4

(* Only Route hands a node to a request. *)
LEMMA OnlyRouteHandsOver ==
  ASSUME RegistryTypeOK, [RoutingNext]_routingVars,
         NEW d \in Requests, dialer[d] = "free", dialer'[d] = "routed"
  PROVE  /\ RouteStart(d) \/ RouteCached(d) \/ RouteStep(d)
         /\ pc'[d] = "idle" /\ picked'[d] # None /\ dialed'[d] = picked'[d]
<1>1. \E q \in Requests : Route(q)
  BY DEF RoutingNext, ServeEvent, Serve, Connect, Drop, Handle, OnConnectGoesOn, Conns,
         ConnsFails, Reject, GetByIPNone, GetByIPFound, ReplaceClose, ReplaceFails, Authorise,
         AuthoriseFails, AddSkipped, ReplaceRemove, AddNode, OnDisconnect, Dial, DialSucceeds,
         DialerClose, DialerRemove, dialerVars, registryVars, routingVars, RegistryTypeOK
<1>2. PICK q \in Requests : Route(q) BY <1>1
<1>3. /\ pc'[q] = "idle" /\ picked'[q] # None
      /\ dialer' = [dialer EXCEPT ![q] = "routed"]
      /\ dialed' = [dialed EXCEPT ![q] = picked'[q]]
  BY <1>2 DEF Route, Returned, Routed, registryVars
<1>4. q = d BY <1>3 DEF RegistryTypeOK
<1> QED BY <1>2, <1>3, <1>4 DEF Route, RegistryTypeOK

(* A request is given a node that is listed and connected but in the races *)
(* that are named (genji.go, Route, Remove; service_auth.go, OnConnect,    *)
(* OnDisconnect; dialer.go, Disconnect).                                   *)
THEOREM NodesAreReachable == RoutingSpec => RoutedIsReachable
<1>1. ASSUME RegistryInv, RouterInv, NothingPicked, [RoutingNext]_routingVars,
             NEW d \in Requests, dialer[d] = "free", dialer'[d] = "routed"
      PROVE  IF dialed'[d] \in nodes
             THEN \/ dialed'[d] \in connected
                  \/ DisconnectDue(dialed'[d])
                  \/ dialed'[d] \in late
             ELSE \/ BeingRemoved(dialed'[d])
                  \/ Expiring(SessionID[d])
                  \/ Overtakes(dialed'[d], d)
  <2>1. /\ RouteStart(d) \/ RouteCached(d) \/ RouteStep(d)
        /\ pc'[d] = "idle" /\ picked'[d] # None /\ dialed'[d] = picked'[d]
    BY <1>1, OnlyRouteHandsOver DEF RegistryInv
  <2>2. CASE dialed'[d] \in nodes BY <1>1, <2>2 DEF RegistryInv, GhostsAreLate
  <2>3. CASE dialed'[d] \notin nodes
    BY <1>1, <2>1, <2>3, ReturnedIsExcused DEF RouterInv
  <2> QED BY <2>2, <2>3
<1>2. RegistryInv /\ RouterInv /\ NothingPicked /\ [RoutingNext]_routingVars =>
        [\A d \in Requests : dialer[d] = "free" /\ dialer'[d] = "routed" =>
           LET p == dialed'[d] IN
           IF p \in nodes
           THEN p \in connected \/ DisconnectDue(p) \/ p \in late
           ELSE BeingRemoved(p) \/ Expiring(SessionID[d]) \/ Overtakes(p, d)]_routingVars
  BY <1>1
<1>3. RoutingSpec => []NothingPicked
  <2>1. RoutingInit => AuthorisedInv
    BY DEF RoutingInit, RegistryInit, RouterInit, AuthorisedInv, HeldIsAuthorised,
           NothingPicked, CachedIsAuthorised, DialedIsAuthorised
  <2>2. /\ RegistryInv /\ RouterInv
        /\ AuthorisedInv /\ [RoutingNext]_routingVars
        => AuthorisedInv'
    BY AuthorisedStep DEF RegistryInv, RouterInv
  <2>3. AuthorisedInv => NothingPicked BY DEF AuthorisedInv
  <2> QED BY <2>1, <2>2, <2>3, BothInvariants, PTL DEF RoutingSpec
<1> QED BY <1>2, <1>3, BothInvariants, PTL DEF RoutingSpec, RoutedIsReachable
=============================================================================
