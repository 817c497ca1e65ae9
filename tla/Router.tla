------------------------------- MODULE Router -------------------------------
(***************************************************************************)
(* The router (src/pkg/router/genji.go) with its session cache             *)
(* (src/internal/cache/fastcache.go).                                      *)
(*                                                                         *)
(* It keeps four stores that no common lock or transaction protects:       *)
(*   nodes     the table of registered nodes with their rankings,          *)
(*   pools     a second database: at most one pool per node, with its own  *)
(*             rankings,                                                   *)
(*   sessions  the cache session id -> node that Route consults first,     *)
(*   rows      the table sessions(peer_id, session_id) by which Remove     *)
(*             finds the cached sessions of a node,                        *)
(* and one expiry job per SetWithExpire, which is never cancelled.         *)
(*                                                                         *)
(* Each Exec is one atomic write, each Query reads one snapshot.  Route,   *)
(* Remove, the expiry jobs and the ranking reset run concurrently and are  *)
(* split at those boundaries.                                              *)
(***************************************************************************)
EXTENDS Integers, FiniteSets, Nodes

CONSTANTS
  Sessions,   \* session ids (SessionID # 0)
  PoolNames,
  Removers,   \* Remove calls
  SessionID,  \* SessionID[r] \in Sessions, or None for 0
  Pool,       \* Pool[r] \in PoolNames, or None
  ByIP,       \* the requests with request.IP # nil
  Eligible,   \* Eligible[r]: the nodes the WHERE clause of r selects
  MaxRank     \* bound: no Route starts that could take a ranking past it

ASSUME RouterAssumption ==
  /\ None \notin Peers \cup Sessions \cup PoolNames
  /\ SessionID \in [Requests -> Sessions \cup {None}]
  /\ Pool \in [Requests -> PoolNames \cup {None}]
  /\ ByIP \subseteq Requests
  /\ Eligible \in [Requests -> SUBSET Peers]
  /\ IsFiniteSet(Requests)
  /\ MaxRank \in Nat

VARIABLES
  ranking,     \* nodes.ranking (0 if there is no row)
  poolOf,      \* pools.name by pools.peer_id, None if there is no row
  poolRanking, \* pools.ranking (0 if there is no row)
  sessions,    \* the cache: session id -> peer or None
  rows,        \* table sessions
  job,         \* expiry job of a Route call: "none", "pending", "firing"
  pc,          \* where each Route call is
  picked,      \* the node it has picked, afterwards the node it returned
  rpc,         \* where each Remove call is
  target,      \* the peer it removes
  found,       \* session ids of its query it has not deleted from the cache
  resetting,   \* the ticker has reset nodes and not yet pools
  overtaken    \* history: Route calls that held a node while it was removed

storeVars == <<nodes, ranking, poolOf, poolRanking, resetting>>
sessionVars == <<sessions, rows, job>>
routeVars == <<pc, picked>>
removeVars == <<rpc, target, found>>
routerVars == <<nodes, ranking, poolOf, poolRanking, sessions, rows, job, pc,
                picked, rpc, target, found, resetting, overtaken>>

RouterInit ==
  /\ nodes = {}
  /\ ranking = [p \in Peers |-> 0]
  /\ poolOf = [p \in Peers |-> None]
  /\ poolRanking = [p \in Peers |-> 0]
  /\ sessions = [s \in Sessions |-> None]
  /\ rows = {}
  /\ job = [r \in Requests |-> "none"]
  /\ pc = [r \in Requests |-> "idle"]
  /\ picked = [r \in Requests |-> None]
  /\ rpc = [k \in Removers |-> "idle"]
  /\ target = [k \in Removers |-> None]
  /\ found = [k \in Removers |-> {}]
  /\ resetting = FALSE
  /\ overtaken = {}

(* request.SessionID # 0 && request.IP == nil *)
Sticky(r) == SessionID[r] # None /\ r \notin ByIP

Goto(r, l) == pc' = [pc EXCEPT ![r] = l]

(* The node is being removed by some Remove call. *)
BeingRemoved(p) == \E k \in Removers : rpc[k] # "idle" /\ target[k] = p

Active == {r \in Requests : pc[r] # "idle"}

(* The members of S that ORDER BY rank ASC LIMIT 1 may return. *)
Least(S, rank) == {p \in S : \A q \in S : rank[p] <= rank[q]}

-----------------------------------------------------------------------------
(* Route *)

Bounded ==
  \A p \in Peers : /\ ranking[p] + Cardinality(Active) < MaxRank
                   /\ poolRanking[p] + Cardinality(Active) < MaxRank

(* findSession hits: the cached node is returned as it is. *)
RouteCached(r) ==
  /\ pc[r] = "idle" /\ job[r] = "none"
  /\ Sticky(r)
  /\ sessions[SessionID[r]] # None
  /\ picked' = [picked EXCEPT ![r] = sessions[SessionID[r]]]
  /\ overtaken' = overtaken \ {r}
  /\ UNCHANGED <<storeVars, sessionVars, pc, removeVars>>

(* findSession misses, or is not asked: on to pick. *)
RouteStart(r) ==
  /\ pc[r] = "idle" /\ job[r] = "none"
  /\ Bounded
  /\ Sticky(r) => sessions[SessionID[r]] = None
  /\ Goto(r, "pick")
  /\ picked' = [picked EXCEPT ![r] = None]
  /\ overtaken' = overtaken \ {r}
  /\ UNCHANGED <<storeVars, sessionVars, removeVars>>

(* The peers the SELECT of pick or pickFromPool may return. *)
Candidates(r) ==
  IF Pool[r] # None THEN Least({p \in Peers : poolOf[p] = Pool[r]}, poolRanking)
  ELSE IF r \in ByIP THEN Eligible[r] \cap nodes
  ELSE Least(Eligible[r] \cap nodes, ranking)

(* The SELECT of pick or pickFromPool finds a peer. *)
Pick(r) ==
  /\ pc[r] = "pick"
  /\ \E p \in Candidates(r) :
       /\ picked' = [picked EXCEPT ![r] = p]
       /\ overtaken' = IF BeingRemoved(p) THEN overtaken \cup {r} ELSE overtaken
  /\ Goto(r, IF Pool[r] # None THEN "lookup" ELSE "rank")
  /\ UNCHANGED <<storeVars, sessionVars, removeVars>>

(* It finds none: Route returns the error. *)
PickFails(r) ==
  /\ pc[r] = "pick"
  /\ Candidates(r) = {}
  /\ Goto(r, "idle")
  /\ UNCHANGED <<storeVars, sessionVars, picked, removeVars, overtaken>>

(* pickFromPool reads the node of the pool row. *)
LookupNode(r) ==
  /\ pc[r] = "lookup"
  /\ picked[r] \in nodes
  /\ Goto(r, "rank")
  /\ UNCHANGED <<storeVars, sessionVars, picked, removeVars, overtaken>>

(* The pool row has no node.  DELETE FROM pools WHERE peer_id = ? is       *)
(* executed without an argument: it fails, its error is dropped, and no    *)
(* row is deleted.  Route returns the error.                               *)
LookupFails(r) ==
  /\ pc[r] = "lookup"
  /\ picked[r] \notin nodes
  /\ Goto(r, "idle")
  /\ picked' = [picked EXCEPT ![r] = None]
  /\ UNCHANGED <<storeVars, sessionVars, removeVars, overtaken>>

(* Where Route goes when it has a node. *)
Picked(r) == Goto(r, IF Sticky(r) THEN "bind" ELSE "idle")

(* UPDATE nodes SET ranking = ranking + 1: no row, no effect. *)
RankNode(r) ==
  /\ pc[r] = "rank"
  /\ ranking' = IF picked[r] \in nodes THEN [ranking EXCEPT ![picked[r]] = @ + 1]
                                       ELSE ranking
  /\ IF Pool[r] # None THEN Goto(r, "poolRank") ELSE Picked(r)
  /\ UNCHANGED <<nodes, poolOf, poolRanking, resetting, sessionVars, picked,
                 removeVars, overtaken>>

RankPool(r) ==
  /\ pc[r] = "poolRank"
  /\ poolRanking' = IF poolOf[picked[r]] # None
                    THEN [poolRanking EXCEPT ![picked[r]] = @ + 1]
                    ELSE poolRanking
  /\ Picked(r)
  /\ UNCHANGED <<nodes, ranking, poolOf, resetting, sessionVars, picked,
                 removeVars, overtaken>>

(* Mutant of Bind: no job is scheduled. *)
BindWithoutJob(r) ==
  /\ pc[r] = "bind"
  /\ sessions' = [sessions EXCEPT ![SessionID[r]] = picked[r]]
  /\ Goto(r, "insert")
  /\ UNCHANGED <<storeVars, rows, job, picked, removeVars, overtaken>>

(* SetWithExpire: the cache entry, and the job that will delete it. *)
Bind(r) ==
  /\ pc[r] = "bind"
  /\ sessions' = [sessions EXCEPT ![SessionID[r]] = picked[r]]
  /\ job' = [job EXCEPT ![r] = "pending"]
  /\ Goto(r, "insert")
  /\ UNCHANGED <<storeVars, rows, picked, removeVars, overtaken>>

(* INSERT INTO sessions, the last step of Route. *)
InsertRow(r) ==
  /\ pc[r] = "insert"
  /\ rows' = rows \cup {<<picked[r], SessionID[r]>>}
  /\ Goto(r, "idle")
  /\ UNCHANGED <<storeVars, sessions, job, picked, removeVars, overtaken>>

-----------------------------------------------------------------------------
(* The expiry job: onSessionExpired deletes the rows of the session id,    *)
(* then the cache entry goes, whoever wrote it.                            *)

(* Mutant of ExpireRows: the callback deletes nothing. *)
ExpireRowsKeepsRows(r) ==
  /\ job[r] = "pending"
  /\ job' = [job EXCEPT ![r] = "firing"]
  /\ UNCHANGED <<storeVars, sessions, rows, routeVars, removeVars, overtaken>>

(* The first step of the job. *)
ExpireRows(r) ==
  /\ job[r] = "pending"
  /\ job' = [job EXCEPT ![r] = "firing"]
  /\ rows' = {row \in rows : row[2] # SessionID[r]}
  /\ UNCHANGED <<storeVars, sessions, routeVars, removeVars, overtaken>>

ExpireEntry(r) ==
  /\ job[r] = "firing"
  /\ job' = [job EXCEPT ![r] = "none"]
  /\ sessions' = [sessions EXCEPT ![SessionID[r]] = None]
  /\ UNCHANGED <<storeVars, rows, routeVars, removeVars, overtaken>>

(* fastcache overwrites its oldest entries when it is full. *)
Evict(s) ==
  /\ sessions[s] # None
  /\ sessions' = [sessions EXCEPT ![s] = None]
  /\ UNCHANGED <<storeVars, rows, job, routeVars, removeVars, overtaken>>

-----------------------------------------------------------------------------
(* Remove *)

(* DELETE FROM nodes *)
RemoveNode(k, p) ==
  /\ rpc[k] = "idle"
  /\ nodes' = nodes \ {p}
  /\ ranking' = [ranking EXCEPT ![p] = 0]
  /\ rpc' = [rpc EXCEPT ![k] = "pool"]
  /\ target' = [target EXCEPT ![k] = p]
  /\ overtaken' = overtaken \cup {r \in Active : picked[r] = p}
  /\ UNCHANGED <<poolOf, poolRanking, resetting, sessionVars, routeVars, found>>

(* A DELETE FROM pools whose predicate selects the rows of S *)
DeletePoolRows(S) ==
  /\ poolOf' = [p \in Peers |-> IF p \in S THEN None ELSE poolOf[p]]
  /\ poolRanking' = [p \in Peers |-> IF p \in S THEN 0 ELSE poolRanking[p]]
  /\ UNCHANGED <<nodes, ranking, resetting, sessionVars, routeVars>>

(* Mutant of RemovePool: the row is not deleted. *)
RemovePoolKeepsRow(k) ==
  /\ rpc[k] = "pool"
  /\ rpc' = [rpc EXCEPT ![k] = "query"]
  /\ UNCHANGED <<storeVars, sessionVars, routeVars, target, found, overtaken>>

(* DELETE FROM pools WHERE peer_id = ? *)
RemovePool(k) ==
  /\ rpc[k] = "pool"
  /\ DeletePoolRows({target[k]})
  /\ rpc' = [rpc EXCEPT ![k] = "query"]
  /\ UNCHANGED <<target, found, overtaken>>

RowsOf(p) == {s \in Sessions : <<p, s>> \in rows}

(* Mutants of RemoveQuery: the cache is left alone, or ... *)
RemoveQuerySkipsCache(k) ==
  /\ rpc[k] = "query"
  /\ rpc' = [rpc EXCEPT ![k] = IF RowsOf(target[k]) = {} THEN "idle" ELSE "rows"]
  /\ UNCHANGED <<storeVars, sessionVars, routeVars, target, found, overtaken>>

(* ... Remove waits for sessions that do not exist. *)
RemoveQueryWaits(k) ==
  /\ rpc[k] = "query"
  /\ found' = [found EXCEPT ![k] = RowsOf(target[k])]
  /\ rpc' = [rpc EXCEPT ![k] = "drop"]
  /\ UNCHANGED <<storeVars, sessionVars, routeVars, target, overtaken>>

(* SELECT session_id: Remove returns here when there is none. *)
RemoveQuery(k) ==
  /\ rpc[k] = "query"
  /\ found' = [found EXCEPT ![k] = RowsOf(target[k])]
  /\ rpc' = [rpc EXCEPT ![k] = IF RowsOf(target[k]) = {} THEN "idle" ELSE "drop"]
  /\ UNCHANGED <<storeVars, sessionVars, routeVars, target, overtaken>>

(* One round of Iterate: the session goes from the cache, whichever node   *)
(* it is bound to by now.                                                  *)
RemoveDrop(k, s) ==
  /\ rpc[k] = "drop"
  /\ s \in found[k]
  /\ sessions' = [sessions EXCEPT ![s] = None]
  /\ found' = [found EXCEPT ![k] = @ \ {s}]
  /\ rpc' = [rpc EXCEPT ![k] = IF found[k] = {s} THEN "rows" ELSE "drop"]
  /\ UNCHANGED <<storeVars, rows, job, routeVars, target, overtaken>>

(* DELETE FROM sessions WHERE peer_id = ? *)
RemoveRows(k) ==
  /\ rpc[k] = "rows"
  /\ rows' = {row \in rows : row[1] # target[k]}
  /\ rpc' = [rpc EXCEPT ![k] = "idle"]
  /\ UNCHANGED <<storeVars, sessions, job, routeVars, target, found, overtaken>>

-----------------------------------------------------------------------------
(* The other writers.  A node may be added, and put into a pool by the     *)
(* tester, at any time: whatever was done before, adding and removing the  *)
(* node leads back to the same state.                                      *)

(* INSERT ... ON CONFLICT DO REPLACE, ranking 0 *)
Add(p) ==
  /\ nodes' = nodes \cup {p}
  /\ ranking' = [ranking EXCEPT ![p] = 0]
  /\ UNCHANGED <<poolOf, poolRanking, resetting, sessionVars, routeVars, removeVars, overtaken>>

(* One round of PoolAdd: the row is moved from any other pool. *)
PoolAdd(name, p) ==
  /\ poolOf' = [poolOf EXCEPT ![p] = name]
  /\ poolRanking' = [poolRanking EXCEPT ![p] = 0]
  /\ UNCHANGED <<nodes, ranking, resetting, sessionVars, routeVars, removeVars, overtaken>>

(* One DELETE for all ids; nothing is done for none. *)
PoolDelete(name, ids) ==
  /\ ids # {}
  /\ DeletePoolRows({p \in ids : poolOf[p] = name})
  /\ UNCHANGED <<removeVars, overtaken>>

(* Nothing is done for no names: the pools of the last tasks stay. *)
PoolCleanNameNotIn(names) ==
  /\ names # {}
  /\ DeletePoolRows({p \in Peers : poolOf[p] \notin names})
  /\ UNCHANGED <<removeVars, overtaken>>

(* The ticker: UPDATE nodes, then UPDATE pools. *)
ResetNodes ==
  /\ ~resetting
  /\ ranking' = [p \in Peers |-> 0]
  /\ resetting' = TRUE
  /\ UNCHANGED <<nodes, poolOf, poolRanking, sessionVars, routeVars, removeVars, overtaken>>

ResetPools ==
  /\ resetting
  /\ poolRanking' = [p \in Peers |-> 0]
  /\ resetting' = FALSE
  /\ UNCHANGED <<nodes, ranking, poolOf, sessionVars, routeVars, removeVars, overtaken>>

-----------------------------------------------------------------------------
(* What a Route call does once it has begun. *)
RouteStep(r) ==
  \/ Pick(r) \/ PickFails(r)
  \/ LookupNode(r) \/ LookupFails(r)
  \/ RankNode(r) \/ RankPool(r)
  \/ Bind(r) \/ InsertRow(r)

ExpireStep(r) == ExpireRows(r) \/ ExpireEntry(r)

RemoveStep(k) ==
  \/ RemovePool(k) \/ RemoveQuery(k)
  \/ \E s \in Sessions : RemoveDrop(k, s)
  \/ RemoveRows(k)

(* The pool tester and the ticker. *)
PoolWrite ==
  \/ \E name \in PoolNames, p \in Peers : PoolAdd(name, p)
  \/ \E name \in PoolNames, ids \in SUBSET Peers : PoolDelete(name, ids)
  \/ \E names \in SUBSET PoolNames : PoolCleanNameNotIn(names)
  \/ ResetNodes \/ ResetPools

RouterNext ==
  \/ \E r \in Requests : RouteCached(r) \/ RouteStart(r) \/ RouteStep(r) \/ ExpireStep(r)
  \/ \E k \in Removers : RemoveStep(k) \/ \E p \in Peers : RemoveNode(k, p)
  \/ \E p \in Peers : Add(p)
  \/ \E s \in Sessions : Evict(s)
  \/ PoolWrite

(* Goroutines that can run do run, and the clock runs every job.  Nothing  *)
(* makes requests, nodes, disconnections or evictions arrive.              *)
RouterFairness ==
  /\ \A r \in Requests : WF_routerVars(RouteStep(r)) /\ WF_routerVars(ExpireStep(r))
  /\ \A k \in Removers : WF_routerVars(RemoveStep(k))

RouterSpec == RouterInit /\ [][RouterNext]_routerVars

FairRouterSpec == RouterSpec /\ RouterFairness

-----------------------------------------------------------------------------
(* Properties *)

(* Every variable has the shape the code gives it; a Route call that has   *)
(* left pick holds a node, and one that binds has a session id.            *)
RouterTypeOK ==
  /\ nodes \subseteq Peers
  /\ ranking \in [Peers -> Nat]
  /\ poolOf \in [Peers -> PoolNames \cup {None}]
  /\ poolRanking \in [Peers -> Nat]
  /\ sessions \in [Sessions -> Peers \cup {None}]
  /\ rows \subseteq Peers \X Sessions
  /\ job \in [Requests -> {"none", "pending", "firing"}]
  /\ pc \in [Requests -> {"idle", "pick", "lookup", "rank", "poolRank", "bind", "insert"}]
  /\ picked \in [Requests -> Peers \cup {None}]
  /\ rpc \in [Removers -> {"idle", "pool", "query", "drop", "rows"}]
  /\ target \in [Removers -> Peers \cup {None}]
  /\ found \in [Removers -> SUBSET Sessions]
  /\ resetting \in BOOLEAN
  /\ overtaken \subseteq Requests
  /\ \A r \in Requests :
       /\ pc[r] \in {"lookup", "rank", "poolRank", "bind", "insert"} => picked[r] \in Peers
       /\ pc[r] \in {"bind", "insert"} \/ job[r] # "none" => Sticky(r)
  /\ \A k \in Removers : rpc[k] # "idle" => target[k] \in Peers

(* A job that will delete the cache entry of s. *)
Scheduled(s) == \E r \in Requests : SessionID[r] = s /\ job[r] # "none"

(* No sticky session is immortal: jobs are never cancelled, and other      *)
(* Route calls, removals and other jobs may rebind or delete the entry in  *)
(* between, yet every entry has a job that is going to delete it.          *)
CachedHasJob == \A s \in Sessions : sessions[s] # None => Scheduled(s)

(* The Route call r answers for the binding of s to p: the job of that     *)
(* binding has not fired, and r has still to insert its row, or it was     *)
(* overtaken by a removal of p.                                            *)
Vouches(r, s, p) ==
  /\ SessionID[r] = s /\ picked[r] = p
  /\ job[r] = "pending"
  /\ pc[r] = "insert" \/ r \in overtaken

Expiring(s) == \E r \in Requests : SessionID[r] = s /\ job[r] = "firing"

(* Remove finds what it has to delete: a cached session has its row in the *)
(* table Remove searches, except while Route has still to insert it, while *)
(* it is expiring, and when Route and Remove of that node overlapped (the  *)
(* last DELETE of Remove takes rows its query has not seen).               *)
CachedIsIndexed ==
  \A s \in Sessions : sessions[s] # None =>
    \/ <<sessions[s], s>> \in rows
    \/ Expiring(s)
    \/ \E r \in Requests : Vouches(r, s, sessions[s])

(* No session outlives its node unnoticed: if the cached node of a session *)
(* is not registered any more, then it is being removed right now, or the  *)
(* entry is about to expire, or it was bound by a Route call that          *)
(* overlapped the removal, and goes when the job of that call fires.       *)
OrphansAreRaces ==
  \A s \in Sessions : sessions[s] # None /\ sessions[s] \notin nodes =>
    \/ BeingRemoved(sessions[s])
    \/ Expiring(s)
    \/ \E r \in overtaken : /\ SessionID[r] = s /\ picked[r] = sessions[s]
                            /\ job[r] = "pending"

(* A pool row without a node, which no removal is about to delete. *)
DeadPoolRow(p) ==
  /\ poolOf[p] # None
  /\ p \notin nodes
  /\ \A k \in Removers : ~(rpc[k] = "pool" /\ target[k] = p)

(* Remove takes a node out of its pool for good: a pool row is only left   *)
(* without a node when the tester adds the node after the removal.         *)
DeadPoolRowsAreLateAdds ==
  [][\A p \in Peers : ~DeadPoolRow(p) /\ DeadPoolRow(p)' =>
       p \notin nodes /\ poolOf[p] = None]_routerVars

Pending(s) == \E r \in Requests : SessionID[r] = s /\ job[r] = "pending"

(* Expiry cleans up the table as well as the cache: a row for which a job  *)
(* is waiting does not outlive the last such job, whichever of several     *)
(* Route calls for the same session wrote it.                              *)
RowsFollowJobs ==
  [][\A row \in rows : Pending(row[2]) /\ ~Pending(row[2])' => row \notin rows']_routerVars

(* What binds a session ends with its job: a cached session has one that   *)
(* will delete it, and its row goes with the last (fastcache.go,           *)
(* SetWithExpire; genji.go, onSessionExpired).                             *)
JobsEndSessions == []CachedHasJob /\ RowsFollowJobs

(* Every sticky session expires. *)
SessionsExpire == \A s \in Sessions : sessions[s] # None ~> sessions[s] = None

(* Every Route and every Remove call returns. *)
CallsReturn ==
  /\ \A r \in Requests : pc[r] # "idle" ~> pc[r] = "idle"
  /\ \A k \in Removers : rpc[k] # "idle" ~> rpc[k] = "idle"

(* No Route or Remove call is running, and no expiry job. *)
Calm ==
  /\ \A r \in Requests : pc[r] = "idle" /\ job[r] # "firing"
  /\ \A k \in Removers : rpc[k] = "idle"

(* What the cache is for: a session keeps its node for the lifetime it was *)
(* given.  While nothing else is running, a session bound to one           *)
(* registered node, in the cache and in the table alike, is expired only   *)
(* by the job of the call that bound it.                                   *)
StickyForItsLifetime ==
  [][\A s \in Sessions, r \in Requests :
       /\ Calm
       /\ sessions[s] \in nodes
       /\ {row \in rows : row[2] = s} = {<<sessions[s], s>>}
       /\ SessionID[r] = s /\ job[r] = "pending" /\ job'[r] = "firing"
       => picked[r] = sessions[s]]_routerVars
=============================================================================
