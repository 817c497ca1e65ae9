------------------------------ MODULE AuthCache ------------------------------
(***************************************************************************)
(* Authentication (src/pkg/auth/redis.go): Authenticate with its cache of  *)
(* authorised users, and the goroutine that takes users out of the cache   *)
(* when a message says that they ran out of data.                          *)
(*                                                                         *)
(* What Redis says of a user is cached in two entries, the user id and,    *)
(* if there are any, the permissions.  Every call of the cache and of      *)
(* Redis is atomic; nothing protects a sequence of them.                   *)
(***************************************************************************)
EXTENDS Naturals, Sequences

CONSTANTS
  Users,       \* API keys
  Calls,       \* Authenticate calls that run at the same time (bound)
  None,
  MaxMessages  \* messages of removeUserCh that wait (bound)

ASSUME ConstantsAssumption ==
  /\ None \notin Users
  /\ MaxMessages \in Nat

VARIABLES
  account,     \* what Redis has under UserKey
  messages,    \* deleteCh
  cachedUser,  \* users whose id is cached
  cachedPerms, \* users whose permissions are cached
  removing,    \* the user whose permissions the goroutine has still to remove
  stopped,     \* the goroutine has returned
  pc,          \* where each Authenticate call is
  user,        \* its apiKey
  udp,         \* PermissionUDP is among its permissions
  overtaken,   \* history: calls that hold a record read before its removal
  revived,     \* history: users an overtaken call has cached again
  stored,      \* history: users whose id was last cached with PermissionUDP
  dropped      \* history: users whose permissions left the cache since cached

storeVars == <<account, messages>>
cacheVars == <<cachedUser, cachedPerms>>
callVars == <<pc, user, udp>>
removerVars == <<removing, stopped>>
historyVars == <<overtaken, revived, stored, dropped>>
vars == <<account, messages, cachedUser, cachedPerms, removing, stopped,
          pc, user, udp, overtaken, revived, stored, dropped>>

(* A record with or without "udp"; or none: the user ran out of data and a *)
(* message says so, or the record went without one.                        *)
Accounts == {"plain", "udp", "removed", "lapsed"}
Authorised == {"plain", "udp"}

Init ==
  /\ account = [u \in Users |-> "lapsed"]
  /\ messages = << >>
  /\ cachedUser = {} /\ cachedPerms = {}
  /\ removing = None
  /\ stopped = FALSE
  /\ pc = [c \in Calls |-> "idle"]
  /\ user = [c \in Calls |-> None]
  /\ udp = [c \in Calls |-> FALSE]
  /\ overtaken = {} /\ revived = {} /\ stored = {} /\ dropped = {}

-----------------------------------------------------------------------------
(* Redis (external): other services write the records and publish the      *)
(* messages.                                                               *)

AccountChanges(u, a) ==
  /\ a \in Authorised \ {account[u]}
  /\ account' = [account EXCEPT ![u] = a]
  /\ UNCHANGED <<messages, cacheVars, removerVars, callVars, historyVars>>

RunsOut(u) ==
  /\ account[u] \in Authorised
  /\ Len(messages) < MaxMessages
  /\ account' = [account EXCEPT ![u] = "removed"]
  /\ messages' = Append(messages, u)
  /\ UNCHANGED <<cacheVars, removerVars, callVars, historyVars>>

(* The TTL of the record is over, or the message of its removal is lost.   *)
Lapses(u) ==
  /\ account[u] \in Authorised
  /\ account' = [account EXCEPT ![u] = "lapsed"]
  /\ UNCHANGED <<messages, cacheVars, removerVars, callVars, historyVars>>

-----------------------------------------------------------------------------
(* The cache (external): entries expire, and the LRU evicts them. *)

UserLeaves(u) ==
  /\ u \in cachedUser
  /\ cachedUser' = cachedUser \ {u}
  /\ revived' = revived \ {u}
  /\ UNCHANGED <<storeVars, cachedPerms, removerVars, callVars, overtaken, stored, dropped>>

PermsLeave(u) ==
  /\ u \in cachedPerms
  /\ cachedPerms' = cachedPerms \ {u}
  /\ dropped' = dropped \cup {u}
  /\ UNCHANGED <<storeVars, cachedUser, removerVars, callVars, overtaken, revived, stored>>

-----------------------------------------------------------------------------
(* Authenticate *)

Goto(c, l) == pc' = [pc EXCEPT ![c] = l] /\ UNCHANGED user

Return(c) ==
  /\ pc' = [pc EXCEPT ![c] = "idle"]
  /\ user' = [user EXCEPT ![c] = None]
  /\ udp' = [udp EXCEPT ![c] = FALSE]

(* cache.Get: the call is answered from the cache, or goes on to Redis. *)
Get(c, u) ==
  /\ pc[c] = "idle"
  /\ pc' = [pc EXCEPT ![c] = IF u \in cachedUser THEN "perms" ELSE "redis"]
  /\ user' = [user EXCEPT ![c] = u]
  /\ UNCHANGED <<storeVars, cacheVars, removerVars, udp, historyVars>>

(* r.c.Get: the record and its permissions are read. *)
Read(c) ==
  /\ pc[c] = "redis"
  /\ account[user[c]] \in Authorised
  /\ udp' = [udp EXCEPT ![c] = account[user[c]] = "udp"]
  /\ Goto(c, "ttl")
  /\ UNCHANGED <<storeVars, cacheVars, removerVars, historyVars>>

(* Mutant of ReadNone: redis.Nil is not told apart from an answer. *)
ReadNoneGoesOn(c) ==
  /\ pc[c] = "redis"
  /\ account[user[c]] \notin Authorised
  /\ Goto(c, "ttl")
  /\ UNCHANGED <<storeVars, cacheVars, removerVars, udp, historyVars>>

(* ErrUnauthorized *)
ReadNone(c) ==
  /\ pc[c] = "redis"
  /\ account[user[c]] \notin Authorised
  /\ Return(c)
  /\ UNCHANGED <<storeVars, cacheVars, removerVars, historyVars>>

(* Redis does not answer one of the two commands. *)
RedisFails(c) ==
  /\ pc[c] \in {"redis", "ttl"}
  /\ overtaken' = overtaken \ {c}
  /\ Return(c)
  /\ UNCHANGED <<storeVars, cacheVars, removerVars, revived, stored, dropped>>

(* Mutant of TTL: the permissions are not cached. *)
TTLSkipsPerms(c) ==
  /\ pc[c] = "ttl"
  /\ Goto(c, "setUser")
  /\ UNCHANGED <<storeVars, cacheVars, removerVars, udp, historyVars>>

(* r.c.TTL bounds the lifetime of both entries; of no TTL, or a record     *)
(* that has gone since, r.expiration is left.                              *)
TTL(c) ==
  /\ pc[c] = "ttl"
  /\ Goto(c, IF udp[c] THEN "setPerms" ELSE "setUser")
  /\ UNCHANGED <<storeVars, cacheVars, removerVars, udp, historyVars>>

SetPerms(c) ==
  /\ pc[c] = "setPerms"
  /\ cachedPerms' = cachedPerms \cup {user[c]}
  /\ dropped' = dropped \ {user[c]}
  /\ Goto(c, "setUser")
  /\ UNCHANGED <<storeVars, cachedUser, removerVars, udp, overtaken, revived, stored>>

SetUser(c) ==
  /\ pc[c] = "setUser"
  /\ cachedUser' = cachedUser \cup {user[c]}
  /\ stored' = IF udp[c] THEN stored \cup {user[c]} ELSE stored \ {user[c]}
  /\ revived' = IF c \in overtaken THEN revived \cup {user[c]} ELSE revived
  /\ overtaken' = overtaken \ {c}
  /\ Return(c)
  /\ UNCHANGED <<storeVars, cachedPerms, removerVars, dropped>>

(* The user was cached: the permissions are what is cached now, or none.   *)
GetPerms(c) ==
  /\ pc[c] = "perms"
  /\ Return(c)
  /\ UNCHANGED <<storeVars, cacheVars, removerVars, historyVars>>

-----------------------------------------------------------------------------
(* The goroutine of NewRedis *)

(* Calls that have read the record of u and not yet cached it. *)
Holding(u) == {c \in Calls : pc[c] \in {"ttl", "setPerms", "setUser"} /\ user[c] = u}

(* Mutant of RemoveUser: the permissions go, the user stays. *)
RemoveUserKeepsEntry ==
  /\ messages # << >> /\ removing = None /\ ~stopped
  /\ messages' = Tail(messages)
  /\ removing' = Head(messages)
  /\ overtaken' = overtaken \cup Holding(Head(messages))
  /\ UNCHANGED <<account, cacheVars, stopped, callVars, revived, stored, dropped>>

RemoveUser ==
  /\ messages # << >> /\ removing = None /\ ~stopped
  /\ messages' = Tail(messages)
  /\ removing' = Head(messages)
  /\ cachedUser' = cachedUser \ {Head(messages)}
  /\ revived' = revived \ {Head(messages)}
  /\ overtaken' = overtaken \cup Holding(Head(messages))
  /\ UNCHANGED <<account, cachedPerms, stopped, callVars, stored, dropped>>

RemovePerms ==
  /\ removing # None
  /\ cachedPerms' = cachedPerms \ {removing}
  /\ dropped' = dropped \cup {removing}
  /\ removing' = None
  /\ UNCHANGED <<storeVars, cachedUser, stopped, callVars, overtaken, revived, stored>>

(* signalCtx is done: the cache is purged, and no message is heard again.  *)
Stop ==
  /\ removing = None /\ ~stopped
  /\ stopped' = TRUE
  /\ cachedUser' = {} /\ cachedPerms' = {}
  /\ revived' = {}
  /\ dropped' = Users
  /\ UNCHANGED <<storeVars, removing, callVars, overtaken, stored>>

-----------------------------------------------------------------------------
CallStep(c) ==
  \/ Read(c) \/ ReadNone(c) \/ RedisFails(c) \/ TTL(c)
  \/ SetPerms(c) \/ SetUser(c) \/ GetPerms(c)

RemoverStep == RemoveUser \/ RemovePerms

Next ==
  \/ \E u \in Users : \/ \E a \in Authorised : AccountChanges(u, a)
                      \/ RunsOut(u) \/ Lapses(u)
                      \/ UserLeaves(u) \/ PermsLeave(u)
  \/ \E c \in Calls : CallStep(c) \/ \E u \in Users : Get(c, u)
  \/ RemoverStep \/ Stop

(* Goroutines that can run do, Redis answers or times out, and every entry *)
(* expires: SetWithExpire never gives more than r.expiration.  Nothing     *)
(* makes calls, accounts or messages arrive.                               *)
Fairness ==
  /\ \A c \in Calls : WF_vars(CallStep(c))
  /\ WF_vars(RemoverStep)
  /\ \A u \in Users : WF_vars(UserLeaves(u)) /\ WF_vars(PermsLeave(u))

Spec == Init /\ [][Next]_vars

FairSpec == Spec /\ Fairness

-----------------------------------------------------------------------------
(* Properties *)

(* Every variable has the shape the code gives it; a call that has begun   *)
(* has its key, and one that caches permissions has some.                  *)
TypeOK ==
  /\ account \in [Users -> Accounts]
  /\ messages \in Seq(Users)
  /\ cachedUser \subseteq Users /\ cachedPerms \subseteq Users
  /\ removing \in Users \cup {None}
  /\ stopped \in BOOLEAN
  /\ pc \in [Calls -> {"idle", "redis", "ttl", "setPerms", "setUser", "perms"}]
  /\ user \in [Calls -> Users \cup {None}]
  /\ udp \in [Calls -> BOOLEAN]
  /\ overtaken \subseteq Calls
  /\ revived \subseteq Users /\ stored \subseteq Users /\ dropped \subseteq Users
  /\ \A c \in Calls : /\ pc[c] # "idle" => user[c] \in Users
                      /\ pc[c] = "setPerms" => udp[c]

(* A message that says u ran out of data is still to be handled. *)
Announced(u) == \E i \in 1 .. Len(messages) : messages[i] = u

(* A user that ran out of data is not authorised from the cache once the   *)
(* message has been handled, unless a call that had read the record before *)
(* cached it afterwards, or the process is going down.                     *)
RemovedUnlessRevived ==
  \A u \in cachedUser :
    account[u] = "removed" => Announced(u) \/ u \in revived \/ stopped

(* Authenticate caches the permissions before the user: whoever finds the  *)
(* user in the cache finds the permissions it was read with, unless these  *)
(* have expired or been evicted or removed since they were cached.         *)
PermissionsComeFirst ==
  \A u \in cachedUser \cap stored : u \in cachedPerms \cup dropped

(* The last resort is the lifetime of the entry: a user whose record is    *)
(* gone for good is, in the end, not authorised any more, revived or not,  *)
(* with or without a message.                                              *)
GoneIsForgotten ==
  \A u \in Users :
    <>[](account[u] \notin Authorised) => <>[](u \notin cachedUser)
=============================================================================
