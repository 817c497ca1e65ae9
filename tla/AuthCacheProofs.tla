--------------------------- MODULE AuthCacheProofs ---------------------------
(***************************************************************************)
(* What holds of AuthCache for any number of users, calls and messages.    *)
(***************************************************************************)
EXTENDS AuthCache, TLAPS

(* A call that holds the record of a user removed meanwhile is followed by *)
(* the message, or was overtaken by it.                                    *)
HoldersAreOvertaken ==
  \A c \in Calls :
    pc[c] \in {"ttl", "setPerms", "setUser"} /\ account[user[c]] = "removed"
      => Announced(user[c]) \/ c \in overtaken \/ stopped

(* The permissions a call has read were cached before it caches the user.  *)
PermsAreSet ==
  \A c \in Calls : pc[c] = "setUser" /\ udp[c] => user[c] \in cachedPerms \cup dropped

IInv ==
  /\ TypeOK
  /\ HoldersAreOvertaken
  /\ RemovedUnlessRevived
  /\ PermsAreSet
  /\ PermissionsComeFirst

-----------------------------------------------------------------------------
(* The goroutine takes the messages in order and loses none. *)

LEMMA AnnouncedTail ==
  ASSUME TypeOK, messages # << >>, messages' = Tail(messages),
         NEW u, Announced(u)
  PROVE  u = Head(messages) \/ Announced(u)'
<1>1. messages \in Seq(Users) BY DEF TypeOK
<1>2. PICK i \in 1 .. Len(messages) : messages[i] = u BY DEF Announced
<1>3. CASE i = 1 BY <1>1, <1>2, <1>3
<1>4. CASE i # 1
  <2>1. i - 1 \in 1 .. Len(Tail(messages)) BY <1>1, <1>2, <1>4
  <2>2. Tail(messages)[i - 1] = u BY <1>1, <1>2, <1>4, <2>1
  <2> QED BY <2>1, <2>2 DEF Announced
<1> QED BY <1>3, <1>4

LEMMA AnnouncedAppend ==
  ASSUME TypeOK, NEW v \in Users, messages' = Append(messages, v)
  PROVE  Announced(v)' /\ \A u : Announced(u) => Announced(u)'
<1>1. messages \in Seq(Users) BY DEF TypeOK
<1>2. Announced(v)'
  <2>1. Len(messages) + 1 \in 1 .. Len(messages') BY <1>1
  <2>2. messages'[Len(messages) + 1] = v BY <1>1
  <2> QED BY <2>1, <2>2 DEF Announced
<1>3. ASSUME NEW u, Announced(u) PROVE Announced(u)'
  <2>1. PICK i \in 1 .. Len(messages) : messages[i] = u BY <1>3 DEF Announced
  <2>2. i \in 1 .. Len(messages') /\ messages'[i] = u BY <1>1, <2>1
  <2> QED BY <2>2 DEF Announced
<1> QED BY <1>2, <1>3

LEMMA AnnouncedSame ==
  ASSUME UNCHANGED messages
  PROVE  \A u : Announced(u)' = Announced(u)
BY DEF Announced

-----------------------------------------------------------------------------
(* The parts of the inductive invariant *)

LEMMA TypeInit == Init => TypeOK
<1> SUFFICES ASSUME Init PROVE TypeOK OBVIOUS
<1>1. messages \in Seq(Users) BY DEF Init
<1>2. /\ account \in [Users -> Accounts]
      /\ pc \in [Calls -> {"idle", "redis", "ttl", "setPerms", "setUser", "perms"}]
      /\ user \in [Calls -> Users \cup {None}]
      /\ udp \in [Calls -> BOOLEAN]
  BY DEF Init, Accounts
<1> QED BY <1>1, <1>2 DEF Init, TypeOK

LEMMA TypeNext == TypeOK /\ [Next]_vars => TypeOK'
<1> SUFFICES ASSUME TypeOK, [Next]_vars PROVE TypeOK' OBVIOUS
<1> USE DEF TypeOK, Goto, Return, storeVars, cacheVars, callVars, removerVars, historyVars
<1>1. ASSUME NEW u \in Users, NEW a \in Authorised, AccountChanges(u, a) PROVE TypeOK'
  BY <1>1 DEF AccountChanges, Authorised, Accounts
<1>2. ASSUME NEW u \in Users, RunsOut(u) PROVE TypeOK'
  <2>1. messages' \in Seq(Users) BY <1>2 DEF RunsOut
  <2> QED BY <1>2, <2>1 DEF RunsOut, Accounts
<1>3. ASSUME NEW u \in Users, Lapses(u) PROVE TypeOK' BY <1>3 DEF Lapses, Accounts
<1>4. ASSUME NEW u \in Users, UserLeaves(u) PROVE TypeOK' BY <1>4 DEF UserLeaves
<1>5. ASSUME NEW u \in Users, PermsLeave(u) PROVE TypeOK' BY <1>5 DEF PermsLeave
<1>6. ASSUME NEW c \in Calls, NEW u \in Users, Get(c, u) PROVE TypeOK' BY <1>6 DEF Get
<1>7. ASSUME NEW c \in Calls, Read(c) PROVE TypeOK' BY <1>7 DEF Read
<1>8. ASSUME NEW c \in Calls, ReadNone(c) PROVE TypeOK' BY <1>8 DEF ReadNone
<1>9. ASSUME NEW c \in Calls, RedisFails(c) PROVE TypeOK' BY <1>9 DEF RedisFails
<1>10. ASSUME NEW c \in Calls, TTL(c) PROVE TypeOK' BY <1>10 DEF TTL
<1>11. ASSUME NEW c \in Calls, SetPerms(c) PROVE TypeOK' BY <1>11 DEF SetPerms
<1>12. ASSUME NEW c \in Calls, SetUser(c) PROVE TypeOK' BY <1>12 DEF SetUser
<1>13. ASSUME NEW c \in Calls, GetPerms(c) PROVE TypeOK' BY <1>13 DEF GetPerms
<1>14. CASE RemoveUser
  <2>1. Head(messages) \in Users /\ Tail(messages) \in Seq(Users) BY <1>14 DEF RemoveUser
  <2>2. Holding(Head(messages)) \subseteq Calls BY DEF Holding
  <2> QED BY <1>14, <2>1, <2>2 DEF RemoveUser
<1>15. CASE RemovePerms BY <1>15 DEF RemovePerms
<1>16. CASE Stop BY <1>16 DEF Stop
<1>17. CASE UNCHANGED vars BY <1>17 DEF vars
<1> QED
  BY <1>1, <1>2, <1>3, <1>4, <1>5, <1>6, <1>7, <1>8, <1>9, <1>10, <1>11, <1>12,
     <1>13, <1>14, <1>15, <1>16, <1>17 DEF Next, CallStep, RemoverStep

(* HoldersAreOvertaken and RemovedUnlessRevived: the message is announced  *)
(* with the removal, and when it is handled the user leaves the cache and  *)
(* the calls that hold its record are overtaken.                           *)
LEMMA RemovalNext ==
  TypeOK /\ HoldersAreOvertaken /\ RemovedUnlessRevived /\ [Next]_vars
    => HoldersAreOvertaken' /\ RemovedUnlessRevived'
<1> SUFFICES ASSUME TypeOK, HoldersAreOvertaken, RemovedUnlessRevived, [Next]_vars
             PROVE  HoldersAreOvertaken' /\ RemovedUnlessRevived'
  OBVIOUS
<1> USE DEF HoldersAreOvertaken, RemovedUnlessRevived, TypeOK, Goto, Return, storeVars,
            cacheVars, callVars, removerVars, historyVars
<1> DEFINE Goal == HoldersAreOvertaken' /\ RemovedUnlessRevived'
<1>1. ASSUME NEW u \in Users, NEW a \in Authorised, AccountChanges(u, a) PROVE Goal
  BY <1>1, AnnouncedSame DEF AccountChanges, Authorised
<1>2. ASSUME NEW u \in Users, RunsOut(u) PROVE Goal
  <2>1. Announced(u)' /\ \A v : Announced(v) => Announced(v)'
    BY <1>2, AnnouncedAppend DEF RunsOut
  <2> QED BY <1>2, <2>1 DEF RunsOut
<1>3. ASSUME NEW u \in Users, Lapses(u) PROVE Goal BY <1>3, AnnouncedSame DEF Lapses
<1>4. ASSUME NEW u \in Users, UserLeaves(u) PROVE Goal BY <1>4, AnnouncedSame DEF UserLeaves
<1>5. ASSUME NEW u \in Users, PermsLeave(u) PROVE Goal BY <1>5, AnnouncedSame DEF PermsLeave
<1>6. ASSUME NEW c \in Calls, NEW u \in Users, Get(c, u) PROVE Goal
  BY <1>6, AnnouncedSame DEF Get
<1>7. ASSUME NEW c \in Calls, Read(c) PROVE Goal BY <1>7, AnnouncedSame DEF Read, Authorised
<1>8. ASSUME NEW c \in Calls, ReadNone(c) PROVE Goal BY <1>8, AnnouncedSame DEF ReadNone
<1>9. ASSUME NEW c \in Calls, RedisFails(c) PROVE Goal BY <1>9, AnnouncedSame DEF RedisFails
<1>10. ASSUME NEW c \in Calls, TTL(c) PROVE Goal BY <1>10, AnnouncedSame DEF TTL
<1>11. ASSUME NEW c \in Calls, SetPerms(c) PROVE Goal BY <1>11, AnnouncedSame DEF SetPerms
<1>12. ASSUME NEW c \in Calls, SetUser(c) PROVE Goal
  <2>1. HoldersAreOvertaken' BY <1>12, AnnouncedSame DEF SetUser
  <2>2. RemovedUnlessRevived' BY <1>12, AnnouncedSame DEF SetUser
  <2> QED BY <2>1, <2>2
<1>13. ASSUME NEW c \in Calls, GetPerms(c) PROVE Goal BY <1>13, AnnouncedSame DEF GetPerms
<1>14. CASE RemoveUser
  <2>1. \A u : Announced(u) => u = Head(messages) \/ Announced(u)'
    BY <1>14, AnnouncedTail DEF RemoveUser
  <2>2. HoldersAreOvertaken' BY <1>14, <2>1 DEF RemoveUser, Holding
  <2>3. RemovedUnlessRevived' BY <1>14, <2>1 DEF RemoveUser
  <2> QED BY <2>2, <2>3
<1>15. CASE RemovePerms BY <1>15, AnnouncedSame DEF RemovePerms
<1>16. CASE Stop BY <1>16, AnnouncedSame DEF Stop
<1>17. CASE UNCHANGED vars BY <1>17, AnnouncedSame DEF vars
<1> QED
  BY <1>1, <1>2, <1>3, <1>4, <1>5, <1>6, <1>7, <1>8, <1>9, <1>10, <1>11, <1>12,
     <1>13, <1>14, <1>15, <1>16, <1>17 DEF Next, CallStep, RemoverStep

(* PermsAreSet and PermissionsComeFirst: a permission that is cached stays *)
(* so, or is dropped.                                                      *)
LEMMA PermissionsNext ==
  TypeOK /\ PermsAreSet /\ PermissionsComeFirst /\ [Next]_vars
    => PermsAreSet' /\ PermissionsComeFirst'
<1> SUFFICES ASSUME TypeOK, PermsAreSet, PermissionsComeFirst, [Next]_vars
             PROVE  PermsAreSet' /\ PermissionsComeFirst'
  OBVIOUS
<1> USE DEF PermsAreSet, PermissionsComeFirst, TypeOK, Goto, Return, storeVars,
            cacheVars, callVars, removerVars, historyVars
<1> DEFINE Goal == PermsAreSet' /\ PermissionsComeFirst'
<1>1. ASSUME NEW u \in Users, NEW a \in Authorised, AccountChanges(u, a) PROVE Goal
  BY <1>1 DEF AccountChanges
<1>2. ASSUME NEW u \in Users, RunsOut(u) PROVE Goal BY <1>2 DEF RunsOut
<1>3. ASSUME NEW u \in Users, Lapses(u) PROVE Goal BY <1>3 DEF Lapses
<1>4. ASSUME NEW u \in Users, UserLeaves(u) PROVE Goal BY <1>4 DEF UserLeaves
<1>5. ASSUME NEW u \in Users, PermsLeave(u) PROVE Goal BY <1>5 DEF PermsLeave
<1>6. ASSUME NEW c \in Calls, NEW u \in Users, Get(c, u) PROVE Goal BY <1>6 DEF Get
<1>7. ASSUME NEW c \in Calls, Read(c) PROVE Goal BY <1>7 DEF Read
<1>8. ASSUME NEW c \in Calls, ReadNone(c) PROVE Goal BY <1>8 DEF ReadNone
<1>9. ASSUME NEW c \in Calls, RedisFails(c) PROVE Goal BY <1>9 DEF RedisFails
<1>10. ASSUME NEW c \in Calls, TTL(c) PROVE Goal BY <1>10 DEF TTL
<1>11. ASSUME NEW c \in Calls, SetPerms(c) PROVE Goal BY <1>11 DEF SetPerms
<1>12. ASSUME NEW c \in Calls, SetUser(c) PROVE Goal BY <1>12 DEF SetUser
<1>13. ASSUME NEW c \in Calls, GetPerms(c) PROVE Goal BY <1>13 DEF GetPerms
<1>14. CASE RemoveUser BY <1>14 DEF RemoveUser
<1>15. CASE RemovePerms BY <1>15 DEF RemovePerms
<1>16. CASE Stop BY <1>16 DEF Stop
<1>17. CASE UNCHANGED vars BY <1>17 DEF vars
<1> QED
  BY <1>1, <1>2, <1>3, <1>4, <1>5, <1>6, <1>7, <1>8, <1>9, <1>10, <1>11, <1>12,
     <1>13, <1>14, <1>15, <1>16, <1>17 DEF Next, CallStep, RemoverStep

LEMMA Invariance == Spec => []IInv
<1>1. Init => IInv
  <2> SUFFICES ASSUME Init PROVE IInv OBVIOUS
  <2>1. TypeOK BY TypeInit
  <2> QED BY <2>1 DEF Init, IInv, HoldersAreOvertaken, RemovedUnlessRevived,
                      PermsAreSet, PermissionsComeFirst
<1>2. IInv /\ [Next]_vars => IInv' BY TypeNext, RemovalNext, PermissionsNext DEF IInv
<1> QED BY <1>1, <1>2, PTL DEF Spec

-----------------------------------------------------------------------------
(* Every reachable state is well-typed: a call that caches permissions has *)
(* some, and one that has begun has its key.                               *)
THEOREM TypeCorrect == Spec => []TypeOK
<1>1. IInv => TypeOK BY DEF IInv
<1> QED BY <1>1, Invariance, PTL

(* Once the message that a user ran out of data is handled, only a call    *)
(* that held its record when it was handled brings it back to the cache.   *)
THEOREM RemovalHolds == Spec => []RemovedUnlessRevived
<1>1. IInv => RemovedUnlessRevived BY DEF IInv
<1> QED BY <1>1, Invariance, PTL

(* No interleaving of Authenticate calls shows a user without the          *)
(* permissions it was read with: only expiry, eviction and removal do.     *)
THEOREM PermissionsFirst == Spec => []PermissionsComeFirst
<1>1. IInv => PermissionsComeFirst BY DEF IInv
<1> QED BY <1>1, Invariance, PTL
=============================================================================
