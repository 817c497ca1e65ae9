--------------------------- MODULE RequestsProofs ---------------------------
(***************************************************************************)
(* What holds of Requests for any number of calls, datagrams, objects,     *)
(* users, nodes and addresses.                                             *)
(***************************************************************************)
EXTENDS Requests, TLAPS

(* A goroutine has an object exactly while it is busy, and a datagram a    *)
(* key; what is pooled or associated is an object.                         *)
Busy ==
  /\ \A g \in Goroutines : at[g] = "idle" <=> req[g] = None
  /\ \A d \in Datagrams : at[d] # "idle" => key[d] # None

Types == TypeOK /\ Busy

-----------------------------------------------------------------------------
(* What the parts of an action do to the types. *)

LEMMA ResetType ==
  ASSUME NEW r, r.password \in Users \cup {None}
  PROVE  Reset(r) = [user |-> None, password |-> r.password, session |-> << >>, peer |-> None]
BY DEF Reset, NewRequest

ObjectType == [user : Users \cup {None}, password : Users \cup {None},
               session : Sessions, peer : Peers \cup {None}]

LEMMA AcquireType ==
  ASSUME Types, NEW c \in Calls, NEW o \in Requests, Acquire(c, o)
  PROVE  /\ pool' \in [Requests -> Nat]
         /\ req' = [req EXCEPT ![c] = o]
         /\ stream' \in [Goroutines -> {"none", "open", "closed", "left"}]
         /\ UNCHANGED <<object, overdue, target>>
<1>1. \A n \in Nat : n > 0 => n - 1 \in Nat OBVIOUS
<1>2. pool[o] \in Nat BY DEF Types, TypeOK
<1>3. (IF pool[o] > 0 THEN pool[o] - 1 ELSE 0) \in Nat BY <1>1, <1>2
<1>4. pool' = [pool EXCEPT ![o] = IF pool[o] > 0 THEN pool[o] - 1 ELSE 0] BY DEF Acquire
<1>5. pool' \in [Requests -> Nat] BY <1>3, <1>4 DEF Types, TypeOK
<1> QED BY <1>5 DEF Acquire, Types, TypeOK, Goroutines

LEMMA ReleaseType ==
  ASSUME Types, NEW g \in Goroutines, at[g] # "idle",
         NEW r, r.password \in Users \cup {None}, ReleaseAs(g, r)
  PROVE  /\ pool' \in [Requests -> Nat]
         /\ object' \in [Requests -> ObjectType]
         /\ req' = [req EXCEPT ![g] = None]
         /\ overdue' \subseteq Requests
<1>1. req[g] \in Requests BY DEF Types, TypeOK, Busy
<1>2. pool[req[g]] + 1 \in Nat BY <1>1 DEF Types, TypeOK
<1>3. pool' = [pool EXCEPT ![req[g]] = pool[req[g]] + 1] BY DEF ReleaseAs
<1>4. pool' \in [Requests -> Nat] BY <1>2, <1>3 DEF Types, TypeOK
<1>5. Reset(r) \in ObjectType BY ResetType DEF ObjectType, Sessions
<1>6. object' = [object EXCEPT ![req[g]] = Reset(r)] BY DEF ReleaseAs
<1>7. object \in [Requests -> ObjectType] BY DEF Types, TypeOK, ObjectType
<1>8. object' \in [Requests -> ObjectType] BY <1>5, <1>6, <1>7
<1>9. overdue' \subseteq Requests BY <1>1 DEF ReleaseAs, Types, TypeOK
<1> QED BY <1>4, <1>8, <1>9 DEF ReleaseAs

LEMMA CollectType ==
  ASSUME Types, CollectGarbage
  PROVE  object' \in [Requests -> ObjectType] /\ overdue' \subseteq Requests
<1>1. NewRequest \in ObjectType BY DEF NewRequest, ObjectType, Sessions
<1>2. object \in [Requests -> ObjectType] BY DEF Types, TypeOK, ObjectType
<1> HIDE DEF Types
<1>3. object' \in [Requests -> ObjectType] BY <1>1, <1>2 DEF CollectGarbage
<1> QED BY <1>3 DEF CollectGarbage, Types, TypeOK

LEMMA ReturnType ==
  ASSUME Types, NEW g \in Goroutines, NEW closed, NEW ps, ReturnWith(g, closed, ps)
  PROVE  /\ at' = [at EXCEPT ![g] = "idle"]
         /\ stream' \in [Goroutines -> {"none", "open", "closed", "left"}]
         /\ target' \in [Goroutines -> Peers \cup {None}]
<1>1. Closing(g, closed, ps) \in [Goroutines -> {"none", "open", "closed", "left"}]
  BY DEF Closing, Types, TypeOK
<1> QED BY <1>1 DEF ReturnWith, Goto, Types, TypeOK

LEMMA BillType ==
  ASSUME Types, NEW c \in Calls, at[c] # "idle", Bill(c)
  PROVE  bill' \in [Calls -> SUBSET ((Users \cup {None}) \X (Peers \cup {None}))]
<1>1. req[c] \in Requests BY DEF Types, TypeOK, Busy, Goroutines
<1>2. <<object[req[c]].user, object[req[c]].peer>> \in (Users \cup {None}) \X (Peers \cup {None})
  BY <1>1 DEF Types, TypeOK
<1> QED BY <1>2 DEF Bill, Types, TypeOK

LEMMA ObjectRecord ==
  ASSUME Types, NEW o \in Requests
  PROVE  /\ object[o] \in ObjectType
         /\ object[o].user \in Users \cup {None} /\ object[o].password \in Users \cup {None}
<1>1. object \in [Requests -> ObjectType] BY DEF Types, TypeOK, ObjectType
<1>2. object[o] \in ObjectType BY <1>1
<1> QED BY <1>2 DEF ObjectType

LEMMA FieldUpdate ==
  ASSUME NEW r \in ObjectType, NEW u \in Users \cup {None}, NEW n \in Peers \cup {None}
  PROVE  /\ [r EXCEPT !.user = u] \in ObjectType
         /\ [r EXCEPT !.peer = n] \in ObjectType
<1>1. /\ r = [user |-> r.user, password |-> r.password, session |-> r.session, peer |-> r.peer]
      /\ r.user \in Users \cup {None} /\ r.password \in Users \cup {None}
      /\ r.session \in Sessions /\ r.peer \in Peers \cup {None}
  BY DEF ObjectType
<1>2. [r EXCEPT !.user = u] \in ObjectType BY <1>1 DEF ObjectType
<1>3. [r EXCEPT !.peer = n] \in ObjectType BY <1>1 DEF ObjectType
<1> QED BY <1>2, <1>3

LEMMA FieldsType ==
  ASSUME Types, NEW g \in Goroutines, NEW r \in ObjectType, SetFields(g, r)
  PROVE  object' \in [Requests -> ObjectType] /\ UNCHANGED <<pool, req, overdue>>
<1>1. object \in [Requests -> ObjectType] BY DEF Types, TypeOK, ObjectType
<1> QED BY <1>1 DEF SetFields

LEMMA ReleaseReturns ==
  ASSUME Types, NEW c \in Calls, at[c] # "idle", NEW r, r.password \in Users \cup {None},
         NEW closed, NEW ps, ReleaseAs(c, r), CallReturns(c, closed, ps)
  PROVE  Types'
<1>1. c \in Goroutines BY DEF Goroutines
<1>2. ReturnWith(c, closed, ps) /\ ForgetCall(c) /\ UNCHANGED udpVars BY DEF CallReturns
<1>3. /\ pool' \in [Requests -> Nat]
      /\ object' \in [Requests -> ObjectType]
      /\ req' = [req EXCEPT ![c] = None]
      /\ overdue' \subseteq Requests
  BY <1>1, ReleaseType
<1>4. /\ at' = [at EXCEPT ![c] = "idle"]
      /\ stream' \in [Goroutines -> {"none", "open", "closed", "left"}]
      /\ target' \in [Goroutines -> Peers \cup {None}]
  BY <1>1, <1>2, ReturnType
<1>5. TypeOK' BY <1>2, <1>3, <1>4 DEF Types, TypeOK, ObjectType, Locations, ForgetCall, udpVars
<1>6. Busy'
  BY <1>1, <1>2, <1>3, <1>4, ConstantsAssumption DEF Types, TypeOK, Busy, udpVars
<1> QED BY <1>5, <1>6 DEF Types

LEMMA DropReturns ==
  ASSUME Types, NEW c \in Calls, NEW closed, NEW ps,
         Drop(c), ReturnWith(c, closed, ps), ForgetCall(c),
         requests' \in [Addrs -> Requests \cup {None}], UNCHANGED <<exchanges, key>>
  PROVE  Types'
<1>1. c \in Goroutines BY DEF Goroutines
<1>2. object' \in [Requests -> ObjectType] /\ overdue' \subseteq Requests
  BY CollectType DEF Drop
<1>3. req' = [req EXCEPT ![c] = None] /\ UNCHANGED pool BY DEF Drop
<1>4. /\ at' = [at EXCEPT ![c] = "idle"]
      /\ stream' \in [Goroutines -> {"none", "open", "closed", "left"}]
      /\ target' \in [Goroutines -> Peers \cup {None}]
  BY <1>1, ReturnType
<1>5. TypeOK' BY <1>2, <1>3, <1>4 DEF Types, TypeOK, ObjectType, Locations, ForgetCall
<1>6. Busy' BY <1>1, <1>3, <1>4, ConstantsAssumption DEF Types, TypeOK, Busy
<1> QED BY <1>5, <1>6 DEF Types

LEMMA DatagramDrops ==
  ASSUME Types, NEW d \in Datagrams, NEW closed, Drop(d), DatagramReturns(d, closed),
         UNCHANGED <<callVars, requests, exchanges>>
  PROVE  Types'
<1>1. d \in Goroutines BY DEF Goroutines
<1>2. object' \in [Requests -> ObjectType] /\ overdue' \subseteq Requests
  BY CollectType DEF Drop
<1>3. req' = [req EXCEPT ![d] = None] /\ UNCHANGED pool BY DEF Drop
<1>4. ReturnWith(d, closed, {}) /\ key' = [key EXCEPT ![d] = None] BY DEF DatagramReturns
<1>5. /\ at' = [at EXCEPT ![d] = "idle"]
      /\ stream' \in [Goroutines -> {"none", "open", "closed", "left"}]
      /\ target' \in [Goroutines -> Peers \cup {None}]
  BY <1>1, <1>4, ReturnType
<1>6. TypeOK' BY <1>2, <1>3, <1>4, <1>5 DEF Types, TypeOK, ObjectType, Locations, callVars
<1>7. Busy' BY <1>1, <1>3, <1>4, <1>5, ConstantsAssumption DEF Types, TypeOK, Busy
<1> QED BY <1>6, <1>7 DEF Types

-----------------------------------------------------------------------------
LEMMA TypesInit == Init => Types
<1> SUFFICES ASSUME Init PROVE Types OBVIOUS
<1>1. NewRequest \in ObjectType BY DEF NewRequest, ObjectType, Sessions
<1>2. object \in [Requests -> ObjectType] BY <1>1 DEF Init
<1>3. at \in [Goroutines -> Locations] BY DEF Init, Locations
<1>4. TypeOK BY <1>2, <1>3 DEF Init, TypeOK, ObjectType
<1>5. Busy BY DEF Init, Busy, Goroutines
<1> QED BY <1>4, <1>5 DEF Types

(* A goroutine that is busy moves on and keeps its object. *)
LEMMA Moves ==
  ASSUME Types, NEW g \in Goroutines, at[g] # "idle",
         NEW l \in Locations \ {"idle"}, Goto(g, l),
         object' \in [Requests -> ObjectType], UNCHANGED <<pool, req, overdue>>,
         stream' \in [Goroutines -> {"none", "open", "closed", "left"}],
         target' \in [Goroutines -> Peers \cup {None}],
         UNCHANGED own, copying' \in [Calls -> SUBSET Directions],
         bill' \in [Calls -> SUBSET ((Users \cup {None}) \X (Peers \cup {None}))],
         UNCHANGED requests, exchanges' \subseteq Addrs \X Dsts, UNCHANGED key
  PROVE  Types'
<1>1. TypeOK' BY DEF Types, TypeOK, ObjectType, Goto
<1>2. Busy' BY DEF Types, TypeOK, Busy, Goto
<1> QED BY <1>1, <1>2 DEF Types

LEMMA Steady ==
  ASSUME Types, NEW g \in Goroutines, at[g] # "idle",
         NEW l \in Locations \ {"idle"}, Goto(g, l),
         Keep, UNCHANGED <<streamVars, callVars, udpVars>>
  PROVE  Types'
<1>1. object' \in [Requests -> ObjectType] /\ UNCHANGED <<pool, req, overdue>>
  BY DEF Keep, Types, TypeOK, ObjectType
<1>2. /\ stream' \in [Goroutines -> {"none", "open", "closed", "left"}]
      /\ target' \in [Goroutines -> Peers \cup {None}]
  BY DEF streamVars, Types, TypeOK
<1>3. /\ UNCHANGED own /\ copying' \in [Calls -> SUBSET Directions]
      /\ bill' \in [Calls -> SUBSET ((Users \cup {None}) \X (Peers \cup {None}))]
  BY DEF callVars, Types, TypeOK
<1>4. UNCHANGED requests /\ exchanges' \subseteq Addrs \X Dsts /\ UNCHANGED key
  BY DEF udpVars, Types, TypeOK
<1> QED BY <1>1, <1>2, <1>3, <1>4, Moves

LEMMA TypesHTTP ==
  ASSUME Types, NEW c \in HTTPCalls, HTTPStep(c)
  PROVE  Types'
<1>0. c \in Calls /\ c \in Goroutines BY DEF Calls, Goroutines
<1> USE DEF streamVars, callVars, udpVars
<1>1. ASSUME NEW o \in Requests, NEW u \in Users, AcceptHTTP(c, o, u) PROVE Types'
  <2>1. /\ pool' \in [Requests -> Nat]
        /\ req' = [req EXCEPT ![c] = o]
        /\ stream' \in [Goroutines -> {"none", "open", "closed", "left"}]
        /\ UNCHANGED <<object, overdue, target>>
    BY <1>0, <1>1, AcquireType DEF AcceptHTTP
  <2>2. at' = [at EXCEPT ![c] = "parse"] /\ own' = [own EXCEPT ![c] = u]
        /\ UNCHANGED <<copying, bill, udpVars>>
    BY <1>1 DEF AcceptHTTP, Goto
  <2>3. TypeOK' BY <1>0, <2>1, <2>2 DEF Types, TypeOK, Locations
  <2>4. Busy' BY <1>0, <2>1, <2>2, ConstantsAssumption DEF Types, TypeOK, Busy
  <2> QED BY <2>3, <2>4 DEF Types
<1>2. CASE ParseHTTP(c)
  <2>1. PICK s \in {<< >>, Digest(own[c])} :
          SetFields(c, [object[req[c]] EXCEPT !.password = own[c], !.session = s])
    BY <1>2 DEF ParseHTTP
  <2>2. req[c] \in Requests BY <1>0, <1>2 DEF ParseHTTP, Types, TypeOK, Busy
  <2>3. own[c] \in Users \cup {None} BY <1>0 DEF Types, TypeOK
  <2>5. s \in Sessions BY <2>3 DEF Sessions, Digest
  <2>6. object[req[c]] \in ObjectType BY <2>2 DEF Types, TypeOK, ObjectType
  <2>7. [object[req[c]] EXCEPT !.password = own[c], !.session = s] \in ObjectType
    BY <2>3, <2>5, <2>6 DEF ObjectType
  <2>4. object' \in [Requests -> ObjectType] /\ UNCHANGED <<pool, req, overdue>>
    BY <1>0, <2>1, <2>7, FieldsType
  <2> QED BY <1>0, <1>2, <2>4, Moves DEF ParseHTTP, Types, TypeOK, Locations
<1>3. CASE RefuseHTTP(c)
  <2>1. PICK p \in {object[req[c]].password, own[c]} :
          ReleaseAs(c, [object[req[c]] EXCEPT !.password = p])
    BY <1>3 DEF RefuseHTTP
  <2>2. req[c] \in Requests BY <1>0, <1>3 DEF RefuseHTTP, Types, TypeOK, Busy
  <2>3. [object[req[c]] EXCEPT !.password = p].password \in Users \cup {None}
    <3>1. p \in Users \cup {None} BY <1>0, <2>1, <2>2, ObjectRecord DEF Types, TypeOK
    <3>2. object[req[c]] \in ObjectType BY <2>2, ObjectRecord
    <3> QED BY <3>1, <3>2 DEF ObjectType
  <2> QED BY <1>0, <1>3, <2>1, <2>3, ReleaseReturns DEF RefuseHTTP
<1>4. CASE AuthenticateHTTP(c)
  <2>1. req[c] \in Requests BY <1>0, <1>4 DEF AuthenticateHTTP, Types, TypeOK, Busy
  <2>2. [object[req[c]] EXCEPT !.user = object[req[c]].password] \in ObjectType
    <3>1. object[req[c]] \in ObjectType /\ object[req[c]].password \in Users \cup {None}
      BY <2>1, ObjectRecord
    <3> QED BY <3>1, FieldUpdate
  <2>3. object' \in [Requests -> ObjectType] /\ UNCHANGED <<pool, req, overdue>>
    BY <1>0, <1>4, <2>2, FieldsType DEF AuthenticateHTTP
  <2> QED BY <1>0, <1>4, <2>3, Moves DEF AuthenticateHTTP, Types, TypeOK, Locations
<1>5. CASE HeaderFails(c) \/ BadStatus(c) \/ Deferred(c)
  <2>1. at[c] # "idle" BY <1>5 DEF HeaderFails, BadStatus, Deferred
  <2>2. object[req[c]].password \in Users \cup {None}
    BY <1>0, <2>1 DEF Types, TypeOK, Busy
  <2> QED
    BY <1>0, <1>5, <2>1, <2>2, ReleaseReturns DEF HeaderFails, BadStatus, Deferred, Release
<1>6. CASE NotHijacked(c)
  BY <1>0, <1>6, DropReturns DEF NotHijacked, CallReturns, Types, TypeOK
<1>7. CASE WriteHeader(c) \/ ReadResponse(c)
  <2>1. at[c] # "idle" /\ Bill(c) BY <1>7 DEF WriteHeader, ReadResponse
  <2>2. bill' \in [Calls -> SUBSET ((Users \cup {None}) \X (Peers \cup {None}))]
    BY <1>0, <2>1, BillType
  <2>3. object' \in [Requests -> ObjectType] /\ UNCHANGED <<pool, req, overdue>>
    BY <1>7 DEF WriteHeader, ReadResponse, Keep, Types, TypeOK, ObjectType
  <2>4. /\ {"readHeader", "release"} \subseteq Locations \ {"idle"}
        /\ Goto(c, "readHeader") \/ Goto(c, "release")
    BY <1>7 DEF WriteHeader, ReadResponse, Locations
  <2> QED
    BY <1>0, <1>7, <2>1, <2>2, <2>3, <2>4, Moves
    DEF WriteHeader, ReadResponse, Keep, Types, TypeOK
<1>8. CASE Hijack(c) \/ WriteRequest(c) \/ WriteFails(c)
  <2>1. CASE Hijack(c)
    BY <1>0, <2>1, Moves DEF Hijack, Keep, Types, TypeOK, Locations, ObjectType, Directions
  <2>2. CASE WriteRequest(c)
    BY <1>0, <2>2, Steady DEF WriteRequest, Locations
  <2>3. CASE WriteFails(c)
    BY <1>0, <2>3, Steady DEF WriteFails, Locations
  <2> QED BY <1>8, <2>1, <2>2, <2>3
<1>9. CASE ReadFails(c)
  <2>1. stream' \in [Goroutines -> {"none", "open", "closed", "left"}]
    BY <1>9 DEF ReadFails, Closing, Types, TypeOK
  <2> QED
    BY <1>0, <1>9, <2>1, Moves DEF ReadFails, Keep, Types, TypeOK, Locations, ObjectType
<1> QED BY <1>1, <1>2, <1>3, <1>4, <1>5, <1>6, <1>7, <1>8, <1>9 DEF HTTPStep

LEMMA TypesSOCKS ==
  ASSUME Types, NEW c \in SOCKSCalls, SOCKSStep(c)
  PROVE  Types'
<1>0. c \in Calls /\ c \in Goroutines BY DEF Calls, Goroutines
<1> USE DEF streamVars, callVars, udpVars
<1>1. ASSUME NEW o \in Requests, NEW u \in Users, AcceptSOCKS(c, o, u) PROVE Types'
  <2>1. /\ pool' \in [Requests -> Nat]
        /\ req' = [req EXCEPT ![c] = o]
        /\ stream' \in [Goroutines -> {"none", "open", "closed", "left"}]
        /\ UNCHANGED <<object, overdue, target>>
    BY <1>0, <1>1, AcquireType DEF AcceptSOCKS
  <2>2. at' = [at EXCEPT ![c] = "negotiate"] /\ own' = [own EXCEPT ![c] = u]
        /\ UNCHANGED <<copying, bill, udpVars>>
    BY <1>1 DEF AcceptSOCKS, Goto
  <2>3. TypeOK' BY <1>0, <2>1, <2>2 DEF Types, TypeOK, Locations
  <2>4. Busy' BY <1>0, <2>1, <2>2, ConstantsAssumption DEF Types, TypeOK, Busy
  <2> QED BY <2>3, <2>4 DEF Types
<1>2. CASE AuthenticateSOCKS(c)
  <2>1. req[c] \in Requests BY <1>0, <1>2 DEF AuthenticateSOCKS, Types, TypeOK, Busy
  <2>2. [object[req[c]] EXCEPT !.user = own[c]] \in ObjectType
    <3>1. object[req[c]] \in ObjectType BY <2>1, ObjectRecord
    <3>2. own[c] \in Users \cup {None} BY <1>0 DEF Types, TypeOK
    <3> QED BY <3>1, <3>2, FieldUpdate
  <2>3. object' \in [Requests -> ObjectType] /\ UNCHANGED <<pool, req, overdue>>
    BY <1>0, <1>2, <2>2, FieldsType DEF AuthenticateSOCKS
  <2> QED BY <1>0, <1>2, <2>3, Moves DEF AuthenticateSOCKS, Types, TypeOK, Locations
<1>3. CASE ParseSOCKS(c)
  <2>1. req[c] \in Requests BY <1>0, <1>3 DEF ParseSOCKS, Types, TypeOK, Busy
  <2>2. PICK s \in {<< >>, Digest(object[req[c]].password)} :
          SetFields(c, [object[req[c]] EXCEPT !.session = s])
    BY <1>3 DEF ParseSOCKS
  <2>3. object[req[c]] \in ObjectType BY <2>1 DEF Types, TypeOK, ObjectType
  <2>4. object[req[c]].password \in Users \cup {None} BY <2>3 DEF ObjectType
  <2>5. s \in Sessions BY <2>4 DEF Sessions, Digest
  <2>6. [object[req[c]] EXCEPT !.session = s] \in ObjectType BY <2>3, <2>5 DEF ObjectType
  <2>7. object' \in [Requests -> ObjectType] /\ UNCHANGED <<pool, req, overdue>>
    BY <1>0, <2>2, <2>6, FieldsType
  <2> QED BY <1>0, <1>3, <2>7, Moves DEF ParseSOCKS, Types, TypeOK, Locations
<1>4. CASE RefuseSOCKS(c) \/ ForwardFails(c)
  <2>1. at[c] # "idle" BY <1>4 DEF RefuseSOCKS, ForwardFails
  <2>2. object[req[c]].password \in Users \cup {None}
    BY <1>0, <2>1 DEF Types, TypeOK, Busy
  <2> QED BY <1>0, <1>4, <2>1, <2>2, ReleaseReturns DEF RefuseSOCKS, ForwardFails, Release
<1>5. CASE Connect(c)
  BY <1>0, <1>5, Moves DEF Connect, Keep, Types, TypeOK, Locations, ObjectType
<1>6. ASSUME NEW a \in Addrs, Associate(c, a) PROVE Types'
  <2>1. req[c] \in Requests BY <1>0, <1>6 DEF Associate, Types, TypeOK, Busy
  <2>2. requests' \in [Addrs -> Requests \cup {None}]
    BY <1>6, <2>1 DEF Associate, Types, TypeOK
  <2> QED BY <1>0, <1>6, <2>2, DropReturns DEF Associate
<1>7. CASE Forward(c)
  <2>1. copying' \in [Calls -> SUBSET Directions] BY <1>7 DEF Forward, Types, TypeOK
  <2> QED BY <1>0, <1>7, <2>1, Moves DEF Forward, Keep, Types, TypeOK, Locations, ObjectType
<1> QED BY <1>1, <1>2, <1>3, <1>4, <1>5, <1>6, <1>7 DEF SOCKSStep

LEMMA OpenType ==
  ASSUME Types, NEW g \in Goroutines, at[g] # "idle", NEW l, Open(g, l)
  PROVE  /\ stream' \in [Goroutines -> {"none", "open", "closed", "left"}]
         /\ target' \in [Goroutines -> Peers \cup {None}]
<1>1. req[g] \in Requests BY DEF Types, TypeOK, Busy
<1>2. object[req[g]].peer \in Peers \cup {None} BY <1>1 DEF Types, TypeOK
<1> QED BY <1>2 DEF Open, Types, TypeOK

LEMMA TypesCall ==
  ASSUME Types, NEW c \in Calls, CallStep(c)
  PROVE  Types'
<1>0. c \in Goroutines BY DEF Goroutines
<1> USE DEF streamVars, callVars, udpVars
<1>1. CASE Reject(c) \/ DialFails(c)
  <2>1. at[c] # "idle" BY <1>1 DEF Reject, DialFails
  <2>2. object[req[c]].password \in Users \cup {None}
    BY <1>0, <2>1 DEF Types, TypeOK, Busy
  <2> QED BY <1>1, <2>1, <2>2, ReleaseReturns DEF Reject, DialFails, Release
<1>2. ASSUME NEW n \in Peers, Route(c, n) PROVE Types'
  <2>1. req[c] \in Requests BY <1>0, <1>2 DEF Route, Types, TypeOK, Busy
  <2>2. [object[req[c]] EXCEPT !.peer = n] \in ObjectType
    <3>1. object[req[c]] \in ObjectType BY <2>1, ObjectRecord
    <3> QED BY <3>1, FieldUpdate
  <2>3. object' \in [Requests -> ObjectType] /\ UNCHANGED <<pool, req, overdue>>
    BY <1>0, <1>2, <2>2, FieldsType DEF Route
  <2> QED BY <1>0, <1>2, <2>3, Moves DEF Route, Types, TypeOK, Locations
<1>3. CASE Dial(c)
  <2>1. PICK l \in {"connect", "writeRequest", "forward"} : Open(c, l) BY <1>3 DEF Dial
  <2>2. at[c] # "idle" BY <1>3 DEF Dial
  <2>3. /\ stream' \in [Goroutines -> {"none", "open", "closed", "left"}]
        /\ target' \in [Goroutines -> Peers \cup {None}]
    BY <1>0, <2>1, <2>2, OpenType
  <2>4. l \in Locations \ {"idle"} /\ Goto(c, l) BY <2>1 DEF Open, Locations
  <2> QED BY <1>0, <1>3, <2>2, <2>3, <2>4, Moves DEF Dial, Keep, Types, TypeOK, ObjectType
<1>4. ASSUME NEW t \in Directions, Transfer(c, t) PROVE Types'
  <2>1. bill' \in [Calls -> SUBSET ((Users \cup {None}) \X (Peers \cup {None}))]
    BY <1>4, BillType DEF Transfer
  <2>2. copying' \in [Calls -> SUBSET Directions] BY <1>4 DEF Transfer, Types, TypeOK
  <2>3. stream' \in [Goroutines -> {"none", "open", "closed", "left"}]
    BY <1>4 DEF Transfer, Types, TypeOK
  <2>4. TypeOK' BY <1>4, <2>1, <2>2, <2>3 DEF Transfer, Keep, Types, TypeOK
  <2>5. Busy' BY <1>4 DEF Transfer, Keep, Types, Busy
  <2> QED BY <2>4, <2>5 DEF Types
<1>5. CASE Copied(c)
  <2>1. at[c] # "idle" BY <1>5 DEF Copied
  <2>2. object[req[c]].password \in Users \cup {None}
    BY <1>0, <2>1 DEF Types, TypeOK, Busy
  <2>3. CASE Release(c)
    BY <1>5, <2>1, <2>2, <2>3, ReleaseReturns DEF Copied, Release
  <2>4. CASE Drop(c)
    BY <1>5, <2>4, DropReturns DEF Copied, CallReturns, Types, TypeOK
  <2> QED BY <1>5, <2>3, <2>4 DEF Copied
<1> QED BY <1>1, <1>2, <1>3, <1>4, <1>5 DEF CallStep

LEMMA TypesDatagram ==
  ASSUME Types, NEW d \in Datagrams, DatagramStep(d)
  PROVE  Types'
<1>0. d \in Goroutines BY DEF Goroutines
<1> USE DEF streamVars, callVars, udpVars
<1>1. ASSUME NEW a \in Addrs, NEW x \in Dsts, Lookup(d, a, x) PROVE Types'
  <2>1. requests[a] \in Requests BY <1>1 DEF Lookup, Types, TypeOK
  <2>2. /\ req' = [req EXCEPT ![d] = requests[a]]
        /\ key' = [key EXCEPT ![d] = <<a, x>>]
        /\ stream' = [stream EXCEPT ![d] = "none"]
        /\ at' = [at EXCEPT ![d] = "dial"]
        /\ UNCHANGED <<pool, object, overdue, target, callVars, requests, exchanges>>
    BY <1>1 DEF Lookup, Goto
  <2>3. <<a, x>> \in Addrs \X Dsts OBVIOUS
  <2>4. key' \in [Datagrams -> (Addrs \X Dsts) \cup {None}] BY <2>2, <2>3 DEF Types, TypeOK
  <2>5. TypeOK' BY <1>0, <2>1, <2>2, <2>4 DEF Types, TypeOK, Locations
  <2>6. <<a, x>> # None BY <2>3, ConstantsAssumption
  <2>7. Busy' BY <1>0, <2>1, <2>2, <2>6, ConstantsAssumption DEF Types, TypeOK, Busy
  <2> QED BY <2>5, <2>7 DEF Types
<1>2. CASE DialUDP(d)
  <2>1. /\ stream' \in [Goroutines -> {"none", "open", "closed", "left"}]
        /\ target' \in [Goroutines -> Peers \cup {None}]
    BY <1>0, <1>2, OpenType DEF DialUDP
  <2>2. at[d] # "idle" /\ Goto(d, "exchange") BY <1>2 DEF DialUDP, Open
  <2>3. "exchange" \in Locations \ {"idle"} BY DEF Locations
  <2> QED BY <1>0, <1>2, <2>1, <2>2, <2>3, Moves DEF DialUDP, Keep, Types, TypeOK, ObjectType
<1>3. CASE DialUDPFails(d) \/ SendThrough(d)
  BY <1>3, DatagramDrops DEF DialUDPFails, SendThrough
<1>4. CASE NewExchange(d) \/ SendFails(d)
  <2>1. PICK l \in {"send", "delete"} : Goto(d, l) BY <1>4 DEF NewExchange, SendFails
  <2>2. l \in Locations \ {"idle"} BY DEF Locations
  <2>3. at[d] # "idle" BY <1>4 DEF NewExchange, SendFails
  <2> QED
    BY <1>0, <1>4, <2>1, <2>2, <2>3, Moves
    DEF NewExchange, SendFails, Keep, Types, TypeOK, ObjectType
<1>5. CASE Send(d) \/ RelayEnds(d)
  <2>1. at[d] # "idle" BY <1>5 DEF Send, RelayEnds
  <2>2. key[d] \in Addrs \X Dsts BY <1>0, <2>1 DEF Types, TypeOK, Busy
  <2>3. exchanges' \subseteq Addrs \X Dsts BY <1>5, <2>2 DEF Send, RelayEnds, Types, TypeOK
  <2> QED
    BY <1>0, <1>5, <2>1, <2>3, Moves
    DEF Send, RelayEnds, Keep, Types, TypeOK, Locations, ObjectType
<1>6. CASE DeleteAssociation(d)
  <2>1. object' \in [Requests -> ObjectType] /\ overdue' \subseteq Requests
    BY <1>6, CollectType DEF DeleteAssociation
  <2>2. /\ at' = [at EXCEPT ![d] = "releaseUDP"]
        /\ requests' = [requests EXCEPT ![key[d][1]] = None]
        /\ UNCHANGED <<pool, req, streamVars, callVars, exchanges, key>>
    BY <1>6 DEF DeleteAssociation, Goto
  <2>3. TypeOK' BY <2>1, <2>2 DEF Types, TypeOK, ObjectType, Locations
  <2>4. Busy' BY <1>0, <1>6, <2>2 DEF DeleteAssociation, Types, TypeOK, Busy
  <2> QED BY <2>3, <2>4 DEF Types
<1>7. CASE ReleaseUDP(d)
  <2>1. at[d] # "idle" BY <1>7 DEF ReleaseUDP
  <2>2. object[req[d]].password \in Users \cup {None}
    BY <1>0, <2>1 DEF Types, TypeOK, Busy
  <2>3. /\ pool' \in [Requests -> Nat]
        /\ object' \in [Requests -> ObjectType]
        /\ req' = [req EXCEPT ![d] = None]
        /\ overdue' \subseteq Requests
    BY <1>0, <1>7, <2>1, <2>2, ReleaseType DEF ReleaseUDP, Release
  <2>4. ReturnWith(d, TRUE, {}) /\ key' = [key EXCEPT ![d] = None]
        /\ UNCHANGED <<callVars, requests, exchanges>>
    BY <1>7 DEF ReleaseUDP, DatagramReturns
  <2>5. /\ at' = [at EXCEPT ![d] = "idle"]
        /\ stream' \in [Goroutines -> {"none", "open", "closed", "left"}]
        /\ target' \in [Goroutines -> Peers \cup {None}]
    BY <1>0, <2>4, ReturnType
  <2>6. TypeOK' BY <2>3, <2>4, <2>5 DEF Types, TypeOK, ObjectType, Locations
  <2>7. Busy' BY <1>0, <2>3, <2>4, <2>5, ConstantsAssumption DEF Types, TypeOK, Busy
  <2> QED BY <2>6, <2>7 DEF Types
<1> QED BY <1>1, <1>2, <1>3, <1>4, <1>5, <1>6, <1>7 DEF DatagramStep

LEMMA TypesCollect ==
  ASSUME Types, NEW o \in Requests, Collect(o)
  PROVE  Types'
<1> USE DEF streamVars, callVars, udpVars
<1>1. object' \in [Requests -> ObjectType] /\ overdue' \subseteq Requests
  BY CollectType DEF Collect
<1>2. pool[o] - 1 \in Nat BY DEF Collect, Types, TypeOK
<1>3. pool' \in [Requests -> Nat] BY <1>2 DEF Collect, Types, TypeOK
<1>4. TypeOK' BY <1>1, <1>3 DEF Collect, Types, TypeOK, ObjectType
<1>5. Busy' BY DEF Collect, Types, Busy
<1> QED BY <1>4, <1>5 DEF Types

LEMMA TypesNext == Types /\ [Next]_vars => Types'
<1>1. ASSUME Types, UNCHANGED vars PROVE Types'
  BY <1>1 DEF vars, Types, TypeOK, Busy
<1> QED
  BY <1>1, TypesHTTP, TypesSOCKS, TypesCall, TypesDatagram, TypesCollect DEF Next

LEMMA TypesAlways == Spec => []Types
BY TypesInit, TypesNext, PTL DEF Spec

(* Type correctness: whatever the goroutines of the proxy services do, and *)
(* in whatever order, every variable stays in its type.                    *)
THEOREM TypeCorrect == Spec => []TypeOK
<1>1. Types => TypeOK BY DEF Types
<1> QED BY <1>1, TypesAlways, PTL

-----------------------------------------------------------------------------
(* Who refers to an object that was never released while another goroutine *)
(* held it: the pool, once, and nobody else; or one call, and nobody else; *)
(* or one address and its datagrams, none of which has let the address go; *)
(* or datagrams only.  The last two cases are not among the properties:    *)
(* they say why the datagram that releases the object finds it free.       *)
HeldOnce(o) ==
  /\ pool[o] > 0 =>
       /\ pool[o] = 1
       /\ \A g \in Goroutines : req[g] # o
       /\ \A a \in Addrs : requests[a] # o
  /\ \A c \in Calls : req[c] = o =>
       /\ \A g \in Goroutines \ {c} : req[g] # o
       /\ \A a \in Addrs : requests[a] # o
  /\ \A a \in Addrs, d \in Datagrams : requests[a] = o /\ req[d] = o =>
       at[d] # "releaseUDP" /\ key[d][1] = a
  /\ \A a, b \in Addrs : requests[a] = o /\ requests[b] = o => a = b

OneOwner == \A o \in Requests \ overdue : HeldOnce(o)

(* An object nothing refers to is held once, whatever is said of it. *)
LEMMA GarbageIsHeldOnce ==
  ASSUME Types', NEW o \in Requests, ~Referenced(o)'
  PROVE  HeldOnce(o)'
BY DEF HeldOnce, Referenced, Calls, Goroutines

LEMMA AcquireAlone ==
  ASSUME Types, OneOwner, NEW c \in Calls, NEW r \in Requests, Acquire(c, r),
         NEW l, Goto(c, l), UNCHANGED <<requests, key>>
  PROVE  OneOwner'
<1> SUFFICES ASSUME NEW o \in Requests \ overdue PROVE HeldOnce(o)'
  BY DEF OneOwner, Acquire
<1>0. HeldOnce(o) /\ c \in Goroutines /\ c \notin Datagrams
  BY ConstantsAssumption DEF OneOwner, Goroutines
<1>1. req' = [req EXCEPT ![c] = r] BY DEF Acquire
<1>2. \A d \in Datagrams : at'[d] = at[d] /\ req'[d] = req[d]
  BY <1>0, <1>1 DEF Goto, Types, TypeOK, Goroutines
<1>3. CASE o # r
  <2>1. pool'[o] = pool[o] BY <1>3 DEF Acquire, Types, TypeOK
  <2>2. \A g \in Goroutines : req'[g] = o => req[g] = o BY <1>1, <1>3 DEF Types, TypeOK
  <2> QED BY <1>0, <1>2, <2>1, <2>2 DEF HeldOnce, Calls, Goroutines
<1>4. CASE o = r
  <2>1. /\ \A g \in Goroutines : req[g] # o
        /\ \A a \in Addrs : requests[a] # o
        /\ pool[o] \in Nat /\ (pool[o] = 0 \/ pool[o] = 1)
    BY <1>0, <1>4 DEF Acquire, Referenced, HeldOnce, Types, TypeOK
  <2>2. pool'[o] = 0 BY <1>4, <2>1 DEF Acquire, Types, TypeOK
  <2>3. \A g \in Goroutines \ {c} : req'[g] # o BY <1>0, <1>1, <2>1 DEF Types, TypeOK
  <2> QED BY <1>0, <1>2, <2>1, <2>2, <2>3 DEF HeldOnce, Calls, Goroutines
<1> QED BY <1>3, <1>4

(* A call may always release its object; a datagram, once it has let its   *)
(* address go.                                                             *)
LEMMA ReleaseAlone ==
  ASSUME Types, OneOwner, NEW g \in Goroutines, at[g] # "idle",
         g \in Calls \/ at[g] = "releaseUDP",
         NEW r, ReleaseAs(g, r), at' = [at EXCEPT ![g] = "idle"],
         UNCHANGED requests, \A d \in Datagrams \ {g} : key'[d] = key[d]
  PROVE  OneOwner'
<1> SUFFICES ASSUME NEW o \in Requests \ overdue' PROVE HeldOnce(o)'
  BY DEF OneOwner
<1>0. HeldOnce(o) BY DEF OneOwner, ReleaseAs
<1>1. req' = [req EXCEPT ![g] = None] /\ None # o
  BY ConstantsAssumption DEF ReleaseAs
<1>2. \A f \in Goroutines : req'[f] = o => f # g /\ req[f] = o
  BY <1>1 DEF Types, TypeOK
<1>3. \A d \in Datagrams \ {g} : at'[d] = at[d]
  BY DEF Types, TypeOK, Goroutines
<1>4. CASE o # req[g]
  <2>1. pool'[o] = pool[o] BY <1>4 DEF ReleaseAs, Types, TypeOK
  <2> QED BY <1>0, <1>2, <1>3, <2>1 DEF HeldOnce, Calls, Goroutines
<1>5. CASE o = req[g]
  <2>1. \A f \in Goroutines \ {g} : req[f] # o BY <1>5 DEF ReleaseAs
  <2>2. pool[o] \in Nat /\ ~(pool[o] > 0) BY <1>0, <1>5 DEF HeldOnce, Types, TypeOK
  <2>3. pool'[o] = 1 BY <1>5, <2>2 DEF ReleaseAs, Types, TypeOK
  <2>4. \A a \in Addrs : requests[a] # o BY <1>0, <1>5 DEF HeldOnce, Goroutines
  <2>5. \A f \in Goroutines : req'[f] # o BY <1>2, <2>1
  <2> QED BY <2>3, <2>4, <2>5 DEF HeldOnce, Calls, Goroutines
<1> QED BY <1>4, <1>5

LEMMA DropAlone ==
  ASSUME Types, Types', OneOwner, NEW g \in Goroutines, Drop(g), at' = [at EXCEPT ![g] = "idle"],
         UNCHANGED requests, \A d \in Datagrams \ {g} : key'[d] = key[d]
  PROVE  OneOwner'
<1> SUFFICES ASSUME NEW o \in Requests \ overdue' PROVE HeldOnce(o)'
  BY DEF OneOwner
<1>1. CASE ~Referenced(o)' BY <1>1, GarbageIsHeldOnce
<1>2. CASE o \notin overdue
  <2>0. HeldOnce(o) BY <1>2 DEF OneOwner
  <2>1. req' = [req EXCEPT ![g] = None] /\ None # o /\ UNCHANGED pool
    BY ConstantsAssumption DEF Drop
  <2>2. \A f \in Goroutines : req'[f] = o => f # g /\ req[f] = o
    BY <2>1 DEF Types, TypeOK
  <2>3. \A d \in Datagrams \ {g} : at'[d] = at[d]
    BY DEF Types, TypeOK, Goroutines
  <2> QED BY <2>0, <2>1, <2>2, <2>3 DEF HeldOnce, Calls, Goroutines
<1> QED BY <1>1, <1>2 DEF Drop, CollectGarbage

LEMMA MoveAlone ==
  ASSUME Types, OneOwner, NEW g \in Goroutines, NEW l \in Locations \ {"releaseUDP"},
         Goto(g, l), UNCHANGED <<pool, req, overdue, requests, key>>
  PROVE  OneOwner'
<1> SUFFICES ASSUME NEW o \in Requests \ overdue PROVE HeldOnce(o)'
  BY DEF OneOwner
<1>1. \A d \in Datagrams : at'[d] = "releaseUDP" => at[d] = "releaseUDP"
  BY DEF Goto, Types, TypeOK, Goroutines
<1> QED BY <1>1 DEF OneOwner, HeldOnce

LEMMA AssociateAlone ==
  ASSUME Types, Types', OneOwner, NEW c \in Calls, NEW a \in Addrs, Associate(c, a)
  PROVE  OneOwner'
<1> SUFFICES ASSUME NEW o \in Requests \ overdue' PROVE HeldOnce(o)'
  BY DEF OneOwner
<1>1. CASE ~Referenced(o)' BY <1>1, GarbageIsHeldOnce
<1>2. CASE o \notin overdue
  <2>0. HeldOnce(o) /\ c \in Goroutines /\ c \notin Datagrams
    BY <1>2, ConstantsAssumption DEF OneOwner, Goroutines
  <2>1. /\ req' = [req EXCEPT ![c] = None] /\ None # o /\ UNCHANGED <<pool, key>>
        /\ requests' = [requests EXCEPT ![a] = req[c]]
    BY ConstantsAssumption DEF Associate, Drop
  <2>2. \A f \in Goroutines : req'[f] = o => f # c /\ req[f] = o
    BY <2>1 DEF Types, TypeOK
  <2>3. \A d \in Datagrams : at'[d] = at[d]
    BY <2>0 DEF Associate, ReturnWith, Goto, Types, TypeOK, Goroutines
  <2>4. CASE o # req[c]
    <3>1. \A b \in Addrs : requests'[b] = o => requests[b] = o BY <2>1, <2>4 DEF Types, TypeOK
    <3> QED BY <2>0, <2>1, <2>2, <2>3, <3>1 DEF HeldOnce, Calls, Goroutines
  <2>5. CASE o = req[c]
    <3>1. /\ \A g \in Goroutines \ {c} : req[g] # o
          /\ \A b \in Addrs : requests[b] # o
          /\ ~(pool[o] > 0)
      BY <2>0, <2>5 DEF HeldOnce
    <3>2. \A f \in Goroutines : req'[f] # o BY <2>2, <3>1
    <3>3. \A b \in Addrs : requests'[b] = o => b = a BY <2>1, <3>1 DEF Types, TypeOK
    <3> QED BY <2>1, <3>1, <3>2, <3>3 DEF HeldOnce, Calls, Goroutines
  <2> QED BY <2>4, <2>5
<1> QED BY <1>1, <1>2 DEF Associate, Drop, CollectGarbage

LEMMA DeleteAlone ==
  ASSUME Types, Types', OneOwner, NEW d \in Datagrams, DeleteAssociation(d)
  PROVE  OneOwner'
<1> SUFFICES ASSUME NEW o \in Requests \ overdue' PROVE HeldOnce(o)'
  BY DEF OneOwner
<1>1. CASE ~Referenced(o)' BY <1>1, GarbageIsHeldOnce
<1>2. CASE o \notin overdue
  <2>0. HeldOnce(o) BY <1>2 DEF OneOwner
  <2>1. /\ UNCHANGED <<pool, req, key>>
        /\ requests' = [requests EXCEPT ![key[d][1]] = None] /\ None # o
    BY ConstantsAssumption DEF DeleteAssociation, streamVars
  <2>2. \A b \in Addrs : requests'[b] = o => b # key[d][1] /\ requests[b] = o
    BY <2>1 DEF Types, TypeOK
  <2>3. \A f \in Datagrams \ {d} : at'[f] = at[f]
    BY DEF DeleteAssociation, Goto, Types, TypeOK, Goroutines
  <2> QED BY <2>0, <2>1, <2>2, <2>3 DEF HeldOnce
<1> QED BY <1>1, <1>2 DEF DeleteAssociation, CollectGarbage

LEMMA LookupAlone ==
  ASSUME Types, OneOwner, NEW d \in Datagrams, NEW a \in Addrs, NEW x \in Dsts, Lookup(d, a, x)
  PROVE  OneOwner'
<1> SUFFICES ASSUME NEW o \in Requests \ overdue PROVE HeldOnce(o)'
  BY DEF OneOwner, Lookup
<1>0. HeldOnce(o) /\ d \in Goroutines /\ d \notin Calls
  BY ConstantsAssumption DEF OneOwner, Goroutines
<1>1. /\ req' = [req EXCEPT ![d] = requests[a]]
      /\ key' = [key EXCEPT ![d] = <<a, x>>]
      /\ at' = [at EXCEPT ![d] = "dial"]
      /\ UNCHANGED <<pool, requests>>
  BY DEF Lookup, Goto
<1>2. \A f \in Goroutines \ {d} : req'[f] = req[f] /\ at'[f] = at[f]
  BY <1>1 DEF Types, TypeOK
<1>3. req'[d] = requests[a] /\ at'[d] = "dial" /\ key'[d] = <<a, x>>
  BY <1>0, <1>1 DEF Types, TypeOK
<1>4. \A f \in Datagrams \ {d} : key'[f] = key[f] BY <1>1 DEF Types, TypeOK
<1>5. key'[d][1] = a BY <1>3
<1>6. CASE o # requests[a]
  BY <1>0, <1>1, <1>2, <1>3, <1>4, <1>6 DEF HeldOnce, Calls, Goroutines
<1>7. CASE o = requests[a]
  BY <1>0, <1>1, <1>2, <1>3, <1>4, <1>5, <1>7 DEF HeldOnce, Calls, Goroutines
<1> QED BY <1>6, <1>7

LEMMA CollectAlone ==
  ASSUME Types, Types', OneOwner, NEW r \in Requests, Collect(r)
  PROVE  OneOwner'
<1> SUFFICES ASSUME NEW o \in Requests \ overdue' PROVE HeldOnce(o)'
  BY DEF OneOwner
<1>1. CASE ~Referenced(o)' BY <1>1, GarbageIsHeldOnce
<1>2. CASE o \notin overdue
  <2>0. HeldOnce(o) BY <1>2 DEF OneOwner
  <2>1. pool[o] \in Nat /\ (pool'[o] = pool[o] \/ (o = r /\ pool'[o] = pool[o] - 1))
    BY DEF Collect, Types, TypeOK
  <2>2. pool'[o] > 0 => pool[o] > 0 /\ pool'[o] = 1
    BY <2>0, <2>1 DEF HeldOnce, Collect
  <2>3. UNCHANGED <<req, at, requests, key>> BY DEF Collect, udpVars
  <2> QED BY <2>0, <2>2, <2>3 DEF HeldOnce
<1> QED BY <1>1, <1>2 DEF Collect, CollectGarbage

LEMMA ReturnsAlone ==
  ASSUME Types, Types', OneOwner, NEW c \in Calls, at[c] # "idle",
         NEW closed, NEW ps, CallReturns(c, closed, ps),
         (\E r : ReleaseAs(c, r)) \/ Drop(c)
  PROVE  OneOwner'
<1>1. /\ c \in Goroutines
      /\ at' = [at EXCEPT ![c] = "idle"] /\ UNCHANGED <<requests, key>>
  BY DEF Goroutines, CallReturns, ReturnWith, Goto, udpVars
<1> QED BY <1>1, ReleaseAlone, DropAlone

LEMMA OneOwnerHTTP ==
  ASSUME Types, Types', OneOwner, NEW c \in HTTPCalls, HTTPStep(c)
  PROVE  OneOwner'
<1>0. c \in Calls /\ c \in Goroutines BY DEF Calls, Goroutines
<1> USE DEF streamVars, callVars, udpVars
<1>1. ASSUME NEW o \in Requests, NEW u \in Users, AcceptHTTP(c, o, u) PROVE OneOwner'
  BY <1>0, <1>1, AcquireAlone DEF AcceptHTTP
<1>2. CASE \/ ParseHTTP(c) \/ AuthenticateHTTP(c) \/ WriteHeader(c) \/ Hijack(c)
           \/ WriteRequest(c) \/ WriteFails(c) \/ ReadResponse(c) \/ ReadFails(c)
  <2>1. PICK l \in Locations \ {"releaseUDP"} : Goto(c, l)
    BY <1>2 DEF ParseHTTP, AuthenticateHTTP, WriteHeader, Hijack, WriteRequest, WriteFails,
                ReadResponse, ReadFails, Locations
  <2>2. UNCHANGED <<pool, req, overdue, requests, key>>
    BY <1>2 DEF ParseHTTP, AuthenticateHTTP, WriteHeader, Hijack, WriteRequest, WriteFails,
                ReadResponse, ReadFails, SetFields, Keep
  <2> QED BY <1>0, <2>1, <2>2, MoveAlone
<1>3. CASE RefuseHTTP(c) \/ HeaderFails(c) \/ BadStatus(c) \/ Deferred(c) \/ NotHijacked(c)
  BY <1>0, <1>3, ReturnsAlone
  DEF RefuseHTTP, HeaderFails, BadStatus, Deferred, NotHijacked, Release
<1> QED BY <1>1, <1>2, <1>3 DEF HTTPStep

LEMMA OneOwnerSOCKS ==
  ASSUME Types, Types', OneOwner, NEW c \in SOCKSCalls, SOCKSStep(c)
  PROVE  OneOwner'
<1>0. c \in Calls /\ c \in Goroutines BY DEF Calls, Goroutines
<1> USE DEF streamVars, callVars, udpVars
<1>1. ASSUME NEW o \in Requests, NEW u \in Users, AcceptSOCKS(c, o, u) PROVE OneOwner'
  BY <1>0, <1>1, AcquireAlone DEF AcceptSOCKS
<1>2. CASE AuthenticateSOCKS(c) \/ ParseSOCKS(c) \/ Connect(c) \/ Forward(c)
  <2>1. PICK l \in Locations \ {"releaseUDP"} : Goto(c, l)
    BY <1>2 DEF AuthenticateSOCKS, ParseSOCKS, Connect, Forward, Locations
  <2>2. UNCHANGED <<pool, req, overdue, requests, key>>
    BY <1>2 DEF AuthenticateSOCKS, ParseSOCKS, Connect, Forward, SetFields, Keep
  <2> QED BY <1>0, <2>1, <2>2, MoveAlone
<1>3. CASE RefuseSOCKS(c) \/ ForwardFails(c)
  BY <1>0, <1>3, ReturnsAlone DEF RefuseSOCKS, ForwardFails, Release
<1>4. ASSUME NEW a \in Addrs, Associate(c, a) PROVE OneOwner'
  BY <1>0, <1>4, AssociateAlone
<1> QED BY <1>1, <1>2, <1>3, <1>4 DEF SOCKSStep

LEMMA OneOwnerCall ==
  ASSUME Types, Types', OneOwner, NEW c \in Calls, CallStep(c)
  PROVE  OneOwner'
<1>0. c \in Goroutines BY DEF Goroutines
<1> USE DEF streamVars, callVars, udpVars
<1>1. CASE Reject(c) \/ DialFails(c) \/ Copied(c)
  BY <1>1, ReturnsAlone DEF Reject, DialFails, Copied, Release
<1>2. ASSUME NEW n \in Peers, Route(c, n) PROVE OneOwner'
  BY <1>0, <1>2, MoveAlone DEF Route, SetFields, Locations
<1>3. CASE Dial(c)
  BY <1>0, <1>3, MoveAlone DEF Dial, Open, Keep, Locations
<1>4. ASSUME NEW t \in Directions, Transfer(c, t) PROVE OneOwner'
  BY <1>4 DEF Transfer, Keep, OneOwner, HeldOnce
<1> QED BY <1>1, <1>2, <1>3, <1>4 DEF CallStep

LEMMA OneOwnerDatagram ==
  ASSUME Types, Types', OneOwner, NEW d \in Datagrams, DatagramStep(d)
  PROVE  OneOwner'
<1>0. d \in Goroutines BY DEF Goroutines
<1> USE DEF streamVars, callVars, udpVars
<1>1. ASSUME NEW a \in Addrs, NEW x \in Dsts, Lookup(d, a, x) PROVE OneOwner'
  BY <1>1, LookupAlone
<1>2. CASE DialUDP(d) \/ NewExchange(d) \/ Send(d) \/ SendFails(d) \/ RelayEnds(d)
  <2>1. PICK l \in Locations \ {"releaseUDP"} : Goto(d, l)
    BY <1>2 DEF DialUDP, Open, NewExchange, Send, SendFails, RelayEnds, Locations
  <2>2. UNCHANGED <<pool, req, overdue, requests, key>>
    BY <1>2 DEF DialUDP, Open, NewExchange, Send, SendFails, RelayEnds, Keep
  <2> QED BY <1>0, <2>1, <2>2, MoveAlone
<1>3. CASE DialUDPFails(d) \/ SendThrough(d) \/ ReleaseUDP(d)
  <2>1. /\ at' = [at EXCEPT ![d] = "idle"] /\ UNCHANGED requests
        /\ \A f \in Datagrams \ {d} : key'[f] = key[f]
    BY <1>3 DEF DialUDPFails, SendThrough, ReleaseUDP, DatagramReturns, ReturnWith, Goto,
                Types, TypeOK
  <2>2. CASE Drop(d) BY <1>0, <2>1, <2>2, DropAlone
  <2>3. CASE ReleaseUDP(d)
    BY <1>0, <2>1, <2>3, ReleaseAlone DEF ReleaseUDP, Release
  <2> QED BY <1>3, <2>2, <2>3 DEF DialUDPFails, SendThrough
<1>4. CASE DeleteAssociation(d) BY <1>4, DeleteAlone
<1> QED BY <1>1, <1>2, <1>3, <1>4 DEF DatagramStep

LEMMA OneOwnerNext == Types /\ Types' /\ OneOwner /\ [Next]_vars => OneOwner'
<1>1. ASSUME OneOwner, UNCHANGED vars PROVE OneOwner'
  BY <1>1 DEF vars, OneOwner, HeldOnce
<1> QED
  BY <1>1, OneOwnerHTTP, OneOwnerSOCKS, OneOwnerCall, OneOwnerDatagram, CollectAlone DEF Next

LEMMA OneOwnerAlways == Spec => []OneOwner
<1>1. Init => OneOwner
  BY ConstantsAssumption DEF Init, OneOwner, HeldOnce, Calls, Goroutines
<1> QED BY <1>1, TypesAlways, OneOwnerNext, PTL DEF Spec

(* A request is put in the pool by the last that refers to it and only     *)
(* once, on every path of both services, so that nobody acquires what      *)
(* another still uses (but for the datagrams of one address).              *)
THEOREM PooledRequestsAreFree == Spec => []PooledIsFree
<1>1. OneOwner => PooledIsFree BY DEF OneOwner, HeldOnce, PooledIsFree
<1> QED BY <1>1, OneOwnerAlways, PTL

(* A call has its request to itself from acquiring it until it releases it *)
(* or leaves it to the datagrams of an address.                            *)
THEOREM CallsAreAlone == Spec => []CallsHoldAlone
<1>1. OneOwner => CallsHoldAlone BY DEF OneOwner, HeldOnce, CallsHoldAlone
<1> QED BY <1>1, OneOwnerAlways, PTL

(* No request is shared by the pool and a call, or by two calls.           *)
THEOREM RequestsStayOwn == Spec => []RequestsAreOwn
<1> QED BY PooledRequestsAreFree, CallsAreAlone, PTL DEF RequestsAreOwn

-----------------------------------------------------------------------------
(* What a call has of its object, as long as no one else releases it: the  *)
(* password and the session of its client, then its user, then the node    *)
(* its stream goes to.  It names no account before it has a stream.        *)
Served == {"connect", "readHeader", "copy", "writeRequest", "readResponse", "release", "forward"}

Mine(c) ==
  /\ at[c] \notin Served => bill[c] = {}
  /\ req[c] \in Requests \ overdue =>
       /\ at[c] = "auth" => object[req[c]].password = own[c]
       /\ c \in HTTPCalls /\ at[c] \in {"auth", "route"} =>
            object[req[c]].session \in {<< >>, Digest(own[c])}
       /\ at[c] \notin {"idle", "parse", "auth", "negotiate"} => object[req[c]].user = own[c]
       /\ at[c] \in Served => object[req[c]].peer = target[c]
       /\ bill[c] \subseteq {<<own[c], target[c]>>}

AllMine == \A c \in Calls : Mine(c)

(* What a step of g leaves alone: all that is the others', and the fields  *)
(* of every object but its own that anyone still refers to.                *)
Local(g) ==
  /\ \A f \in Goroutines \ {g} : req'[f] = req[f] /\ at'[f] = at[f] /\ target'[f] = target[f]
  /\ \A c \in Calls \ {g} : own'[c] = own[c] /\ bill'[c] = bill[c]
  /\ \A o \in overdue \ overdue' : ~Referenced(o)'
  /\ \A o \in Requests : o # req[g] => object'[o] = object[o] \/ ~Referenced(o)'

LEMMA OthersKeepTheirs ==
  ASSUME Types, Types', OneOwner, NEW c \in Calls, Mine(c), NEW g \in Goroutines \ {c}, Local(g)
  PROVE  Mine(c)'
<1>0. c \in Goroutines BY DEF Goroutines
<1>1. /\ req'[c] = req[c] /\ at'[c] = at[c] /\ target'[c] = target[c]
      /\ own'[c] = own[c] /\ bill'[c] = bill[c]
  BY <1>0 DEF Local
<1>2. ASSUME NEW o \in Requests \ overdue', req'[c] = o
      PROVE  req[c] = o /\ o \notin overdue /\ object'[o] = object[o]
  <2>1. req[c] = o /\ Referenced(o)' BY <1>0, <1>1, <1>2 DEF Referenced
  <2>2. o \notin overdue BY <2>1 DEF Local
  <2>3. req[g] # o BY <2>1, <2>2 DEF OneOwner, HeldOnce
  <2> QED BY <2>1, <2>2, <2>3 DEF Local
<1> QED BY <1>1, <1>2 DEF Mine

LEMMA ReturnIsLocal ==
  ASSUME Types, NEW g \in Goroutines, NEW closed, NEW ps, ReturnWith(g, closed, ps),
         \/ \E r : ReleaseAs(g, r)
         \/ Drop(g),
         \A c \in Calls \ {g} : own'[c] = own[c] /\ bill'[c] = bill[c]
  PROVE  Local(g)
<1>1. \A f \in Goroutines \ {g} : req'[f] = req[f] BY DEF ReleaseAs, Drop, Types, TypeOK
<1>2. \A f \in Goroutines \ {g} : at'[f] = at[f] /\ target'[f] = target[f]
  BY DEF ReturnWith, Goto, Types, TypeOK
<1>3. CASE \E r : ReleaseAs(g, r)
  BY <1>1, <1>2, <1>3 DEF Local, ReleaseAs, Types, TypeOK
<1>4. CASE Drop(g)
  BY <1>1, <1>2, <1>4 DEF Local, Drop, CollectGarbage, Types, TypeOK
<1> QED BY <1>3, <1>4

LEMMA CallReturnIsMine ==
  ASSUME Types, NEW c \in Calls, NEW closed, NEW ps, CallReturns(c, closed, ps),
         (\E r : ReleaseAs(c, r)) \/ Drop(c)
  PROVE  Local(c) /\ Mine(c)'
<1>0. c \in Goroutines BY DEF Goroutines
<1>1. \A d \in Calls \ {c} : own'[d] = own[d] /\ bill'[d] = bill[d]
  BY DEF CallReturns, ForgetCall, Types, TypeOK
<1>2. Local(c) BY <1>0, <1>1, ReturnIsLocal DEF CallReturns
<1>3. req'[c] = None /\ at'[c] = "idle" /\ bill'[c] = {}
  BY <1>0 DEF ReleaseAs, Drop, CallReturns, ReturnWith, Goto, ForgetCall, Types, TypeOK
<1>4. Mine(c)' BY <1>3, ConstantsAssumption DEF Mine
<1> QED BY <1>2, <1>4

(* A step that moves a goroutine and at most sets the fields of its object.*)
LEMMA MoveIsLocal ==
  ASSUME Types, NEW g \in Goroutines, NEW l, Goto(g, l),
         Keep \/ \E r : SetFields(g, r),
         \A f \in Goroutines \ {g} : target'[f] = target[f],
         \A c \in Calls \ {g} : own'[c] = own[c] /\ bill'[c] = bill[c]
  PROVE  Local(g)
<1>1. \A f \in Goroutines \ {g} : at'[f] = at[f] BY DEF Goto, Types, TypeOK
<1>2. UNCHANGED <<req, overdue>> BY DEF Keep, SetFields
<1>3. \A o \in Requests : o # req[g] => object'[o] = object[o]
  BY DEF Keep, SetFields, Types, TypeOK
<1> QED BY <1>1, <1>2, <1>3 DEF Local

LEMMA BillIsMine ==
  ASSUME Types, NEW c \in Calls, Mine(c), at[c] \in Served, at'[c] \in Served, Bill(c), Keep,
         UNCHANGED <<target, own>>
  PROVE  Mine(c)'
<1>1. bill'[c] = bill[c] \cup {<<object[req[c]].user, object[req[c]].peer>>}
  BY DEF Bill, Types, TypeOK
<1>2. UNCHANGED <<req, object, overdue>> BY DEF Keep
<1> QED BY <1>1, <1>2 DEF Mine, Served

LEMMA MineHTTP ==
  ASSUME Types, OneOwner, AllMine, NEW c \in HTTPCalls, HTTPStep(c)
  PROVE  Local(c) /\ Mine(c)'
<1>0. c \in Calls /\ c \in Goroutines /\ Mine(c) BY DEF Calls, Goroutines, AllMine
<1> USE DEF streamVars, callVars, udpVars
<1>1. ASSUME NEW o \in Requests, NEW u \in Users, AcceptHTTP(c, o, u)
      PROVE  Local(c) /\ Mine(c)'
  <2>1. Local(c) BY <1>0, <1>1 DEF AcceptHTTP, Acquire, Goto, Local, Types, TypeOK
  <2>2. at'[c] = "parse" /\ bill'[c] = {}
    BY <1>0, <1>1 DEF AcceptHTTP, Goto, Mine, Served, Types, TypeOK
  <2>3. Mine(c)' BY <2>2 DEF Mine, Served
  <2> QED BY <2>1, <2>3
<1>2. CASE ParseHTTP(c)
  <2>1. Local(c) BY <1>0, <1>2, MoveIsLocal DEF ParseHTTP
  <2>2. PICK s \in {<< >>, Digest(own[c])} :
          SetFields(c, [object[req[c]] EXCEPT !.password = own[c], !.session = s])
    BY <1>2 DEF ParseHTTP
  <2>3. req[c] \in Requests /\ object[req[c]] \in ObjectType
    BY <1>0, <1>2 DEF ParseHTTP, Types, TypeOK, Busy, ObjectType
  <2>4. object'[req[c]] = [object[req[c]] EXCEPT !.password = own[c], !.session = s]
    BY <2>2, <2>3 DEF SetFields, Types, TypeOK
  <2>5. object'[req[c]].password = own[c] /\ object'[req[c]].session = s
    BY <2>3, <2>4 DEF ObjectType
  <2>6. at'[c] = "auth" /\ bill'[c] = {} /\ UNCHANGED <<own, req>>
    BY <1>0, <1>2 DEF ParseHTTP, SetFields, Goto, Mine, Served, Types, TypeOK
  <2>7. Mine(c)' BY <2>5, <2>6 DEF Mine, Served, Digest
  <2> QED BY <2>1, <2>7
<1>3. CASE RefuseHTTP(c) \/ HeaderFails(c) \/ BadStatus(c) \/ Deferred(c) \/ NotHijacked(c)
  BY <1>0, <1>3, CallReturnIsMine
  DEF RefuseHTTP, HeaderFails, BadStatus, Deferred, NotHijacked, Release
<1>4. CASE AuthenticateHTTP(c)
  <2>1. Local(c) BY <1>0, <1>4, MoveIsLocal DEF AuthenticateHTTP
  <2>2. req[c] \in Requests /\ object[req[c]] \in ObjectType
    BY <1>0, <1>4 DEF AuthenticateHTTP, Types, TypeOK, Busy, ObjectType
  <2>3. object'[req[c]] = [object[req[c]] EXCEPT !.user = object[req[c]].password]
    BY <1>4, <2>2 DEF AuthenticateHTTP, SetFields, Types, TypeOK
  <2>4. /\ object'[req[c]].user = object[req[c]].password
        /\ object'[req[c]].session = object[req[c]].session
    BY <2>2, <2>3 DEF ObjectType
  <2>5. /\ at[c] = "auth" /\ at'[c] = "route"
        /\ bill'[c] = {} /\ UNCHANGED <<own, req, overdue>>
    BY <1>0, <1>4 DEF AuthenticateHTTP, SetFields, Goto, Mine, Served, Types, TypeOK
  <2>6. Mine(c)' BY <1>0, <2>4, <2>5 DEF Mine, Served, Digest
  <2> QED BY <2>1, <2>6
<1>5. CASE WriteHeader(c) \/ ReadResponse(c)
  <2>1. \A d \in Calls \ {c} : bill'[d] = bill[d]
    BY <1>5 DEF WriteHeader, ReadResponse, Bill, Types, TypeOK
  <2>2. Local(c) BY <1>0, <1>5, <2>1, MoveIsLocal DEF WriteHeader, ReadResponse
  <2>3. at[c] \in Served /\ at'[c] \in Served
    BY <1>0, <1>5 DEF WriteHeader, ReadResponse, Goto, Served, Types, TypeOK
  <2>4. Mine(c)' BY <1>0, <1>5, <2>3, BillIsMine DEF WriteHeader, ReadResponse
  <2> QED BY <2>2, <2>4
<1>6. CASE Hijack(c) \/ WriteRequest(c) \/ WriteFails(c) \/ ReadFails(c)
  <2>1. Local(c)
    BY <1>0, <1>6, MoveIsLocal DEF Hijack, WriteRequest, WriteFails, ReadFails
  <2>2. at[c] \in Served /\ at'[c] \in Served
    BY <1>0, <1>6 DEF Hijack, WriteRequest, WriteFails, ReadFails, Goto, Served, Types, TypeOK
  <2>3. UNCHANGED <<object, req, overdue, own, target, bill>>
    BY <1>6 DEF Hijack, WriteRequest, WriteFails, ReadFails, Keep
  <2>4. Mine(c)' BY <1>0, <2>2, <2>3 DEF Mine, Served
  <2> QED BY <2>1, <2>4
<1> QED BY <1>1, <1>2, <1>3, <1>4, <1>5, <1>6 DEF HTTPStep

LEMMA MineSOCKS ==
  ASSUME Types, OneOwner, AllMine, NEW c \in SOCKSCalls, SOCKSStep(c)
  PROVE  Local(c) /\ Mine(c)'
<1>0. c \in Calls /\ c \in Goroutines /\ Mine(c) /\ c \notin HTTPCalls
  BY ConstantsAssumption DEF Calls, Goroutines, AllMine
<1> USE DEF streamVars, callVars, udpVars
<1>1. ASSUME NEW o \in Requests, NEW u \in Users, AcceptSOCKS(c, o, u)
      PROVE  Local(c) /\ Mine(c)'
  <2>1. Local(c) BY <1>0, <1>1 DEF AcceptSOCKS, Acquire, Goto, Local, Types, TypeOK
  <2>2. at'[c] = "negotiate" /\ bill'[c] = {}
    BY <1>0, <1>1 DEF AcceptSOCKS, Goto, Mine, Served, Types, TypeOK
  <2>3. Mine(c)' BY <2>2 DEF Mine, Served
  <2> QED BY <2>1, <2>3
<1>2. CASE AuthenticateSOCKS(c)
  <2>1. Local(c) BY <1>0, <1>2, MoveIsLocal DEF AuthenticateSOCKS
  <2>2. req[c] \in Requests /\ object[req[c]] \in ObjectType
    BY <1>0, <1>2 DEF AuthenticateSOCKS, Types, TypeOK, Busy, ObjectType
  <2>3. object'[req[c]] = [object[req[c]] EXCEPT !.user = own[c]]
    BY <1>2, <2>2 DEF AuthenticateSOCKS, SetFields, Types, TypeOK
  <2>4. object'[req[c]].user = own[c] BY <2>2, <2>3 DEF ObjectType
  <2>5. at'[c] = "username" /\ bill'[c] = {} /\ UNCHANGED <<own, req>>
    BY <1>0, <1>2 DEF AuthenticateSOCKS, SetFields, Goto, Mine, Served, Types, TypeOK
  <2>6. Mine(c)' BY <2>4, <2>5 DEF Mine, Served
  <2> QED BY <2>1, <2>6
<1>3. CASE ParseSOCKS(c)
  <2>1. Local(c) BY <1>0, <1>3, MoveIsLocal DEF ParseSOCKS
  <2>2. PICK s : SetFields(c, [object[req[c]] EXCEPT !.session = s])
    BY <1>3 DEF ParseSOCKS
  <2>3. req[c] \in Requests /\ object[req[c]] \in ObjectType
    BY <1>0, <1>3 DEF ParseSOCKS, Types, TypeOK, Busy, ObjectType
  <2>4. object'[req[c]] = [object[req[c]] EXCEPT !.session = s]
    BY <2>2, <2>3 DEF SetFields, Types, TypeOK
  <2>5. object'[req[c]].user = object[req[c]].user BY <2>3, <2>4 DEF ObjectType
  <2>6. at[c] = "username" /\ at'[c] = "route" /\ bill'[c] = {} /\ UNCHANGED <<own, req, overdue>>
    BY <1>0, <1>3 DEF ParseSOCKS, SetFields, Goto, Mine, Served, Types, TypeOK
  <2>7. Mine(c)' BY <1>0, <2>5, <2>6 DEF Mine, Served
  <2> QED BY <2>1, <2>7
<1>4. CASE RefuseSOCKS(c) \/ ForwardFails(c)
  BY <1>0, <1>4, CallReturnIsMine DEF RefuseSOCKS, ForwardFails, Release
<1>5. CASE Connect(c)
  <2>1. Local(c) BY <1>0, <1>5, MoveIsLocal DEF Connect
  <2>2. at[c] = "request" /\ at'[c] = "dial"
    BY <1>0, <1>5 DEF Connect, Goto, Types, TypeOK
  <2>3. UNCHANGED <<object, req, overdue, own, target, bill>> BY <1>5 DEF Connect, Keep
  <2>4. Mine(c)' BY <1>0, <2>2, <2>3 DEF Mine, Served
  <2> QED BY <2>1, <2>4
<1>6. CASE Forward(c)
  <2>1. Local(c) BY <1>0, <1>6, MoveIsLocal DEF Forward
  <2>2. at[c] \in Served /\ at'[c] \in Served /\ at'[c] = "copy"
    BY <1>0, <1>6 DEF Forward, Goto, Served, Types, TypeOK
  <2>3. UNCHANGED <<object, req, overdue, own, target, bill>> BY <1>6 DEF Forward, Keep
  <2>4. Mine(c)' BY <1>0, <2>2, <2>3 DEF Mine, Served
  <2> QED BY <2>1, <2>4
<1>7. ASSUME NEW a \in Addrs, Associate(c, a) PROVE Local(c) /\ Mine(c)'
  <2>1. \A d \in Calls \ {c} : own'[d] = own[d] /\ bill'[d] = bill[d]
    BY <1>7 DEF Associate, ForgetCall, Types, TypeOK
  <2>2. Local(c) BY <1>0, <1>7, <2>1, ReturnIsLocal DEF Associate
  <2>3. req'[c] = None /\ bill'[c] = {}
    BY <1>0, <1>7 DEF Associate, Drop, ForgetCall, Types, TypeOK
  <2>4. Mine(c)' BY <2>3, ConstantsAssumption DEF Mine
  <2> QED BY <2>2, <2>4
<1> QED BY <1>1, <1>2, <1>3, <1>4, <1>5, <1>6, <1>7 DEF SOCKSStep

LEMMA MineCall ==
  ASSUME Types, OneOwner, AllMine, NEW c \in Calls, CallStep(c)
  PROVE  Local(c) /\ Mine(c)'
<1>0. c \in Goroutines /\ Mine(c) BY DEF Goroutines, AllMine
<1> USE DEF streamVars, callVars, udpVars
<1>1. CASE Reject(c) \/ DialFails(c) \/ Copied(c)
  BY <1>1, CallReturnIsMine DEF Reject, DialFails, Copied, Release
<1>2. ASSUME NEW n \in Peers, Route(c, n) PROVE Local(c) /\ Mine(c)'
  <2>1. Local(c) BY <1>0, <1>2, MoveIsLocal DEF Route
  <2>2. req[c] \in Requests /\ object[req[c]] \in ObjectType
    BY <1>0, <1>2 DEF Route, Types, TypeOK, Busy, ObjectType
  <2>3. object'[req[c]] = [object[req[c]] EXCEPT !.peer = n]
    BY <1>2, <2>2 DEF Route, SetFields, Types, TypeOK
  <2>4. object'[req[c]].user = object[req[c]].user BY <2>2, <2>3 DEF ObjectType
  <2>5. /\ at[c] = "route" /\ at'[c] \in {"dial", "request"}
        /\ bill'[c] = {} /\ UNCHANGED <<own, req, overdue>>
    BY <1>0, <1>2 DEF Route, SetFields, Goto, Mine, Served, Types, TypeOK
  <2>6. Mine(c)' BY <1>0, <2>4, <2>5 DEF Mine, Served
  <2> QED BY <2>1, <2>6
<1>3. CASE Dial(c)
  <2>1. PICK l \in Served : Open(c, l) BY <1>3 DEF Dial, Served
  <2>2. \A f \in Goroutines \ {c} : target'[f] = target[f]
    BY <2>1 DEF Open, Types, TypeOK
  <2>3. Local(c) BY <1>0, <1>3, <2>1, <2>2, MoveIsLocal DEF Dial, Open
  <2>4. at[c] = "dial" /\ at'[c] \in Served /\ target'[c] = object[req[c]].peer
    BY <1>0, <1>3, <2>1 DEF Dial, Open, Goto, Types, TypeOK
  <2>5. bill'[c] = {} /\ UNCHANGED <<object, req, overdue, own>>
    BY <1>0, <1>3 DEF Dial, Keep, Mine, Served
  <2>6. Mine(c)' BY <1>0, <2>4, <2>5 DEF Mine, Served
  <2> QED BY <2>3, <2>6
<1>4. ASSUME NEW t \in Directions, Transfer(c, t) PROVE Local(c) /\ Mine(c)'
  <2>1. \A d \in Calls \ {c} : bill'[d] = bill[d]
    BY <1>4 DEF Transfer, Bill, Types, TypeOK
  <2>2. Local(c) BY <1>4, <2>1 DEF Transfer, Keep, Local
  <2>3. Mine(c)' BY <1>0, <1>4, BillIsMine DEF Transfer, Served
  <2> QED BY <2>2, <2>3
<1> QED BY <1>1, <1>2, <1>3, <1>4 DEF CallStep

LEMMA DatagramIsLocal ==
  ASSUME Types, NEW d \in Datagrams, DatagramStep(d)
  PROVE  Local(d)
<1>0. d \in Goroutines /\ d \notin Calls BY ConstantsAssumption DEF Goroutines
<1> USE DEF streamVars, callVars, udpVars
<1>1. ASSUME NEW a \in Addrs, NEW x \in Dsts, Lookup(d, a, x) PROVE Local(d)
  BY <1>0, <1>1 DEF Lookup, Goto, Local, Types, TypeOK
<1>2. CASE DialUDP(d) \/ NewExchange(d) \/ Send(d) \/ SendFails(d) \/ RelayEnds(d)
  <2>1. PICK l : Goto(d, l)
    BY <1>2 DEF DialUDP, Open, NewExchange, Send, SendFails, RelayEnds
  <2>2. \A f \in Goroutines \ {d} : target'[f] = target[f]
    BY <1>2 DEF DialUDP, Open, NewExchange, Send, SendFails, RelayEnds, Types, TypeOK
  <2>3. Keep /\ UNCHANGED callVars BY <1>2 DEF DialUDP, NewExchange, Send, SendFails, RelayEnds
  <2> QED BY <1>0, <2>1, <2>2, <2>3, MoveIsLocal
<1>3. CASE DialUDPFails(d) \/ SendThrough(d) \/ ReleaseUDP(d)
  <2>1. UNCHANGED callVars BY <1>3 DEF DialUDPFails, SendThrough, ReleaseUDP
  <2>2. PICK closed : ReturnWith(d, closed, {})
    BY <1>3 DEF DialUDPFails, SendThrough, ReleaseUDP, DatagramReturns
  <2>3. (\E r : ReleaseAs(d, r)) \/ Drop(d)
    BY <1>3 DEF DialUDPFails, SendThrough, ReleaseUDP, Release
  <2> QED BY <1>0, <2>1, <2>2, <2>3, ReturnIsLocal
<1>4. CASE DeleteAssociation(d)
  BY <1>0, <1>4 DEF DeleteAssociation, CollectGarbage, Goto, Local, Types, TypeOK
<1> QED BY <1>1, <1>2, <1>3, <1>4 DEF DatagramStep

LEMMA CollectKeepsMine ==
  ASSUME Types, NEW c \in Calls, Mine(c), NEW r \in Requests, Collect(r)
  PROVE  Mine(c)'
<1>0. c \in Goroutines BY DEF Goroutines
<1>1. UNCHANGED <<req, at, target, own, bill>> BY DEF Collect, streamVars, callVars
<1>2. ASSUME NEW o \in Requests \ overdue', req'[c] = o
      PROVE  req[c] = o /\ o \notin overdue /\ object'[o] = object[o]
  <2>1. req[c] = o /\ Referenced(o)' BY <1>0, <1>1, <1>2 DEF Referenced
  <2> QED BY <2>1 DEF Collect, CollectGarbage
<1> QED BY <1>1, <1>2 DEF Mine

LEMMA MineNext == Types /\ Types' /\ OneOwner /\ AllMine /\ [Next]_vars => AllMine'
<1> SUFFICES ASSUME Types, Types', OneOwner, AllMine, [Next]_vars, NEW c \in Calls
             PROVE  Mine(c)'
  BY DEF AllMine
<1>0. Mine(c) /\ c \in Goroutines BY DEF AllMine, Goroutines
<1>1. ASSUME NEW g \in Goroutines, Local(g), g \in Calls => Mine(g)' PROVE Mine(c)'
  BY <1>0, <1>1, OthersKeepTheirs
<1>2. CASE \E g \in HTTPCalls : HTTPStep(g)
  BY <1>1, <1>2, MineHTTP DEF Calls, Goroutines
<1>3. CASE \E g \in SOCKSCalls : SOCKSStep(g)
  BY <1>1, <1>3, MineSOCKS DEF Calls, Goroutines
<1>4. CASE \E g \in Calls : CallStep(g)
  BY <1>1, <1>4, MineCall DEF Goroutines
<1>5. CASE \E g \in Datagrams : DatagramStep(g)
  BY <1>1, <1>5, DatagramIsLocal, ConstantsAssumption DEF Goroutines
<1>6. CASE \E o \in Requests : Collect(o)
  BY <1>0, <1>6, CollectKeepsMine
<1>7. CASE UNCHANGED vars
  BY <1>0, <1>7 DEF vars, Mine
<1> QED BY <1>2, <1>3, <1>4, <1>5, <1>6, <1>7 DEF Next

LEMMA MineAlways == Spec => []AllMine
<1>1. Init => AllMine
  BY ConstantsAssumption DEF Init, AllMine, Mine, Calls, Goroutines
<1> QED BY <1>1, TypesAlways, OneOwnerAlways, MineNext, PTL DEF Spec

(* All that a call names to the accountant is the account of its own       *)
(* client, with the node its stream was opened to, whatever requests the   *)
(* other calls acquire and release in between.                             *)
THEOREM TrafficIsBilledToClient == Spec => []BilledToClient
<1>1. ASSUME Types, AllMine, NEW c \in Calls
      PROVE  req[c] \in overdue \/ bill[c] \subseteq {<<own[c], target[c]>>}
  <2>1. Mine(c) /\ c \in Goroutines BY <1>1 DEF AllMine, Goroutines
  <2>2. CASE req[c] \in Requests BY <2>1, <2>2 DEF Mine
  <2>3. CASE req[c] = None
    <3>1. at[c] = "idle" BY <1>1, <2>1, <2>3 DEF Types, Busy
    <3>2. bill[c] = {} BY <2>1, <3>1 DEF Mine, Served
    <3> QED BY <3>2
  <2> QED BY <1>1, <2>1, <2>2, <2>3 DEF Types, TypeOK
<1>2. Types /\ AllMine => BilledToClient BY <1>1 DEF BilledToClient
<1> QED BY <1>2, TypesAlways, MineAlways, PTL

(* The session an HTTP client is routed by comes from its own password:    *)
(* what a pooled request keeps of an earlier client never reaches it.      *)
THEOREM HTTPSessionsAreOwn == Spec => []SessionsAreOwn
<1>1. ASSUME Types, AllMine, NEW c \in HTTPCalls, at[c] \in {"auth", "route"}, req[c] \notin overdue
      PROVE  object[req[c]].session \in {<< >>, Digest(own[c])}
  <2>1. Mine(c) /\ c \in Goroutines BY <1>1 DEF AllMine, Calls, Goroutines
  <2>2. req[c] \in Requests BY <1>1, <2>1 DEF Types, TypeOK, Busy
  <2> QED BY <1>1, <2>1, <2>2 DEF Mine
<1>2. Types /\ AllMine => SessionsAreOwn BY <1>1 DEF SessionsAreOwn
<1> QED BY <1>2, TypesAlways, MineAlways, PTL

-----------------------------------------------------------------------------
(* What becomes of a stream.  A goroutine has none open before it dials;   *)
(* an open one has a node; and while the Transfers of a call run, it is    *)
(* open only as long as the one from the node has not ended.               *)
Undialled == {"idle", "parse", "auth", "route", "dial", "negotiate", "username", "request"}

StreamOf(g) ==
  /\ at[g] \in Undialled => stream[g] # "open"
  /\ stream[g] = "open" => target[g] # None
  /\ g \in Calls /\ at[g] = "copy" /\ "down" \notin copying[g] => stream[g] # "open"

Streams == \A g \in Goroutines : StreamOf(g)

Leaves(g) ==
  stream'[g] = "left" /\ stream[g] # "left" =>
    at[g] \in {"readHeader", "exchange"} \/ req[g] \in overdue

(* A step of g may close the stream of another, and nothing else. *)
Closes(g) ==
  /\ \A f \in Goroutines \ {g} : stream'[f] \in {stream[f], "closed"}
  /\ \A c \in Calls \ {g} : copying'[c] = copying[c]

LEMMA OthersKeepStreams ==
  ASSUME Streams, NEW g, Local(g), Closes(g), NEW f \in Goroutines \ {g}
  PROVE  StreamOf(f)' /\ Leaves(f)
<1>1. StreamOf(f) BY DEF Streams
<1>2. /\ at'[f] = at[f] /\ target'[f] = target[f] /\ stream'[f] \in {stream[f], "closed"}
      /\ f \in Calls => copying'[f] = copying[f]
  BY DEF Local, Closes
<1> QED BY <1>1, <1>2 DEF StreamOf, Leaves

LEMMA ReturnEndsStream ==
  ASSUME Types, NEW g \in Goroutines, NEW closed \in BOOLEAN, NEW ps, ReturnWith(g, closed, ps),
         \A c \in Calls \ {g} : copying'[c] = copying[c],
         \/ stream[g] # "open"
         \/ closed
         \/ target[g] \in ps
         \/ at[g] \in {"readHeader", "exchange"}
         \/ req[g] \in overdue
  PROVE  Closes(g) /\ StreamOf(g)' /\ Leaves(g)
<1>1. stream' = [Closing(g, closed, ps) EXCEPT ![g] =
                   IF Closing(g, closed, ps)[g] = "open" THEN "left" ELSE "none"]
  BY DEF ReturnWith
<1>2. \A f \in Goroutines : Closing(g, closed, ps)[f] \in {stream[f], "closed"}
  BY DEF Closing
<1>3. \A f \in Goroutines \ {g} : stream'[f] = Closing(g, closed, ps)[f]
  BY <1>1 DEF Closing
<1>4. stream'[g] = IF Closing(g, closed, ps)[g] = "open" THEN "left" ELSE "none"
  BY <1>1 DEF Closing
<1>5. Closing(g, closed, ps)[g] =
        IF stream[g] = "open" /\ (target[g] \in ps \/ closed) THEN "closed" ELSE stream[g]
  BY DEF Closing
<1>6. Closes(g) BY <1>2, <1>3 DEF Closes
<1>7. at'[g] = "idle" /\ stream'[g] # "open" BY <1>4 DEF ReturnWith, Goto, Types, TypeOK
<1>8. StreamOf(g)' BY <1>7 DEF StreamOf
<1>9. Leaves(g) BY <1>4, <1>5 DEF Leaves
<1> QED BY <1>6, <1>8, <1>9

LEMMA CallEndsStream ==
  ASSUME Types, NEW c \in Calls, NEW closed \in BOOLEAN, NEW ps, CallReturns(c, closed, ps),
         \/ stream[c] # "open"
         \/ closed
         \/ target[c] \in ps
         \/ at[c] \in {"readHeader", "exchange"}
         \/ req[c] \in overdue
  PROVE  Closes(c) /\ StreamOf(c)' /\ Leaves(c)
<1>1. ReturnWith(c, closed, ps) /\ \A d \in Calls \ {c} : copying'[d] = copying[d]
  BY DEF CallReturns, ForgetCall, Types, TypeOK
<1> QED BY <1>1, ReturnEndsStream DEF Goroutines

(* A step that leaves all streams as they are. *)
LEMMA MoveKeepsStream ==
  ASSUME Types, NEW g \in Goroutines, StreamOf(g), NEW l, Goto(g, l), UNCHANGED streamVars,
         \A c \in Calls \ {g} : copying'[c] = copying[c],
         l \in Undialled => at[g] \in Undialled,
         l = "copy" => "down" \in copying'[g]
  PROVE  Closes(g) /\ StreamOf(g)' /\ Leaves(g)
<1>1. Closes(g) /\ Leaves(g) BY DEF Closes, Leaves, streamVars
<1>2. at'[g] = l BY DEF Goto, Types, TypeOK
<1>3. StreamOf(g)' BY <1>2 DEF StreamOf, streamVars
<1> QED BY <1>1, <1>3

LEMMA StreamsHTTP ==
  ASSUME Types, AllMine, Streams, NEW c \in HTTPCalls, HTTPStep(c)
  PROVE  Closes(c) /\ StreamOf(c)' /\ Leaves(c)
<1>0. c \in Calls /\ c \in Goroutines /\ Mine(c) /\ StreamOf(c)
  BY DEF Calls, Goroutines, AllMine, Streams
<1> USE DEF callVars, udpVars
<1>1. ASSUME NEW o \in Requests, NEW u \in Users, AcceptHTTP(c, o, u)
      PROVE  Closes(c) /\ StreamOf(c)' /\ Leaves(c)
  <2>1. stream' = [stream EXCEPT ![c] = "none"] /\ UNCHANGED copying
    BY <1>1 DEF AcceptHTTP, Acquire
  <2>2. stream'[c] = "none" BY <1>0, <2>1 DEF Types, TypeOK
  <2> QED BY <1>0, <2>1, <2>2 DEF Closes, StreamOf, Leaves, Types, TypeOK
<1>2. CASE \/ ParseHTTP(c) \/ AuthenticateHTTP(c) \/ WriteHeader(c)
           \/ WriteRequest(c) \/ WriteFails(c) \/ ReadResponse(c)
  <2> DEFINE Ends == {"auth", "route", "readHeader", "readResponse", "release"}
  <2>1. PICK l \in Ends : Goto(c, l) /\ (l \in Undialled => at[c] \in Undialled)
    BY <1>2 DEF ParseHTTP, AuthenticateHTTP, WriteHeader, WriteRequest, WriteFails,
                ReadResponse, Undialled
  <2>2. UNCHANGED streamVars /\ UNCHANGED copying
    BY <1>2 DEF ParseHTTP, AuthenticateHTTP, WriteHeader, WriteRequest, WriteFails, ReadResponse
  <2> QED BY <1>0, <2>1, <2>2, MoveKeepsStream
<1>3. CASE RefuseHTTP(c) \/ BadStatus(c) \/ NotHijacked(c)
  <2>1. stream[c] # "open" \/ at[c] = "readHeader"
    BY <1>0, <1>3 DEF RefuseHTTP, BadStatus, NotHijacked, StreamOf, Undialled
  <2> QED BY <1>0, <1>3, <2>1, CallEndsStream DEF RefuseHTTP, BadStatus, NotHijacked
<1>4. CASE HeaderFails(c)
  <2>1. at[c] \in Served BY <1>4 DEF HeaderFails, Served
  <2>2. req[c] \in Requests BY <1>0, <2>1 DEF Types, TypeOK, Busy, Served
  <2>3. \/ req[c] \in overdue \/ stream[c] # "open" \/ target[c] \in Disconnected(c)
    BY <1>0, <2>1, <2>2 DEF Mine, StreamOf, Disconnected
  <2> QED BY <1>0, <1>4, <2>3, CallEndsStream DEF HeaderFails
<1>5. CASE Deferred(c)
  BY <1>0, <1>5, CallEndsStream DEF Deferred
<1>6. CASE Hijack(c)
  <2>1. copying'[c] = Directions /\ \A d \in Calls \ {c} : copying'[d] = copying[d]
    BY <1>0, <1>6 DEF Hijack, Types, TypeOK
  <2>2. "copy" \notin Undialled /\ "down" \in copying'[c] BY <2>1 DEF Undialled, Directions
  <2> QED BY <1>0, <1>6, <2>1, <2>2, MoveKeepsStream DEF Hijack
<1>7. CASE ReadFails(c)
  <2>1. \A f \in Goroutines : stream'[f] \in {stream[f], "closed"}
    BY <1>7 DEF ReadFails, Closing
  <2>2. at'[c] = "release" /\ UNCHANGED <<target, copying>>
    BY <1>0, <1>7 DEF ReadFails, Goto, Types, TypeOK
  <2> QED BY <1>0, <2>1, <2>2 DEF Closes, StreamOf, Leaves, Undialled
<1> QED BY <1>1, <1>2, <1>3, <1>4, <1>5, <1>6, <1>7 DEF HTTPStep

LEMMA StreamsSOCKS ==
  ASSUME Types, Streams, NEW c \in SOCKSCalls, SOCKSStep(c)
  PROVE  Closes(c) /\ StreamOf(c)' /\ Leaves(c)
<1>0. c \in Calls /\ c \in Goroutines /\ StreamOf(c) BY DEF Calls, Goroutines, Streams
<1> USE DEF callVars, udpVars
<1>1. ASSUME NEW o \in Requests, NEW u \in Users, AcceptSOCKS(c, o, u)
      PROVE  Closes(c) /\ StreamOf(c)' /\ Leaves(c)
  <2>1. stream' = [stream EXCEPT ![c] = "none"] /\ UNCHANGED copying
    BY <1>1 DEF AcceptSOCKS, Acquire
  <2>2. stream'[c] = "none" BY <1>0, <2>1 DEF Types, TypeOK
  <2> QED BY <1>0, <2>1, <2>2 DEF Closes, StreamOf, Leaves, Types, TypeOK
<1>2. CASE AuthenticateSOCKS(c) \/ ParseSOCKS(c) \/ Connect(c)
  <2>1. PICK l \in {"username", "route", "dial"} : Goto(c, l) /\ at[c] \in Undialled
    BY <1>2 DEF AuthenticateSOCKS, ParseSOCKS, Connect, Undialled
  <2>2. UNCHANGED streamVars /\ UNCHANGED copying
    BY <1>2 DEF AuthenticateSOCKS, ParseSOCKS, Connect
  <2> QED BY <1>0, <2>1, <2>2, MoveKeepsStream
<1>3. CASE RefuseSOCKS(c) \/ ForwardFails(c)
  BY <1>0, <1>3, CallEndsStream DEF RefuseSOCKS, ForwardFails, StreamOf, Undialled
<1>4. ASSUME NEW a \in Addrs, Associate(c, a)
      PROVE  Closes(c) /\ StreamOf(c)' /\ Leaves(c)
  <2>1. stream[c] # "open" BY <1>0, <1>4 DEF Associate, StreamOf, Undialled
  <2>2. \A d \in Calls \ {c} : copying'[d] = copying[d]
    BY <1>4 DEF Associate, ForgetCall, Types, TypeOK
  <2> QED BY <1>0, <1>4, <2>1, <2>2, ReturnEndsStream DEF Associate
<1>5. CASE Forward(c)
  <2>1. copying'[c] = Directions /\ \A d \in Calls \ {c} : copying'[d] = copying[d]
    BY <1>0, <1>5 DEF Forward, Types, TypeOK
  <2>2. "copy" \notin Undialled /\ "down" \in copying'[c] BY <2>1 DEF Undialled, Directions
  <2> QED BY <1>0, <1>5, <2>1, <2>2, MoveKeepsStream DEF Forward
<1> QED BY <1>1, <1>2, <1>3, <1>4, <1>5 DEF SOCKSStep

LEMMA OpenKeepsStream ==
  ASSUME Types, NEW g \in Goroutines, NEW l, Open(g, l), l \notin Undialled, l # "copy",
         UNCHANGED copying
  PROVE  Closes(g) /\ StreamOf(g)' /\ Leaves(g)
<1>1. /\ stream' = [stream EXCEPT ![g] = "open"]
      /\ target' = [target EXCEPT ![g] = object[req[g]].peer]
      /\ at' = [at EXCEPT ![g] = l] /\ object[req[g]].peer # None
  BY DEF Open, Goto
<1>2. stream'[g] = "open" /\ target'[g] # None /\ at'[g] = l BY <1>1 DEF Types, TypeOK
<1>3. \A f \in Goroutines \ {g} : stream'[f] = stream[f] BY <1>1 DEF Types, TypeOK
<1> QED BY <1>2, <1>3 DEF Closes, StreamOf, Leaves

LEMMA StreamsCall ==
  ASSUME Types, Streams, NEW c \in Calls, CallStep(c)
  PROVE  Closes(c) /\ StreamOf(c)' /\ Leaves(c)
<1>0. c \in Goroutines /\ StreamOf(c) BY DEF Goroutines, Streams
<1> USE DEF callVars, udpVars
<1>1. CASE Reject(c) \/ DialFails(c) \/ Copied(c)
  <2>1. stream[c] # "open"
    BY <1>0, <1>1 DEF Reject, DialFails, Copied, StreamOf, Undialled
  <2>2. PICK ps : CallReturns(c, FALSE, ps) BY <1>1 DEF Reject, DialFails, Copied
  <2> QED BY <2>1, <2>2, CallEndsStream
<1>2. ASSUME NEW n \in Peers, Route(c, n) PROVE Closes(c) /\ StreamOf(c)' /\ Leaves(c)
  <2>1. PICK l \in {"dial", "request"} : Goto(c, l) /\ at[c] \in Undialled
    BY <1>2 DEF Route, Undialled
  <2>2. UNCHANGED streamVars /\ UNCHANGED copying BY <1>2 DEF Route
  <2> QED BY <1>0, <2>1, <2>2, MoveKeepsStream
<1>3. CASE Dial(c)
  <2>1. PICK l \in {"connect", "writeRequest", "forward"} : Open(c, l) BY <1>3 DEF Dial
  <2>2. l \notin Undialled /\ l # "copy" BY DEF Undialled
  <2> QED BY <1>0, <1>3, <2>1, <2>2, OpenKeepsStream DEF Dial
<1>4. ASSUME NEW t \in Directions, Transfer(c, t)
      PROVE  Closes(c) /\ StreamOf(c)' /\ Leaves(c)
  <2>1. /\ at[c] = "copy" /\ UNCHANGED <<at, target>>
        /\ copying' = [copying EXCEPT ![c] = copying[c] \ {t}]
        /\ stream' = IF t = "down" THEN [stream EXCEPT ![c] = "closed"] ELSE stream
    BY <1>4 DEF Transfer
  <2>2. \A d \in Calls \ {c} : copying'[d] = copying[d] BY <2>1 DEF Types, TypeOK
  <2>3. \A f \in Goroutines \ {c} : stream'[f] = stream[f] BY <2>1 DEF Types, TypeOK
  <2>4. CASE t = "down"
    <3>1. stream'[c] = "closed" BY <1>0, <2>1, <2>4 DEF Types, TypeOK
    <3> QED BY <2>2, <2>3, <3>1 DEF Closes, StreamOf, Leaves
  <2>5. CASE t # "down"
    <3>1. stream'[c] = stream[c] BY <2>1, <2>5
    <3>2. "down" \notin copying'[c] => "down" \notin copying[c]
      BY <2>1, <2>5 DEF Types, TypeOK
    <3> QED BY <1>0, <2>1, <2>2, <2>3, <3>1, <3>2 DEF Closes, StreamOf, Leaves
  <2> QED BY <2>4, <2>5
<1> QED BY <1>1, <1>2, <1>3, <1>4 DEF CallStep

LEMMA StreamsDatagram ==
  ASSUME Types, Streams, NEW d \in Datagrams, DatagramStep(d)
  PROVE  Closes(d) /\ StreamOf(d)' /\ Leaves(d)
<1>0. d \in Goroutines /\ d \notin Calls /\ StreamOf(d)
  BY ConstantsAssumption DEF Goroutines, Streams
<1> USE DEF callVars, udpVars
<1>1. ASSUME NEW a \in Addrs, NEW x \in Dsts, Lookup(d, a, x)
      PROVE  Closes(d) /\ StreamOf(d)' /\ Leaves(d)
  <2>1. stream' = [stream EXCEPT ![d] = "none"] /\ UNCHANGED copying
    BY <1>1 DEF Lookup
  <2>2. stream'[d] = "none" BY <1>0, <2>1 DEF Types, TypeOK
  <2> QED BY <1>0, <2>1, <2>2 DEF Closes, StreamOf, Leaves, Types, TypeOK
<1>2. CASE DialUDP(d)
  BY <1>0, <1>2, OpenKeepsStream DEF DialUDP, Undialled
<1>3. CASE NewExchange(d) \/ Send(d) \/ SendFails(d) \/ RelayEnds(d) \/ DeleteAssociation(d)
  <2>1. PICK l \in {"send", "delete", "relay", "releaseUDP"} : Goto(d, l)
    BY <1>3 DEF NewExchange, Send, SendFails, RelayEnds, DeleteAssociation
  <2>2. l \notin Undialled /\ l # "copy" BY DEF Undialled
  <2>3. UNCHANGED streamVars /\ UNCHANGED copying
    BY <1>3 DEF NewExchange, Send, SendFails, RelayEnds, DeleteAssociation
  <2> QED BY <1>0, <2>1, <2>2, <2>3, MoveKeepsStream
<1>4. CASE DialUDPFails(d) \/ SendThrough(d) \/ ReleaseUDP(d)
  <2>1. PICK closed \in BOOLEAN : ReturnWith(d, closed, {}) /\ (ReleaseUDP(d) => closed)
    BY <1>4 DEF DialUDPFails, SendThrough, ReleaseUDP, DatagramReturns
  <2>2. UNCHANGED copying BY <1>4 DEF DialUDPFails, SendThrough, ReleaseUDP
  <2>3. stream[d] # "open" \/ closed \/ at[d] = "exchange"
    BY <1>0, <1>4, <2>1 DEF DialUDPFails, SendThrough, StreamOf, Undialled
  <2> QED BY <1>0, <2>1, <2>2, <2>3, ReturnEndsStream
<1> QED BY <1>1, <1>2, <1>3, <1>4 DEF DatagramStep

LEMMA StreamsNext ==
  ASSUME Types, OneOwner, AllMine, Streams, [Next]_vars
  PROVE  Streams' /\ \A g \in Goroutines : Leaves(g)
<1>1. ASSUME NEW g \in Goroutines, Local(g), Closes(g) /\ StreamOf(g)' /\ Leaves(g)
      PROVE  Streams' /\ \A f \in Goroutines : Leaves(f)
  BY <1>1, OthersKeepStreams DEF Streams
<1>2. CASE \E g \in HTTPCalls : HTTPStep(g)
  BY <1>1, <1>2, MineHTTP, StreamsHTTP DEF Calls, Goroutines
<1>3. CASE \E g \in SOCKSCalls : SOCKSStep(g)
  BY <1>1, <1>3, MineSOCKS, StreamsSOCKS DEF Calls, Goroutines
<1>4. CASE \E g \in Calls : CallStep(g)
  BY <1>1, <1>4, MineCall, StreamsCall DEF Goroutines
<1>5. CASE \E g \in Datagrams : DatagramStep(g)
  BY <1>1, <1>5, DatagramIsLocal, StreamsDatagram DEF Goroutines
<1>6. CASE UNCHANGED <<at, stream, target, copying>>
  BY <1>6 DEF Streams, StreamOf, Leaves
<1>7. CASE \E o \in Requests : Collect(o)
  BY <1>6, <1>7 DEF Collect, streamVars, callVars
<1>8. CASE UNCHANGED vars
  BY <1>6, <1>8 DEF vars
<1> QED BY <1>2, <1>3, <1>4, <1>5, <1>7, <1>8 DEF Next

(* No path of either service returns with its stream open and its node     *)
(* connected, but for the three that StreamsEnd names.                     *)
THEOREM StreamsAreEnded == Spec => StreamsEnd
<1>1. Init => Streams BY DEF Init, Streams, StreamOf
<1>2. Types /\ OneOwner /\ AllMine /\ Streams /\ [Next]_vars => Streams' BY StreamsNext
<1>3. Types /\ OneOwner /\ AllMine /\ Streams /\ [Next]_vars =>
        [\A g \in Goroutines :
           stream'[g] = "left" /\ stream[g] # "left" =>
             at[g] \in {"readHeader", "exchange"} \/ req[g] \in overdue]_vars
  BY StreamsNext DEF Leaves
<1> QED BY <1>1, <1>2, <1>3, TypesAlways, OneOwnerAlways, MineAlways, PTL DEF Spec, StreamsEnd
=============================================================================
