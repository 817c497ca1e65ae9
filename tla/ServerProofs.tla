---------------------------- MODULE ServerProofs ----------------------------
(***************************************************************************)
(* What holds of WorkerPool and Server for any number of connections,      *)
(* workers and configurations.                                             *)
(***************************************************************************)
EXTENDS Server, FiniteSetTheorems, TLAPS

-----------------------------------------------------------------------------
(* Stacks without repetition                                               *)

LEMMA PushIsInjective ==
  ASSUME NEW S, NEW s \in Seq(S), IsInjective(s), NEW x \in S, x \notin ToSet(s)
  PROVE  /\ Append(s, x) \in Seq(S) /\ IsInjective(Append(s, x))
         /\ ToSet(Append(s, x)) = ToSet(s) \cup {x}
<1>1. \A i \in 1 .. Len(s) : s[i] # x BY DEF ToSet
<1>2. IsInjective(Append(s, x)) BY <1>1 DEF IsInjective
<1>3. ToSet(Append(s, x)) \subseteq ToSet(s) \cup {x} BY DEF ToSet
<1>4. ToSet(s) \subseteq ToSet(Append(s, x))
  <2> SUFFICES ASSUME NEW i \in 1 .. Len(s) PROVE s[i] \in ToSet(Append(s, x)) BY DEF ToSet
  <2>1. i \in DOMAIN Append(s, x) /\ Append(s, x)[i] = s[i] OBVIOUS
  <2> QED BY <2>1 DEF ToSet
<1>5. x \in ToSet(Append(s, x))
  <2>1. Len(s) + 1 \in DOMAIN Append(s, x) /\ Append(s, x)[Len(s) + 1] = x OBVIOUS
  <2> QED BY <2>1 DEF ToSet
<1> QED BY <1>2, <1>3, <1>4, <1>5

LEMMA PartIsInjective ==
  ASSUME NEW S, NEW s \in Seq(S), IsInjective(s), NEW m \in 1 .. Len(s) + 1, NEW n \in 0 .. Len(s)
  PROVE  /\ SubSeq(s, m, n) \in Seq(S) /\ IsInjective(SubSeq(s, m, n))
         /\ ToSet(SubSeq(s, m, n)) = {s[i] : i \in m .. n}
<1> DEFINE t == SubSeq(s, m, n)
<1>1. t \in Seq(S) /\ Len(t) = IF m <= n THEN n - m + 1 ELSE 0 OBVIOUS
<1>2. \A i \in 1 .. Len(t) : t[i] = s[m + i - 1] BY <1>1
<1>3. IsInjective(t) BY <1>1, <1>2 DEF IsInjective
<1>4. ToSet(t) \subseteq {s[i] : i \in m .. n} BY <1>1, <1>2 DEF ToSet
<1>5. ASSUME NEW i \in m .. n PROVE s[i] \in ToSet(t)
  <2>1. i - m + 1 \in 1 .. Len(t) /\ t[i - m + 1] = s[i] BY <1>1, <1>2
  <2>2. i - m + 1 \in DOMAIN t BY <1>1, <2>1
  <2> QED BY <2>1, <2>2 DEF ToSet
<1> QED BY <1>1, <1>3, <1>4, <1>5

(* Taking the top off. *)
LEMMA Pop ==
  ASSUME NEW S, NEW s \in Seq(S), IsInjective(s), s # <<>>
  PROVE  /\ Last(s) \in ToSet(s) /\ Front(s) \in Seq(S) /\ IsInjective(Front(s))
         /\ ToSet(Front(s)) = ToSet(s) \ {Last(s)}
<1>1. Len(s) \in Nat /\ Len(s) > 0 OBVIOUS
<1>2. /\ Front(s) \in Seq(S) /\ IsInjective(Front(s))
      /\ ToSet(Front(s)) = {s[i] : i \in 1 .. Len(s) - 1}
  <2>1. 1 \in 1 .. Len(s) + 1 /\ Len(s) - 1 \in 0 .. Len(s) BY <1>1
  <2> QED BY <2>1, PartIsInjective DEF Front
<1>3. Last(s) \in ToSet(s) BY <1>1 DEF Last, ToSet
<1>4. {s[i] : i \in 1 .. Len(s) - 1} = ToSet(s) \ {Last(s)} BY <1>1 DEF Last, ToSet, IsInjective
<1> QED BY <1>2, <1>3, <1>4

-----------------------------------------------------------------------------
(* The pool of workers                                                     *)

Places == {"free", "wait", "serve", "release", "exit"}

PoolTypeOK ==
  /\ maxWorkersCount \in 0 .. Cardinality(Workers) /\ workersCount \in Int
  /\ ready \in Seq(Workers)
  /\ ch \in [Workers -> Seq(Conns \cup {None})]
  /\ worker \in [Workers -> Places]
  /\ serving \in [Workers -> Conns \cup {None}]

(* Only who waits on a channel has something in it, and who serves has a   *)
(* connection.                                                             *)
WorkersHaveWork ==
  \A w \in Workers :
    /\ worker[w] # "wait" => ch[w] = <<>>
    /\ worker[w] = "serve" => serving[w] \in Conns

PoolInv == PoolTypeOK /\ WorkersAreCounted /\ WorkersHaveWork

(* What the pool's callers and goroutines do to it. *)
Served(w) ==
  /\ worker[w] = "serve"
  /\ worker' = [worker EXCEPT ![w] = "release"]
  /\ UNCHANGED <<maxWorkersCount, ready, workersCount, mustStop, ch, serving>>

PoolNext ==
  \/ \E c \in Conns : ServeReady(c) \/ ServeNew(c)
  \/ \E w \in Workers : Receive(w) \/ Served(w) \/ Release(w) \/ Exit(w)
  \/ \E i \in 1 .. Len(ready) : Clean(i)
  \/ Stop

LEMMA PoolSteps == Next => PoolNext \/ UNCHANGED poolVars
<1> SUFFICES ASSUME Next PROVE PoolNext \/ UNCHANGED poolVars OBVIOUS
<1>1. CASE ServeLoop
  BY <1>1 DEF ServeLoop, Listen, CountListener, AcceptFails, Accept, Count, Dispatch, Overflow, PoolNext
<1>2. CASE PoolStep BY <1>2 DEF PoolStep, PoolNext
<1>3. CASE \E w \in Workers : WorkerStep(w)
  BY <1>3 DEF WorkerStep, Begin, WorkerReleases, PoolNext, Served
<1>4. CASE \E c \in Conns : ServeStep(c) \/ FirstByte(c) \/ NothingRead(c) \/ HijackEnds(c)
  BY <1>4 DEF ServeStep, FirstByte, NothingRead, HijackEnds, SetActive, ReadRequest, ReadFails,
     Handle, HandleAside, InTime, TimesOut, LastResponse, Respond, StartHijack, SetIdle,
     NextRequest, Return, WorkerCloses
<1>5. CASE \E x \in Contexts : HandlerReturns(x) BY <1>5 DEF HandlerReturns
<1>6. CASE ShutdownEarly \/ Shutdown \/ CloseIdleConns \/ ShutdownReturns
  BY <1>6 DEF ShutdownEarly, Shutdown, CloseIdleConns, ShutdownReturns
<1> QED BY <1>1, <1>2, <1>3, <1>4, <1>5, <1>6 DEF Next

LEMMA PoolInitial == Init => PoolInv
<1> SUFFICES ASSUME Init PROVE PoolInv OBVIOUS
<1>1. PoolTypeOK BY ConstantsAssumption DEF Init, PoolInit, PoolTypeOK, Places
<1>2. {w \in Workers : worker[w] # "free"} = {} BY DEF Init, PoolInit
<1>3. Cardinality({w \in Workers : worker[w] # "free"}) = 0 BY <1>2, FS_EmptySet
<1>4. WorkersAreCounted BY <1>1, <1>3 DEF Init, PoolInit, PoolTypeOK, WorkersAreCounted, IsInjective, ToSet
<1>5. WorkersHaveWork BY DEF Init, PoolInit, WorkersHaveWork
<1> QED BY <1>1, <1>4, <1>5 DEF PoolInv

Running == {w \in Workers : worker[w] # "free"}

LEMMA RunningIsFinite == IsFiniteSet(Running) /\ IsFiniteSet(Running')
BY ConstantsAssumption, FS_Subset DEF Running

(* The channels that are sent a nil, of workers that are ready. *)
LEMMA Nils ==
  ASSUME PoolInv, NEW ws \in SUBSET ToSet(ready), ch' = SendNil(ws)
  PROVE  /\ ch' \in [Workers -> Seq(Conns \cup {None})]
         /\ \A w \in Workers : w \notin ws => ch'[w] = ch[w]
         /\ \A w \in ws : worker[w] = "wait"
         /\ \A w \in Workers : Len(ch'[w]) <= 1
<1> USE DEF PoolInv, PoolTypeOK
<1>1. ch' = [w \in Workers |-> IF w \in ws THEN Append(ch[w], None) ELSE ch[w]] BY DEF SendNil
<1>2. ToSet(ready) \subseteq Workers BY DEF ToSet
<1>3. \A w \in ws : ch[w] = <<>> /\ worker[w] = "wait" BY <1>2 DEF WorkersAreCounted
<1>4. \A w \in Workers : ch'[w] = IF w \in ws THEN Append(ch[w], None) ELSE ch[w] BY <1>1
<1>5. \A w \in Workers : Append(ch[w], None) \in Seq(Conns \cup {None}) OBVIOUS
<1>6. ch' \in [Workers -> Seq(Conns \cup {None})] BY <1>1, <1>5
<1>7. \A w \in ws : Len(ch'[w]) = 1
  <2> SUFFICES ASSUME NEW w \in ws PROVE Len(ch'[w]) = 1 OBVIOUS
  <2>1. ch'[w] = Append(<<>>, None) BY <1>2, <1>3, <1>4
  <2> QED BY ONLY <2>1
<1>8. \A w \in Workers : Len(ch[w]) <= 1 BY DEF WorkersAreCounted
<1> QED BY <1>3, <1>4, <1>6, <1>7, <1>8

(* There is a worker to start, and a channel that takes the connection.     *)
LEMMA ServesOne ==
  ASSUME PoolInv, NEW c \in Conns
  PROVE  /\ ServeReady(c) => \E w \in Workers :
               ch[w] = <<>> /\ worker[w] = "wait" /\ ch' = [ch EXCEPT ![w] = Append(@, c)]
         /\ ServeNew(c) => \E w \in Workers :
               /\ ch[w] = <<>> /\ worker[w] = "free" /\ ch' = [ch EXCEPT ![w] = Append(@, c)]
               /\ worker' = [worker EXCEPT ![w] = "wait"]
<1> USE DEF PoolInv
<1>T. PoolTypeOK OBVIOUS
<1>1. ASSUME ServeReady(c) PROVE Last(ready) \in Workers /\ ch[Last(ready)] = <<>> /\ worker[Last(ready)] = "wait"
  <2>1. Last(ready) \in ToSet(ready) BY <1>1, Pop DEF ServeReady, PoolTypeOK, WorkersAreCounted
  <2>2. ToSet(ready) \subseteq Workers BY DEF ToSet, PoolTypeOK
  <2> QED BY <2>1, <2>2 DEF WorkersAreCounted
<1>2. ASSUME ServeNew(c) PROVE \E w \in Workers : worker[w] = "free"
  <2>1. workersCount < maxWorkersCount BY <1>2 DEF ServeNew
  <2>2. workersCount = Cardinality(Running) BY DEF WorkersAreCounted, Running
  <2>3. maxWorkersCount \in 0 .. Cardinality(Workers) BY <1>T DEF PoolTypeOK
  <2>4. Cardinality(Workers) \in Nat BY ConstantsAssumption, FS_CardinalityType
  <2>5. workersCount < Cardinality(Workers) BY ONLY <2>1, <2>3, <2>4, <1>T DEF PoolTypeOK
  <2>6. Cardinality(Running) # Cardinality(Workers) BY ONLY <2>2, <2>4, <2>5
  <2> QED BY <2>6 DEF Running
<1>3. ASSUME ServeNew(c) PROVE (CHOOSE w \in Workers : worker[w] = "free") \in Workers
                            /\ worker[CHOOSE w \in Workers : worker[w] = "free"] = "free"
  BY <1>2, <1>3
<1> QED BY <1>1, <1>3 DEF ServeReady, ServeNew, WorkersHaveWork

LEMMA PoolStepKeeps == PoolInv /\ PoolNext => PoolInv'
<1> SUFFICES ASSUME PoolInv, PoolNext PROVE PoolInv' OBVIOUS
<1> USE DEF PoolInv
<1>T. PoolTypeOK OBVIOUS
<1>R. ToSet(ready) \subseteq Workers BY DEF ToSet, PoolTypeOK
<1>C. Cardinality(Workers) \in Nat BY ConstantsAssumption, FS_CardinalityType
(* The parts that depend on the count, on the stack, and on the channels. *)
<1>S. ASSUME Running' = Running, UNCHANGED <<workersCount, maxWorkersCount>>
      PROVE workersCount' = Cardinality(Running') /\ workersCount' <= maxWorkersCount'
  BY <1>S DEF WorkersAreCounted, Running
<1>1. ASSUME NEW c \in Conns, ServeReady(c) PROVE PoolInv'
  <2>1. /\ Last(ready) \in ToSet(ready) /\ Front(ready) \in Seq(Workers) /\ IsInjective(Front(ready))
        /\ ToSet(Front(ready)) = ToSet(ready) \ {Last(ready)}
    BY <1>1, Pop DEF ServeReady, PoolTypeOK, WorkersAreCounted
  <2> DEFINE w == Last(ready)
  <2>2. w \in Workers /\ ch[w] = <<>> /\ worker[w] = "wait" BY <1>R, <2>1 DEF WorkersAreCounted
  <2>3. ch' = [ch EXCEPT ![w] = Append(@, c)] /\ ready' = Front(ready) BY <1>1 DEF ServeReady
  <2>4. Append(ch[w], c) \in Seq(Conns \cup {None}) /\ Len(Append(ch[w], c)) = 1 BY <2>2
  <2>5. ch' \in [Workers -> Seq(Conns \cup {None})] BY <2>3, <2>4 DEF PoolTypeOK
  <2>6. \A v \in Workers : v # w => ch'[v] = ch[v] BY <2>3 DEF PoolTypeOK
  <2>7. ch'[w] = Append(ch[w], c) BY <2>2, <2>3 DEF PoolTypeOK
  <2>8. UNCHANGED <<maxWorkersCount, workersCount, worker, serving>> BY <1>1 DEF ServeReady
  <2>9. PoolTypeOK' BY <2>1, <2>3, <2>5, <2>8 DEF PoolTypeOK
  <2>10. \A v \in Workers : Len(ch'[v]) <= 1 BY <2>4, <2>6, <2>7 DEF WorkersAreCounted
  <2>11. \A v \in ToSet(ready') : worker'[v] = "wait" /\ ch'[v] = <<>>
    BY <1>R, <2>1, <2>3, <2>6, <2>8 DEF WorkersAreCounted
  <2>12. WorkersAreCounted' BY <1>S, <2>1, <2>3, <2>8, <2>10, <2>11 DEF WorkersAreCounted, Running
  <2>13. WorkersHaveWork' BY <2>2, <2>6, <2>8 DEF WorkersHaveWork
  <2> QED BY <2>9, <2>12, <2>13
<1>2. ASSUME NEW c \in Conns, ServeNew(c) PROVE PoolInv'
  <2>2. PICK w \in Workers : /\ ch[w] = <<>> /\ worker[w] = "free"
                             /\ worker' = [worker EXCEPT ![w] = "wait"]
                             /\ ch' = [ch EXCEPT ![w] = Append(@, c)]
    BY <1>2, ServesOne
  <2>4. Append(ch[w], c) \in Seq(Conns \cup {None}) /\ Len(Append(ch[w], c)) = 1 BY <2>2
  <2>5. ch' \in [Workers -> Seq(Conns \cup {None})] BY <2>2, <2>4 DEF PoolTypeOK
  <2>6. \A v \in Workers : v # w => ch'[v] = ch[v] /\ worker'[v] = worker[v] BY <2>2 DEF PoolTypeOK
  <2>7. ch'[w] = Append(ch[w], c) /\ worker'[w] = "wait" BY <2>2 DEF PoolTypeOK
  <2>8. /\ UNCHANGED <<maxWorkersCount, ready, serving>> /\ ready = <<>>
        /\ workersCount' = workersCount + 1 /\ workersCount < maxWorkersCount
    BY <1>2 DEF ServeNew
  <2>9. worker' \in [Workers -> Places] BY <2>2 DEF PoolTypeOK, Places
  <2>10. PoolTypeOK' BY <2>5, <2>8, <2>9 DEF PoolTypeOK
  <2>11. Running' = Running \cup {w} /\ w \notin Running BY <2>2, <2>6, <2>7 DEF Running
  <2>12. Cardinality(Running') = Cardinality(Running) + 1 BY <2>11, RunningIsFinite, FS_AddElement
  <2>13. workersCount' = Cardinality(Running') BY <2>8, <2>12 DEF WorkersAreCounted, Running
  <2>14. workersCount' <= maxWorkersCount' BY <2>8, <1>C DEF PoolTypeOK
  <2>15. \A v \in Workers : Len(ch'[v]) <= 1 BY <2>4, <2>6, <2>7 DEF WorkersAreCounted
  <2>16. ToSet(ready') = {} BY <2>8 DEF ToSet
  <2>17. WorkersAreCounted' BY <2>8, <2>13, <2>14, <2>15, <2>16 DEF WorkersAreCounted, Running
  <2>18. WorkersHaveWork' BY <2>6, <2>7, <2>8 DEF WorkersHaveWork
  <2> QED BY <2>10, <2>17, <2>18
<1>3. ASSUME NEW w \in Workers, Receive(w) PROVE PoolInv'
  <2>1. /\ worker[w] = "wait" /\ ch[w] # <<>> /\ ch[w] \in Seq(Conns \cup {None}) /\ Len(ch[w]) <= 1
        /\ ch' = [ch EXCEPT ![w] = Tail(@)]
        /\ serving' = [serving EXCEPT ![w] = Head(ch[w])]
        /\ worker' = [worker EXCEPT ![w] = IF Head(ch[w]) = None THEN "exit" ELSE "serve"]
        /\ UNCHANGED <<maxWorkersCount, ready, workersCount>>
    BY <1>3 DEF Receive, PoolTypeOK, WorkersAreCounted
  <2>2. Tail(ch[w]) = <<>> /\ Head(ch[w]) \in Conns \cup {None} BY <2>1
  <2>3. /\ ch'[w] = <<>> /\ serving'[w] = Head(ch[w])
        /\ worker'[w] = IF Head(ch[w]) = None THEN "exit" ELSE "serve"
    BY <2>1, <2>2 DEF PoolTypeOK
  <2>4. \A v \in Workers : v # w => ch'[v] = ch[v] /\ serving'[v] = serving[v] /\ worker'[v] = worker[v]
    BY <2>1 DEF PoolTypeOK
  <2>5. ch' \in [Workers -> Seq(Conns \cup {None})] BY <2>1, <2>2 DEF PoolTypeOK
  <2>6. PoolTypeOK' BY <2>1, <2>2, <2>5 DEF PoolTypeOK, Places
  <2>7. Running' = Running BY <2>1, <2>3, <2>4 DEF Running
  <2>8. w \notin ToSet(ready) BY <2>1 DEF WorkersAreCounted
  <2>9. \A v \in Workers : Len(ch'[v]) <= 1 /\ (v \in ToSet(ready') => worker'[v] = "wait" /\ ch'[v] = <<>>)
    BY <2>1, <2>3, <2>4, <2>8 DEF WorkersAreCounted
  <2>10. WorkersAreCounted' BY <1>S, <2>1, <2>7, <2>9 DEF WorkersAreCounted, Running
  <2>11. WorkersHaveWork' BY <2>2, <2>3, <2>4 DEF WorkersHaveWork
  <2> QED BY <2>6, <2>10, <2>11
<1>4. ASSUME NEW w \in Workers, Served(w) PROVE PoolInv'
  <2>1. /\ worker[w] = "serve" /\ worker' = [worker EXCEPT ![w] = "release"]
        /\ UNCHANGED <<maxWorkersCount, ready, workersCount, ch, serving>>
    BY <1>4 DEF Served
  <2>2. worker'[w] = "release" /\ \A v \in Workers : v # w => worker'[v] = worker[v]
    BY <2>1 DEF PoolTypeOK
  <2>3. PoolTypeOK' BY <2>1 DEF PoolTypeOK, Places
  <2>4. Running' = Running BY <2>1, <2>2 DEF Running
  <2>5. w \notin ToSet(ready) BY <2>1 DEF WorkersAreCounted
  <2>6. WorkersAreCounted' BY <1>S, <2>1, <2>2, <2>4, <2>5 DEF WorkersAreCounted, Running
  <2>7. WorkersHaveWork' BY <2>1, <2>2 DEF WorkersHaveWork
  <2> QED BY <2>3, <2>6, <2>7
<1>5. ASSUME NEW w \in Workers, Release(w) PROVE PoolInv'
  <2>1. /\ worker[w] = "release" /\ ch[w] = <<>>
        /\ ready' = IF mustStop THEN ready ELSE Append(ready, w)
        /\ worker' = [worker EXCEPT ![w] = IF mustStop THEN "exit" ELSE "wait"]
        /\ serving' = [serving EXCEPT ![w] = None]
        /\ UNCHANGED <<maxWorkersCount, workersCount, ch>>
    BY <1>5 DEF Release, WorkersHaveWork
  <2>2. /\ worker'[w] = IF mustStop THEN "exit" ELSE "wait"
        /\ \A v \in Workers : v # w => worker'[v] = worker[v] /\ serving'[v] = serving[v]
    BY <2>1 DEF PoolTypeOK
  <2>3. w \notin ToSet(ready) BY <2>1 DEF WorkersAreCounted
  <2>4. /\ ready' \in Seq(Workers) /\ IsInjective(ready')
        /\ ToSet(ready') = IF mustStop THEN ToSet(ready) ELSE ToSet(ready) \cup {w}
    <3>1. ready \in Seq(Workers) /\ IsInjective(ready) BY DEF PoolTypeOK, WorkersAreCounted
    <3>2. CASE mustStop BY <2>1, <3>1, <3>2
    <3>3. CASE ~mustStop
      <4>1. ready' = Append(ready, w) BY <2>1, <3>3
      <4>2. /\ Append(ready, w) \in Seq(Workers) /\ IsInjective(Append(ready, w))
            /\ ToSet(Append(ready, w)) = ToSet(ready) \cup {w}
        BY <2>3, <3>1, PushIsInjective
      <4> QED BY <3>3, <4>1, <4>2
    <3> QED BY <3>2, <3>3
  <2>5. PoolTypeOK' BY <2>1, <2>4 DEF PoolTypeOK, Places
  <2>6. Running' = Running BY <2>1, <2>2 DEF Running
  <2>7. \A v \in Workers : Len(ch'[v]) <= 1 /\ (v \in ToSet(ready') => worker'[v] = "wait" /\ ch'[v] = <<>>)
    BY <2>1, <2>2, <2>3, <2>4 DEF WorkersAreCounted
  <2>8. WorkersAreCounted' BY <1>S, <2>1, <2>4, <2>6, <2>7 DEF WorkersAreCounted, Running
  <2>9. WorkersHaveWork' BY <2>1, <2>2 DEF WorkersHaveWork
  <2> QED BY <2>5, <2>8, <2>9
<1>6. ASSUME NEW w \in Workers, Exit(w) PROVE PoolInv'
  <2>1. /\ worker[w] = "exit" /\ ch[w] = <<>>
        /\ workersCount' = workersCount - 1
        /\ worker' = [worker EXCEPT ![w] = "free"]
        /\ UNCHANGED <<maxWorkersCount, ready, ch, serving>>
    BY <1>6 DEF Exit, WorkersHaveWork
  <2>2. worker'[w] = "free" /\ \A v \in Workers : v # w => worker'[v] = worker[v]
    BY <2>1 DEF PoolTypeOK
  <2>3. PoolTypeOK' BY <2>1 DEF PoolTypeOK, Places
  <2>4. Running' = Running \ {w} /\ w \in Running BY <2>1, <2>2 DEF Running
  <2>5. Cardinality(Running') = Cardinality(Running) - 1 BY <2>4, RunningIsFinite, FS_RemoveElement
  <2>6. workersCount' = Cardinality(Running') /\ workersCount' <= maxWorkersCount'
    BY <2>1, <2>5, <1>C DEF WorkersAreCounted, Running, PoolTypeOK
  <2>7. w \notin ToSet(ready) BY <2>1 DEF WorkersAreCounted
  <2>8. WorkersAreCounted' BY <2>1, <2>2, <2>6, <2>7 DEF WorkersAreCounted, Running
  <2>9. WorkersHaveWork' BY <2>1, <2>2 DEF WorkersHaveWork
  <2> QED BY <2>3, <2>8, <2>9
<1>N. ASSUME NEW ws \in SUBSET ToSet(ready), ch' = SendNil(ws),
             ready' \in Seq(Workers), IsInjective(ready'), ToSet(ready') \subseteq ToSet(ready) \ ws,
             UNCHANGED <<maxWorkersCount, workersCount, worker, serving>>
      PROVE PoolInv'
  <2>1. /\ ch' \in [Workers -> Seq(Conns \cup {None})]
        /\ \A w \in Workers : w \notin ws => ch'[w] = ch[w]
        /\ \A w \in ws : worker[w] = "wait"
        /\ \A w \in Workers : Len(ch'[w]) <= 1
    BY <1>N, Nils
  <2>2. PoolTypeOK' BY <1>N, <2>1 DEF PoolTypeOK
  <2>3. Running' = Running BY <1>N DEF Running
  <2>4. \A w \in Workers : w \in ToSet(ready') => worker'[w] = "wait" /\ ch'[w] = <<>>
    BY <1>N, <2>1 DEF WorkersAreCounted
  <2>5. WorkersAreCounted' BY <1>N, <1>S, <2>1, <2>3, <2>4 DEF WorkersAreCounted, Running
  <2>6. WorkersHaveWork' BY <1>N, <2>1 DEF WorkersHaveWork
  <2> QED BY <2>2, <2>5, <2>6
<1>7. ASSUME NEW i \in 1 .. Len(ready), Clean(i) PROVE PoolInv'
  <2>0. ready \in Seq(Workers) /\ IsInjective(ready) /\ Len(ready) \in Nat
    BY DEF PoolTypeOK, WorkersAreCounted
  <2>1. ToSet(SubSeq(ready, 1, i)) = {ready[j] : j \in 1 .. i}
    <3>1. 1 \in 1 .. Len(ready) + 1 /\ i \in 0 .. Len(ready) BY <2>0
    <3> QED BY <2>0, <3>1, PartIsInjective
  <2>2. /\ SubSeq(ready, i + 1, Len(ready)) \in Seq(Workers)
        /\ IsInjective(SubSeq(ready, i + 1, Len(ready)))
        /\ ToSet(SubSeq(ready, i + 1, Len(ready))) = {ready[j] : j \in i + 1 .. Len(ready)}
    <3>1. i + 1 \in 1 .. Len(ready) + 1 /\ Len(ready) \in 0 .. Len(ready) BY <2>0
    <3> QED BY <2>0, <3>1, PartIsInjective
  <2>3. {ready[j] : j \in 1 .. i} \subseteq ToSet(ready) BY <2>0 DEF ToSet
  <2>4. {ready[j] : j \in i + 1 .. Len(ready)} \subseteq ToSet(ready) \ {ready[j] : j \in 1 .. i}
    BY <2>0 DEF ToSet, IsInjective
  <2> QED BY <1>7, <1>N, <2>1, <2>2, <2>3, <2>4 DEF Clean
<1>8. CASE Stop
  <2>1. ready' \in Seq(Workers) /\ IsInjective(ready') /\ ToSet(ready') = {}
    BY <1>8 DEF Stop, IsInjective, ToSet
  <2> QED BY <1>8, <1>N, <2>1 DEF Stop
<1> QED BY <1>1, <1>2, <1>3, <1>4, <1>5, <1>6, <1>7, <1>8 DEF PoolNext

LEMMA PoolKeeps == PoolInv /\ [Next]_vars => PoolInv'
<1> SUFFICES ASSUME PoolInv, [Next]_vars PROVE PoolInv' OBVIOUS
<1>1. ASSUME UNCHANGED poolVars PROVE PoolInv'
  BY <1>1 DEF poolVars, PoolInv, PoolTypeOK, WorkersAreCounted, WorkersHaveWork
<1>2. ASSUME UNCHANGED vars PROVE UNCHANGED poolVars BY <1>2 DEF vars
<1> QED BY <1>1, <1>2, PoolSteps, PoolStepKeeps

LEMMA PoolInvariance == Spec => []PoolInv
<1> QED BY PoolInitial, PoolKeeps, PTL DEF Spec

(* Workers are counted, as many as there may be at most, and no send to    *)
(* one waits (workerpool.go).                                              *)
THEOREM WorkersCounted == Spec => []WorkersAreCounted
<1>1. PoolInv => WorkersAreCounted BY DEF PoolInv
<1> QED BY <1>1, PoolInvariance, PTL
-----------------------------------------------------------------------------
(* Connections, and the counts and the table that Shutdown goes by         *)

Locations ==
  {"none", "new", "queued", "next", "peeked", "read", "handle", "aside", "respond", "answered",
   "idle", "return", "returned", "closed", "gone"}
Early == {"none", "new"}
Late == {"returned", "closed", "gone"}
Busy == Locations \ (Early \cup Late \cup {"queued"})
Active == {"read", "handle", "aside", "respond", "answered"}

ServerTypeOK ==
  /\ open \in Int /\ concurrency \in Int
  /\ listener \in {"init", "listed", "accept", "accepted", "dispatch", "down"}
  /\ shutdown \in {"no", "early", "wait", "done"}
  /\ conn \in [Conns -> {"absent", "open", "closed"}]
  /\ at \in [Conns -> Locations]
  /\ hijack \in [Conns -> {"none", "wanted", "running", "ended"}]
  /\ table \in [Conns \cup Wrappers -> {"none", "new", "idle"}]
  /\ wrapper \in [Conns -> Wrappers \cup {None}]
  /\ inside \in [Wrappers -> Conns \cup {None}]

(* A connection that has been accepted and not been closed by who owns it. *)
Owned(c) ==
  /\ at[c] # "none" /\ hijack[c] # "ended"
  /\ at[c] \in {"closed", "gone"} => hijack[c] = "running"

(* What waits in the channel of a worker. *)
Sent(w) == IF ch[w] = <<>> THEN None ELSE Head(ch[w])

QueuedOnce ==
  \A w \in Workers : Sent(w) # None =>
    at[Sent(w)] = "queued" /\ \A v \in Workers : v # w => Sent(v) # Sent(w)

Fresh ==
  \A c \in Conns : conn[c] = "absent" => at[c] = "none" /\ hijack[c] = "none" /\ wrapper[c] = None

HijackIsLast ==
  \A c \in Conns :
    /\ hijack[c] = "running" => at[c] \in Late \cup {"return"}
    /\ hijack[c] = "ended" => at[c] \in Late

(* While connections are accepted a wrapper has one owner, and keeps it.   *)
OneOwner ==
  /\ \A c, d \in Conns : c # d /\ Owned(c) /\ Owned(d) /\ wrapper[c] # None =>
       wrapper[c] # wrapper[d]
  /\ Listening => \A c \in Conns : Owned(c) =>
       conn[c] = "open" /\ (wrapper[c] # None => inside[wrapper[c]] = c)

ActiveIsUntracked == \A c \in Conns : at[c] \in Active => table[Key(c)] = "none"

Started == shutdown \in {"wait", "done"} => listener # "init"

ServerInv ==
  /\ ServerTypeOK /\ QueuedOnce /\ Fresh /\ HijackIsLast /\ OneOwner /\ ActiveIsUntracked
  /\ OpenIsCounted /\ DoneIsQuiet /\ Started
LEMMA SentType == PoolTypeOK => \A w \in Workers : Sent(w) \in Conns \cup {None}
BY DEF PoolTypeOK, Sent

(* Parts that a step keeps when it gives no connection an owner or a place *)
(* in a channel.                                                           *)
LEMMA QueueKeeps ==
  ASSUME PoolTypeOK, QueuedOnce,
         \A w \in Workers : Sent(w)' \in {Sent(w), None},
         \A c \in Conns : at[c] = "queued" => at'[c] = "queued"
  PROVE  QueuedOnce'
<1> SUFFICES ASSUME NEW w \in Workers, Sent(w)' # None
             PROVE  (at[Sent(w)] = "queued")' /\ \A v \in Workers : v # w => Sent(v)' # Sent(w)'
  BY DEF QueuedOnce
<1>1. Sent(w)' = Sent(w) /\ at[Sent(w)] = "queued" BY DEF QueuedOnce
<1>2. Sent(w) \in Conns BY <1>1, SentType
<1> QED BY <1>1, <1>2 DEF QueuedOnce

LEMMA Keeps ==
  ASSUME ServerInv, UNCHANGED wrapper,
         \A c \in Conns : conn'[c] = "absent" =>
           conn[c] = "absent" /\ at'[c] = at[c] /\ hijack'[c] = hijack[c],
         \A c \in Conns : Owned(c)' => Owned(c),
         Listening' => Listening /\ \A c \in Conns : Owned(c)' =>
           conn'[c] = conn[c] /\ (wrapper[c] # None => inside'[wrapper[c]] = inside[wrapper[c]]),
         \A c \in Conns : at'[c] \in Active =>
           \/ table'[Key(c)] = "none"
           \/ at[c] \in Active /\ table'[Key(c)] = table[Key(c)]
  PROVE  Fresh' /\ OneOwner' /\ ActiveIsUntracked'
<1> USE DEF ServerInv, ServerTypeOK
<1>1. Fresh' BY DEF Fresh
<1>2. OneOwner'
  <2>1. \A c, d \in Conns : c # d /\ Owned(c)' /\ Owned(d)' /\ wrapper'[c] # None =>
          wrapper'[c] # wrapper'[d]
    BY DEF OneOwner
  <2>2. Listening' => \A c \in Conns : Owned(c)' =>
          conn'[c] = "open" /\ (wrapper'[c] # None => inside'[wrapper'[c]] = c)
    BY DEF OneOwner
  <2> QED BY <2>1, <2>2 DEF OneOwner
<1>3. ActiveIsUntracked' BY DEF ActiveIsUntracked, Key
<1> QED BY <1>1, <1>2, <1>3

(* Where a connection is and what the counts count. *)
Handling == {c \in Serving : at[c] # "queued"}

LEMMA CountsAreFinite == IsFiniteSet(Serving) /\ IsFiniteSet(Handling)
BY ConstantsAssumption, FS_Subset DEF Serving, Handling

LEMMA SameCounts ==
  ASSUME ServerInv, Serving' = Serving, Handling' = Handling,
         UNCHANGED <<open, concurrency, listener, shutdown>>
  PROVE  OpenIsCounted' /\ DoneIsQuiet' /\ Started'
BY DEF ServerInv, OpenIsCounted, DoneIsQuiet, Started, Handling

LEMMA InServing ==
  ASSUME ServerTypeOK, NEW c \in Conns
  PROVE  /\ c \in Serving <=> at[c] \in Busy \cup {"queued"}
         /\ c \in Handling <=> at[c] \in Busy
BY DEF ServerTypeOK, Locations, Busy, Early, Late, Serving, Handling

LEMMA OwnedInServing ==
  ASSUME ServerInv, NEW c \in Conns, at[c] \in Busy \cup {"new", "queued"}
  PROVE  Owned(c) /\ hijack[c] # "ended"
BY DEF ServerInv, HijackIsLast, Owned, Busy, Early, Late, Locations

LEMMA KeysDiffer ==
  ASSUME ServerInv, NEW c \in Conns, NEW d \in Conns, c # d, Owned(c), Owned(d)
  PROVE  Key(c) # Key(d)
<1>1. CASE wrapper[c] = None \/ wrapper[d] = None
  BY <1>1, ConstantsAssumption DEF Key, ServerInv, ServerTypeOK
<1>2. CASE wrapper[c] # None /\ wrapper[d] # None
  BY <1>2 DEF Key, ServerInv, OneOwner
<1> QED BY <1>1, <1>2

LEMMA KeyType == ASSUME ServerTypeOK, NEW c \in Conns PROVE Key(c) \in Conns \cup Wrappers
BY DEF ServerTypeOK, Key

LEMMA CloseTypes ==
  ASSUME ServerTypeOK, NEW k \in Conns \cup Wrappers, Close(k)
  PROVE  /\ conn' \in [Conns -> {"absent", "open", "closed"}]
         /\ inside' \in [Wrappers -> Conns \cup {None}]
         /\ \A c \in Conns : conn'[c] = "absent" => conn[c] = "absent"
BY DEF ServerTypeOK, Close

(* Who closes its connection closes no other that has an owner.            *)
LEMMA Closes ==
  ASSUME ServerInv, NEW c \in Conns, Owned(c), Close(Key(c)), Listening,
         NEW d \in Conns, d # c, Owned(d)
  PROVE  conn'[d] = conn[d] /\ (wrapper[d] # None => inside'[wrapper[d]] = inside[wrapper[d]])
<1> USE DEF ServerInv, ServerTypeOK
<1>1. CASE wrapper[c] = None
  <2>1. Key(c) = c /\ c \notin Wrappers BY <1>1, ConstantsAssumption DEF Key
  <2> QED BY <2>1 DEF Close, Closed
<1>2. CASE wrapper[c] # None
  <2>1. Key(c) = wrapper[c] /\ wrapper[c] \in Wrappers /\ inside[wrapper[c]] = c
    BY <1>2 DEF Key, OneOwner
  <2>2. wrapper[d] # wrapper[c] BY <1>2 DEF OneOwner
  <2> QED BY <2>1, <2>2 DEF Close, Closed
<1> QED BY <1>1, <1>2
-----------------------------------------------------------------------------
(* The steps, by what they do to these                                     *)

(* A request goes on. *)
Moves(c) ==
  /\ at[c] \in Busy \ {"return"} /\ at'[c] \in Busy
  /\ at' = [at EXCEPT ![c] = at'[c]]
  /\ hijack' = [hijack EXCEPT ![c] = hijack'[c]]
  /\ \/ hijack'[c] = hijack[c] \/ hijack'[c] \in {"none", "wanted"}
     \/ hijack'[c] = "running" /\ at'[c] = "return"
  /\ \/ table' = table /\ (at'[c] \in Active => at[c] \in Active)
     \/ SetState(c, "none")
     \/ SetState(c, "idle") /\ at'[c] \notin Active
  /\ UNCHANGED <<ch, open, concurrency, listener, shutdown, conn, inside, wrapper>>

(* A step of something else. *)
Elsewhere ==
  /\ \A w \in Workers : Sent(w)' \in {Sent(w), None}
  /\ UNCHANGED <<at, hijack, table, conn, inside, wrapper>>

LEMMA MovesSteps ==
  ASSUME ServerTypeOK, NEW c \in Conns,
         \/ SetActive(c) \/ ReadRequest(c) \/ ReadFails(c)
         \/ Handle(c) \/ HandleAside(c) \/ InTime(c) \/ TimesOut(c)
         \/ LastResponse(c) \/ Respond(c) \/ StartHijack(c) \/ SetIdle(c) \/ NextRequest(c)
         \/ FirstByte(c) \/ NothingRead(c)
  PROVE  Moves(c)
<1> USE DEF Moves, Busy, Early, Late, Locations, Active, ServerTypeOK, poolVars, serverVars, stopVars,
       connVars, serveVars, Goto
<1>1. CASE SetActive(c)
  <2>1. /\ at[c] = "peeked" /\ at' = [at EXCEPT ![c] = "read"] /\ hijack' = hijack
        /\ SetState(c, "none")
        /\ UNCHANGED <<ch, open, concurrency, listener, shutdown, conn, inside, wrapper>>
    BY <1>1 DEF SetActive
  <2>2. at'[c] = "read" BY <2>1
  <2> QED BY <2>1, <2>2
<1>2. CASE ReadRequest(c) BY <1>2 DEF ReadRequest
<1>3. CASE ReadFails(c) BY <1>3 DEF ReadFails
<1>4. CASE Handle(c)
  <2>1. PICK h \in {"none", "wanted"} : hijack' = [hijack EXCEPT ![c] = h] BY <1>4 DEF Handle
  <2>2. hijack'[c] = h BY <2>1
  <2> QED BY <1>4, <2>1, <2>2 DEF Handle
<1>5. CASE HandleAside(c) BY <1>5 DEF HandleAside
<1>6. CASE InTime(c) BY <1>6 DEF InTime
<1>7. CASE TimesOut(c) BY <1>7 DEF TimesOut
<1>8. CASE LastResponse(c) BY <1>8 DEF LastResponse
<1>9. CASE Respond(c) BY <1>9 DEF Respond
<1>10. CASE StartHijack(c) BY <1>10 DEF StartHijack
<1>11. CASE SetIdle(c) BY <1>11 DEF SetIdle
<1>12. CASE NextRequest(c) BY <1>12 DEF NextRequest
<1>13. CASE FirstByte(c) BY <1>13 DEF FirstByte
<1>14. CASE NothingRead(c) BY <1>14 DEF NothingRead
<1> QED BY <1>1, <1>2, <1>3, <1>4, <1>5, <1>6, <1>7, <1>8, <1>9, <1>10, <1>11, <1>12, <1>13, <1>14

LEMMA SentNils ==
  ASSUME PoolTypeOK, NEW ws, ch' = SendNil(ws)
  PROVE  \A w \in Workers : Sent(w)' \in {Sent(w), None}
<1> SUFFICES ASSUME NEW w \in Workers PROVE Sent(w)' \in {Sent(w), None} OBVIOUS
<1>1. ch[w] \in Seq(Conns \cup {None}) BY DEF PoolTypeOK
<1>2. ch'[w] = ch[w] \/ ch'[w] = Append(ch[w], None) BY DEF SendNil
<1>3. CASE ch'[w] = ch[w] BY <1>3 DEF Sent
<1>4. CASE ch'[w] = Append(ch[w], None) BY <1>1, <1>4 DEF Sent
<1> QED BY <1>2, <1>3, <1>4

LEMMA ElsewhereSteps ==
  ASSUME PoolTypeOK,
         \/ Listen \/ CountListener \/ AcceptFails \/ PoolStep \/ \E x \in Contexts : HandlerReturns(x)
         \/ ShutdownEarly \/ Shutdown \/ ShutdownReturns
  PROVE  Elsewhere
<1> USE DEF Elsewhere, poolVars, serverVars, stopVars, connVars, serveVars, ctxVars
<1>0. ch' = ch => \A w \in Workers : Sent(w)' \in {Sent(w), None} BY DEF Sent
<1>1. CASE Listen BY <1>0, <1>1 DEF Listen
<1>2. CASE CountListener BY <1>0, <1>2 DEF CountListener
<1>3. CASE AcceptFails BY <1>3, SentNils DEF AcceptFails, Stop
<1>4. CASE PoolStep
  <2>1. ASSUME NEW w \in Workers, Release(w) \/ Exit(w) PROVE ch' = ch BY <2>1 DEF Release, Exit
  <2>2. ASSUME NEW i \in 1 .. Len(ready), Clean(i)
        PROVE \A w \in Workers : Sent(w)' \in {Sent(w), None}
    BY <2>2, SentNils DEF Clean
  <2> QED BY <1>0, <1>4, <2>1, <2>2 DEF PoolStep
<1>5. CASE \E x \in Contexts : HandlerReturns(x) BY <1>0, <1>5 DEF HandlerReturns
<1>6. CASE ShutdownEarly BY <1>0, <1>6 DEF ShutdownEarly
<1>7. CASE Shutdown BY <1>0, <1>7 DEF Shutdown
<1>8. CASE ShutdownReturns BY <1>0, <1>8 DEF ShutdownReturns
<1> QED BY <1>1, <1>2, <1>3, <1>4, <1>5, <1>6, <1>7, <1>8

-----------------------------------------------------------------------------
(* Each keeps the invariant                                                *)

LEMMA MovesKeeps == ASSUME PoolInv, ServerInv, NEW c \in Conns, Moves(c) PROVE ServerInv'
<1> USE DEF PoolInv
<1>T. ServerTypeOK /\ HijackIsLast BY DEF ServerInv
<1>1. /\ at[c] \in Busy \ {"return"} /\ at'[c] \in Busy /\ at'[c] \in Locations
      /\ \A d \in Conns : d # c => at'[d] = at[d] /\ hijack'[d] = hijack[d]
      /\ UNCHANGED <<ch, open, concurrency, listener, shutdown, conn, inside, wrapper>>
  BY <1>T DEF Moves, ServerTypeOK, Busy
<1>2. hijack[c] \in {"none", "wanted"} /\ Owned(c)
  BY <1>1, <1>T, OwnedInServing DEF HijackIsLast, ServerTypeOK, Busy, Late
<1>3. hijack'[c] \in {"none", "wanted"} \/ (hijack'[c] = "running" /\ at'[c] = "return")
  BY <1>2 DEF Moves
<1>4. \A d \in Conns : Key(d) \in Conns \cup Wrappers /\ Key(d)' = Key(d)
  BY <1>T, <1>1, KeyType DEF Key
<1>5. ServerTypeOK'
  <2>1. at' \in [Conns -> Locations] BY <1>1, <1>T DEF Moves, ServerTypeOK
  <2>2. hijack' \in [Conns -> {"none", "wanted", "running", "ended"}]
    BY <1>3, <1>T DEF Moves, ServerTypeOK
  <2>3. table' \in [Conns \cup Wrappers -> {"none", "new", "idle"}]
    BY <1>T DEF Moves, ServerTypeOK, SetState
  <2> QED BY <1>1, <1>T, <2>1, <2>2, <2>3 DEF ServerTypeOK
<1>6. HijackIsLast' BY <1>1, <1>3, <1>T DEF HijackIsLast
<1>7. \A d \in Conns : Owned(d)' => Owned(d) BY <1>1, <1>2 DEF Owned
<1>8. ASSUME NEW d \in Conns, at'[d] \in Active
      PROVE  table'[Key(d)] = "none" \/ (at[d] \in Active /\ table'[Key(d)] = table[Key(d)])
  <2>1. CASE d = c BY <2>1, <1>4, <1>8, <1>T DEF Moves, SetState, ServerTypeOK
  <2>2. CASE d # c
    <3>1. at[d] \in Active BY <1>1, <1>8, <2>2
    <3>2. Owned(d) BY <3>1, OwnedInServing DEF Active, Busy, Locations, Early, Late
    <3>3. Key(d) # Key(c) BY <1>2, <2>2, <3>2, KeysDiffer
    <3>4. table'[Key(d)] = table[Key(d)] BY <1>4, <1>T, <3>3 DEF Moves, SetState, ServerTypeOK
    <3> QED BY <3>1, <3>4
  <2> QED BY <2>1, <2>2
<1>9. \A w \in Workers : Sent(w)' \in {Sent(w), None} BY <1>1 DEF Sent
<1>10. \A d \in Conns : at[d] = "queued" => at'[d] = "queued" BY <1>1 DEF Busy
<1>11. \A d \in Conns : conn'[d] = "absent" =>
         conn[d] = "absent" /\ at'[d] = at[d] /\ hijack'[d] = hijack[d]
  BY <1>1 DEF ServerInv, Fresh, Busy, Early
<1>12. QueuedOnce' BY <1>9, <1>10, QueueKeeps DEF ServerInv
<1>15. Fresh' /\ OneOwner' /\ ActiveIsUntracked' BY <1>1, <1>7, <1>8, <1>11, Keeps DEF Listening
<1>13. Serving' = Serving /\ Handling' = Handling
  BY <1>1 DEF Serving, Handling, Busy, Early, Late, Locations
<1>14. OpenIsCounted' /\ DoneIsQuiet' /\ Started' BY <1>1, <1>13, SameCounts
<1> QED BY <1>5, <1>6, <1>12, <1>14, <1>15 DEF ServerInv

LEMMA ElsewhereKeeps ==
  ASSUME PoolInv, ServerInv, Elsewhere, Listening' => Listening
  PROVE  QueuedOnce' /\ Fresh' /\ OneOwner' /\ ActiveIsUntracked'
<1> USE DEF PoolInv
<1>1. /\ \A w \in Workers : Sent(w)' \in {Sent(w), None}
      /\ UNCHANGED <<at, hijack, table, conn, inside, wrapper>>
  BY DEF Elsewhere
<1>2. \A c \in Conns : Owned(c)' = Owned(c) BY <1>1 DEF Owned
<1>3. \A c \in Conns : at'[c] \in Active =>
        at[c] \in Active /\ table'[Key(c)] = table[Key(c)]
  BY <1>1
<1>4. QueuedOnce' BY <1>1, QueueKeeps DEF ServerInv
<1>5. Fresh' /\ OneOwner' /\ ActiveIsUntracked' BY <1>1, <1>2, <1>3, Keeps
<1> QED BY <1>4, <1>5

LEMMA OpenKeeps ==
  ASSUME PoolInv, ServerInv,
         \/ Listen \/ CountListener \/ AcceptFails \/ PoolStep \/ \E x \in Contexts : HandlerReturns(x)
         \/ ShutdownEarly \/ Shutdown \/ ShutdownReturns
  PROVE  ServerInv'
<1> USE DEF poolVars, serverVars, stopVars, connVars, serveVars, ctxVars
<1>T. PoolTypeOK /\ ServerTypeOK /\ HijackIsLast /\ OpenIsCounted /\ DoneIsQuiet /\ Started
  BY DEF PoolInv, ServerInv
<1>1. Elsewhere BY <1>T, ElsewhereSteps
<1>2. Serving' = Serving /\ Handling' = Handling BY <1>1 DEF Elsewhere, Serving, Handling
<1>3. HijackIsLast' BY <1>1, <1>T DEF Elsewhere, HijackIsLast
<1>C. Cardinality(Serving) \in Nat /\ Cardinality(Handling) \in Nat
  BY CountsAreFinite, FS_CardinalityType
<1>O. open \in Int /\ open = Cardinality(Serving)
              + (IF listener = "dispatch" THEN 1 ELSE 0)
              + (IF listener \in {"init", "listed", "down"} THEN 0 ELSE 1)
  BY <1>T DEF OpenIsCounted, ServerTypeOK
<1>4. ASSUME ServerTypeOK', OpenIsCounted', DoneIsQuiet', Started', Listening' => Listening
      PROVE  ServerInv'
  BY <1>1, <1>3, <1>4, ElsewhereKeeps DEF ServerInv
<1>5. ASSUME UNCHANGED <<listener, open, concurrency, shutdown>> PROVE ServerInv'
  <2>1. ServerTypeOK' BY <1>1, <1>5, <1>T DEF Elsewhere, ServerTypeOK
  <2>2. OpenIsCounted' /\ DoneIsQuiet' /\ Started' BY <1>2, <1>5, SameCounts
  <2>3. Listening' => Listening BY <1>5 DEF Listening
  <2> QED BY <1>4, <2>1, <2>2, <2>3
<1>6. ASSUME UNCHANGED <<concurrency, shutdown>>, open' \in Int,
             listener' \in {"listed", "accept", "down"},
             listener \in {"init", "listed", "accept"},
             open' = Cardinality(Serving) + (IF listener' = "accept" THEN 1 ELSE 0)
      PROVE  ServerInv'
  <2>1. ServerTypeOK' BY <1>1, <1>6, <1>T DEF Elsewhere, ServerTypeOK
  <2>2. OpenIsCounted'
    <3>1. concurrency' = Cardinality(Handling') BY <1>2, <1>6, <1>T DEF OpenIsCounted, Handling
    <3>2. open' = Cardinality(Serving')
                  + (IF listener' = "dispatch" THEN 1 ELSE 0)
                  + (IF listener' \in {"init", "listed", "down"} THEN 0 ELSE 1)
      BY <1>2, <1>6, <1>C
    <3> QED BY <3>1, <3>2 DEF OpenIsCounted, Handling
  <2>3. DoneIsQuiet' BY <1>2, <1>6, <1>T DEF DoneIsQuiet
  <2>4. Started' BY <1>6 DEF Started
  <2>5. Listening' => Listening BY <1>6 DEF Listening
  <2> QED BY <1>4, <2>1, <2>2, <2>3, <2>4, <2>5
<1>7. ASSUME UNCHANGED <<listener, open, concurrency>>, shutdown' \in {"early", "wait", "done"},
             shutdown' # "early" => listener # "init" /\ ~Listening',
             shutdown' = "early" => shutdown = "no",
             shutdown' = "done" => open = 0
      PROVE  ServerInv'
  <2>1. ServerTypeOK' BY <1>1, <1>7, <1>T DEF Elsewhere, ServerTypeOK
  <2>2. OpenIsCounted' BY <1>2, <1>7, <1>T DEF OpenIsCounted, Handling
  <2>3. DoneIsQuiet'
    <3> SUFFICES ASSUME shutdown' = "done" PROVE Serving' = {} /\ listener' \in {"listed", "accept", "down"}
      BY DEF DoneIsQuiet
    <3>1. Cardinality(Serving) = 0 /\ listener \in {"init", "listed", "down"} BY <1>7, <1>C, <1>O
    <3>2. Serving = {} BY <3>1, CountsAreFinite, FS_EmptySet
    <3> QED BY <1>2, <1>7, <3>1, <3>2
  <2>4. Started' BY <1>7 DEF Started
  <2>5. Listening' => Listening BY <1>7 DEF Listening
  <2> QED BY <1>4, <2>1, <2>2, <2>3, <2>4, <2>5
<1>8. CASE Listen
  <2>1. listener = "init" /\ listener' = "listed" /\ UNCHANGED <<open, concurrency, shutdown>>
    BY <1>8 DEF Listen
  <2> QED BY <1>6, <1>C, <1>O, <2>1
<1>9. CASE CountListener
  <2>1. listener = "listed" /\ listener' = "accept" /\ open' = open + 1 /\ UNCHANGED <<concurrency, shutdown>>
    BY <1>9 DEF CountListener
  <2> QED BY <1>6, <1>C, <1>O, <2>1
<1>10. CASE AcceptFails
  <2>1. listener = "accept" /\ listener' = "down" /\ open' = open - 1 /\ UNCHANGED <<concurrency, shutdown>>
    BY <1>10 DEF AcceptFails
  <2> QED BY <1>6, <1>C, <1>O, <2>1
<1>11. CASE PoolStep BY <1>5, <1>11 DEF PoolStep
<1>12. CASE \E x \in Contexts : HandlerReturns(x) BY <1>5, <1>12 DEF HandlerReturns
<1>13. CASE ShutdownEarly BY <1>7, <1>13 DEF ShutdownEarly
<1>14. CASE Shutdown BY <1>7, <1>14 DEF Shutdown, Listening
<1>15. CASE ShutdownReturns BY <1>7, <1>15, <1>T DEF ShutdownReturns, Listening, Started
<1> QED BY <1>8, <1>9, <1>10, <1>11, <1>12, <1>13, <1>14, <1>15

LEMMA CountKeeps == ASSUME PoolInv, ServerInv, NEW c \in Conns, Count(c) PROVE ServerInv'
<1> USE DEF PoolInv, poolVars, stopVars, connVars, serveVars
<1>T. PoolTypeOK /\ ServerTypeOK /\ HijackIsLast BY DEF ServerInv
<1>1. /\ listener = "accepted" /\ listener' = "dispatch" /\ at[c] = "new" /\ open' = open + 1
      /\ table' = [table EXCEPT ![Key(c)] = "new"]
      /\ UNCHANGED <<ch, concurrency, shutdown, conn, inside, at, hijack, wrapper>>
  BY DEF Count, SetState
<1>2. Owned(c) BY <1>1, OwnedInServing
<1>3. \A d \in Conns : Key(d) \in Conns \cup Wrappers BY <1>T, KeyType
<1>4. ServerTypeOK'
  <2>1. table' \in [Conns \cup Wrappers -> {"none", "new", "idle"}]
    BY <1>1, <1>3, <1>T DEF ServerTypeOK
  <2> QED BY <1>1, <1>T, <2>1 DEF ServerTypeOK
<1>5. HijackIsLast' BY <1>1, <1>T DEF HijackIsLast
<1>6. \A w \in Workers : Sent(w)' \in {Sent(w), None} BY <1>1 DEF Sent
<1>7. QueuedOnce' BY <1>1, <1>6, QueueKeeps DEF ServerInv
<1>8. ASSUME NEW d \in Conns, at'[d] \in Active
      PROVE  at[d] \in Active /\ table'[Key(d)] = table[Key(d)]
  <2>1. at[d] \in Active /\ d # c BY <1>1, <1>8 DEF Active
  <2>2. Owned(d) BY <2>1, OwnedInServing DEF Active, Busy, Locations, Early, Late
  <2>3. Key(d) # Key(c) BY <1>2, <2>1, <2>2, KeysDiffer
  <2> QED BY <1>1, <1>3, <1>T, <2>1, <2>3 DEF ServerTypeOK
<1>9. \A d \in Conns : Owned(d)' = Owned(d) BY <1>1 DEF Owned
<1>10. Fresh' /\ OneOwner' /\ ActiveIsUntracked' BY <1>1, <1>8, <1>9, Keeps DEF Listening
<1>11. Serving' = Serving /\ Handling' = Handling BY <1>1 DEF Serving, Handling
<1>12. OpenIsCounted'
  <2>1. Cardinality(Serving) \in Nat BY CountsAreFinite, FS_CardinalityType
  <2>2. open = Cardinality(Serving) + 1 /\ concurrency = Cardinality(Handling)
    BY <1>1, <2>1 DEF ServerInv, OpenIsCounted, Handling
  <2> QED BY <1>1, <1>11, <2>1, <2>2 DEF OpenIsCounted, Handling
<1>13. DoneIsQuiet' /\ Started' BY <1>1 DEF ServerInv, DoneIsQuiet, Started
<1> QED BY <1>4, <1>5, <1>7, <1>10, <1>12, <1>13 DEF ServerInv

LEMMA AcceptKeeps == ASSUME PoolInv, ServerInv, NEW c \in Conns, Accept(c) PROVE ServerInv'
<1> USE DEF PoolInv, poolVars, stopVars, ctxVars
<1>T. PoolTypeOK /\ ServerTypeOK /\ HijackIsLast BY DEF ServerInv
<1>1. /\ listener = "accept" /\ Listening /\ conn[c] = "absent"
      /\ UNCHANGED <<ch, open, concurrency, shutdown, hijack, table>>
  BY DEF Accept
<1>2. at[c] = "none" /\ hijack[c] = "none" /\ wrapper[c] = None BY <1>1 DEF ServerInv, Fresh
<1>3. ~Owned(c) BY <1>2 DEF Owned
<1>4. \A w \in Workers : Sent(w)' \in {Sent(w), None} BY <1>1 DEF Sent
<1>5. ASSUME listener' \in {"accept", "accepted"}, Serving' = Serving, Handling' = Handling
      PROVE  OpenIsCounted' /\ DoneIsQuiet' /\ Started'
  BY <1>1, <1>5 DEF ServerInv, OpenIsCounted, DoneIsQuiet, Started, Handling, Listening
<1>6. ASSUME UNCHANGED <<inside, wrapper, listener, at>>, conn' = [conn EXCEPT ![c] = "closed"]
      PROVE  ServerInv'
  <2>1. ServerTypeOK' BY <1>1, <1>6, <1>T DEF ServerTypeOK
  <2>2. HijackIsLast' BY <1>1, <1>6, <1>T DEF HijackIsLast
  <2>3. QueuedOnce' BY <1>4, <1>6, <1>T, QueueKeeps DEF ServerInv
  <2>4. \A d \in Conns : Owned(d)' = Owned(d) BY <1>1, <1>6 DEF Owned
  <2>5. \A d \in Conns : d # c => conn'[d] = conn[d] BY <1>6, <1>T DEF ServerTypeOK
  <2>6. conn'[c] = "closed" BY <1>6, <1>T DEF ServerTypeOK
  <2>7. Fresh' /\ OneOwner' /\ ActiveIsUntracked'
    BY <1>1, <1>3, <1>6, <2>4, <2>5, <2>6, Keeps DEF Listening
  <2>8. Serving' = Serving /\ Handling' = Handling BY <1>6 DEF Serving, Handling
  <2> QED BY <1>1, <1>5, <1>6, <2>1, <2>2, <2>3, <2>7, <2>8 DEF ServerInv
<1>7. ASSUME conn' = [conn EXCEPT ![c] = "open"], at' = [at EXCEPT ![c] = "new"], listener' = "accepted",
             \A d \in Conns : d # c => wrapper'[d] = wrapper[d],
             wrapper' \in [Conns -> Wrappers \cup {None}],
             inside' \in [Wrappers -> Conns \cup {None}],
             wrapper'[c] # None => inside[wrapper'[c]] = None /\ inside'[wrapper'[c]] = c,
             \A o \in Wrappers : o # wrapper'[c] => inside'[o] = inside[o]
      PROVE  ServerInv'
  <2>1. ServerTypeOK' BY <1>1, <1>7, <1>T DEF ServerTypeOK, Locations
  <2>2. /\ conn'[c] = "open" /\ at'[c] = "new" /\ hijack'[c] = "none"
        /\ \A d \in Conns : d # c => conn'[d] = conn[d] /\ at'[d] = at[d] /\ hijack'[d] = hijack[d]
    BY <1>1, <1>2, <1>7, <1>T DEF ServerTypeOK
  <2>3. HijackIsLast' BY <2>2, <1>T DEF HijackIsLast
  <2>4. QueuedOnce' BY <1>2, <1>4, <1>T, <2>2, QueueKeeps DEF ServerInv
  <2>5. Fresh' BY <1>7, <2>2 DEF ServerInv, Fresh
  <2>6. \A d \in Conns : d # c => (Owned(d)' = Owned(d)) BY <2>2 DEF Owned
  <2>7. ASSUME NEW d \in Conns, d # c, Owned(d), wrapper[d] # None
        PROVE  /\ wrapper'[d] # wrapper'[c] /\ inside'[wrapper'[d]] = d
               /\ \A e \in Conns : e \notin {c, d} /\ Owned(e) => wrapper'[d] # wrapper'[e]
    <3>1. inside[wrapper[d]] = d /\ wrapper[d] \in Wrappers
      BY <1>1, <1>T, <2>7 DEF ServerInv, OneOwner, ServerTypeOK
    <3>2. d # None BY ConstantsAssumption
    <3>3. wrapper'[c] # wrapper[d] BY <1>7, <2>7, <3>1, <3>2
    <3>4. \A e \in Conns : e \notin {c, d} /\ Owned(e) => wrapper[d] # wrapper[e]
      BY <2>7 DEF ServerInv, OneOwner
    <3> QED BY <1>7, <2>7, <3>1, <3>3, <3>4
  <2>8. OneOwner'
    <3>1. \A d, e \in Conns : d # e /\ Owned(d)' /\ Owned(e)' /\ wrapper'[d] # None =>
            wrapper'[d] # wrapper'[e]
      <4> SUFFICES ASSUME NEW d \in Conns, NEW e \in Conns, d # e, Owned(d)', Owned(e)', wrapper'[d] # None
                   PROVE  wrapper'[d] # wrapper'[e]
        OBVIOUS
      <4>1. CASE d = c
        <5>1. e # c /\ Owned(e) BY <2>6, <4>1
        <5>2. CASE wrapper[e] = None BY <1>7, <5>1, <5>2
        <5>3. CASE wrapper[e] # None BY <2>7, <4>1, <5>1, <5>3
        <5> QED BY <5>2, <5>3
      <4>2. CASE d # c
        <5>1. Owned(d) /\ wrapper[d] # None BY <1>7, <2>6, <4>2
        <5>2. CASE e = c BY <2>7, <4>2, <5>1, <5>2
        <5>3. CASE e # c BY <2>6, <2>7, <4>2, <5>1, <5>3
        <5> QED BY <5>2, <5>3
      <4> QED BY <4>1, <4>2
    <3>2. ASSUME NEW d \in Conns, Owned(d)'
          PROVE  conn'[d] = "open" /\ (wrapper'[d] # None => inside'[wrapper'[d]] = d)
      <4>1. CASE d = c BY <1>7, <2>2, <4>1
      <4>2. CASE d # c
        <5>1. Owned(d) BY <2>6, <3>2, <4>2
        <5>2. conn'[d] = "open" BY <1>1, <2>2, <4>2, <5>1 DEF ServerInv, OneOwner
        <5>3. wrapper'[d] = wrapper[d] BY <1>7, <4>2
        <5> QED BY <2>7, <4>2, <5>1, <5>2, <5>3
      <4> QED BY <4>1, <4>2
    <3> QED BY <3>1, <3>2 DEF OneOwner
  <2>9. ActiveIsUntracked'
    <3> SUFFICES ASSUME NEW d \in Conns, at'[d] \in Active PROVE table'[Key(d)'] = "none"
      BY DEF ActiveIsUntracked
    <3>1. d # c /\ at[d] \in Active BY <2>2 DEF Active
    <3>2. Key(d)' = Key(d) BY <1>7, <3>1 DEF Key
    <3> QED BY <1>1, <3>1, <3>2 DEF ServerInv, ActiveIsUntracked
  <2>10. Serving' = Serving /\ Handling' = Handling
    BY <1>2, <2>2 DEF Serving, Handling
  <2> QED BY <1>5, <1>7, <2>1, <2>3, <2>4, <2>5, <2>8, <2>9, <2>10 DEF ServerInv
<1>8. CASE config.maxConnsPerIP = 0 /\ conn' = [conn EXCEPT ![c] = "open"] /\ listener' = "accepted"
           /\ at' = [at EXCEPT ![c] = "new"] /\ UNCHANGED <<perIP, inside, wrapper>>
  BY <1>2, <1>7, <1>8, <1>T DEF ServerTypeOK
<1>9. ASSUME NEW o \in Wrappers, inside[o] = None,
             inside' = [inside EXCEPT ![o] = c], wrapper' = [wrapper EXCEPT ![c] = o],
             conn' = [conn EXCEPT ![c] = "open"], listener' = "accepted", at' = [at EXCEPT ![c] = "new"]
      PROVE  ServerInv'
  <2>1. /\ wrapper'[c] = o /\ inside'[o] = c
        /\ \A d \in Conns : d # c => wrapper'[d] = wrapper[d]
        /\ \A p \in Wrappers : p # o => inside'[p] = inside[p]
        /\ wrapper' \in [Conns -> Wrappers \cup {None}] /\ inside' \in [Wrappers -> Conns \cup {None}]
    BY <1>9, <1>T DEF ServerTypeOK
  <2> QED BY <1>7, <1>9, <2>1
<1> QED BY <1>6, <1>8, <1>9 DEF Accept

(* A connection on its way out. *)
Leaves(c) ==
  /\ at[c] \in Late \cup {"new", "return"} /\ at'[c] \in Late
  /\ at' = [at EXCEPT ![c] = at'[c]] /\ hijack' = [hijack EXCEPT ![c] = hijack'[c]]
  /\ hijack'[c] \in {hijack[c], "ended"}
  /\ at[c] \in {"closed", "gone"} => at'[c] \in {"closed", "gone"}
  /\ \/ table' = table
     \/ SetState(c, "none")
  /\ \/ UNCHANGED <<conn, inside>>
     \/ Owned(c) /\ ~Owned(c)' /\ Close(Key(c))
  /\ UNCHANGED <<ch, shutdown, wrapper>>

LEMMA LeavesKeeps ==
  ASSUME PoolInv, ServerInv, NEW c \in Conns, Leaves(c),
         open' \in Int, concurrency' \in Int, listener' \in {listener, "accept"},
         OpenIsCounted', DoneIsQuiet', Started'
  PROVE  ServerInv'
<1> USE DEF PoolInv
<1>T. PoolTypeOK /\ ServerTypeOK /\ HijackIsLast BY DEF ServerInv
<1>1. /\ at[c] \in Late \cup {"new", "return"} /\ at'[c] \in Late /\ hijack'[c] \in {hijack[c], "ended"}
      /\ at[c] \in {"closed", "gone"} => at'[c] \in {"closed", "gone"}
      /\ \A d \in Conns : d # c => at'[d] = at[d] /\ hijack'[d] = hijack[d]
      /\ UNCHANGED <<ch, shutdown, wrapper>>
  BY <1>T DEF Leaves, ServerTypeOK
<1>2. \A d \in Conns : Key(d) \in Conns \cup Wrappers BY <1>T, KeyType
<1>3. /\ conn' \in [Conns -> {"absent", "open", "closed"}]
      /\ inside' \in [Wrappers -> Conns \cup {None}]
      /\ \A d \in Conns : conn'[d] = "absent" => conn[d] = "absent"
  <2>1. CASE UNCHANGED <<conn, inside>> BY <2>1, <1>T DEF ServerTypeOK
  <2>2. CASE Close(Key(c)) BY <2>2, <1>T, <1>2, CloseTypes
  <2> QED BY <2>1, <2>2 DEF Leaves
<1>4. ServerTypeOK'
  <2>1. at' \in [Conns -> Locations] BY <1>1, <1>T DEF Leaves, ServerTypeOK, Late, Locations
  <2>2. hijack' \in [Conns -> {"none", "wanted", "running", "ended"}]
    BY <1>1, <1>T DEF Leaves, ServerTypeOK
  <2>3. table' \in [Conns \cup Wrappers -> {"none", "new", "idle"}]
    BY <1>2, <1>T DEF Leaves, ServerTypeOK, SetState
  <2> QED BY <1>1, <1>3, <1>T, <2>1, <2>2, <2>3 DEF ServerTypeOK
<1>5. HijackIsLast' BY <1>1, <1>T DEF HijackIsLast, Late
<1>6. \A w \in Workers : Sent(w)' \in {Sent(w), None} BY <1>1 DEF Sent
<1>7. \A d \in Conns : at[d] = "queued" => at'[d] = "queued" BY <1>1 DEF Late
<1>8. QueuedOnce' BY <1>6, <1>7, QueueKeeps DEF ServerInv
<1>9. conn[c] # "absent" BY <1>1 DEF ServerInv, Fresh, Late
<1>10. \A d \in Conns : conn'[d] = "absent" =>
         conn[d] = "absent" /\ at'[d] = at[d] /\ hijack'[d] = hijack[d]
  BY <1>1, <1>3, <1>9
<1>11. \A d \in Conns : Owned(d)' => Owned(d) BY <1>1 DEF Owned, Late
<1>12. ASSUME Listening', NEW d \in Conns, Owned(d)'
       PROVE  conn'[d] = conn[d] /\ (wrapper[d] # None => inside'[wrapper[d]] = inside[wrapper[d]])
  <2>1. CASE UNCHANGED <<conn, inside>> BY <2>1
  <2>2. CASE Owned(c) /\ ~Owned(c)' /\ Close(Key(c))
    <3>1. d # c /\ Owned(d) /\ Listening BY <1>1, <1>11, <1>12, <2>2 DEF Listening
    <3> QED BY <2>2, <3>1, Closes
  <2> QED BY <2>1, <2>2 DEF Leaves
<1>13. ASSUME NEW d \in Conns, at'[d] \in Active
       PROVE  table'[Key(d)] = "none" \/ (at[d] \in Active /\ table'[Key(d)] = table[Key(d)])
  <2>1. at[d] \in Active BY <1>1, <1>13 DEF Late, Active
  <2> QED BY <1>2, <1>T, <2>1 DEF Leaves, SetState, ServerTypeOK
<1>14. Fresh' /\ OneOwner' /\ ActiveIsUntracked'
  <2>1. Listening' => Listening BY <1>1 DEF Listening
  <2> QED BY <1>1, <1>10, <1>11, <1>12, <1>13, <2>1, Keeps
<1> QED BY <1>4, <1>5, <1>8, <1>14 DEF ServerInv

LEMMA LeavesCounts ==
  ASSUME ServerTypeOK, NEW c \in Conns, Leaves(c)
  PROVE  Serving' = Serving \ {c} /\ Handling' = Handling \ {c}
<1>1. at'[c] \in Late /\ \A d \in Conns : d # c => at'[d] = at[d]
  BY DEF Leaves, ServerTypeOK
<1> QED BY <1>1 DEF Serving, Handling, Late

LEMMA OverflowKeeps == ASSUME PoolInv, ServerInv, NEW c \in Conns, Overflow(c) PROVE ServerInv'
<1> USE DEF poolVars, stopVars
<1>T. ServerTypeOK /\ OpenIsCounted BY DEF ServerInv
<1>1. /\ listener = "dispatch" /\ listener' = "accept" /\ at[c] = "new" /\ open' = open - 1
      /\ at' = [at EXCEPT ![c] = "gone"]
      /\ Close(Key(c)) /\ SetState(c, "none")
      /\ UNCHANGED <<ch, concurrency, shutdown, hijack, wrapper>>
  BY DEF Overflow, Goto
<1>2. Owned(c) /\ hijack[c] \notin {"ended", "running"}
  BY <1>1, OwnedInServing DEF ServerInv, HijackIsLast, Late
<1>3. at'[c] = "gone" /\ hijack' = [hijack EXCEPT ![c] = hijack'[c]] BY <1>1, <1>T DEF ServerTypeOK
<1>4. ~Owned(c)' BY <1>1, <1>2, <1>3 DEF Owned
<1>5. Leaves(c) BY <1>1, <1>2, <1>3, <1>4 DEF Leaves, Late
<1>6. Serving' = Serving /\ Handling' = Handling
  BY <1>1, <1>5, <1>T, LeavesCounts DEF Serving, Handling
<1>7. OpenIsCounted'
  <2>1. Cardinality(Serving) \in Nat BY CountsAreFinite, FS_CardinalityType
  <2>2. open = Cardinality(Serving) + 2 /\ concurrency = Cardinality(Handling)
    BY <1>1, <1>T, <2>1 DEF OpenIsCounted, Handling
  <2> QED BY <1>1, <1>6, <2>1, <2>2 DEF OpenIsCounted, Handling
<1>8. DoneIsQuiet' /\ Started' BY <1>1 DEF ServerInv, DoneIsQuiet, Started
<1>9. open' \in Int /\ concurrency' \in Int BY <1>1, <1>T DEF ServerTypeOK
<1> QED BY <1>1, <1>5, <1>7, <1>8, <1>9, LeavesKeeps

LEMMA ReturnKeeps == ASSUME PoolInv, ServerInv, NEW c \in Conns, Return(c) PROVE ServerInv'
<1> USE DEF poolVars, stopVars, connVars
<1>T. ServerTypeOK /\ OpenIsCounted BY DEF ServerInv
<1>1. /\ at[c] = "return" /\ open' = open - 1 /\ concurrency' = concurrency - 1
      /\ at' = [at EXCEPT ![c] = "returned"]
      /\ UNCHANGED <<ch, listener, shutdown, conn, inside, hijack, table, wrapper>>
  BY DEF Return
<1>2. at'[c] = "returned" /\ hijack' = [hijack EXCEPT ![c] = hijack'[c]] BY <1>1, <1>T DEF ServerTypeOK
<1>3. Leaves(c) BY <1>1, <1>2 DEF Leaves, Late
<1>4. Serving' = Serving \ {c} /\ Handling' = Handling \ {c} BY <1>3, <1>T, LeavesCounts
<1>5. c \in Serving /\ c \in Handling BY <1>1 DEF Serving, Handling
<1>6. OpenIsCounted'
  <2>1. Cardinality(Serving) \in Nat /\ Cardinality(Handling) \in Nat
    BY CountsAreFinite, FS_CardinalityType
  <2>2. Cardinality(Serving') = Cardinality(Serving) - 1 /\ Cardinality(Handling') = Cardinality(Handling) - 1
    BY <1>4, <1>5, CountsAreFinite, FS_RemoveElement
  <2>3. concurrency = Cardinality(Handling) BY <1>T DEF OpenIsCounted, Handling
  <2>4. concurrency' = Cardinality(Handling') BY <1>1, <2>1, <2>2, <2>3
  <2>5. open = Cardinality(Serving) + (IF listener = "dispatch" THEN 1 ELSE 0)
               + (IF listener \in {"init", "listed", "down"} THEN 0 ELSE 1)
    BY <1>T DEF OpenIsCounted
  <2>6. open' = Cardinality(Serving') + (IF listener' = "dispatch" THEN 1 ELSE 0)
               + (IF listener' \in {"init", "listed", "down"} THEN 0 ELSE 1)
    BY <1>1, <2>1, <2>2, <2>5
  <2> QED BY <2>4, <2>6 DEF OpenIsCounted, Handling
<1>7. DoneIsQuiet' /\ Started' BY <1>1, <1>5 DEF ServerInv, DoneIsQuiet, Started
<1>8. open' \in Int /\ concurrency' \in Int BY <1>1, <1>T DEF ServerTypeOK
<1> QED BY <1>1, <1>3, <1>6, <1>7, <1>8, LeavesKeeps

(* serveConn has returned: what is left moves no count. *)
LEMMA LeftKeeps ==
  ASSUME PoolInv, ServerInv, NEW c \in Conns, Leaves(c), at[c] \in Late,
         UNCHANGED <<open, concurrency, listener>>
  PROVE  ServerInv'
<1>T. ServerTypeOK BY DEF ServerInv
<1>1. Serving' = Serving /\ Handling' = Handling
  BY <1>T, LeavesCounts DEF Serving, Handling, Late
<1>2. OpenIsCounted' /\ DoneIsQuiet' /\ Started' BY <1>1, SameCounts DEF Leaves
<1>3. open' \in Int /\ concurrency' \in Int BY <1>T DEF ServerTypeOK
<1> QED BY <1>2, <1>3, LeavesKeeps

LEMMA LeftSteps ==
  ASSUME PoolInv, ServerInv, NEW c \in Conns,
         \/ WorkerCloses(c) \/ HijackEnds(c)
         \/ \E w \in Workers : serving[w] = c /\ WorkerReleases(w)
  PROVE  Leaves(c) /\ at[c] \in Late /\ UNCHANGED <<open, concurrency, listener>>
<1> USE DEF poolVars, serverVars, stopVars, connVars, serveVars, Goto
<1>T. ServerTypeOK BY DEF ServerInv
<1>1. CASE WorkerCloses(c)
  <2>1. /\ at[c] = "returned" /\ at' = [at EXCEPT ![c] = "closed"]
        /\ IF hijack[c] \in {"running", "ended"} THEN UNCHANGED <<conn, inside>> ELSE Close(Key(c))
        /\ UNCHANGED <<ch, open, concurrency, listener, shutdown, hijack, table, wrapper>>
    BY <1>1 DEF WorkerCloses
  <2>2. at'[c] = "closed" /\ hijack' = [hijack EXCEPT ![c] = hijack'[c]] BY <2>1, <1>T DEF ServerTypeOK
  <2>3. hijack[c] \notin {"running", "ended"} => Owned(c) /\ ~Owned(c)' BY <2>1, <2>2 DEF Owned
  <2> QED BY <2>1, <2>2, <2>3 DEF Leaves, Late
<1>2. CASE HijackEnds(c)
  <2>1. /\ at[c] \in Late /\ hijack[c] = "running" /\ hijack' = [hijack EXCEPT ![c] = "ended"]
        /\ Close(Key(c))
        /\ UNCHANGED <<ch, open, concurrency, listener, shutdown, at, table, wrapper>>
    BY <1>2 DEF HijackEnds, Late
  <2>2. hijack'[c] = "ended" /\ at' = [at EXCEPT ![c] = at'[c]] BY <2>1, <1>T DEF ServerTypeOK
  <2>3. Owned(c) /\ ~Owned(c)' BY <2>1, <2>2 DEF Owned, Late
  <2> QED BY <2>1, <2>2, <2>3 DEF Leaves
<1>3. CASE \E w \in Workers : serving[w] = c /\ WorkerReleases(w)
  <2>1. /\ at[c] = "closed" /\ at' = [at EXCEPT ![c] = "gone"] /\ SetState(c, "none")
        /\ UNCHANGED <<ch, open, concurrency, listener, shutdown, conn, inside, hijack, wrapper>>
    BY <1>3 DEF WorkerReleases
  <2>2. at'[c] = "gone" /\ hijack' = [hijack EXCEPT ![c] = hijack'[c]] BY <2>1, <1>T DEF ServerTypeOK
  <2> QED BY <2>1, <2>2 DEF Leaves, Late
<1> QED BY <1>1, <1>2, <1>3

(* A connection is queued, and a worker takes it. *)
LEMMA AlongKeeps ==
  ASSUME PoolInv, ServerInv, NEW c \in Conns, NEW l \in {"queued", "next"},
         at[c] \in {"new", "queued"}, at' = [at EXCEPT ![c] = l],
         UNCHANGED <<shutdown, conn, inside, hijack, table, wrapper>>
  PROVE  /\ at'[c] = l /\ \A d \in Conns : d # c => at'[d] = at[d]
         /\ at' \in [Conns -> Locations]
         /\ HijackIsLast' /\ Fresh' /\ OneOwner' /\ ActiveIsUntracked'
<1>T. ServerTypeOK /\ HijackIsLast BY DEF ServerInv
<1>1. at'[c] = l /\ \A d \in Conns : d # c => at'[d] = at[d] BY <1>T DEF ServerTypeOK
<1>2. at' \in [Conns -> Locations] BY <1>T DEF ServerTypeOK, Locations
<1>3. HijackIsLast' BY <1>1, <1>T DEF HijackIsLast, Late
<1>4. conn[c] # "absent" BY DEF ServerInv, Fresh
<1>5. \A d \in Conns : conn'[d] = "absent" => conn[d] = "absent" /\ at'[d] = at[d] /\ hijack'[d] = hijack[d]
  BY <1>1, <1>4
<1>6. \A d \in Conns : Owned(d)' => Owned(d) BY <1>1 DEF Owned
<1>7. \A d \in Conns : at'[d] \in Active => at[d] \in Active /\ table'[Key(d)] = table[Key(d)]
  BY <1>1 DEF Active
<1>8. Fresh' /\ OneOwner' /\ ActiveIsUntracked' BY <1>5, <1>6, <1>7, Keeps DEF Listening
<1> QED BY <1>1, <1>2, <1>3, <1>8

LEMMA DispatchKeeps == ASSUME PoolInv, ServerInv, NEW c \in Conns, Dispatch(c) PROVE ServerInv'
<1> USE DEF stopVars, connVars
<1>T. PoolTypeOK /\ ServerTypeOK /\ OpenIsCounted /\ QueuedOnce BY DEF PoolInv, ServerInv
<1>1. /\ listener = "dispatch" /\ listener' = "accept" /\ at[c] = "new"
      /\ at' = [at EXCEPT ![c] = "queued"]
      /\ UNCHANGED <<open, concurrency, shutdown, conn, inside, hijack, table, wrapper>>
  BY DEF Dispatch, Goto
<1>2. PICK w \in Workers : ch[w] = <<>> /\ ch' = [ch EXCEPT ![w] = Append(@, c)]
  BY ServesOne DEF Dispatch
<1>3. /\ at'[c] = "queued" /\ \A d \in Conns : d # c => at'[d] = at[d]
      /\ at' \in [Conns -> Locations]
      /\ HijackIsLast' /\ Fresh' /\ OneOwner' /\ ActiveIsUntracked'
  BY <1>1, AlongKeeps
<1>4. ServerTypeOK' BY <1>1, <1>3, <1>T DEF ServerTypeOK
<1>5. QueuedOnce'
  <2>1. Sent(w)' = c /\ \A v \in Workers : v # w => (Sent(v)' = Sent(v))
    BY <1>2, <1>T DEF Sent, PoolTypeOK
  <2>2. \A v \in Workers : Sent(v) # c BY <1>1, <1>T, ConstantsAssumption DEF QueuedOnce
  <2>3. \A v \in Workers : v # w /\ Sent(v) # None => at'[Sent(v)] = "queued"
    BY <1>3, <1>T, <2>2, SentType DEF QueuedOnce
  <2>4. \A u, v \in Workers : u # v /\ Sent(u)' # None => Sent(u)' # Sent(v)'
    BY <1>T, <2>1, <2>2 DEF QueuedOnce
  <2>5. \A v \in Workers : Sent(v)' # None => at'[Sent(v)'] = "queued" BY <1>3, <2>1, <2>3
  <2> QED BY <2>4, <2>5 DEF QueuedOnce
<1>6. Serving' = Serving \cup {c} /\ c \notin Serving /\ Handling' = Handling
  BY <1>1, <1>3 DEF Serving, Handling
<1>7. OpenIsCounted'
  <2>1. Cardinality(Serving) \in Nat BY CountsAreFinite, FS_CardinalityType
  <2>2. Cardinality(Serving') = Cardinality(Serving) + 1 BY <1>6, CountsAreFinite, FS_AddElement
  <2>3. open = Cardinality(Serving) + 2 /\ concurrency = Cardinality(Handling)
    BY <1>1, <1>T, <2>1 DEF OpenIsCounted, Handling
  <2>4. concurrency' = Cardinality(Handling') BY <1>1, <1>6, <2>3
  <2>5. open' = Cardinality(Serving') + 1 BY <1>1, <2>1, <2>2, <2>3
  <2>6. Cardinality(Serving') \in Nat BY <2>1, <2>2
  <2> QED BY <1>1, <2>4, <2>5, <2>6 DEF OpenIsCounted, Handling
<1>8. DoneIsQuiet' /\ Started' BY <1>1 DEF ServerInv, DoneIsQuiet, Started
<1> QED BY <1>3, <1>4, <1>5, <1>7, <1>8 DEF ServerInv

LEMMA BeginKeeps == ASSUME PoolInv, ServerInv, NEW w \in Workers, Begin(w) PROVE ServerInv'
<1> USE DEF stopVars, connVars, serveVars
<1>T. PoolTypeOK /\ ServerTypeOK /\ OpenIsCounted /\ QueuedOnce BY DEF PoolInv, ServerInv
<1>1. /\ ch[w] # <<>> /\ ch[w] \in Seq(Conns \cup {None}) /\ Len(ch[w]) <= 1
      /\ ch' = [ch EXCEPT ![w] = Tail(@)]
      /\ UNCHANGED <<listener, open, shutdown, conn, inside, table, wrapper>>
  BY DEF Begin, Receive, PoolInv, PoolTypeOK, WorkersAreCounted
<1>2. Tail(ch[w]) = <<>> /\ Sent(w) = Head(ch[w]) BY <1>1 DEF Sent
<1>3. Sent(w)' = None /\ \A v \in Workers : v # w => (Sent(v)' = Sent(v))
  BY <1>1, <1>2, <1>T DEF Sent, PoolTypeOK
<1>4. CASE Sent(w) = None
  <2>1. UNCHANGED <<concurrency, at, hijack>> BY <1>2, <1>4 DEF Begin
  <2>2. Elsewhere BY <1>1, <1>3, <2>1 DEF Elsewhere
  <2>3. QueuedOnce' /\ Fresh' /\ OneOwner' /\ ActiveIsUntracked'
    BY <1>1, <2>2, ElsewhereKeeps DEF Listening
  <2>4. Serving' = Serving /\ Handling' = Handling BY <2>1 DEF Serving, Handling
  <2>5. OpenIsCounted' /\ DoneIsQuiet' /\ Started' BY <1>1, <2>1, <2>4, SameCounts
  <2>6. ServerTypeOK' /\ HijackIsLast' BY <1>1, <1>T, <2>1 DEF ServerInv, ServerTypeOK, HijackIsLast
  <2> QED BY <2>3, <2>5, <2>6 DEF ServerInv
<1>5. CASE Sent(w) # None
  <2> DEFINE c == Sent(w)
  <2>1. /\ c \in Conns /\ at[c] = "queued" /\ at' = [at EXCEPT ![c] = "next"]
        /\ concurrency' = concurrency + 1 /\ UNCHANGED hijack
    BY <1>2, <1>5, <1>T, SentType DEF Begin, Goto, QueuedOnce
  <2>2. /\ at'[c] = "next" /\ \A d \in Conns : d # c => at'[d] = at[d]
        /\ at' \in [Conns -> Locations]
        /\ HijackIsLast' /\ Fresh' /\ OneOwner' /\ ActiveIsUntracked'
    BY <1>1, <2>1, AlongKeeps
  <2>3. ServerTypeOK' BY <1>1, <1>T, <2>1, <2>2 DEF ServerTypeOK
  <2>4. \A v \in Workers : v # w => Sent(v) # c BY <1>5, <1>T DEF QueuedOnce
  <2>5. QueuedOnce'
    <3>1. \A v \in Workers : Sent(v)' # None => v # w /\ Sent(v)' = Sent(v) BY <1>3
    <3>2. \A v \in Workers : v # w /\ Sent(v) # None => at'[Sent(v)] = "queued"
      BY <1>T, <2>2, <2>4, SentType DEF QueuedOnce
    <3>3. \A v \in Workers : Sent(v)' # None => at'[Sent(v)'] = "queued" BY <3>1, <3>2
    <3>4. \A u, v \in Workers : u # v /\ Sent(u)' # None => Sent(u)' # Sent(v)'
      BY <1>3, <1>T DEF QueuedOnce
    <3> QED BY <3>3, <3>4 DEF QueuedOnce
  <2>6. Serving' = Serving /\ Handling' = Handling \cup {c} /\ c \notin Handling
    BY <2>1, <2>2 DEF Serving, Handling
  <2>7. OpenIsCounted'
    <3>1. Cardinality(Handling') = Cardinality(Handling) + 1 BY <2>6, CountsAreFinite, FS_AddElement
    <3>2. concurrency' = Cardinality(Handling') BY <1>T, <2>1, <3>1 DEF OpenIsCounted, Handling
    <3> QED BY <1>1, <1>T, <2>6, <3>2 DEF OpenIsCounted, Handling
  <2>8. DoneIsQuiet' /\ Started' BY <1>1, <2>6 DEF ServerInv, DoneIsQuiet, Started
  <2> QED BY <2>2, <2>3, <2>5, <2>7, <2>8 DEF ServerInv
<1> QED BY <1>4, <1>5

LEMMA CloseIdleKeeps == ASSUME PoolInv, ServerInv, CloseIdleConns PROVE ServerInv'
<1> USE DEF poolVars, serverVars, stopVars, serveVars
<1>T. PoolTypeOK /\ ServerTypeOK /\ HijackIsLast BY DEF PoolInv, ServerInv
<1>1. /\ shutdown = "wait"
      /\ UNCHANGED <<ch, listener, open, concurrency, shutdown, at, hijack, wrapper>>
  BY DEF CloseIdleConns
<1>2. PICK k \in DOMAIN table : Close(k) /\ table' = [table EXCEPT ![k] = "none"]
  BY DEF CloseIdleConns
<1>3. k \in Conns \cup Wrappers BY <1>T DEF ServerTypeOK
<1>4. /\ conn' \in [Conns -> {"absent", "open", "closed"}]
      /\ inside' \in [Wrappers -> Conns \cup {None}]
      /\ \A c \in Conns : conn'[c] = "absent" => conn[c] = "absent"
  BY <1>2, <1>3, <1>T, CloseTypes
<1>5. table' \in [Conns \cup Wrappers -> {"none", "new", "idle"}] BY <1>2, <1>T DEF ServerTypeOK
<1>6. ServerTypeOK' BY <1>1, <1>4, <1>5, <1>T DEF ServerTypeOK
<1>7. HijackIsLast' BY <1>1, <1>T DEF HijackIsLast
<1>8. \A w \in Workers : Sent(w)' \in {Sent(w), None} BY <1>1 DEF Sent
<1>9. QueuedOnce' BY <1>1, <1>8, <1>T, QueueKeeps DEF ServerInv
<1>10. \A c \in Conns : Owned(c)' = Owned(c) BY <1>1 DEF Owned
<1>11. ASSUME NEW c \in Conns, at'[c] \in Active
       PROVE  table'[Key(c)] = "none" \/ (at[c] \in Active /\ table'[Key(c)] = table[Key(c)])
  BY <1>1, <1>2, <1>11, <1>T, KeyType DEF ServerTypeOK
<1>12. ~Listening' BY <1>1 DEF Listening
<1>13. Fresh' /\ OneOwner' /\ ActiveIsUntracked' BY <1>1, <1>4, <1>10, <1>11, <1>12, Keeps
<1>14. Serving' = Serving /\ Handling' = Handling BY <1>1 DEF Serving, Handling
<1>15. OpenIsCounted' /\ DoneIsQuiet' /\ Started' BY <1>1, <1>14, SameCounts
<1> QED BY <1>6, <1>7, <1>9, <1>13, <1>15 DEF ServerInv

LEMMA ServerInitial == Init => ServerInv
<1> SUFFICES ASSUME Init PROVE ServerInv OBVIOUS
<1> USE DEF Init, PoolInit
<1>1. ServerTypeOK BY DEF ServerTypeOK, Locations
<1>2. QueuedOnce BY DEF QueuedOnce, Sent
<1>3. Fresh BY DEF Fresh
<1>4. HijackIsLast BY DEF HijackIsLast
<1>5. OneOwner BY DEF OneOwner, Owned
<1>6. ActiveIsUntracked BY DEF ActiveIsUntracked, Active
<1>7. Serving = {} /\ Handling = {} BY DEF Serving, Handling
<1>8. Cardinality(Serving) = 0 /\ Cardinality(Handling) = 0 BY <1>7, FS_EmptySet
<1>9. OpenIsCounted BY <1>8 DEF OpenIsCounted, Handling
<1>10. DoneIsQuiet /\ Started BY DEF DoneIsQuiet, Started
<1> QED BY <1>1, <1>2, <1>3, <1>4, <1>5, <1>6, <1>9, <1>10 DEF ServerInv

LEMMA ServerKeeps == PoolInv /\ ServerInv /\ [Next]_vars => ServerInv'
<1> SUFFICES ASSUME PoolInv, ServerInv, [Next]_vars PROVE ServerInv' OBVIOUS
<1>T. ServerTypeOK BY DEF ServerInv
<1>1. ASSUME UNCHANGED vars PROVE ServerInv'
  <2>1. UNCHANGED <<ch, open, concurrency, listener, shutdown, conn, at, hijack, table, wrapper, inside>>
    BY <1>1 DEF vars, poolVars, serverVars, stopVars, connVars, serveVars
  <2>2. Elsewhere BY <2>1 DEF Elsewhere, Sent
  <2>3. QueuedOnce' /\ Fresh' /\ OneOwner' /\ ActiveIsUntracked' BY <2>1, <2>2, ElsewhereKeeps DEF Listening
  <2>4. Serving' = Serving /\ Handling' = Handling BY <2>1 DEF Serving, Handling
  <2>5. OpenIsCounted' /\ DoneIsQuiet' /\ Started' BY <2>1, <2>4, SameCounts
  <2>6. ServerTypeOK' /\ HijackIsLast' BY <2>1 DEF ServerInv, ServerTypeOK, HijackIsLast
  <2> QED BY <2>3, <2>5, <2>6 DEF ServerInv
<1>2. CASE ServeLoop
  BY <1>2, OpenKeeps, AcceptKeeps, CountKeeps, DispatchKeeps, OverflowKeeps DEF ServeLoop
<1>3. CASE PoolStep BY <1>3, OpenKeeps
<1>4. ASSUME NEW w \in Workers, WorkerStep(w) PROVE ServerInv'
  <2>1. CASE Begin(w) BY <2>1, BeginKeeps
  <2>2. CASE WorkerReleases(w)
    <3>1. serving[w] \in Conns BY <2>2 DEF WorkerReleases, PoolInv, WorkersHaveWork
    <3> QED BY <2>2, <3>1, LeftSteps, LeftKeeps
  <2> QED BY <1>4, <2>1, <2>2 DEF WorkerStep
<1>5. ASSUME NEW c \in Conns, ServeStep(c) \/ FirstByte(c) \/ NothingRead(c) \/ HijackEnds(c)
      PROVE  ServerInv'
  <2>1. CASE Return(c) BY <2>1, ReturnKeeps
  <2>2. CASE WorkerCloses(c) \/ HijackEnds(c) BY <2>2, LeftSteps, LeftKeeps
  <2>3. CASE ~(Return(c) \/ WorkerCloses(c) \/ HijackEnds(c))
    <3>1. Moves(c) BY <1>5, <1>T, <2>3, MovesSteps DEF ServeStep
    <3> QED BY <3>1, MovesKeeps
  <2> QED BY <2>1, <2>2, <2>3
<1>6. CASE \E x \in Contexts : HandlerReturns(x) BY <1>6, OpenKeeps
<1>7. CASE ShutdownEarly \/ Shutdown \/ ShutdownReturns BY <1>7, OpenKeeps
<1>8. CASE CloseIdleConns BY <1>8, CloseIdleKeeps
<1> QED BY <1>1, <1>2, <1>3, <1>4, <1>5, <1>6, <1>7, <1>8 DEF Next

LEMMA ServerInvariance == Spec => []ServerInv
<1> QED BY ServerInitial, ServerKeeps, PoolInvariance, PTL DEF Spec

LEMMA ActiveIsOpen == ServerInv => ActiveIsNotIdle
<1> SUFFICES ASSUME ServerInv, NEW c \in Conns, at[c] \in Active
             PROVE  table[Key(c)] = "none" /\ (conn[c] = "closed" => shutdown # "no")
  BY DEF ActiveIsNotIdle, Active
<1>1. table[Key(c)] = "none" BY DEF ServerInv, ActiveIsUntracked
<1>2. Owned(c) BY OwnedInServing DEF Active, Busy, Locations, Early, Late
<1>3. shutdown = "no" => conn[c] = "open" BY <1>2 DEF ServerInv, OneOwner, Listening
<1> QED BY <1>1, <1>3

(* Shutdown counts the connections it waits for, nothing is served once it *)
(* has returned, and what it closes while it waits is no connection that a *)
(* request is being handled on (server.go, Serve, trackConn, Shutdown).    *)
THEOREM StopsQuiet == Spec => []StopsQuietly
<1>1. ServerInv => StopsQuietly BY ActiveIsOpen DEF ServerInv, StopsQuietly
<1> QED BY <1>1, ServerInvariance, PTL

-----------------------------------------------------------------------------
(* What a connection has to itself.  A limit by address and Shutdown do    *)
(* not go together (see WrappersAreOwn): with the limit connections are    *)
(* always accepted, so that OneOwner says whose a wrapper is; without it   *)
(* there is no wrapper.                                                    *)

LimitOrShutdown == \A g \in Configurations : g.stops => g.maxConnsPerIP = 0

ShutdownIsMeant == config \in Configurations /\ (shutdown # "no" => config.stops)

Wrapped == {c \in Conns : wrapper[c] # None /\ conn[c] = "open"}
WrappersAreCounted ==
  /\ perIP = Cardinality(Wrapped)
  /\ \A c \in Conns : at[c] = "none" => wrapper[c] = None
  /\ config.maxConnsPerIP = 0 =>
       /\ \A c \in Conns : wrapper[c] = None
       /\ \A o \in Wrappers : inside[o] = None

(* Without wrappers a connection is its own key: CloseIdleConns passes by  *)
(* one whose handler has taken it, or is about to.                         *)
HijackedIsUntracked ==
  config.maxConnsPerIP = 0 => \A c \in Conns :
    /\ at[c] = "answered" => conn[c] = "open"
    /\ hijack[c] = "running" => conn[c] = "open" /\ table[c] = "none"

ContextsAreHeld ==
  /\ ctx \in [Conns -> Contexts \cup {None}]
  /\ ctxPool \subseteq Contexts /\ late \subseteq Contexts
  /\ Cardinality(late) <= maxWorkersCount
  /\ \A c \in Conns :
       /\ at[c] \in Busy \/ hijack[c] = "running" => ctx[c] # None
       /\ ctx[c] \in late => at[c] = "aside"

OwnInv ==
  /\ ShutdownIsMeant /\ WrappersAreCounted /\ HijackedIsUntracked
  /\ ContextsAreHeld /\ ContextsAreOwn

LEMMA LimitedListens ==
  ASSUME LimitOrShutdown, ShutdownIsMeant, config.maxConnsPerIP # 0 PROVE Listening
BY DEF LimitOrShutdown, ShutdownIsMeant, Listening

LEMMA MeantKeeps == ASSUME ShutdownIsMeant, [Next]_vars PROVE ShutdownIsMeant'
<1> SUFFICES ASSUME config' = config /\ (shutdown' = shutdown \/ shutdown' # "no" => config.stops)
                      => ShutdownIsMeant'
             PROVE  config' = config /\ (shutdown' = shutdown \/ (shutdown' # "no" => config.stops))
  BY DEF ShutdownIsMeant
<1> USE DEF stopVars
<1>1. CASE ServeLoop
  BY <1>1 DEF ServeLoop, Listen, CountListener, AcceptFails, Accept, Count, Dispatch, Overflow
<1>2. CASE PoolStep BY <1>2 DEF PoolStep
<1>3. CASE \E w \in Workers : WorkerStep(w) BY <1>3 DEF WorkerStep, Begin, WorkerReleases
<1>4. CASE \E c \in Conns : ServeStep(c) \/ FirstByte(c) \/ NothingRead(c) \/ HijackEnds(c)
  BY <1>4 DEF ServeStep, FirstByte, NothingRead, HijackEnds, SetActive, ReadRequest, ReadFails,
     Handle, HandleAside, InTime, TimesOut, LastResponse, Respond, StartHijack, SetIdle,
     NextRequest, Return, WorkerCloses
<1>5. CASE \E x \in Contexts : HandlerReturns(x) BY <1>5 DEF HandlerReturns
<1>6. CASE ShutdownEarly \/ Shutdown \/ CloseIdleConns
  BY <1>6 DEF ShutdownEarly, Shutdown, CloseIdleConns
<1>7. CASE ShutdownReturns BY <1>7 DEF ShutdownReturns, ShutdownIsMeant
<1>8. CASE UNCHANGED vars BY <1>8 DEF vars
<1> QED BY <1>1, <1>2, <1>3, <1>4, <1>5, <1>6, <1>7, <1>8 DEF Next

-----------------------------------------------------------------------------
(* Wrappers                                                                *)

LEMMA WrappedIsFinite == IsFiniteSet(Wrapped) /\ Cardinality(Wrapped) \in Nat
<1>1. IsFiniteSet(Wrapped) BY ConstantsAssumption, FS_Subset DEF Wrapped
<1> QED BY <1>1, FS_CardinalityType

LEMMA SameWrappers ==
  ASSUME WrappersAreCounted, UNCHANGED <<config, conn, perIP, inside, wrapper>>,
         \A c \in Conns : at'[c] = "none" => at[c] = "none"
  PROVE  WrappersAreCounted'
<1>1. Wrapped' = Wrapped BY DEF Wrapped
<1> QED BY <1>1 DEF WrappersAreCounted

(* Who owns a connection uncounts it when it closes it. *)
LEMMA OwnerCloses ==
  ASSUME LimitOrShutdown, ShutdownIsMeant, ServerInv, WrappersAreCounted,
         NEW c \in Conns, Owned(c), Close(Key(c)), UNCHANGED <<config, wrapper>>,
         \A d \in Conns : at'[d] = "none" => at[d] = "none"
  PROVE  WrappersAreCounted'
<1>T. ServerTypeOK BY DEF ServerInv
<1>1. CASE wrapper[c] = None
  <2>1. Key(c) = c /\ c \notin Wrappers BY <1>1, ConstantsAssumption DEF Key
  <2>2. /\ \A d \in Conns : d # c => conn'[d] = conn[d]
        /\ UNCHANGED <<inside, perIP>>
    BY <2>1, <1>T DEF Close, Closed, ServerTypeOK
  <2>3. Wrapped' = Wrapped BY <1>1, <2>2 DEF Wrapped
  <2> QED BY <2>2, <2>3 DEF WrappersAreCounted
<1>2. CASE wrapper[c] # None
  <2>1. config.maxConnsPerIP # 0 BY <1>2 DEF WrappersAreCounted
  <2>2. conn[c] = "open" /\ inside[wrapper[c]] = c /\ wrapper[c] \in Wrappers
    BY <1>2, <2>1, <1>T, LimitedListens DEF ServerInv, OneOwner, ServerTypeOK
  <2>3. Key(c) = wrapper[c] /\ c # None BY <1>2, ConstantsAssumption DEF Key
  <2>4. /\ conn'[c] = "closed" /\ \A d \in Conns : d # c => conn'[d] = conn[d]
        /\ perIP' = perIP - 1
    BY <2>2, <2>3, <1>T DEF Close, Closed, ServerTypeOK
  <2>5. Wrapped' = Wrapped \ {c} /\ c \in Wrapped BY <1>2, <2>2, <2>4 DEF Wrapped
  <2>6. Cardinality(Wrapped') = Cardinality(Wrapped) - 1
    BY <2>5, WrappedIsFinite, FS_RemoveElement
  <2> QED BY <2>1, <2>4, <2>6 DEF WrappersAreCounted
<1> QED BY <1>1, <1>2

LEMMA AcceptWraps ==
  ASSUME ServerInv, WrappersAreCounted, NEW c \in Conns, Accept(c) PROVE WrappersAreCounted'
<1>T. ServerTypeOK BY DEF ServerInv
<1>1. conn[c] = "absent" /\ at[c] = "none" /\ wrapper[c] = None /\ UNCHANGED config
  BY DEF Accept, ServerInv, Fresh
<1>2. CASE config.maxConnsPerIP = 0 /\ conn' = [conn EXCEPT ![c] = "open"]
           /\ at' = [at EXCEPT ![c] = "new"] /\ UNCHANGED <<perIP, inside, wrapper>>
  <2>1. \A d \in Conns : d # c => conn'[d] = conn[d] BY <1>2, <1>T DEF ServerTypeOK
  <2>2. Wrapped' = Wrapped BY <1>1, <1>2, <2>1 DEF Wrapped
  <2>3. \A d \in Conns : at'[d] = "none" => at[d] = "none" BY <1>2, <1>T DEF ServerTypeOK
  <2> QED BY <1>1, <1>2, <2>2, <2>3 DEF WrappersAreCounted
<1>3. CASE conn' = [conn EXCEPT ![c] = "closed"] /\ UNCHANGED <<perIP, inside, wrapper, at>>
  <2>1. \A d \in Conns : d # c => conn'[d] = conn[d] BY <1>3, <1>T DEF ServerTypeOK
  <2>2. Wrapped' = Wrapped BY <1>1, <1>3, <2>1 DEF Wrapped
  <2> QED BY <1>1, <1>3, <2>2 DEF WrappersAreCounted
<1>4. ASSUME config.maxConnsPerIP > perIP, NEW o \in Wrappers,
             wrapper' = [wrapper EXCEPT ![c] = o],
             conn' = [conn EXCEPT ![c] = "open"], at' = [at EXCEPT ![c] = "new"],
             perIP' = perIP + 1
      PROVE  WrappersAreCounted'
  <2>1. /\ conn'[c] = "open" /\ wrapper'[c] = o /\ at'[c] = "new" /\ o # None
        /\ \A d \in Conns : d # c =>
             conn'[d] = conn[d] /\ wrapper'[d] = wrapper[d] /\ at'[d] = at[d]
    BY <1>4, <1>T, ConstantsAssumption DEF ServerTypeOK
  <2>2. Wrapped' = Wrapped \cup {c} /\ c \notin Wrapped BY <1>1, <2>1 DEF Wrapped
  <2>3. Cardinality(Wrapped') = Cardinality(Wrapped) + 1
    BY <2>2, WrappedIsFinite, FS_AddElement
  <2>4. config.maxConnsPerIP # 0
    <3>1. perIP \in Nat BY WrappedIsFinite DEF WrappersAreCounted
    <3> QED BY <3>1, <1>4
  <2> QED BY <1>1, <1>4, <2>1, <2>3, <2>4 DEF WrappersAreCounted
<1> QED BY <1>2, <1>3, <1>4 DEF Accept

LEMMA IdleHasNoWrapper ==
  ASSUME LimitOrShutdown, ShutdownIsMeant, ServerInv, WrappersAreCounted, CloseIdleConns
  PROVE  WrappersAreCounted'
<1>1. config.stops BY DEF CloseIdleConns, ShutdownIsMeant
<1>2. config.maxConnsPerIP = 0 BY <1>1 DEF LimitOrShutdown, ShutdownIsMeant
<1>3. /\ \A c \in Conns : wrapper[c] = None
      /\ \A o \in Wrappers : inside[o] = None
      /\ perIP = Cardinality(Wrapped)
  BY <1>2 DEF WrappersAreCounted
<1>4. UNCHANGED <<config, wrapper, at>> BY DEF CloseIdleConns, serveVars
<1>5. PICK k \in DOMAIN table : Close(k) BY DEF CloseIdleConns
<1>6. perIP' = perIP /\ \A o \in Wrappers : inside'[o] = None
  BY <1>3, <1>5 DEF Close, ServerInv, ServerTypeOK
<1>7. Wrapped = {} /\ Wrapped' = {} BY <1>3, <1>4 DEF Wrapped
<1>8. \A c \in Conns : wrapper'[c] = None BY <1>3, <1>4
<1>9. perIP' = Cardinality(Wrapped') BY <1>3, <1>6, <1>7
<1> QED BY <1>6, <1>8, <1>9 DEF WrappersAreCounted

LEMMA WrappersKeep ==
  ASSUME LimitOrShutdown, ShutdownIsMeant, PoolInv, ServerInv, WrappersAreCounted, [Next]_vars
  PROVE  WrappersAreCounted'
<1>T. ServerTypeOK BY DEF ServerInv
<1> USE DEF connVars
<1>0. ASSUME at' = at, UNCHANGED <<config, conn, perIP, inside, wrapper>> PROVE WrappersAreCounted'
  BY <1>0, SameWrappers
<1>G. ASSUME NEW c \in Conns, NEW l \in Locations \ {"none"}, at' = [at EXCEPT ![c] = l]
      PROVE  \A d \in Conns : at'[d] = "none" => at[d] = "none"
  BY <1>G, <1>T DEF ServerTypeOK
<1>1. CASE ServeLoop
  <2>1. CASE Listen BY <1>0, <2>1 DEF Listen, serveVars
  <2>2. CASE CountListener BY <1>0, <2>2 DEF CountListener, serveVars
  <2>3. CASE AcceptFails BY <1>0, <2>3 DEF AcceptFails, serveVars
  <2>4. ASSUME NEW c \in Conns, Accept(c) PROVE WrappersAreCounted' BY <2>4, AcceptWraps
  <2>5. ASSUME NEW c \in Conns, Count(c) PROVE WrappersAreCounted'
    BY <1>0, <2>5 DEF Count, serveVars
  <2>6. ASSUME NEW c \in Conns, Dispatch(c) PROVE WrappersAreCounted'
    BY <1>G, <2>6, SameWrappers DEF Dispatch, Goto, Locations
  <2>7. ASSUME NEW c \in Conns, Overflow(c) PROVE WrappersAreCounted'
    <3>1. Owned(c) BY <2>7, OwnedInServing DEF Overflow
    <3>2. /\ Close(Key(c)) /\ UNCHANGED <<config, wrapper>> /\ at' = [at EXCEPT ![c] = "gone"]
      BY <2>7 DEF Overflow, Goto
    <3>3. \A d \in Conns : at'[d] = "none" => at[d] = "none" BY <1>G, <3>2 DEF Locations
    <3> QED BY <3>1, <3>2, <3>3, OwnerCloses
  <2> QED BY <1>1, <2>1, <2>2, <2>3, <2>4, <2>5, <2>6, <2>7 DEF ServeLoop
<1>2. CASE PoolStep BY <1>0, <1>2 DEF PoolStep, serveVars
<1>3. ASSUME NEW w \in Workers, WorkerStep(w) PROVE WrappersAreCounted'
  <2>1. CASE Begin(w)
    <3>1. UNCHANGED <<config, conn, perIP, inside, wrapper>> BY <2>1 DEF Begin
    <3>2. CASE Head(ch[w]) = None BY <1>0, <2>1, <3>1, <3>2 DEF Begin, serveVars
    <3>3. CASE Head(ch[w]) # None
      <4>1. at' = [at EXCEPT ![Head(ch[w])] = "next"] BY <2>1, <3>3 DEF Begin, Goto
      <4>2. \A d \in Conns : at'[d] = "none" => at[d] = "none" BY <4>1, <1>T DEF ServerTypeOK
      <4> QED BY <3>1, <4>2, SameWrappers
    <3> QED BY <3>2, <3>3
  <2>2. CASE WorkerReleases(w)
    <3>1. at' = [at EXCEPT ![serving[w]] = "gone"] BY <2>2 DEF WorkerReleases, Goto
    <3>2. \A d \in Conns : at'[d] = "none" => at[d] = "none" BY <3>1, <1>T DEF ServerTypeOK
    <3> QED BY <2>2, <3>2, SameWrappers DEF WorkerReleases
  <2> QED BY <1>3, <2>1, <2>2 DEF WorkerStep
<1>4. ASSUME NEW c \in Conns, ServeStep(c) \/ FirstByte(c) \/ NothingRead(c) \/ HijackEnds(c)
      PROVE  WrappersAreCounted'
  <2>1. CASE Return(c)
    <3>1. at' = [at EXCEPT ![c] = "returned"] BY <2>1 DEF Return
    <3>2. \A d \in Conns : at'[d] = "none" => at[d] = "none" BY <1>G, <3>1 DEF Locations
    <3> QED BY <2>1, <3>2, SameWrappers DEF Return
  <2>2. CASE WorkerCloses(c)
    <3>1. at[c] = "returned" /\ at' = [at EXCEPT ![c] = "closed"] /\ UNCHANGED <<config, wrapper>>
      BY <2>2 DEF WorkerCloses, Goto
    <3>2. \A d \in Conns : at'[d] = "none" => at[d] = "none" BY <1>G, <3>1 DEF Locations
    <3>3. CASE hijack[c] \in {"running", "ended"}
      BY <2>2, <3>1, <3>2, <3>3, SameWrappers DEF WorkerCloses
    <3>4. CASE hijack[c] \notin {"running", "ended"}
      <4>1. Close(Key(c)) /\ Owned(c) BY <2>2, <3>1, <3>4 DEF WorkerCloses, Owned
      <4> QED BY <3>1, <3>2, <4>1, OwnerCloses
    <3> QED BY <3>3, <3>4
  <2>3. CASE HijackEnds(c)
    <3>1. Close(Key(c)) /\ UNCHANGED <<config, wrapper, at>> BY <2>3 DEF HijackEnds
    <3>2. Owned(c) BY <2>3 DEF HijackEnds, Owned
    <3> QED BY <3>1, <3>2, OwnerCloses
  <2>4. CASE ~(Return(c) \/ WorkerCloses(c) \/ HijackEnds(c))
    <3>1. Moves(c) BY <1>4, <1>T, <2>4, MovesSteps DEF ServeStep
    <3>2. UNCHANGED <<config, conn, perIP, inside, wrapper>>
      BY <1>4, <2>4 DEF ServeStep, FirstByte, NothingRead, SetActive, ReadRequest, ReadFails,
         Handle, HandleAside, InTime, TimesOut, LastResponse, Respond, StartHijack, SetIdle,
         NextRequest
    <3>3. \A d \in Conns : at'[d] = "none" => at[d] = "none"
      BY <3>1, <1>T DEF Moves, Busy, Early, ServerTypeOK
    <3> QED BY <3>2, <3>3, SameWrappers
  <2> QED BY <2>1, <2>2, <2>3, <2>4
<1>5. CASE \E x \in Contexts : HandlerReturns(x) BY <1>0, <1>5 DEF HandlerReturns, serveVars
<1>6. CASE ShutdownEarly BY <1>0, <1>6 DEF ShutdownEarly, serveVars
<1>7. CASE Shutdown BY <1>0, <1>7 DEF Shutdown, serveVars
<1>8. CASE ShutdownReturns BY <1>0, <1>8 DEF ShutdownReturns, serveVars
<1>9. CASE CloseIdleConns BY <1>9, IdleHasNoWrapper
<1>10. CASE UNCHANGED vars BY <1>0, <1>10 DEF vars, serveVars
<1> QED BY <1>1, <1>2, <1>3, <1>4, <1>5, <1>6, <1>7, <1>8, <1>9, <1>10 DEF Next

-----------------------------------------------------------------------------
(* Hijacked connections                                                    *)

(* What is done to one connection touches no other without wrappers. *)
LEMMA OneIsTouched ==
  ASSUME HijackedIsUntracked, UNCHANGED config, NEW c \in Conns,
         config.maxConnsPerIP = 0 =>
           /\ \A d \in Conns : d # c =>
                /\ at'[d] = at[d] /\ hijack'[d] = hijack[d]
                /\ conn'[d] = conn[d] /\ table'[d] = table[d]
           /\ at'[c] = "answered" => conn'[c] = "open"
           /\ hijack'[c] = "running" => conn'[c] = "open" /\ table'[c] = "none"
  PROVE  HijackedIsUntracked'
<1> SUFFICES ASSUME config.maxConnsPerIP = 0, NEW d \in Conns
             PROVE  /\ at'[d] = "answered" => conn'[d] = "open"
                    /\ hijack'[d] = "running" => conn'[d] = "open" /\ table'[d] = "none"
  BY DEF HijackedIsUntracked
<1>1. CASE d = c BY <1>1
<1>2. CASE d # c BY <1>2 DEF HijackedIsUntracked
<1> QED BY <1>1, <1>2

LEMMA OwnKey ==
  ASSUME ServerTypeOK, WrappersAreCounted, config.maxConnsPerIP = 0, NEW c \in Conns
  PROVE  /\ Key(c) = c
         /\ \A s : SetState(c, s) =>
              \A d \in Conns : table'[d] = IF d = c THEN s ELSE table[d]
         /\ Close(Key(c)) =>
              \A d \in Conns : conn'[d] = IF d = c THEN "closed" ELSE conn[d]
<1>1. Key(c) = c /\ c \notin Wrappers BY ConstantsAssumption DEF WrappersAreCounted, Key
<1>2. DOMAIN table = Conns \cup Wrappers BY DEF ServerTypeOK
<1> QED BY <1>1, <1>2 DEF SetState, Close, Closed

LEMMA SameHijacks ==
  ASSUME HijackedIsUntracked, UNCHANGED <<config, at, hijack, conn, table>>
  PROVE  HijackedIsUntracked'
BY DEF HijackedIsUntracked

LEMMA UntrackedKeeps ==
  ASSUME PoolInv, ServerInv, WrappersAreCounted, HijackedIsUntracked, [Next]_vars
  PROVE  HijackedIsUntracked'
<1>T. /\ at \in [Conns -> Locations] /\ conn \in [Conns -> {"absent", "open", "closed"}]
      /\ hijack \in [Conns -> {"none", "wanted", "running", "ended"}]
      /\ ServerTypeOK
  BY DEF ServerInv, ServerTypeOK
<1>H. \A c \in Conns : hijack[c] = "running" => at[c] \in Late \cup {"return"}
  BY DEF ServerInv, HijackIsLast
<1> USE DEF connVars, serveVars
<1>1. CASE ServeLoop
  <2>1. CASE Listen BY <2>1, SameHijacks DEF Listen
  <2>2. CASE CountListener BY <2>2, SameHijacks DEF CountListener
  <2>3. CASE AcceptFails BY <2>3, SameHijacks DEF AcceptFails
  <2>4. ASSUME NEW c \in Conns, Accept(c) PROVE HijackedIsUntracked'
    <3>1. at[c] = "none" /\ hijack[c] = "none" BY <2>4 DEF Accept, ServerInv, Fresh
    <3>2. UNCHANGED <<config, hijack, table>> BY <2>4 DEF Accept
    <3>3. \E s \in {"open", "closed"} : conn' = [conn EXCEPT ![c] = s] BY <2>4 DEF Accept
    <3>4. at' = at \/ at' = [at EXCEPT ![c] = "new"] BY <2>4 DEF Accept
    <3>5. \A d \in Conns : d # c => at'[d] = at[d] /\ conn'[d] = conn[d] BY <1>T, <3>3, <3>4
    <3>6. at'[c] \in {"none", "new"} BY <1>T, <3>1, <3>4
    <3> QED BY <3>1, <3>2, <3>5, <3>6, OneIsTouched
  <2>5. ASSUME NEW c \in Conns, Count(c) PROVE HijackedIsUntracked'
    <3>1. at[c] = "new" /\ SetState(c, "new") /\ UNCHANGED <<config, at, hijack, conn>>
      BY <2>5 DEF Count
    <3>2. hijack[c] # "running" BY <1>H, <3>1 DEF Late
    <3> QED BY <1>T, <3>1, <3>2, OwnKey, OneIsTouched
  <2>6. ASSUME NEW c \in Conns, Dispatch(c) PROVE HijackedIsUntracked'
    <3>1. /\ at[c] = "new" /\ at' = [at EXCEPT ![c] = "queued"]
          /\ UNCHANGED <<config, hijack, conn, table>>
      BY <2>6 DEF Dispatch, Goto
    <3>2. hijack[c] # "running" BY <1>H, <3>1 DEF Late
    <3> QED BY <1>T, <3>1, <3>2, OneIsTouched
  <2>7. ASSUME NEW c \in Conns, Overflow(c) PROVE HijackedIsUntracked'
    <3>1. /\ at[c] = "new" /\ at' = [at EXCEPT ![c] = "gone"]
          /\ Close(Key(c)) /\ SetState(c, "none") /\ UNCHANGED <<config, hijack>>
      BY <2>7 DEF Overflow, Goto
    <3>2. hijack[c] # "running" BY <1>H, <3>1 DEF Late
    <3> QED BY <1>T, <3>1, <3>2, OwnKey, OneIsTouched
  <2> QED BY <1>1, <2>1, <2>2, <2>3, <2>4, <2>5, <2>6, <2>7 DEF ServeLoop
<1>2. CASE PoolStep BY <1>2, SameHijacks DEF PoolStep
<1>3. ASSUME NEW w \in Workers, WorkerStep(w) PROVE HijackedIsUntracked'
  <2>1. CASE Begin(w)
    <3>1. UNCHANGED <<config, conn, table, hijack>> BY <2>1 DEF Begin, Goto
    <3>2. CASE Head(ch[w]) = None BY <2>1, <3>1, <3>2, SameHijacks DEF Begin
    <3>3. CASE Head(ch[w]) # None
      <4>1. at' = [at EXCEPT ![Head(ch[w])] = "next"] BY <2>1, <3>3 DEF Begin, Goto
      <4>2. \A d \in Conns : at'[d] = "answered" => at[d] = "answered" BY <4>1, <1>T
      <4> QED BY <3>1, <4>2 DEF HijackedIsUntracked
    <3> QED BY <3>2, <3>3
  <2>2. CASE WorkerReleases(w)
    <3>1. serving[w] \in Conns BY <2>2 DEF WorkerReleases, PoolInv, WorkersHaveWork
    <3>2. /\ at' = [at EXCEPT ![serving[w]] = "gone"] /\ SetState(serving[w], "none")
          /\ UNCHANGED <<config, hijack, conn>>
      BY <2>2 DEF WorkerReleases, Goto
    <3>3. config.maxConnsPerIP = 0 /\ hijack'[serving[w]] = "running" => conn'[serving[w]] = "open"
      BY <3>1, <3>2 DEF HijackedIsUntracked
    <3> QED BY <1>T, <3>1, <3>2, <3>3, OwnKey, OneIsTouched
  <2> QED BY <1>3, <2>1, <2>2 DEF WorkerStep
<1>4. ASSUME NEW c \in Conns, ServeStep(c) \/ FirstByte(c) \/ NothingRead(c) \/ HijackEnds(c)
      PROVE  HijackedIsUntracked'
  <2>0. ASSUME NEW l \in Locations, at' = [at EXCEPT ![c] = l], l # "answered",
               UNCHANGED <<config, conn>>,
               hijack' = hijack \/ \E h \in {"none", "wanted"} : hijack' = [hijack EXCEPT ![c] = h],
               table' = table \/ (hijack'[c] # "running" /\ \E s : SetState(c, s))
        PROVE  HijackedIsUntracked'
    <3>1. /\ at'[c] = l /\ \A d \in Conns : d # c => at'[d] = at[d] /\ hijack'[d] = hijack[d]
          /\ hijack'[c] = "running" => hijack[c] = "running"
      BY <2>0, <1>T
    <3>2. config.maxConnsPerIP = 0 => \A d \in Conns : d # c => table'[d] = table[d]
      BY <2>0, <1>T, OwnKey
    <3>3. config.maxConnsPerIP = 0 /\ hijack'[c] = "running" => conn'[c] = "open" /\ table'[c] = "none"
      BY <2>0, <3>1 DEF HijackedIsUntracked
    <3> QED BY <2>0, <3>1, <3>2, <3>3, OneIsTouched
  <2> USE DEF Goto, Locations, serverVars
  <2>1. CASE SetActive(c)
    <3>1. hijack[c] # "running" BY <1>H, <2>1 DEF SetActive, Late
    <3> QED BY <2>0, <2>1, <3>1 DEF SetActive
  <2>2. CASE ReadRequest(c) BY <2>0, <2>2 DEF ReadRequest
  <2>3. CASE ReadFails(c) BY <2>0, <2>3 DEF ReadFails
  <2>4. CASE Handle(c) BY <2>0, <2>4 DEF Handle
  <2>5. CASE HandleAside(c) BY <2>0, <2>5 DEF HandleAside
  <2>6. CASE InTime(c) BY <2>0, <2>6 DEF InTime
  <2>7. CASE TimesOut(c) BY <2>0, <2>7 DEF TimesOut
  <2>8. CASE LastResponse(c) BY <2>0, <2>8 DEF LastResponse
  <2>9. CASE Respond(c)
    <3>1. /\ at[c] = "respond" /\ conn[c] = "open" /\ at' = [at EXCEPT ![c] = "answered"]
          /\ UNCHANGED <<config, hijack, conn, table>>
      BY <2>9 DEF Respond
    <3>2. hijack[c] # "running" BY <1>H, <3>1 DEF Late
    <3> QED BY <1>T, <3>1, <3>2, OneIsTouched
  <2>10. CASE StartHijack(c)
    <3>1. /\ at[c] = "answered" /\ at' = [at EXCEPT ![c] = "return"]
          /\ hijack' = [hijack EXCEPT ![c] = "running"]
          /\ UNCHANGED <<config, conn, table>>
      BY <2>10 DEF StartHijack
    <3>2. table[Key(c)] = "none" BY <3>1 DEF ServerInv, ActiveIsUntracked, Active
    <3>3. config.maxConnsPerIP = 0 => conn[c] = "open" /\ table[c] = "none"
      BY <1>T, <3>1, <3>2, OwnKey DEF HijackedIsUntracked
    <3> QED BY <1>T, <3>1, <3>3, OneIsTouched
  <2>11. CASE SetIdle(c) BY <2>0, <2>11 DEF SetIdle
  <2>12. CASE NextRequest(c)
    <3>1. \E l \in {"return", "next"} : at' = [at EXCEPT ![c] = l] BY <2>12 DEF NextRequest
    <3> QED BY <2>0, <2>12, <3>1 DEF NextRequest
  <2>13. CASE Return(c) BY <2>0, <2>13 DEF Return
  <2>14. CASE WorkerCloses(c)
    <3>1. /\ at' = [at EXCEPT ![c] = "closed"] /\ UNCHANGED <<config, hijack, table>>
      BY <2>14 DEF WorkerCloses
    <3>2. CASE hijack[c] \in {"running", "ended"} BY <2>0, <2>14, <3>1, <3>2 DEF WorkerCloses
    <3>3. CASE hijack[c] \notin {"running", "ended"}
      <4>1. Close(Key(c)) BY <2>14, <3>3 DEF WorkerCloses
      <4> QED BY <1>T, <3>1, <3>3, <4>1, OwnKey, OneIsTouched
    <3> QED BY <3>2, <3>3
  <2>15. CASE HijackEnds(c)
    <3>1. /\ at[c] \in Late /\ hijack' = [hijack EXCEPT ![c] = "ended"] /\ Close(Key(c))
          /\ UNCHANGED <<config, at, table>>
      BY <2>15 DEF HijackEnds, Late
    <3>2. at[c] # "answered" BY <3>1 DEF Late
    <3> QED BY <1>T, <3>1, <3>2, OwnKey, OneIsTouched
  <2>16. CASE FirstByte(c) BY <2>0, <2>16 DEF FirstByte
  <2>17. CASE NothingRead(c) BY <2>0, <2>17 DEF NothingRead
  <2> QED BY <1>4, <2>1, <2>2, <2>3, <2>4, <2>5, <2>6, <2>7, <2>8, <2>9, <2>10, <2>11, <2>12,
             <2>13, <2>14, <2>15, <2>16, <2>17 DEF ServeStep
<1>5. CASE \E x \in Contexts : HandlerReturns(x) BY <1>5, SameHijacks DEF HandlerReturns
<1>6. CASE ShutdownEarly BY <1>6, SameHijacks DEF ShutdownEarly
<1>7. CASE Shutdown BY <1>7, SameHijacks DEF Shutdown
<1>8. CASE ShutdownReturns BY <1>8, SameHijacks DEF ShutdownReturns
<1>9. CASE CloseIdleConns
  <2>1. PICK k \in DOMAIN table :
          table[k] # "none" /\ Close(k) /\ table' = [table EXCEPT ![k] = "none"]
    BY <1>9 DEF CloseIdleConns
  <2>2. UNCHANGED <<config, at, hijack>> BY <1>9 DEF CloseIdleConns
  <2> SUFFICES ASSUME config.maxConnsPerIP = 0, NEW c \in Conns,
                      at[c] = "answered" \/ hijack[c] = "running"
               PROVE  /\ at[c] = "answered" => conn'[c] = "open"
                      /\ hijack[c] = "running" => conn'[c] = "open" /\ table'[c] = "none"
    BY <2>2 DEF HijackedIsUntracked
  <2>3. conn[c] = "open" BY DEF HijackedIsUntracked
  <2>4. Key(c) = c /\ DOMAIN table = Conns \cup Wrappers BY <1>T, OwnKey DEF ServerTypeOK
  <2>5. table[c] = "none"
    BY <2>4 DEF HijackedIsUntracked, ServerInv, ActiveIsUntracked, Active
  <2>6. Closed(k) # c
    <3>1. \A o \in Wrappers : inside[o] = None BY DEF WrappersAreCounted
    <3>2. c # None BY ConstantsAssumption
    <3> QED BY <2>1, <2>5, <3>1, <3>2 DEF Closed
  <2> QED BY <2>1, <2>3, <2>4, <2>5, <2>6 DEF Close
<1>10. CASE UNCHANGED vars BY <1>10, SameHijacks DEF vars
<1> QED BY <1>1, <1>2, <1>3, <1>4, <1>5, <1>6, <1>7, <1>8, <1>9, <1>10 DEF Next

-----------------------------------------------------------------------------
(* Contexts                                                                *)

LEMMA InUse == \A x : x \in Held <=> x # None /\ \E c \in Conns : ctx[c] = x
BY DEF Held

LEMMA InUseAfter == \A x : x \in Held' <=> x # None /\ \E c \in Conns : ctx'[c] = x
BY DEF Held

(* There is always a context to be had, and it is nobody's. *)
LEMMA AvailableIsFree ==
  ASSUME PoolTypeOK, ContextsAreHeld, ContextsAreOwn
  PROVE  Available \in Contexts /\ Available \notin Held \cup late
<1>1. CASE ctxPool # {}
  <2>1. Available \in ctxPool BY <1>1 DEF Available
  <2> QED BY <2>1 DEF ContextsAreHeld, ContextsAreOwn
<1>2. CASE ctxPool = {}
  <2>1. IsFiniteSet(Conns) /\ Cardinality(Conns) \in Nat /\ Cardinality(Workers) \in Nat
    BY ConstantsAssumption, FS_CardinalityType
  <2>2. /\ IsFiniteSet({ctx[c] : c \in Conns})
        /\ Cardinality({ctx[c] : c \in Conns}) <= Cardinality(Conns)
    <3>1. ctx \in Surjection(Conns, {ctx[c] : c \in Conns})
      BY DEF Surjection, ContextsAreHeld
    <3> QED BY <2>1, <3>1, FS_Surjection
  <2>3. /\ IsFiniteSet(Held) /\ Cardinality(Held) \in Nat
        /\ Cardinality(Held) <= Cardinality({ctx[c] : c \in Conns})
        /\ Cardinality({ctx[c] : c \in Conns}) \in Nat
    BY <2>2, FS_Subset, FS_CardinalityType DEF Held
  <2>4. IsFiniteSet(late) /\ Cardinality(late) \in Nat
    BY ContextsAssumption, FS_Subset, FS_CardinalityType DEF ContextsAreHeld
  <2>5. Cardinality(late) <= Cardinality(Workers)
    BY <2>1, <2>4 DEF ContextsAreHeld, PoolTypeOK
  <2>6. IsFiniteSet(Held \cap late) /\ Cardinality(Held \cap late) \in Nat
    BY <2>3, FS_Subset, FS_CardinalityType
  <2>7. Cardinality(Held \cup late) = Cardinality(Held) + Cardinality(late) - Cardinality(Held \cap late)
    BY <2>3, <2>4, FS_Union
  <2>8. Cardinality(Held \cup late) <= Cardinality(Conns) + Cardinality(Workers)
    BY ONLY <2>1, <2>2, <2>3, <2>4, <2>5, <2>6, <2>7
  <2>9. Held \cup late # Contexts
    <3> SUFFICES ASSUME Held \cup late = Contexts PROVE FALSE OBVIOUS
    <3>1. Cardinality(Contexts) \in Nat BY ContextsAssumption, FS_CardinalityType
    <3>2. Cardinality(Contexts) <= Cardinality(Conns) + Cardinality(Workers) BY <2>8
    <3>3. Cardinality(Contexts) > Cardinality(Conns) + Cardinality(Workers)
      BY ContextsAssumption
    <3> QED BY ONLY <2>1, <3>1, <3>2, <3>3
  <2>10. Held \cup late \subseteq Contexts BY InUse DEF ContextsAreHeld
  <2>11. \E x \in Contexts \ (Held \cup late) : TRUE BY <2>9, <2>10
  <2>12. Available = CHOOSE x \in Contexts \ (Held \cup late) : TRUE BY <1>2 DEF Available
  <2> QED BY <2>11, <2>12
<1> QED BY <1>1, <1>2

(* A connection takes the available context. *)
LEMMA AcquireKeeps ==
  ASSUME PoolTypeOK, ContextsAreHeld, ContextsAreOwn, NEW c \in Conns,
         ctx' = [ctx EXCEPT ![c] = Available], ctxPool' = ctxPool \ {Available},
         UNCHANGED <<late, maxWorkersCount>>,
         \A d \in Conns : d # c => at'[d] = at[d] /\ hijack'[d] = hijack[d]
  PROVE  ContextsAreHeld' /\ ContextsAreOwn'
<1>1. Available \in Contexts /\ Available \notin Held \cup late /\ Available # None
  BY AvailableIsFree, ContextsAssumption
<1>2. ctx'[c] = Available /\ \A d \in Conns : d # c => ctx'[d] = ctx[d]
  BY DEF ContextsAreHeld
<1>3. ctx' \in [Conns -> Contexts \cup {None}] BY <1>1 DEF ContextsAreHeld
<1>4. \A d \in Conns : ctx[d] # Available BY <1>1, InUse
<1>5. ContextsAreHeld' BY <1>1, <1>2, <1>3 DEF ContextsAreHeld
<1>6. Held' \subseteq Held \cup {Available} BY <1>2, InUse, InUseAfter
<1>7. ctxPool' \cap (Held' \cup late') = {} BY <1>6 DEF ContextsAreOwn
<1>8. \A d, e \in Conns : d # e /\ ctx'[d] # None => ctx'[d] # ctx'[e]
  BY <1>1, <1>2, <1>4 DEF ContextsAreOwn
<1> QED BY <1>5, <1>7, <1>8 DEF ContextsAreOwn

(* A connection lets go of its context, into the pool if nobody has it. *)
LEMMA ReleaseKeeps ==
  ASSUME ContextsAreHeld, ContextsAreOwn, NEW c \in Conns,
         ctx' = [ctx EXCEPT ![c] = None],
         \/ ctxPool' = ctxPool
         \/ ctxPool' = ctxPool \cup {ctx[c]} /\ ctx[c] # None /\ ctx[c] \notin late,
         at'[c] \notin Busy, hijack'[c] # "running",
         UNCHANGED <<late, maxWorkersCount>>,
         \A d \in Conns : d # c => at'[d] = at[d] /\ hijack'[d] = hijack[d]
  PROVE  ContextsAreHeld' /\ ContextsAreOwn'
<1>1. ctx'[c] = None /\ \A d \in Conns : d # c => ctx'[d] = ctx[d]
  BY DEF ContextsAreHeld
<1>2. ctx' \in [Conns -> Contexts \cup {None}] /\ ctxPool' \subseteq Contexts
  BY DEF ContextsAreHeld
<1>3. None \notin late BY ContextsAssumption DEF ContextsAreHeld
<1>4. ContextsAreHeld' BY <1>1, <1>2, <1>3 DEF ContextsAreHeld
<1>5. Held' \subseteq Held BY <1>1, InUse, InUseAfter
<1>6. ctx[c] \notin Held'
  <2> SUFFICES ASSUME ctx[c] # None, NEW d \in Conns, ctx'[d] = ctx[c] PROVE FALSE
    BY InUseAfter
  <2> QED BY <1>1 DEF ContextsAreOwn
<1>7. ctxPool' \cap (Held' \cup late') = {} BY <1>5, <1>6 DEF ContextsAreOwn
<1>8. \A d, e \in Conns : d # e /\ ctx'[d] # None => ctx'[d] # ctx'[e]
  BY <1>1 DEF ContextsAreOwn
<1> QED BY <1>4, <1>7, <1>8 DEF ContextsAreOwn

LEMMA SameContexts ==
  ASSUME ContextsAreHeld, ContextsAreOwn, UNCHANGED <<ctxVars, maxWorkersCount>>,
         \A c \in Conns :
           /\ at'[c] \in Busy => at[c] \in Busy
           /\ hijack'[c] = "running" => hijack[c] = "running" \/ at[c] \in Busy
           /\ at[c] = "aside" => at'[c] = "aside" \/ ctx[c] \notin late
  PROVE  ContextsAreHeld' /\ ContextsAreOwn'
<1> USE DEF ctxVars
<1>1. ContextsAreHeld' BY DEF ContextsAreHeld
<1>2. Held' = Held BY DEF Held
<1>3. ContextsAreOwn' BY <1>2 DEF ContextsAreOwn
<1> QED BY <1>1, <1>3

LEMMA LateIsFinite ==
  ContextsAreHeld => IsFiniteSet(late) /\ Cardinality(late) \in Nat
BY ContextsAssumption, FS_Subset, FS_CardinalityType DEF ContextsAreHeld

LEMMA AsideKeeps ==
  ASSUME PoolTypeOK, ServerTypeOK, ContextsAreHeld, ContextsAreOwn,
         NEW c \in Conns, HandleAside(c)
  PROVE  ContextsAreHeld' /\ ContextsAreOwn'
<1>1. /\ at[c] = "handle" /\ Cardinality(late) < maxWorkersCount
      /\ late' = late \cup {ctx[c]} /\ at' = [at EXCEPT ![c] = "aside"]
      /\ UNCHANGED <<hijack, ctx, ctxPool, maxWorkersCount>>
  BY DEF HandleAside, Goto, poolVars
<1>2. at'[c] = "aside" /\ \A d \in Conns : d # c => at'[d] = at[d]
  BY <1>1 DEF ServerTypeOK
<1>3. ctx[c] \in Contexts
  <2>1. at[c] \in Busy BY <1>1 DEF Busy, Locations, Early, Late
  <2> QED BY <2>1 DEF ContextsAreHeld
<1>4. Cardinality(late') <= maxWorkersCount'
  <2>1. CASE ctx[c] \in late
    <3>1. late' = late BY <1>1, <2>1
    <3> QED BY <1>1, <3>1 DEF ContextsAreHeld
  <2>2. CASE ctx[c] \notin late
    <3>1. Cardinality(late') = Cardinality(late) + 1 BY <1>1, <2>2, LateIsFinite, FS_AddElement
    <3>2. maxWorkersCount \in Nat
      <4>1. Cardinality(Workers) \in Nat BY ConstantsAssumption, FS_CardinalityType
      <4> QED BY <4>1 DEF PoolTypeOK
    <3> QED BY <1>1, <3>1, <3>2, LateIsFinite
  <2> QED BY <2>1, <2>2
<1>5. \A d \in Conns : d # c => ctx[d] # ctx[c]
  <2>1. ctx[c] # None BY <1>3, ContextsAssumption
  <2> QED BY <2>1 DEF ContextsAreOwn
<1>6. \A d \in Conns : ctx[d] \in late' => at'[d] = "aside"
  BY <1>1, <1>2, <1>5 DEF ContextsAreHeld
<1>7. \A d \in Conns : at'[d] \in Busy \/ hijack'[d] = "running" => ctx'[d] # None
  <2>1. ctx[c] # None BY <1>3, ContextsAssumption
  <2> QED BY <1>1, <1>2, <2>1 DEF ContextsAreHeld
<1>8. ContextsAreHeld' BY <1>1, <1>3, <1>4, <1>6, <1>7 DEF ContextsAreHeld
<1>9. Held' = Held /\ ctx[c] \in Held
  <2>1. ctx[c] # None BY <1>3, ContextsAssumption
  <2> QED BY <1>1, <2>1 DEF Held
<1>10. ContextsAreOwn' BY <1>1, <1>9 DEF ContextsAreOwn
<1> QED BY <1>8, <1>10

LEMMA LateLeaves ==
  ASSUME PoolTypeOK, ContextsAreHeld, ContextsAreOwn, NEW x \in Contexts, HandlerReturns(x)
  PROVE  ContextsAreHeld' /\ ContextsAreOwn'
<1>1. late' = late \ {x} /\ UNCHANGED <<at, hijack, ctx, ctxPool, maxWorkersCount>>
  BY DEF HandlerReturns, serveVars, poolVars
<1>2. Cardinality(late') <= Cardinality(late) /\ Cardinality(late') \in Nat
  <2>1. late' \subseteq late BY <1>1
  <2>2. IsFiniteSet(late') /\ Cardinality(late') <= Cardinality(late)
    BY <2>1, LateIsFinite, FS_Subset
  <2> QED BY <2>2, FS_CardinalityType
<1>3. Cardinality(late') <= maxWorkersCount'
  <2>1. Cardinality(Workers) \in Nat BY ConstantsAssumption, FS_CardinalityType
  <2>2. maxWorkersCount \in Nat /\ Cardinality(late) <= maxWorkersCount
    BY <2>1 DEF PoolTypeOK, ContextsAreHeld
  <2> QED BY <1>1, <1>2, <2>2, LateIsFinite
<1>4. ContextsAreHeld' BY <1>1, <1>3 DEF ContextsAreHeld
<1>5. Held' = Held BY <1>1 DEF Held
<1>6. ContextsAreOwn' BY <1>1, <1>5 DEF ContextsAreOwn
<1> QED BY <1>4, <1>6

LEMMA BeginAcquires ==
  ASSUME PoolInv, ServerInv, ContextsAreHeld, ContextsAreOwn, NEW w \in Workers, Begin(w)
  PROVE  ContextsAreHeld' /\ ContextsAreOwn'
<1>T. PoolTypeOK /\ ServerTypeOK BY DEF PoolInv, ServerInv
<1>1. ch[w] # <<>> /\ UNCHANGED <<late, maxWorkersCount>> BY DEF Begin, Receive
<1>2. Head(ch[w]) \in Conns \cup {None} BY <1>1, <1>T DEF PoolTypeOK
<1>3. CASE Head(ch[w]) = None
  <2>1. UNCHANGED <<ctxVars, at, hijack, maxWorkersCount>>
    BY <1>1, <1>3 DEF Begin, serveVars, ctxVars
  <2> QED BY <2>1, SameContexts
<1>4. CASE Head(ch[w]) # None
  <2> DEFINE c == Head(ch[w])
  <2>1. /\ c \in Conns /\ ctx' = [ctx EXCEPT ![c] = Available]
        /\ ctxPool' = ctxPool \ {Available}
        /\ at' = [at EXCEPT ![c] = "next"] /\ hijack' = hijack
    BY <1>2, <1>4 DEF Begin, AcquireCtx, Goto
  <2>2. \A d \in Conns : d # c => at'[d] = at[d] /\ hijack'[d] = hijack[d]
    BY <2>1, <1>T DEF ServerTypeOK
  <2> HIDE DEF c
  <2> QED BY <1>1, <1>T, <2>1, <2>2, AcquireKeeps
<1> QED BY <1>3, <1>4

LEMMA ReturnReleases ==
  ASSUME ServerInv, ContextsAreHeld, ContextsAreOwn, NEW c \in Conns, Return(c)
  PROVE  ContextsAreHeld' /\ ContextsAreOwn'
<1>1. /\ at[c] = "return" /\ at' = [at EXCEPT ![c] = "returned"]
      /\ UNCHANGED <<hijack, late, maxWorkersCount>>
      /\ IF hijack[c] = "none"
         THEN ctxPool' = ctxPool \cup {ctx[c]} /\ ctx' = [ctx EXCEPT ![c] = None]
         ELSE /\ ctx' = IF hijack[c] = "wanted" THEN [ctx EXCEPT ![c] = None] ELSE ctx
              /\ UNCHANGED ctxPool
  BY DEF Return, poolVars
<1>2. at'[c] = "returned" /\ \A d \in Conns : d # c => at'[d] = at[d]
  BY <1>1 DEF ServerInv, ServerTypeOK
<1>3. ctx[c] # None /\ ctx[c] \notin late
  <2>1. at[c] \in Busy /\ at[c] # "aside" BY <1>1 DEF Busy, Locations, Early, Late
  <2> QED BY <2>1 DEF ContextsAreHeld
<1>4. at'[c] \notin Busy BY <1>2 DEF Busy, Late
<1>5. CASE hijack[c] = "none" BY <1>1, <1>2, <1>3, <1>4, <1>5, ReleaseKeeps
<1>6. CASE hijack[c] = "wanted" BY <1>1, <1>2, <1>3, <1>4, <1>6, ReleaseKeeps
<1>7. CASE hijack[c] \notin {"none", "wanted"}
  <2>1. UNCHANGED <<ctxVars, maxWorkersCount, hijack>> BY <1>1, <1>7 DEF ctxVars
  <2>2. at[c] # "aside" /\ (at'[c] \in Busy => at[c] \in Busy) BY <1>1, <1>4
  <2> QED BY <1>2, <2>1, <2>2, SameContexts
<1> QED BY <1>5, <1>6, <1>7

LEMMA HijackReleases ==
  ASSUME ServerInv, ContextsAreHeld, ContextsAreOwn, NEW c \in Conns, HijackEnds(c)
  PROVE  ContextsAreHeld' /\ ContextsAreOwn'
<1>1. /\ hijack[c] = "running" /\ at[c] \in Late
      /\ hijack' = [hijack EXCEPT ![c] = "ended"]
      /\ ctxPool' = ctxPool \cup {ctx[c]} /\ ctx' = [ctx EXCEPT ![c] = None]
      /\ UNCHANGED <<at, late, maxWorkersCount>>
  BY DEF HijackEnds, poolVars, Late
<1>2. hijack'[c] = "ended" /\ \A d \in Conns : d # c => hijack'[d] = hijack[d]
  BY <1>1 DEF ServerInv, ServerTypeOK
<1>3. ctx[c] # None /\ ctx[c] \notin late BY <1>1 DEF ContextsAreHeld, Late
<1>4. at'[c] \notin Busy BY <1>1 DEF Busy, Late
<1> QED BY <1>1, <1>2, <1>3, <1>4, ReleaseKeeps

LEMMA ContextsKeep ==
  ASSUME PoolInv, ServerInv, ContextsAreHeld, ContextsAreOwn, [Next]_vars
  PROVE  ContextsAreHeld' /\ ContextsAreOwn'
<1>T. /\ at \in [Conns -> Locations]
      /\ hijack \in [Conns -> {"none", "wanted", "running", "ended"}]
      /\ PoolTypeOK /\ ServerTypeOK
  BY DEF PoolInv, ServerInv, ServerTypeOK
<1>0. ASSUME UNCHANGED <<ctxVars, maxWorkersCount, at, hijack>>
      PROVE  ContextsAreHeld' /\ ContextsAreOwn'
  BY <1>0, SameContexts
<1>A. ASSUME NEW c \in Conns, NEW l \in Locations, at' = [at EXCEPT ![c] = l],
             l \in Busy => at[c] \in Busy,
             at[c] # "aside" \/ ctx[c] \notin late, UNCHANGED <<ctxVars, maxWorkersCount>>,
             \A d \in Conns : hijack'[d] = "running" => hijack[d] = "running" \/ at[d] \in Busy
      PROVE  ContextsAreHeld' /\ ContextsAreOwn'
  <2>1. at'[c] = l /\ \A d \in Conns : d # c => at'[d] = at[d] BY <1>A, <1>T
  <2>2. \A d \in Conns :
          /\ at'[d] \in Busy => at[d] \in Busy
          /\ at[d] = "aside" => at'[d] = "aside" \/ ctx[d] \notin late
    BY <1>A, <2>1
  <2> QED BY <1>A, <2>2, SameContexts
<1> USE DEF poolVars
<1>1. CASE ServeLoop
  <2>1. CASE Listen BY <1>0, <2>1 DEF Listen, serveVars
  <2>2. CASE CountListener BY <1>0, <2>2 DEF CountListener, serveVars
  <2>3. CASE AcceptFails BY <1>0, <2>3 DEF AcceptFails, serveVars, Stop
  <2>4. ASSUME NEW c \in Conns, Accept(c) PROVE ContextsAreHeld' /\ ContextsAreOwn'
    <3>1. at[c] = "none" /\ UNCHANGED <<ctxVars, maxWorkersCount, hijack>>
      BY <2>4 DEF Accept, ServerInv, Fresh
    <3>2. CASE at' = at BY <1>0, <3>1, <3>2
    <3>3. CASE at' = [at EXCEPT ![c] = "new"]
      BY <1>A, <3>1, <3>3 DEF Locations, Busy, Early
    <3> QED BY <2>4, <3>2, <3>3 DEF Accept
  <2>5. ASSUME NEW c \in Conns, Count(c) PROVE ContextsAreHeld' /\ ContextsAreOwn'
    BY <1>0, <2>5 DEF Count, serveVars
  <2>6. ASSUME NEW c \in Conns, Dispatch(c) PROVE ContextsAreHeld' /\ ContextsAreOwn'
    <3>1. /\ at[c] = "new" /\ at' = [at EXCEPT ![c] = "queued"]
          /\ UNCHANGED <<ctxVars, maxWorkersCount, hijack>>
      BY <2>6 DEF Dispatch, ServeReady, ServeNew, Goto
    <3> QED BY <1>A, <3>1 DEF Locations, Busy
  <2>7. ASSUME NEW c \in Conns, Overflow(c) PROVE ContextsAreHeld' /\ ContextsAreOwn'
    <3>1. /\ at[c] = "new" /\ at' = [at EXCEPT ![c] = "gone"]
          /\ UNCHANGED <<ctxVars, maxWorkersCount, hijack>>
      BY <2>7 DEF Overflow, Goto
    <3> QED BY <1>A, <3>1 DEF Locations, Busy, Late
  <2> QED BY <1>1, <2>1, <2>2, <2>3, <2>4, <2>5, <2>6, <2>7 DEF ServeLoop
<1>2. CASE PoolStep
  <2>1. UNCHANGED <<ctxVars, at, hijack>> BY <1>2 DEF PoolStep, serveVars
  <2>2. UNCHANGED maxWorkersCount BY <1>2 DEF PoolStep, Release, Exit, Clean
  <2> QED BY <1>0, <2>1, <2>2
<1>3. ASSUME NEW w \in Workers, WorkerStep(w) PROVE ContextsAreHeld' /\ ContextsAreOwn'
  <2>1. CASE Begin(w) BY <2>1, BeginAcquires
  <2>2. CASE WorkerReleases(w)
    <3>1. serving[w] \in Conns BY <2>2 DEF WorkerReleases, PoolInv, WorkersHaveWork
    <3>2. /\ at[serving[w]] = "closed" /\ at' = [at EXCEPT ![serving[w]] = "gone"]
          /\ UNCHANGED <<ctxVars, maxWorkersCount, hijack>>
      BY <2>2 DEF WorkerReleases, Goto
    <3> QED BY <1>A, <3>1, <3>2 DEF Locations, Busy, Late
  <2> QED BY <1>3, <2>1, <2>2 DEF WorkerStep
<1>4. ASSUME NEW c \in Conns, ServeStep(c) \/ FirstByte(c) \/ NothingRead(c) \/ HijackEnds(c)
      PROVE  ContextsAreHeld' /\ ContextsAreOwn'
  <2>A. ASSUME NEW l \in Busy, at' = [at EXCEPT ![c] = l], at[c] \in Busy,
               at[c] # "aside" \/ ctx[c] \notin late, UNCHANGED <<ctxVars, maxWorkersCount>>,
               \E h \in {"none", "wanted", "running", hijack[c]} : hijack' = [hijack EXCEPT ![c] = h]
        PROVE  ContextsAreHeld' /\ ContextsAreOwn'
    <3>1. l \in Locations BY DEF Busy
    <3>2. \A d \in Conns : hijack'[d] = "running" => hijack[d] = "running" \/ at[d] \in Busy
      BY <2>A, <1>T
    <3> QED BY <1>A, <2>A, <3>1, <3>2
  <2>H. hijack = [hijack EXCEPT ![c] = hijack[c]] BY <1>T
  <2> USE DEF Goto, Busy, Locations, Early, Late, serveVars
  <2>1. CASE SetActive(c) BY <2>A, <2>H, <2>1 DEF SetActive
  <2>2. CASE ReadRequest(c) BY <2>A, <2>H, <2>2 DEF ReadRequest
  <2>3. CASE ReadFails(c) BY <2>A, <2>H, <2>3 DEF ReadFails
  <2>4. CASE Handle(c) BY <2>A, <2>4 DEF Handle
  <2>5. CASE HandleAside(c) BY <1>T, <2>5, AsideKeeps
  <2>6. CASE InTime(c) BY <2>A, <2>H, <2>6 DEF InTime
  <2>7. CASE TimesOut(c)
    <3>1. /\ ctx' = [ctx EXCEPT ![c] = Available] /\ ctxPool' = ctxPool \ {Available}
          /\ UNCHANGED <<late, maxWorkersCount, hijack>> /\ at' = [at EXCEPT ![c] = "respond"]
      BY <2>7 DEF TimesOut, AcquireCtx
    <3>2. \A d \in Conns : d # c => at'[d] = at[d] /\ hijack'[d] = hijack[d] BY <3>1, <1>T
    <3> QED BY <1>T, <3>1, <3>2, AcquireKeeps
  <2>8. CASE LastResponse(c) BY <2>A, <2>H, <2>8 DEF LastResponse
  <2>9. CASE Respond(c) BY <2>A, <2>H, <2>9 DEF Respond
  <2>10. CASE StartHijack(c) BY <2>A, <2>10 DEF StartHijack
  <2>11. CASE SetIdle(c) BY <2>A, <2>H, <2>11 DEF SetIdle
  <2>12. CASE NextRequest(c)
    <3>1. \E l \in {"return", "next"} : at' = [at EXCEPT ![c] = l] BY <2>12 DEF NextRequest
    <3> QED BY <2>A, <2>H, <2>12, <3>1 DEF NextRequest
  <2>13. CASE Return(c) BY <2>13, ReturnReleases
  <2>14. CASE WorkerCloses(c)
    <3>1. /\ at[c] = "returned" /\ at' = [at EXCEPT ![c] = "closed"]
          /\ UNCHANGED <<ctxVars, maxWorkersCount, hijack>>
      BY <2>14 DEF WorkerCloses
    <3> QED BY <1>A, <3>1
  <2>15. CASE HijackEnds(c) BY <2>15, HijackReleases
  <2>16. CASE FirstByte(c) BY <2>A, <2>H, <2>16 DEF FirstByte
  <2>17. CASE NothingRead(c) BY <2>A, <2>H, <2>17 DEF NothingRead
  <2> QED BY <1>4, <2>1, <2>2, <2>3, <2>4, <2>5, <2>6, <2>7, <2>8, <2>9, <2>10, <2>11, <2>12,
             <2>13, <2>14, <2>15, <2>16, <2>17 DEF ServeStep
<1>5. CASE \E x \in Contexts : HandlerReturns(x) BY <1>T, <1>5, LateLeaves
<1>6. CASE ShutdownEarly BY <1>0, <1>6 DEF ShutdownEarly, serveVars
<1>7. CASE Shutdown BY <1>0, <1>7 DEF Shutdown, serveVars
<1>8. CASE ShutdownReturns BY <1>0, <1>8 DEF ShutdownReturns, serveVars
<1>9. CASE CloseIdleConns BY <1>0, <1>9 DEF CloseIdleConns, serveVars
<1>10. CASE UNCHANGED vars BY <1>0, <1>10 DEF vars, serveVars
<1> QED BY <1>1, <1>2, <1>3, <1>4, <1>5, <1>6, <1>7, <1>8, <1>9, <1>10 DEF Next

-----------------------------------------------------------------------------
LEMMA OwnInitial == Init => OwnInv
<1> SUFFICES ASSUME Init PROVE OwnInv OBVIOUS
<1> USE DEF Init, PoolInit
<1>1. ShutdownIsMeant BY DEF ShutdownIsMeant
<1>2. Wrapped = {} BY DEF Wrapped
<1>3. Cardinality(Wrapped) = 0 BY <1>2, FS_EmptySet
<1>4. WrappersAreCounted BY <1>3 DEF WrappersAreCounted
<1>5. HijackedIsUntracked BY DEF HijackedIsUntracked
<1>6. Cardinality(late) = 0 BY FS_EmptySet
<1>7. maxWorkersCount \in 0 .. Cardinality(Workers) BY ConstantsAssumption
<1>8. ContextsAreHeld BY <1>6, <1>7 DEF ContextsAreHeld, Busy, Early
<1>9. ContextsAreOwn BY DEF ContextsAreOwn
<1> QED BY <1>1, <1>4, <1>5, <1>8, <1>9 DEF OwnInv

LEMMA OwnKeeps ==
  ASSUME LimitOrShutdown, PoolInv, ServerInv, OwnInv, [Next]_vars PROVE OwnInv'
<1>1. ShutdownIsMeant' BY MeantKeeps DEF OwnInv
<1>2. WrappersAreCounted' BY WrappersKeep DEF OwnInv
<1>3. HijackedIsUntracked' BY UntrackedKeeps DEF OwnInv
<1>4. ContextsAreHeld' /\ ContextsAreOwn' BY ContextsKeep DEF OwnInv
<1> QED BY <1>1, <1>2, <1>3, <1>4 DEF OwnInv

LEMMA OwnedIsOwn ==
  ASSUME LimitOrShutdown, ServerInv, OwnInv PROVE ConnectionsAreOwn
<1>1. config.maxConnsPerIP # 0 => \A c \in Conns : Owned(c) =>
        conn[c] = "open" /\ (wrapper[c] # None => inside[wrapper[c]] = c)
  BY LimitedListens DEF OwnInv, ServerInv, OneOwner
<1>2. HijackedIsOpen
  <2> SUFFICES ASSUME NEW c \in Conns, hijack[c] = "running" PROVE conn[c] = "open"
    BY DEF HijackedIsOpen
  <2>1. Owned(c) BY DEF ServerInv, HijackIsLast, Owned, Late
  <2> QED BY <1>1, <2>1 DEF OwnInv, HijackedIsUntracked
<1>3. WrappersAreOwn
  <2>1. perIP = Cardinality(Wrapped) BY DEF OwnInv, WrappersAreCounted
  <2> SUFFICES ASSUME NEW c \in Conns, wrapper[c] # None,
                      at[c] \notin {"closed", "gone"}, hijack[c] # "ended"
               PROVE  inside[wrapper[c]] = c
    BY <2>1 DEF WrappersAreOwn, Wrapped
  <2>2. Owned(c) BY DEF OwnInv, WrappersAreCounted, Owned
  <2>3. config.maxConnsPerIP # 0 BY DEF OwnInv, WrappersAreCounted
  <2> QED BY <1>1, <2>2, <2>3
<1> QED BY <1>2, <1>3 DEF ConnectionsAreOwn, OwnInv

(* Unless connections are limited by address and Shutdown is called too: a *)
(* context is used by one connection or one late handler and is pooled     *)
(* when neither has it, a connection that was hijacked stays open until    *)
(* its handler ends, and the address's count and wrappers are right        *)
(* (server.go, acquireCtx, hijackConnHandler; peripconn.go, Close).        *)
THEOREM OwnConnections == LimitOrShutdown => (Spec => []ConnectionsAreOwn)
<1> SUFFICES ASSUME LimitOrShutdown PROVE Spec => []ConnectionsAreOwn OBVIOUS
<1>1. PoolInv /\ ServerInv /\ OwnInv /\ [Next]_vars => OwnInv' BY OwnKeeps
<1>2. ServerInv /\ OwnInv => ConnectionsAreOwn BY OwnedIsOwn
<1> QED BY <1>1, <1>2, OwnInitial, PoolInvariance, ServerInvariance, PTL DEF Spec
=============================================================================
