--------------------------- MODULE PoolTesterProofs ---------------------------
(***************************************************************************)
(* What holds of PoolTester for any number of tasks and goroutines.        *)
(***************************************************************************)
EXTENDS PoolTester, TLAPS

(* Until the first scheduling nothing is scheduled: no tick comes before.  *)
NothingYet ==
  initial = "delayed" =>
    /\ fetcher \in {"idle", "stopped"}
    /\ \A t \in Tasks : channels[t] = None

(* A goroutine is told by its channel for as long as it is known. *)
Linked == NothingYet /\ OneRunnerPerTask

-----------------------------------------------------------------------------
(* What scheduling a set of tasks does: each gets a goroutine that was     *)
(* free, and nothing else changes.                                         *)
LEMMA Scheduled ==
  ASSUME TypeOK, NEW S \in SUBSET Tasks, Schedule(S)
  PROVE  /\ channels' \in [Tasks -> Runners \cup {None}]
         /\ runner' \in [Runners -> {"free", "running", "waiting"}]
         /\ runs' \in [Runners -> Tasks \cup {None}]
         /\ \A t \in Tasks \ S : channels'[t] = channels[t]
         /\ \A g \in Runners : runner'[g] # "free" =>
              \/ runs'[g] \in S /\ channels'[runs'[g]] = g
              \/ runner[g] # "free" /\ runs'[g] = runs[g]
<1>1. PICK go \in Injection(S, {g \in Runners : runner[g] = "free"}) :
         /\ channels' = [t \in Tasks |-> IF t \in S THEN go[t] ELSE channels[t]]
         /\ runner' = [g \in Runners |-> IF g \in Range(go) THEN "running" ELSE runner[g]]
         /\ runs' = [g \in Runners |->
                       IF g \in Range(go) THEN CHOOSE t \in S : go[t] = g ELSE runs[g]]
  BY DEF Schedule
<1>2. DOMAIN go = S /\ \A t \in S : go[t] \in Runners BY <1>1 DEF Injection, IsInjective
<1>3. \A g \in Runners : g \in Range(go) => runs'[g] \in S /\ go[runs'[g]] = g
  <2> SUFFICES ASSUME NEW g \in Runners, g \in Range(go) PROVE runs'[g] \in S /\ go[runs'[g]] = g
    OBVIOUS
  <2>1. PICK t \in S : go[t] = g BY <1>2 DEF Range
  <2>2. runs'[g] = CHOOSE u \in S : go[u] = g BY <1>1
  <2> QED BY <2>1, <2>2
<1>4. \A t \in Tasks : channels'[t] = IF t \in S THEN go[t] ELSE channels[t] BY <1>1
<1>5. \A g \in Runners : g \notin Range(go) => runner'[g] = runner[g] /\ runs'[g] = runs[g] BY <1>1
<1>6. \A g \in Runners : g \in Range(go) => runner'[g] = "running" BY <1>1
<1>7. channels' \in [Tasks -> Runners \cup {None}] BY <1>1, <1>2 DEF TypeOK
<1>8. runner' \in [Runners -> {"free", "running", "waiting"}] BY <1>1 DEF TypeOK
<1>9. runs' \in [Runners -> Tasks \cup {None}]
  <2>1. \A g \in Runners : runs'[g] \in Tasks \cup {None} BY <1>3, <1>5 DEF TypeOK
  <2>2. runs' = [g \in Runners |-> runs'[g]] BY <1>1
  <2> QED BY <2>1, <2>2
<1> QED BY <1>3, <1>4, <1>5, <1>7, <1>8, <1>9

-----------------------------------------------------------------------------
LEMMA TypeInit == Init => TypeOK
BY DEF Init, TypeOK

LEMMA TypeNext == TypeOK /\ [Next]_vars => TypeOK'
<1> SUFFICES ASSUME TypeOK, [Next]_vars PROVE TypeOK' OBVIOUS
<1> USE DEF fetcherVars, runnerVars
<1>1. ASSUME NEW t \in Tasks, AddTask(t) \/ RemoveTask(t) \/ NodesLeave(t) PROVE TypeOK'
  BY <1>1 DEF AddTask, RemoveTask, NodesLeave, TypeOK
<1>2. ASSUME NEW t \in Tasks, StopTask(t) PROVE TypeOK'
  <2>1. channels[t] \in Runners BY <1>2 DEF StopTask, Gone, TypeOK
  <2>2. /\ channels' = [channels EXCEPT ![t] = None]
        /\ runner' = [runner EXCEPT ![channels[t]] = "free"]
        /\ runs' = [runs EXCEPT ![channels[t]] = None]
        /\ tasks' = tasks \ {t}
        /\ UNCHANGED <<redis, initial, fetcher, fetched, pools>>
    BY <1>2 DEF StopTask
  <2>3. \A g \in Runners : runner'[g] # "free" => runner'[g] = runner[g] /\ runs'[g] = runs[g]
    BY <2>1, <2>2 DEF TypeOK
  <2>4. \A u \in Tasks : channels'[u] # None => u # t /\ channels'[u] = channels[u]
    BY <2>2 DEF TypeOK
  <2> QED BY <2>1, <2>2, <2>3, <2>4 DEF TypeOK
<1>3. CASE InitialSchedule
  <2>1. Schedule(tasks) /\ tasks \in SUBSET Tasks BY <1>3 DEF InitialSchedule, TypeOK
  <2> QED BY <1>3, <2>1, Scheduled DEF InitialSchedule, TypeOK
<1>4. CASE Fetch \/ Clean \/ CleanFails \/ Lock \/ Stop
  BY <1>4 DEF Fetch, Clean, CleanFails, Lock, Stop, TypeOK
<1>5. CASE ScheduleNew
  <2> DEFINE S == {t \in tasks : channels[t] = None}
  <2>1. Schedule(S) /\ S \in SUBSET Tasks BY <1>5 DEF ScheduleNew, TypeOK
  <2> HIDE DEF S
  <2>2. \A t \in S : t \in tasks BY DEF S
  <2> QED BY <1>5, <2>1, <2>2, Scheduled DEF ScheduleNew, TypeOK
<1>6. ASSUME NEW g \in Runners, Run(g) \/ Tick(g) PROVE TypeOK'
  BY <1>6 DEF Run, Tick, TypeOK
<1>7. CASE UNCHANGED vars BY <1>7 DEF vars, TypeOK
<1> QED BY <1>1, <1>2, <1>3, <1>4, <1>5, <1>6, <1>7 DEF Next

(* If the first scheduling comes first it meets no goroutine; after it the *)
(* fetcher schedules only tasks without a channel, and so without a        *)
(* goroutine, and takes the channel from a task with its goroutine.        *)
LEMMA LinkedNext == InitialFirst /\ TypeOK /\ Linked /\ [Next]_vars => Linked'
<1> SUFFICES ASSUME InitialFirst, TypeOK, Linked, [Next]_vars PROVE Linked' OBVIOUS
<1> USE ConstantsAssumption DEF fetcherVars, runnerVars, Linked, NothingYet, OneRunnerPerTask
<1>1. ASSUME NEW t \in Tasks, AddTask(t) \/ RemoveTask(t) \/ NodesLeave(t) PROVE Linked'
  BY <1>1 DEF AddTask, RemoveTask, NodesLeave
<1>2. ASSUME NEW t \in Tasks, StopTask(t) PROVE Linked'
  <2>1. channels[t] \in Runners BY <1>2 DEF StopTask, Gone, TypeOK
  <2>2. /\ fetcher = "stop"
        /\ channels' = [channels EXCEPT ![t] = None]
        /\ runner' = [runner EXCEPT ![channels[t]] = "free"]
        /\ runs' = [runs EXCEPT ![channels[t]] = None]
        /\ UNCHANGED <<initial, fetcher>>
    BY <1>2 DEF StopTask
  <2>3. \A g \in Runners : runner'[g] # "free" =>
           g # channels[t] /\ runner[g] # "free" /\ runs'[g] = runs[g]
    BY <2>1, <2>2 DEF TypeOK
  <2>4. \A u \in Tasks : u # t => channels'[u] = channels[u] BY <2>2 DEF TypeOK
  <2>5. OneRunnerPerTask' BY <2>3, <2>4 DEF TypeOK
  <2> QED BY <2>2, <2>5
<1>3. CASE InitialSchedule
  <2>1. Schedule(tasks) /\ tasks \in SUBSET Tasks BY <1>3 DEF InitialSchedule, TypeOK
  <2>2. \A g \in Runners : runner[g] = "free"
    BY <1>3 DEF InitialSchedule, TypeOK
  <2>3. OneRunnerPerTask' BY <2>1, <2>2, Scheduled
  <2> QED BY <1>3, <2>3 DEF InitialSchedule
<1>4. CASE Fetch \/ Clean \/ CleanFails \/ Lock \/ Stop
  BY <1>4 DEF Fetch, Clean, CleanFails, Lock, Stop
<1>5. CASE ScheduleNew
  <2> DEFINE S == {t \in tasks : channels[t] = None}
  <2>1. Schedule(S) /\ S \in SUBSET Tasks BY <1>5 DEF ScheduleNew, TypeOK
  <2>2. \A t \in S : channels[t] = None OBVIOUS
  <2> HIDE DEF S
  <2>3. \A g \in Runners : runner[g] # "free" => runs[g] \in Tasks \ S
    BY <2>2 DEF TypeOK
  <2>4. OneRunnerPerTask' BY <2>1, <2>3, Scheduled
  <2> QED BY <1>5, <2>4 DEF ScheduleNew
<1>6. ASSUME NEW g \in Runners, Run(g) \/ Tick(g) PROVE Linked'
  BY <1>6 DEF Run, Tick, TypeOK
<1>7. CASE UNCHANGED vars BY <1>7 DEF vars
<1> QED BY <1>1, <1>2, <1>3, <1>4, <1>5, <1>6, <1>7 DEF Next

-----------------------------------------------------------------------------
(* Every reachable state is well-typed: a goroutine runs with a task, and  *)
(* a task that has a channel is known.                                     *)
THEOREM TypeCorrect == Spec => []TypeOK
BY TypeInit, TypeNext, PTL DEF Spec

(* With the default order of the first scheduling and the first tick, a    *)
(* task is tested by one goroutine, which its channel stops.               *)
THEOREM OneRunner == InitialFirst => (Spec => []OneRunnerPerTask)
<1> SUFFICES ASSUME InitialFirst PROVE Spec => []OneRunnerPerTask OBVIOUS
<1>1. Init => Linked BY DEF Init, Linked, NothingYet, OneRunnerPerTask
<1>2. TypeOK /\ Linked /\ [Next]_vars => Linked' BY LinkedNext
<1>3. Linked => OneRunnerPerTask BY DEF Linked
<1> QED BY <1>1, <1>2, <1>3, TypeCorrect, PTL DEF Spec
=============================================================================
