------------------------------ MODULE PoolTester ------------------------------
(***************************************************************************)
(* The pool tester (src/pkg/pool/redis.go).  Tasks are kept in Redis by    *)
(* name.  Each known task has a goroutine, scheduleTask, that again and    *)
(* again tests the nodes and puts those that pass into the pool of the     *)
(* task's name, and a channel to stop it.                                  *)
(*                                                                         *)
(* Two goroutines schedule tasks under one lock: the first scheduling,     *)
(* after initialDelay, and the fetcher, at every tick.  The fetcher keeps  *)
(* the lock while it waits for a goroutine to take the message to stop,    *)
(* which the goroutine does only between two runs.                         *)
(***************************************************************************)
EXTENDS Naturals, FiniteSets, Functions

CONSTANTS
  Tasks,
  Runners,      \* goroutines of scheduleTask that exist at one time (bound)
  None,
  InitialFirst  \* initialDelay < fetchTasksInterval, as by default

ASSUME ConstantsAssumption ==
  /\ None \notin Runners \cup Tasks
  /\ InitialFirst \in BOOLEAN

VARIABLES
  redis,     \* the tasks in Redis
  tasks,     \* r.tasks
  channels,  \* r.channels: the goroutine that receives from the channel
  initial,   \* the goroutine of the first scheduling
  fetcher,   \* where the fetcher is; it has the lock in "stop"
  fetched,   \* the names it fetched
  runner,    \* what each goroutine of scheduleTask does
  runs,      \* the task it was started with
  pools      \* the names that have rows in the table pools

fetcherVars == <<fetcher, fetched>>
runnerVars == <<runner, runs>>
vars == <<redis, tasks, channels, initial, fetcher, fetched, runner, runs, pools>>

(* Serve has fetched the tasks and has started its two goroutines. *)
Init ==
  /\ redis \in SUBSET Tasks
  /\ tasks = redis
  /\ channels = [t \in Tasks |-> None]
  /\ initial = "delayed"
  /\ fetcher = "idle"
  /\ fetched = {}
  /\ runner = [g \in Runners |-> "free"]
  /\ runs = [g \in Runners |-> None]
  /\ pools = {}

(* A new channel and a new goroutine for each task of S, which begins with *)
(* a run.                                                                  *)
Schedule(S) ==
  \E go \in Injection(S, {g \in Runners : runner[g] = "free"}) :
    /\ channels' = [t \in Tasks |-> IF t \in S THEN go[t] ELSE channels[t]]
    /\ runner' = [g \in Runners |-> IF g \in Range(go) THEN "running" ELSE runner[g]]
    /\ runs' = [g \in Runners |->
                  IF g \in Range(go) THEN CHOOSE t \in S : go[t] = g ELSE runs[g]]

-----------------------------------------------------------------------------
(* External: tasks are added to and removed from Redis, and the rows of a  *)
(* pool go when its nodes go or pass another task's test.                  *)

AddTask(t) ==
  /\ t \notin redis
  /\ redis' = redis \cup {t}
  /\ UNCHANGED <<tasks, channels, initial, fetcherVars, runnerVars, pools>>

RemoveTask(t) ==
  /\ t \in redis
  /\ redis' = redis \ {t}
  /\ UNCHANGED <<tasks, channels, initial, fetcherVars, runnerVars, pools>>

NodesLeave(t) ==
  /\ t \in pools
  /\ pools' = pools \ {t}
  /\ UNCHANGED <<redis, tasks, channels, initial, fetcherVars, runnerVars>>

-----------------------------------------------------------------------------
(* The goroutine of the first scheduling *)

InitialSchedule ==
  /\ initial = "delayed"
  /\ fetcher # "stop"
  /\ initial' = "done"
  /\ Schedule(tasks)
  /\ UNCHANGED <<redis, tasks, fetcherVars, pools>>

-----------------------------------------------------------------------------
(* The fetcher *)

(* A tick: fetchTasks.  (If Redis does not answer, the tick does nothing.) *)
Fetch ==
  /\ fetcher = "idle"
  /\ InitialFirst => initial = "done"
  /\ fetched' = redis
  /\ fetcher' = "clean"
  /\ UNCHANGED <<redis, tasks, channels, initial, runnerVars, pools>>

(* Mutant of Clean: only the pools of the tasks that go now are emptied. *)
CleanRemoved ==
  /\ fetcher = "clean"
  /\ pools' = pools \ (tasks \ fetched)
  /\ fetcher' = "lock"
  /\ UNCHANGED <<redis, tasks, channels, initial, fetched, runnerVars>>

(* PoolCleanNameNotIn, which does nothing if there are no names. *)
Clean ==
  /\ fetcher = "clean"
  /\ pools' = IF fetched = {} THEN pools ELSE pools \cap fetched
  /\ fetcher' = "lock"
  /\ UNCHANGED <<redis, tasks, channels, initial, fetched, runnerVars>>

CleanFails ==
  /\ fetcher = "clean" /\ fetched # {}
  /\ fetcher' = "idle"
  /\ UNCHANGED <<redis, tasks, channels, initial, fetched, runnerVars, pools>>

(* r.mu.Lock, and the new tasks are added. *)
Lock ==
  /\ fetcher = "lock"
  /\ tasks' = tasks \cup fetched
  /\ fetcher' = "stop"
  /\ UNCHANGED <<redis, channels, initial, fetched, runnerVars, pools>>

(* The tasks that have gone and can be told so: the others have not been   *)
(* scheduled, and stay.                                                    *)
Gone == {t \in tasks \ fetched : channels[t] # None}

(* Mutant of StopTask: the channel is closed, nobody receives. *)
StopTaskForgets(t) ==
  /\ fetcher = "stop"
  /\ t \in Gone
  /\ channels' = [channels EXCEPT ![t] = None]
  /\ tasks' = tasks \ {t}
  /\ UNCHANGED <<redis, initial, fetcherVars, runnerVars, pools>>

(* The goroutine of t receives, and returns; the map is in no order. *)
StopTask(t) ==
  /\ fetcher = "stop"
  /\ t \in Gone /\ runner[channels[t]] = "waiting"
  /\ runner' = [runner EXCEPT ![channels[t]] = "free"]
  /\ runs' = [runs EXCEPT ![channels[t]] = None]
  /\ channels' = [channels EXCEPT ![t] = None]
  /\ tasks' = tasks \ {t}
  /\ UNCHANGED <<redis, initial, fetcherVars, pools>>

(* Mutant of ScheduleNew: tasks that have a channel are scheduled again. *)
ScheduleAll ==
  /\ fetcher = "stop" /\ Gone = {}
  /\ Schedule(tasks)
  /\ fetcher' = "idle"
  /\ UNCHANGED <<redis, tasks, initial, fetched, pools>>

(* The tasks without a channel are scheduled; r.mu.Unlock. *)
ScheduleNew ==
  /\ fetcher = "stop" /\ Gone = {}
  /\ Schedule({t \in tasks : channels[t] = None})
  /\ fetcher' = "idle"
  /\ UNCHANGED <<redis, tasks, initial, fetched, pools>>

(* ctx is done.  The goroutines of the tasks go on. *)
Stop ==
  /\ fetcher = "idle"
  /\ fetcher' = "stopped"
  /\ UNCHANGED <<redis, tasks, channels, initial, fetched, runnerVars, pools>>

-----------------------------------------------------------------------------
(* scheduleTask *)

(* Mutant of Run: one test of the run misses wg.Done. *)
RunHangs(g) ==
  /\ runner[g] = "running"
  /\ UNCHANGED vars

(* A run ends with PoolAdd and PoolDelete: the pool has rows afterwards,   *)
(* or not, or the run had no nodes to test.                                *)
Run(g) ==
  /\ runner[g] = "running"
  /\ pools' \in {pools, pools \cup {runs[g]}, pools \ {runs[g]}}
  /\ runner' = [runner EXCEPT ![g] = "waiting"]
  /\ UNCHANGED <<redis, tasks, channels, initial, fetcherVars, runs>>

Tick(g) ==
  /\ runner[g] = "waiting"
  /\ runner' = [runner EXCEPT ![g] = "running"]
  /\ UNCHANGED <<redis, tasks, channels, initial, fetcherVars, runs, pools>>

-----------------------------------------------------------------------------
Next ==
  \/ \E t \in Tasks : AddTask(t) \/ RemoveTask(t) \/ NodesLeave(t) \/ StopTask(t)
  \/ InitialSchedule
  \/ Fetch \/ Clean \/ CleanFails \/ Lock \/ ScheduleNew \/ Stop
  \/ \E g \in Runners : Run(g) \/ Tick(g)

(* The delay ends, ticks come and Redis answers some of them, the router's *)
(* database works again and again, and requestTimeout bounds a run.  The   *)
(* message to stop is ready whenever the goroutine waits; its select takes *)
(* it in the end even if a tick is ready as well.                          *)
Fairness ==
  /\ WF_vars(InitialSchedule)
  /\ WF_vars(Fetch) /\ SF_vars(Clean) /\ WF_vars(Lock) /\ WF_vars(ScheduleNew)
  /\ \A t \in Tasks : SF_vars(StopTask(t))
  /\ \A g \in Runners : WF_vars(Run(g))

Spec == Init /\ [][Next]_vars

FairSpec == Spec /\ Fairness

-----------------------------------------------------------------------------
(* Properties *)

(* Every variable has the shape the code gives it; a goroutine runs with a *)
(* task, and a task that is scheduled is known.                            *)
TypeOK ==
  /\ redis \subseteq Tasks /\ tasks \subseteq Tasks /\ fetched \subseteq Tasks
  /\ channels \in [Tasks -> Runners \cup {None}]
  /\ initial \in {"delayed", "done"}
  /\ fetcher \in {"idle", "clean", "lock", "stop", "stopped"}
  /\ runner \in [Runners -> {"free", "running", "waiting"}]
  /\ runs \in [Runners -> Tasks \cup {None}]
  /\ pools \subseteq Tasks
  /\ \A g \in Runners : runner[g] # "free" => runs[g] \in Tasks
  /\ \A t \in Tasks : channels[t] # None => t \in tasks

(* A task is tested by one goroutine, the one its channel stops: neither   *)
(* the two schedulers nor a task that goes and comes back leave another.   *)
OneRunnerPerTask ==
  \A g \in Runners : runner[g] # "free" => channels[runs[g]] = g

GoneForGood(t) == <>[](t \notin redis)

(* A task that is removed for good is not tested for ever. *)
RemovedIsStopped ==
  \A t \in Tasks :
    GoneForGood(t) => <>[](\A g \in Runners : runs[g] # t) \/ <>(fetcher = "stopped")

(* Its pool is emptied: what the last run puts into it after the clean-up  *)
(* of the tick that stops it goes at a later tick.  PoolCleanNameNotIn     *)
(* (genji.go:376) does nothing without names: the pool of the last task    *)
(* stays when that task is removed.                                        *)
RemovedIsCleaned ==
  \A t \in Tasks :
    GoneForGood(t) /\ <>[](redis # {}) => <>[](t \notin pools) \/ <>(fetcher = "stopped")

(* The fetcher does not keep the lock for ever: every goroutine it waits   *)
(* for ends its run and takes the message.                                 *)
LockIsReleased == fetcher = "stop" ~> fetcher # "stop"
=============================================================================
