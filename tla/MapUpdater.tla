------------------------------ MODULE MapUpdater ------------------------------
(***************************************************************************)
(* The map update pool of the world server: MapManager::Update on the      *)
(* world thread, the MapUpdater it schedules maps on, the DelayExecutor    *)
(* and io_context threads that run the requests, and MapInstanced::Update, *)
(* which runs on one of those threads and schedules its instances on the   *)
(* same pool.  Without a pool the world thread updates every map itself.   *)
(***************************************************************************)
EXTENDS Integers, Sequences, FiniteSets

CONSTANTS
    BaseMaps,       \* keys of MapManager::i_maps
    Instances,      \* keys of the MapInstanced::m_InstancedMaps
    ParentOf,       \* the MapInstanced object that owns an instance
    Workers,        \* the threads of the pool, if CONFIG_NUMTHREADS is not 0
    World,          \* the thread of WorldRunnable::Run
    NoMap, NoThread,
    MaxPasses       \* bound: update passes a behaviour may start

AllMaps == BaseMaps \cup Instances
Threads == Workers \cup {World}

ASSUME MapUpdaterAssumption ==
    /\ IsFiniteSet(Workers)
    /\ BaseMaps \cap Instances = {}
    /\ ParentOf \in [Instances -> BaseMaps]
    /\ NoMap \notin AllMaps
    /\ World \notin Workers
    /\ NoThread \notin Threads
    /\ MaxPasses \in Nat

VARIABLES
    pc,             \* what each thread is executing
    map,            \* the map whose Update a thread is running
    arg,            \* the map a thread is passing to schedule_update
    instTodo,       \* instances a MapInstanced::Update loop has left
    passTodo,       \* maps the loop of MapManager::Update has left
    lock,           \* holder of MapUpdater::Lock
    pending,        \* MapUpdater::pending_requests
    activated,      \* DelayExecutor::Impl::activated
    workGuard,      \* the io_context work guard of the thread group
    queue,          \* handlers posted to the io_context
    exists,         \* maps that are allocated
    outcome,        \* history: what the current pass did with each map
    passes          \* number of passes begun

vars == <<pc, map, arg, instTodo, passTodo, lock, pending, activated,
          workGuard, queue, exists, outcome, passes>>

poolVars == <<lock, pending, activated, workGuard, queue>>
mapVars  == <<exists, outcome, passes>>
loopVars == <<map, arg, instTodo, passTodo>>

WorldPCs  == {"init", "idle", "sched", "update", "nested", "posting", "wait",
              "sleep", "delayed", "unload", "drainWait", "drainSleep",
              "drain", "join", "stopped"}
WorkerPCs == {"off", "run", "update", "nested", "posting", "finish", "exited"}
Outcomes  == {"due", "updated", "kept", "destroyed", "again"}

Goto(t, l) == pc' = [pc EXCEPT ![t] = l]

InstancesOf(m) == {i \in Instances : ParentOf[i] = m}

\* A worker is inside a handler of the io_context.
Busy(w) == pc[w] \in {"update", "nested", "posting", "finish"}

-----------------------------------------------------------------------------
Init ==
    /\ pc = [t \in Threads |-> IF t = World THEN "init" ELSE "off"]
    /\ map = [t \in Threads |-> NoMap]
    /\ arg = [t \in Threads |-> NoMap]
    /\ instTodo = [t \in Threads |-> {}]
    /\ passTodo = {}
    /\ lock = NoThread
    /\ pending = 0
    /\ activated = FALSE
    /\ workGuard = FALSE
    /\ queue = << >>
    /\ exists = {}
    /\ outcome = [m \in AllMaps |-> "due"]
    /\ passes = 0

\* MapManager::Initialize: DelayExecutor::start, unless CONFIG_NUMTHREADS is 0.
Initialize ==
    /\ pc[World] = "init"
    /\ \E threads \in {{}, Workers} :
         /\ pc' = [t \in Threads |-> CASE t = World -> "idle"
                                      [] t \in threads -> "run"
                                      [] OTHER -> "off"]
         /\ activated' = (threads # {})
         /\ workGuard' = (threads # {})
    /\ UNCHANGED <<loopVars, lock, pending, queue, mapVars>>

\* CreateBaseMap and MapInstanced::CreateInstance, called by the world thread
\* between passes (sessions, transports, battlegrounds).
CreateMap(m) ==
    /\ pc[World] = "idle"
    /\ m \notin exists
    /\ m \in Instances => ParentOf[m] \in exists
    /\ exists' = exists \cup {m}
    /\ UNCHANGED <<pc, loopVars, poolVars, outcome, passes>>

\* Faulty variant: CreateInstance registers its map in i_maps as well.
BeginPass_Instances ==
    /\ pc[World] = "idle"
    /\ passes < MaxPasses
    /\ passes' = passes + 1
    /\ outcome' = [m \in AllMaps |-> "due"]
    /\ passTodo' = exists
    /\ Goto(World, "sched")
    /\ UNCHANGED <<map, arg, instTodo, poolVars, exists>>

\* MapManager::Update past the timer test.
BeginPass ==
    /\ pc[World] = "idle"
    /\ passes < MaxPasses
    /\ passes' = passes + 1
    /\ outcome' = [m \in AllMaps |-> "due"]
    /\ passTodo' = exists \cap BaseMaps
    /\ Goto(World, "sched")
    /\ UNCHANGED <<map, arg, instTodo, poolVars, exists>>

-----------------------------------------------------------------------------
(* MapUpdater::schedule_update(m), called by thread t. *)

LockAndCount(t, m) ==
    /\ lock = NoThread
    /\ lock' = t
    /\ pending' = pending + 1
    /\ arg' = [arg EXCEPT ![t] = m]
    /\ Goto(t, "posting")

CallerOf(t) == IF t = World THEN "sched" ELSE "nested"

\* The rest of schedule_update: DelayExecutor::execute posts the request, or
\* rejects it and the count is taken back; the lock is released.
Post(t) ==
    /\ pc[t] = "posting"
    /\ IF activated
       THEN queue' = Append(queue, arg[t]) /\ UNCHANGED pending
       ELSE pending' = pending - 1 /\ UNCHANGED queue
    /\ lock' = NoThread
    /\ arg' = [arg EXCEPT ![t] = NoMap]
    /\ Goto(t, CallerOf(t))
    /\ UNCHANGED <<map, instTodo, passTodo, activated, workGuard, mapVars>>

\* One iteration of the loop of MapManager::Update.
ScheduleMap(m) ==
    /\ pc[World] = "sched"
    /\ m \in passTodo
    /\ activated
    /\ LockAndCount(World, m)
    /\ passTodo' = passTodo \ {m}
    /\ UNCHANGED <<map, instTodo, activated, workGuard, queue, mapVars>>

UpdateMapInline(m) ==
    /\ pc[World] = "sched"
    /\ m \in passTodo
    /\ ~activated
    /\ map' = [map EXCEPT ![World] = m]
    /\ passTodo' = passTodo \ {m}
    /\ Goto(World, "update")
    /\ UNCHANGED <<arg, instTodo, poolVars, mapVars>>

\* Faulty variant: DelayedUpdate without the barrier.
EndSchedule_NoWait ==
    /\ pc[World] = "sched"
    /\ passTodo = {}
    /\ Goto(World, "delayed")
    /\ UNCHANGED <<loopVars, poolVars, mapVars>>

\* The loop is over: wait() if there is a pool, else DelayedUpdate at once.
EndSchedule ==
    /\ pc[World] = "sched"
    /\ passTodo = {}
    /\ Goto(World, IF activated THEN "wait" ELSE "delayed")
    /\ UNCHANGED <<loopVars, poolVars, mapVars>>

-----------------------------------------------------------------------------
(* MapUpdater::wait, from MapManager::Update and from deactivate. *)

Waiting(l) == IF l = "wait" THEN "sleep" ELSE "drainSleep"
Returned(l) == IF l = "wait" THEN "delayed" ELSE "drain"

\* Under Lock the counter is tested: sleep on the condition or return.
WaitTest(l) ==
    /\ pc[World] = l
    /\ lock = NoThread
    /\ Goto(World, IF pending > 0 THEN Waiting(l) ELSE Returned(l))
    /\ UNCHANGED <<loopVars, poolVars, mapVars>>

\* Faulty variant: "if" for "while" around condition.wait.
Woken_NoRetest(l) == CASE l = "sleep" -> "delayed"
                       [] l = "drainSleep" -> "drain"
                       [] OTHER -> l

Woken(l) == CASE l = "sleep" -> "wait"
              [] l = "drainSleep" -> "drainWait"
              [] OTHER -> l

\* std::condition_variable may wake a waiter that nobody notified.
SpuriousWakeup ==
    /\ pc[World] \in {"sleep", "drainSleep"}
    /\ Goto(World, Woken(pc[World]))
    /\ UNCHANGED <<loopVars, poolVars, mapVars>>

\* DelayedUpdate of every map, on the world thread.
DelayedUpdate ==
    /\ pc[World] = "delayed"
    /\ Goto(World, "idle")
    /\ UNCHANGED <<loopVars, poolVars, mapVars>>

-----------------------------------------------------------------------------
(* Map::Update and MapInstanced::Update, run by a worker or by World. *)

Settle(m, how) ==
    outcome' = [outcome EXCEPT ![m] = IF @ = "due" THEN how ELSE "again"]

\* Faulty variant: a request that ends without update_finished.
AfterUpdate_NoFinish(t) == IF t = World THEN "sched" ELSE "run"

AfterUpdate(t) == IF t = World THEN "sched" ELSE "finish"

\* A worker takes the oldest handler of the io_context: MapUpdateRequest::call.
Dequeue(w) ==
    /\ pc[w] = "run"
    /\ queue # << >>
    /\ map' = [map EXCEPT ![w] = Head(queue)]
    /\ queue' = Tail(queue)
    /\ Goto(w, "update")
    /\ UNCHANGED <<arg, instTodo, passTodo, lock, pending, activated,
                   workGuard, mapVars>>

\* Map::Update of the map's own grids; a MapInstanced goes on to its instances.
UpdateMap(t) ==
    /\ pc[t] = "update"
    /\ Settle(map[t], "updated")
    /\ instTodo' = [instTodo EXCEPT ![t] = InstancesOf(map[t]) \cap exists]
    /\ Goto(t, "nested")
    /\ UNCHANGED <<map, arg, passTodo, poolVars, exists, passes>>

\* CanUnload, and DestroyInstance finds no player left.
DestroyInstance(t, i) ==
    /\ pc[t] = "nested"
    /\ i \in instTodo[t]
    /\ instTodo' = [instTodo EXCEPT ![t] = @ \ {i}]
    /\ Settle(i, "destroyed")
    /\ exists' = exists \ {i}
    /\ UNCHANGED <<pc, map, arg, passTodo, poolVars, passes>>

\* CanUnload, but players remain: the instance is skipped in this pass.
KeepInstance(t, i) ==
    /\ pc[t] = "nested"
    /\ i \in instTodo[t]
    /\ instTodo' = [instTodo EXCEPT ![t] = @ \ {i}]
    /\ Settle(i, "kept")
    /\ UNCHANGED <<pc, map, arg, passTodo, poolVars, exists, passes>>

\* Faulty variant: an instance is scheduled before CanUnload is asked.
ScheduleInstance_BeforeUnload(t, i) ==
    /\ pc[t] = "nested"
    /\ i \in instTodo[t]
    /\ activated
    /\ LockAndCount(t, i)
    /\ UNCHANGED <<instTodo, map, passTodo, activated, workGuard, queue, mapVars>>

ScheduleInstance(t, i) ==
    /\ pc[t] = "nested"
    /\ i \in instTodo[t]
    /\ activated
    /\ LockAndCount(t, i)
    /\ instTodo' = [instTodo EXCEPT ![t] = @ \ {i}]
    /\ UNCHANGED <<map, passTodo, activated, workGuard, queue, mapVars>>

UpdateInstanceInline(t, i) ==
    /\ pc[t] = "nested"
    /\ i \in instTodo[t]
    /\ ~activated
    /\ instTodo' = [instTodo EXCEPT ![t] = @ \ {i}]
    /\ Settle(i, "updated")
    /\ UNCHANGED <<pc, map, arg, passTodo, poolVars, exists, passes>>

EndUpdate(t) ==
    /\ pc[t] = "nested"
    /\ instTodo[t] = {}
    /\ map' = [map EXCEPT ![t] = NoMap]
    /\ Goto(t, AfterUpdate(t))
    /\ UNCHANGED <<arg, instTodo, passTodo, poolVars, mapVars>>

\* Faulty variant: update_finished without notify_all.
Finish_NoNotify(w) ==
    /\ pc[w] = "finish"
    /\ lock = NoThread
    /\ pending' = IF pending = 0 THEN 0 ELSE pending - 1
    /\ Goto(w, "run")
    /\ UNCHANGED <<loopVars, lock, activated, workGuard, queue, mapVars>>

\* MapUpdater::update_finished: count down and notify_all, under Lock.
Finish(w) ==
    /\ pc[w] = "finish"
    /\ lock = NoThread
    /\ pending' = IF pending = 0 THEN 0 ELSE pending - 1
    /\ pc' = [pc EXCEPT ![w] = "run",
                        ![World] = IF pending = 0 THEN @ ELSE Woken(@)]
    /\ UNCHANGED <<loopVars, lock, activated, workGuard, queue, mapVars>>

-----------------------------------------------------------------------------
(* MapManager::UnloadAll and MapUpdater::deactivate. *)

\* Every map is deleted; then the pool is deactivated if there is one.
UnloadAll ==
    /\ pc[World] = "idle"
    /\ exists' = {}
    /\ Goto(World, IF activated THEN "drainWait" ELSE "stopped")
    /\ UNCHANGED <<loopVars, poolVars, outcome, passes>>

\* DelayExecutor::deactivate: Drain drops the work guard.
Drain ==
    /\ pc[World] = "drain"
    /\ activated' = FALSE
    /\ workGuard' = FALSE
    /\ Goto(World, "join")
    /\ UNCHANGED <<loopVars, lock, pending, queue, mapVars>>

\* io_context::run returns once there is no guard, no handler queued and none
\* being executed.
ExitRun(w) ==
    /\ pc[w] = "run"
    /\ ~workGuard
    /\ queue = << >>
    /\ \A v \in Workers : ~Busy(v)
    /\ Goto(w, "exited")
    /\ UNCHANGED <<loopVars, poolVars, mapVars>>

Join ==
    /\ pc[World] = "join"
    /\ \A w \in Workers : pc[w] = "exited"
    /\ Goto(World, "stopped")
    /\ UNCHANGED <<loopVars, poolVars, mapVars>>

Stopped ==
    /\ pc[World] = "stopped"
    /\ UNCHANGED vars

-----------------------------------------------------------------------------
\* Steps of Map::Update that any thread takes.
UpdateStep(t) ==
    \/ Post(t)
    \/ UpdateMap(t)
    \/ EndUpdate(t)
    \/ \E i \in Instances :
         \/ DestroyInstance(t, i)
         \/ KeepInstance(t, i)
         \/ ScheduleInstance(t, i)
         \/ UpdateInstanceInline(t, i)

WorkerStep(w) == Dequeue(w) \/ Finish(w) \/ ExitRun(w) \/ UpdateStep(w)

\* What the world thread does once it is inside a pass or a shutdown.
WorldStep ==
    \/ Initialize
    \/ \E m \in BaseMaps : ScheduleMap(m) \/ UpdateMapInline(m)
    \/ EndSchedule
    \/ \E l \in {"wait", "drainWait"} : WaitTest(l)
    \/ DelayedUpdate
    \/ Drain
    \/ Join
    \/ UpdateStep(World)

\* What the rest of the server decides: maps created, passes, shutdown.
Environment ==
    \/ \E m \in AllMaps : CreateMap(m)
    \/ BeginPass
    \/ UnloadAll

Next ==
    \/ WorldStep
    \/ \E w \in Workers : WorkerStep(w)
    \/ SpuriousWakeup
    \/ Environment
    \/ Stopped

\* Every running thread keeps being scheduled by the operating system.
Fairness == WF_vars(WorldStep) /\ \A w \in Workers : WF_vars(WorkerStep(w))

Spec == Init /\ [][Next]_vars /\ Fairness

-----------------------------------------------------------------------------
\* Every variable has its type; the numbers stay within their bounds.
TypeOK ==
    /\ pc \in [Threads -> WorldPCs \cup WorkerPCs]
    /\ pc[World] \in WorldPCs
    /\ \A w \in Workers : pc[w] \in WorkerPCs
    /\ map \in [Threads -> AllMaps \cup {NoMap}]
    /\ arg \in [Threads -> AllMaps \cup {NoMap}]
    /\ instTodo \in [Threads -> SUBSET Instances]
    /\ passTodo \subseteq BaseMaps
    /\ lock \in Threads \cup {NoThread}
    /\ pending \in Nat
    /\ activated \in BOOLEAN
    /\ workGuard \in BOOLEAN
    /\ queue \in Seq(AllMaps)
    /\ exists \subseteq AllMaps
    /\ outcome \in [AllMaps -> Outcomes]
    /\ passes \in 0..MaxPasses

BusyWorkers == {w \in Workers : Busy(w)}
Posting == {t \in Threads : pc[t] = "posting"}

\* The counter wait() sleeps on is the number of requests that are still owed
\* an update_finished: queued, being executed, or about to be posted.  (So the
\* "BUG, report to devs" branch of update_finished is never taken.)
PendingCounts ==
    pending = Len(queue) + Cardinality(BusyWorkers) + Cardinality(Posting)

\* While the world thread is outside the update phase of a pass (it runs the
\* DelayedUpdates, creates maps, or unloads everything) no map is queued for or
\* running an Update on the pool, although workers schedule nested requests
\* that the world thread never sees.
Quiet == pc[World] \in {"idle", "delayed", "drain", "join", "stopped"}
Barrier == Quiet => queue = << >> /\ BusyWorkers = {}

\* A map that is deleted, by DestroyInstance on a worker or by UnloadAll, is
\* not one that any thread or queued request still refers to.
Referenced ==
    {map[t] : t \in Threads} \cup {arg[t] : t \in Threads} \cup passTodo
        \cup (UNION {instTodo[t] : t \in Threads})
        \cup {queue[k] : k \in 1..Len(queue)}
NoUseAfterDelete == Referenced \ {NoMap} \subseteq exists

\* The world thread is never stuck in the pool: a pass of MapManager::Update gets
\* out of wait(), no last update_finished being missed however workers, nested
\* requests and wakeups interleave; and UnloadAll joins every thread of the pool.
WorldNeverStuck ==
    /\ pc[World] = "sched" ~> pc[World] = "idle"
    /\ pc[World] \in {"drainWait", "drain"} ~> pc[World] = "stopped"

\* The stage of the pass, as MapPass tells it.
passStage ==
    CASE pc[World] \in {"init", "idle"} -> "idle"
      [] pc[World] = "delayed" -> "delayed"
      [] pc[World] \in {"drainWait", "drainSleep", "drain", "join", "stopped"}
           -> "closed"
      [] OTHER -> "updating"

Abstract == INSTANCE MapPass
    WITH BaseMaps <- BaseMaps, Instances <- Instances,
         stage <- passStage, exists <- exists, outcome <- outcome

\* Pool, nesting and barrier implement the one-update-per-map pass.
ImplementsMapPass == Abstract!Spec
=============================================================================
