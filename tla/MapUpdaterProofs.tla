-------------------------- MODULE MapUpdaterProofs --------------------------
(***************************************************************************)
(* For any set of maps, any number of workers and any number of passes:    *)
(* the counter of MapUpdater is the number of requests still owed an       *)
(* update_finished, and no map is updated on the pool while the world      *)
(* thread is outside the update phase of a pass.                           *)
(***************************************************************************)
EXTENDS MapUpdater, FiniteSetTheorems, TLAPS

BusyPCs == {"update", "nested", "posting", "finish"}

\* Before Initialize and without a pool nothing is ever queued.
EmptyInv == pc[World] = "init" \/ ~activated => queue = << >> /\ BusyWorkers = {}

\* A thread inside schedule_update is passing a map.
PostingArg == \A t \in Threads : pc[t] = "posting" => arg[t] \in AllMaps

IInv == TypeOK /\ PostingArg /\ EmptyInv /\ PendingCounts /\ Barrier

-----------------------------------------------------------------------------
\* How a step of one thread changes the two sets PendingCounts counts.
LEMMA FiniteCounts ==
    ASSUME TypeOK
    PROVE  /\ IsFiniteSet(BusyWorkers) /\ IsFiniteSet(Posting)
           /\ Cardinality(BusyWorkers) \in Nat /\ Cardinality(Posting) \in Nat
           /\ Cardinality(BusyWorkers) = 0 <=> BusyWorkers = {}
           /\ Cardinality(Posting) = 0 <=> Posting = {}
<1>1. IsFiniteSet(Threads)
  BY MapUpdaterAssumption, FS_AddElement DEF Threads
<1>2. IsFiniteSet(BusyWorkers) /\ IsFiniteSet(Posting)
  BY <1>1, MapUpdaterAssumption, FS_Subset DEF BusyWorkers, Posting
<1> QED
  BY <1>2, FS_CardinalityType, FS_EmptySet

\* A worker that moves between two labels inside a handler, neither of them
\* the posting one, or between two labels outside, changes neither set.
LEMMA MoveOther ==
    ASSUME TypeOK, NEW t \in Threads, NEW l, Goto(t, l),
           pc[t] # "posting", l # "posting",
           t = World \/ (Busy(t) <=> l \in BusyPCs)
    PROVE  BusyWorkers' = BusyWorkers /\ Posting' = Posting
  BY MapUpdaterAssumption
     DEF TypeOK, Goto, Busy, BusyPCs, BusyWorkers, Posting, Threads

LEMMA MoveIntoPosting ==
    ASSUME TypeOK, NEW t \in Threads, Goto(t, "posting"), pc[t] # "posting",
           t = World \/ Busy(t)
    PROVE  /\ BusyWorkers' = BusyWorkers
           /\ Cardinality(Posting') = Cardinality(Posting) + 1
<1>1. BusyWorkers' = BusyWorkers /\ Posting' = Posting \cup {t} /\ t \notin Posting
  BY MapUpdaterAssumption
     DEF TypeOK, Goto, Busy, BusyWorkers, Posting, Threads
<1> QED
  BY <1>1, FiniteCounts, FS_AddElement

LEMMA MoveOutOfPosting ==
    ASSUME TypeOK, NEW t \in Threads, NEW l, Goto(t, l), pc[t] = "posting",
           l # "posting", t = World \/ l \in BusyPCs
    PROVE  /\ BusyWorkers' = BusyWorkers
           /\ Cardinality(Posting') = Cardinality(Posting) - 1
<1>1. BusyWorkers' = BusyWorkers /\ Posting' = Posting \ {t} /\ t \in Posting
  BY MapUpdaterAssumption
     DEF TypeOK, Goto, Busy, BusyPCs, BusyWorkers, Posting, Threads
<1> QED
  BY <1>1, FiniteCounts, FS_RemoveElement

LEMMA MoveIntoHandler ==
    ASSUME TypeOK, NEW w \in Workers, ~Busy(w), Goto(w, "update")
    PROVE  /\ Cardinality(BusyWorkers') = Cardinality(BusyWorkers) + 1
           /\ Posting' = Posting
<1>1. /\ BusyWorkers' = BusyWorkers \cup {w} /\ w \notin BusyWorkers
      /\ Posting' = Posting
  BY DEF TypeOK, Goto, Busy, BusyWorkers, Posting, Threads
<1> QED
  BY <1>1, FiniteCounts, FS_AddElement
-----------------------------------------------------------------------------
LEMMA TypeInit == Init => TypeOK
<1> SUFFICES ASSUME Init PROVE TypeOK
  OBVIOUS
<1> USE MapUpdaterAssumption DEF Init
<1>1. /\ pc \in [Threads -> WorldPCs \cup WorkerPCs]
      /\ pc[World] \in WorldPCs
      /\ \A w \in Workers : pc[w] \in WorkerPCs
  BY DEF Threads, WorldPCs, WorkerPCs
<1>2. outcome \in [AllMaps -> Outcomes]
  BY DEF Outcomes
<1>3. queue \in Seq(AllMaps) /\ passes \in 0..MaxPasses
  OBVIOUS
<1> QED
  BY <1>1, <1>2, <1>3 DEF TypeOK

LEMMA TypeNext == TypeOK /\ PostingArg /\ PendingCounts /\ [Next]_vars => TypeOK'
<1> SUFFICES ASSUME TypeOK, PostingArg, PendingCounts, [Next]_vars PROVE TypeOK'
  OBVIOUS
<1> USE MapUpdaterAssumption
    DEF WorldPCs, WorkerPCs, Outcomes, Threads, Goto, Settle, loopVars,
        poolVars, mapVars
<1>1. CASE Initialize
  BY <1>1 DEF TypeOK, Initialize
<1>2. ASSUME NEW m \in BaseMaps, ScheduleMap(m)
      PROVE  TypeOK'
  BY <1>2 DEF TypeOK, ScheduleMap, LockAndCount, AllMaps
<1>3. ASSUME NEW m \in BaseMaps, UpdateMapInline(m)
      PROVE  TypeOK'
  BY <1>3 DEF TypeOK, UpdateMapInline, AllMaps
<1>4. CASE EndSchedule
  BY <1>4 DEF TypeOK, EndSchedule
<1>5. ASSUME NEW l \in {"wait", "drainWait"}, WaitTest(l)
      PROVE  TypeOK'
  BY <1>5 DEF TypeOK, WaitTest, Waiting, Returned
<1>6. CASE DelayedUpdate
  BY <1>6 DEF TypeOK, DelayedUpdate
<1>7. CASE Drain \/ Join
  BY <1>7 DEF TypeOK, Drain, Join
<1>8. ASSUME NEW t \in Threads, UpdateStep(t)
      PROVE  TypeOK'
  <2>1. CASE Post(t)
    <3>1. pc' \in [Threads -> WorldPCs \cup WorkerPCs]
          /\ pc'[World] \in WorldPCs
          /\ \A w \in Workers : pc'[w] \in WorkerPCs
      BY <2>1 DEF TypeOK, Post, CallerOf
    <3>2. pending' \in Nat
      <4>1. t \in Posting
        BY <2>1 DEF Post, Posting
      <4>2. pending > 0
        BY <4>1, FiniteCounts DEF PendingCounts, TypeOK
      <4> QED
        BY <2>1, <4>2 DEF Post, TypeOK
    <3>3. arg[t] \in AllMaps
      BY <2>1 DEF Post, PostingArg
    <3> QED
      BY <2>1, <3>1, <3>2, <3>3 DEF TypeOK, Post
  <2>2. CASE UpdateMap(t)
    BY <2>2 DEF TypeOK, UpdateMap, InstancesOf
  <2>3. CASE EndUpdate(t)
    BY <2>3 DEF TypeOK, EndUpdate, AfterUpdate
  <2>4. ASSUME NEW i \in Instances, DestroyInstance(t, i) \/ KeepInstance(t, i)
        PROVE  TypeOK'
    BY <2>4 DEF TypeOK, DestroyInstance, KeepInstance, AllMaps
  <2>5. ASSUME NEW i \in Instances, ScheduleInstance(t, i)
        PROVE  TypeOK'
    BY <2>5 DEF TypeOK, ScheduleInstance, LockAndCount, AllMaps
  <2>6. ASSUME NEW i \in Instances, UpdateInstanceInline(t, i)
        PROVE  TypeOK'
    BY <2>6 DEF TypeOK, UpdateInstanceInline, AllMaps
  <2> QED
    BY <1>8, <2>1, <2>2, <2>3, <2>4, <2>5, <2>6 DEF UpdateStep
<1>9. ASSUME NEW w \in Workers, Dequeue(w)
      PROVE  TypeOK'
  <2>1. Head(queue) \in AllMaps /\ Tail(queue) \in Seq(AllMaps)
    BY <1>9 DEF TypeOK, Dequeue
  <2> QED
    BY <1>9, <2>1 DEF TypeOK, Dequeue
<1>10. ASSUME NEW w \in Workers, Finish(w)
       PROVE  TypeOK'
  BY <1>10 DEF TypeOK, Finish, Woken
<1>11. ASSUME NEW w \in Workers, ExitRun(w)
       PROVE  TypeOK'
  BY <1>11 DEF TypeOK, ExitRun
<1>12. CASE SpuriousWakeup
  BY <1>12 DEF TypeOK, SpuriousWakeup, Woken
<1>13. ASSUME NEW m \in AllMaps, CreateMap(m)
       PROVE  TypeOK'
  BY <1>13 DEF TypeOK, CreateMap
<1>14. CASE BeginPass
  BY <1>14 DEF TypeOK, BeginPass
<1>15. CASE UnloadAll
  BY <1>15 DEF TypeOK, UnloadAll
<1>16. CASE Stopped \/ UNCHANGED vars
  BY <1>16 DEF TypeOK, Stopped, vars
<1> QED
  BY <1>1, <1>2, <1>3, <1>4, <1>5, <1>6, <1>7, <1>8, <1>9, <1>10, <1>11, <1>12,
     <1>13, <1>14, <1>15, <1>16
     DEF Next, WorldStep, WorkerStep, Environment
-----------------------------------------------------------------------------
\* A step that moves one thread, neither into nor out of a handler or
\* schedule_update, and leaves pending and queue alone, keeps the count.
LEMMA QuietMove ==
    ASSUME TypeOK, PendingCounts, NEW t \in Threads, NEW l, Goto(t, l),
           pc[t] # "posting", l # "posting",
           t = World \/ (Busy(t) <=> l \in BusyPCs),
           UNCHANGED <<pending, queue>>
    PROVE  PendingCounts' /\ BusyWorkers' = BusyWorkers
  BY MoveOther DEF PendingCounts

LEMMA SameMove ==
    ASSUME PendingCounts, UNCHANGED <<pc, pending, queue>>
    PROVE  PendingCounts' /\ BusyWorkers' = BusyWorkers
  BY DEF PendingCounts, BusyWorkers, Posting, Busy

LEMMA ScheduleCounts ==
    ASSUME TypeOK, PendingCounts, NEW t \in Threads, NEW m, LockAndCount(t, m),
           pc[t] # "posting", t = World \/ Busy(t), UNCHANGED queue
    PROVE  PendingCounts' /\ BusyWorkers' = BusyWorkers
<1>1. /\ BusyWorkers' = BusyWorkers
      /\ Cardinality(Posting') = Cardinality(Posting) + 1
  BY MoveIntoPosting DEF LockAndCount
<1>2. pending' = pending + 1 /\ queue' = queue
  BY DEF LockAndCount
<1> QED
  BY <1>1, <1>2, FiniteCounts DEF PendingCounts, TypeOK

\* Posting a request moves its claim on the counter from the scheduling thread
\* to the queue; rejecting it gives the claim back.
LEMMA PostCounts ==
    ASSUME TypeOK, PendingCounts, PostingArg, NEW t \in Threads, Post(t)
    PROVE  PendingCounts' /\ BusyWorkers' = BusyWorkers
<1>1. /\ BusyWorkers' = BusyWorkers
      /\ Cardinality(Posting') = Cardinality(Posting) - 1
  <2>1. pc[t] = "posting" /\ Goto(t, CallerOf(t)) /\ CallerOf(t) # "posting"
        /\ (t = World \/ CallerOf(t) \in BusyPCs)
    BY DEF Post, CallerOf, BusyPCs
  <2> QED
    BY <2>1, MoveOutOfPosting
<1>2. arg[t] \in AllMaps
  BY DEF Post, PostingArg
<1>3. CASE activated
  <2>1. Len(queue') = Len(queue) + 1 /\ pending' = pending
    BY <1>2, <1>3 DEF Post, TypeOK
  <2> QED
    BY <1>1, <2>1, FiniteCounts DEF PendingCounts, TypeOK
<1>4. CASE ~activated
  <2>1. Len(queue') = Len(queue) /\ pending' = pending - 1
    BY <1>4 DEF Post
  <2> QED
    BY <1>1, <2>1, FiniteCounts DEF PendingCounts, TypeOK
<1> QED
  BY <1>3, <1>4

\* A worker takes over the claim of the request at the head of the queue.
LEMMA DequeueCounts ==
    ASSUME TypeOK, PendingCounts, NEW w \in Workers, Dequeue(w)
    PROVE  PendingCounts'
<1>1. /\ Cardinality(BusyWorkers') = Cardinality(BusyWorkers) + 1
      /\ Posting' = Posting
  BY MoveIntoHandler DEF Dequeue, Busy
<1>2. Len(queue') = Len(queue) - 1 /\ pending' = pending
  BY DEF Dequeue, TypeOK
<1> QED
  BY <1>1, <1>2, FiniteCounts DEF PendingCounts, TypeOK

\* update_finished is owed by the worker, so the counter is not zero.
LEMMA FinishCounts ==
    ASSUME TypeOK, PendingCounts, NEW w \in Workers, Finish(w)
    PROVE  PendingCounts' /\ BusyWorkers' \subseteq BusyWorkers
<1>1. w \in BusyWorkers
  BY DEF Finish, BusyWorkers, Busy
<1>2. pending > 0 /\ pending' = pending - 1 /\ queue' = queue
  <2>1. Cardinality(BusyWorkers) > 0
    BY <1>1, FiniteCounts
  <2>2. pending > 0
    BY <2>1, FiniteCounts DEF PendingCounts, TypeOK
  <2> QED
    BY <2>2 DEF Finish, TypeOK
<1>3. \A v \in Workers : pc'[v] = IF v = w THEN "run" ELSE pc[v]
  BY MapUpdaterAssumption DEF Finish, TypeOK, Threads
<1>4. BusyWorkers' = BusyWorkers \ {w}
  BY <1>3 DEF BusyWorkers, Busy
<1>5. pc'[World] = "posting" <=> pc[World] = "posting"
  BY MapUpdaterAssumption DEF Finish, TypeOK, Threads, Woken
<1>6. Posting' = Posting
  <2>1. pc[w] = "finish"
    BY DEF Finish
  <2>2. \A t \in Threads : pc'[t] = "posting" <=> pc[t] = "posting"
    BY <1>3, <1>5, <2>1 DEF Threads
  <2> QED
    BY <2>2 DEF Posting
<1>7. Cardinality(BusyWorkers') = Cardinality(BusyWorkers) - 1
  <2>1. Cardinality(BusyWorkers \ {w}) = Cardinality(BusyWorkers) - 1
    BY <1>1, FiniteCounts, FS_RemoveElement
  <2> QED
    BY <1>4, <2>1
<1>8. PendingCounts'
  <2>1. pending = Len(queue) + Cardinality(BusyWorkers) + Cardinality(Posting)
        /\ Len(queue) \in Nat
    BY DEF PendingCounts, TypeOK
  <2> QED
    BY <1>2, <1>6, <1>7, <2>1, FiniteCounts DEF PendingCounts
<1> QED
  BY <1>4, <1>8

-----------------------------------------------------------------------------
LEMMA IInit == Init => IInv
<1> SUFFICES ASSUME Init PROVE IInv
  OBVIOUS
<1>1. TypeOK
  BY TypeInit
<1>2. BusyWorkers = {} /\ Posting = {}
  BY MapUpdaterAssumption DEF Init, BusyWorkers, Busy, Posting, Threads
<1>3. PendingCounts
  BY <1>1, <1>2, FiniteCounts DEF PendingCounts, Init
<1> QED
  BY <1>1, <1>2, <1>3, MapUpdaterAssumption
     DEF IInv, PostingArg, EmptyInv, Barrier, Quiet, Init, Threads

LEMMA INext == IInv /\ [Next]_vars => IInv'
<1> SUFFICES ASSUME IInv, [Next]_vars PROVE IInv'
  OBVIOUS
<1>1. TypeOK'
  BY TypeNext DEF IInv
<1> USE MapUpdaterAssumption DEF IInv
<1>2. PostingArg /\ TypeOK /\ PendingCounts
  OBVIOUS
<1> USE DEF Goto, loopVars, poolVars, mapVars
<1>3. CASE Initialize
  <2>1. /\ \A w \in Workers : pc'[w] \in {"run", "off"}
        /\ pc'[World] = "idle" /\ pc[World] = "init"
        /\ UNCHANGED <<arg, pending, queue>>
    BY <1>3 DEF Initialize, Threads
  <2>2. BusyWorkers' = {} /\ Posting' = {} /\ BusyWorkers = {}
    BY <2>1 DEF Threads, BusyWorkers, Posting, Busy, EmptyInv
  <2>3. Posting = {}
    BY <2>1, <2>2 DEF Threads, BusyWorkers, Posting, Busy
  <2>4. PostingArg' /\ EmptyInv' /\ Barrier'
    BY <2>1, <2>2 DEF PostingArg, EmptyInv, Barrier, Threads
  <2>5. PendingCounts'
    BY <2>1, <2>2, <2>3 DEF PendingCounts
  <2> QED
    BY <1>1, <2>4, <2>5
<1>4. ASSUME NEW m \in BaseMaps, ScheduleMap(m)
      PROVE  IInv'
  <2>1. PendingCounts' /\ BusyWorkers' = BusyWorkers
    BY <1>4, ScheduleCounts DEF ScheduleMap, Threads
  <2> QED
    BY <1>1, <1>4, <2>1
       DEF ScheduleMap, LockAndCount, PostingArg, EmptyInv, Barrier,
           Quiet, TypeOK, AllMaps
<1>5. ASSUME NEW m \in BaseMaps, UpdateMapInline(m)
      PROVE  IInv'
  <2>1. PendingCounts' /\ BusyWorkers' = BusyWorkers
    BY <1>5, QuietMove DEF UpdateMapInline, Threads
  <2> QED
    BY <1>1, <1>5, <2>1
       DEF UpdateMapInline, PostingArg, EmptyInv, Barrier, Quiet,
           TypeOK
<1>6. CASE EndSchedule
  <2>1. PendingCounts' /\ BusyWorkers' = BusyWorkers
    BY <1>6, QuietMove DEF EndSchedule, Threads
  <2> QED
    BY <1>1, <1>6, <2>1
       DEF EndSchedule, PostingArg, EmptyInv, Barrier, Quiet, TypeOK
\* The only way out of wait(): nothing is owed, so nothing queued or running.
<1>7. ASSUME NEW l \in {"wait", "drainWait"}, WaitTest(l)
      PROVE  IInv'
  <2>1. PendingCounts' /\ BusyWorkers' = BusyWorkers
    BY <1>7, QuietMove DEF WaitTest, Waiting, Returned, Threads
  <2>2. pending = 0 => queue = << >> /\ BusyWorkers = {}
    BY FiniteCounts DEF PendingCounts, TypeOK
  <2> QED
    BY <1>1, <1>7, <2>1, <2>2
       DEF WaitTest, Waiting, Returned, PostingArg, EmptyInv,
           Barrier, Quiet, TypeOK
<1>8. CASE DelayedUpdate \/ Drain \/ Join \/ SpuriousWakeup \/ BeginPass
           \/ UnloadAll
  <2> DEFINE l == pc'[World]
  <2>1. Goto(World, l) /\ l # "posting" /\ pc[World] # "posting"
        /\ UNCHANGED <<pending, queue, arg>>
    BY <1>8 DEF DelayedUpdate, Drain, Join, SpuriousWakeup, BeginPass,
                UnloadAll, Woken, Threads, TypeOK
  <2>2. PendingCounts' /\ BusyWorkers' = BusyWorkers
    BY <2>1, QuietMove DEF Threads
  <2>3. PostingArg'
    BY <2>1 DEF PostingArg, TypeOK
  <2> QED
    BY <1>1, <1>8, <2>1, <2>2, <2>3
       DEF DelayedUpdate, Drain, Join, SpuriousWakeup, BeginPass, UnloadAll,
           Woken, EmptyInv, Barrier, Quiet, TypeOK, Threads
<1>9. ASSUME NEW t \in Threads, Post(t)
      PROVE  IInv'
  <2>1. PendingCounts' /\ BusyWorkers' = BusyWorkers
    BY <1>9, PostCounts
  <2>2. PostingArg'
    BY <1>9 DEF PostingArg, Post, CallerOf, TypeOK
  <2>3. t = World \/ t \in BusyWorkers
    BY <1>9 DEF Post, BusyWorkers, Busy, Threads
  <2>5. EmptyInv'
    BY <1>9, <2>1, <2>3 DEF Post, CallerOf, EmptyInv, TypeOK, Threads
  <2>6. Barrier'
    BY <1>9, <2>1, <2>3 DEF Post, CallerOf, Barrier, Quiet, TypeOK, Threads
  <2> QED
    BY <1>1, <2>1, <2>2, <2>5, <2>6
<1>10. ASSUME NEW t \in Threads, UpdateMap(t) \/ EndUpdate(t)
       PROVE  IInv'
  <2>1. PendingCounts' /\ BusyWorkers' = BusyWorkers
    <3> DEFINE l == pc'[t]
    <3>1. Goto(t, l) /\ l # "posting" /\ pc[t] # "posting"
          /\ (t = World \/ (Busy(t) /\ l \in BusyPCs))
          /\ UNCHANGED <<pending, queue>>
      BY <1>10 DEF UpdateMap, EndUpdate, AfterUpdate, Busy, BusyPCs, TypeOK
    <3> QED
      BY <3>1, QuietMove
  <2>2. PostingArg'
    BY <1>10 DEF UpdateMap, EndUpdate, AfterUpdate, PostingArg, TypeOK
  <2> QED
    BY <1>1, <1>10, <2>1, <2>2
       DEF UpdateMap, EndUpdate, AfterUpdate, EmptyInv, Barrier,
           Quiet, TypeOK, Threads
<1>11. ASSUME NEW t \in Threads, NEW i \in Instances,
              \/ DestroyInstance(t, i) \/ KeepInstance(t, i)
              \/ UpdateInstanceInline(t, i)
       PROVE  IInv'
  <2>1. UNCHANGED <<pc, arg, pending, queue, activated>>
    BY <1>11 DEF DestroyInstance, KeepInstance, UpdateInstanceInline
  <2>2. PendingCounts' /\ BusyWorkers' = BusyWorkers
    BY <2>1, SameMove
  <2> QED
    BY <1>1, <2>1, <2>2 DEF PostingArg, EmptyInv, Barrier, Quiet
<1>12. ASSUME NEW t \in Threads, NEW i \in Instances, ScheduleInstance(t, i)
       PROVE  IInv'
  <2>1. PendingCounts' /\ BusyWorkers' = BusyWorkers
    BY <1>12, ScheduleCounts DEF ScheduleInstance, Busy, Threads
  <2>2. PostingArg'
    BY <1>12 DEF ScheduleInstance, LockAndCount, PostingArg, TypeOK, AllMaps
  <2> QED
    BY <1>1, <1>12, <2>1, <2>2
       DEF ScheduleInstance, LockAndCount, EmptyInv, Barrier, Quiet,
           TypeOK, Threads
<1>13. ASSUME NEW w \in Workers, Dequeue(w)
       PROVE  IInv'
  <2>1. PendingCounts'
    BY <1>13, DequeueCounts
  <2>2. queue # << >> /\ pc'[World] = pc[World] /\ activated' = activated
    BY <1>13 DEF Dequeue, TypeOK, Threads
  <2>3. PostingArg'
    BY <1>13 DEF Dequeue, PostingArg, TypeOK
  <2> QED
    BY <1>1, <2>1, <2>2, <2>3 DEF EmptyInv, Barrier, Quiet
<1>14. ASSUME NEW w \in Workers, Finish(w)
       PROVE  IInv'
  <2>1. PendingCounts' /\ BusyWorkers' \subseteq BusyWorkers
    BY <1>14, FinishCounts
  <2>2. w \in BusyWorkers /\ UNCHANGED <<queue, activated, arg>>
    BY <1>14 DEF Finish, BusyWorkers, Busy
  <2>3. ~Quiet /\ pc[World] # "init" /\ activated
    BY <2>2 DEF Barrier, EmptyInv
  <2>4. pc'[World] = IF pending = 0 THEN pc[World] ELSE Woken(pc[World])
    BY <1>14 DEF Finish, TypeOK, Threads
  <2>5. ~Quiet' /\ pc'[World] # "init"
    BY <2>3, <2>4 DEF Quiet, Woken
  <2>6. PostingArg'
    BY <1>14 DEF Finish, PostingArg, TypeOK, Threads, Woken
  <2> QED
    BY <1>1, <2>1, <2>2, <2>3, <2>5, <2>6
       DEF EmptyInv, Barrier, Quiet
<1>15. ASSUME NEW w \in Workers, ExitRun(w)
       PROVE  IInv'
  <2>1. PendingCounts' /\ BusyWorkers' = BusyWorkers
    BY <1>15, QuietMove DEF ExitRun, Busy, BusyPCs, Threads
  <2> QED
    BY <1>1, <1>15, <2>1
       DEF ExitRun, PostingArg, EmptyInv, Barrier, Quiet, TypeOK,
           Threads
<1>16. ASSUME NEW m \in AllMaps, CreateMap(m)
       PROVE  IInv'
  <2>1. UNCHANGED <<pc, arg, pending, queue, activated>>
    BY <1>16 DEF CreateMap
  <2> QED
    BY <1>1, <2>1, SameMove DEF PostingArg, EmptyInv, Barrier, Quiet
<1>17. CASE Stopped \/ UNCHANGED vars
  <2>1. UNCHANGED <<pc, arg, pending, queue, activated>>
    BY <1>17 DEF Stopped, vars
  <2> QED
    BY <1>1, <2>1, SameMove DEF PostingArg, EmptyInv, Barrier, Quiet
<1> QED
  BY <1>3, <1>4, <1>5, <1>6, <1>7, <1>8, <1>9, <1>10, <1>11, <1>12, <1>13,
     <1>14, <1>15, <1>16, <1>17
     DEF Next, WorldStep, WorkerStep, UpdateStep, Environment, Threads

\* Every reachable state of the pool is well typed.
THEOREM TypeCorrect == Spec => []TypeOK
  BY IInit, INext, PTL DEF Spec, IInv

\* pending_requests is always the number of requests still owed an
\* update_finished, for any pool and any nesting of instances.
THEOREM PendingCorrect == Spec => []PendingCounts
  BY IInit, INext, PTL DEF Spec, IInv

\* When MapManager::Update leaves wait(), and until the next pass, no map is
\* queued for or running an update on the pool.
THEOREM BarrierCorrect == Spec => []Barrier
  BY IInit, INext, PTL DEF Spec, IInv
=============================================================================
