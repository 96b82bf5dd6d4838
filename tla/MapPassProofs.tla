---------------------------- MODULE MapPassProofs ----------------------------
(***************************************************************************)
(* For any set of maps, any number of workers and any number of passes:    *)
(* the pool, its nested requests and its barrier implement MapPass, so     *)
(* that a pass updates, keeps or destroys every map exactly once; and no   *)
(* thread or queued request refers to a map that has been deleted.         *)
(*                                                                         *)
(* The argument: a map that is still due in this pass is claimed in one    *)
(* place only (the loop of the pass, a schedule_update, the queue, a       *)
(* thread about to update it, or a thread's list of instances), and an     *)
(* instance is claimed only after its base map has been updated.           *)
(***************************************************************************)
EXTENDS MapUpdaterProofs

Queued == {queue[k] : k \in 1..Len(queue)}

\* What the location of a thread says of the maps it holds, and when nothing
\* is going on in the pool.
Control ==
    /\ \A t \in Threads : arg[t] # NoMap <=> pc[t] = "posting"
    /\ \A w \in Workers : map[w] # NoMap <=> pc[w] \in {"update", "nested", "posting"}
    /\ map[World] # NoMap <=> pc[World] \in {"update", "nested"}
    /\ \A w \in Workers : instTodo[w] # {} => pc[w] \in {"nested", "posting"}
    /\ instTodo[World] # {} => pc[World] = "nested"
    /\ passTodo # {} => pc[World] \in {"sched", "update", "nested", "posting"}
    /\ pc[World] \in {"update", "nested"} => ~activated
    /\ \A t \in Threads : pc[t] = "posting" => activated

\* Outside the phase of the updates nothing is queued or running.
Resting ==
    pc[World] \in {"init", "idle", "delayed", "drainWait", "drainSleep",
                   "drain", "join", "stopped"}
        => queue = << >> /\ BusyWorkers = {}

\* A map is claimed in one place.
Claims ==
    /\ \A j, k \in 1..Len(queue) : queue[j] = queue[k] => j = k
    /\ Queued \cap passTodo = {}
    /\ \A s, t \in Threads : s # t =>
         /\ arg[s] # NoMap => arg[s] # arg[t]
         /\ pc[s] = "update" /\ pc[t] = "update" => map[s] # map[t]
         /\ instTodo[s] \cap instTodo[t] = {}
    /\ \A s, t \in Threads :
         /\ arg[s] \notin passTodo /\ arg[s] \notin Queued /\ arg[s] \notin instTodo[t]
         /\ pc[s] = "update" => /\ map[s] \notin passTodo /\ map[s] \notin Queued
                                /\ map[s] \notin instTodo[t] /\ map[s] # arg[t]
         /\ Queued \cap instTodo[t] = {}

\* What is claimed is due; a map that a thread has begun to update is not.
DueExact ==
    /\ \A m \in passTodo : outcome[m] = "due"
    /\ \A m \in Queued : outcome[m] = "due"
    /\ \A t \in Threads :
         /\ arg[t] # NoMap => outcome[arg[t]] = "due"
         /\ pc[t] = "update" => outcome[map[t]] = "due"
         /\ map[t] # NoMap /\ pc[t] # "update" => outcome[map[t]] # "due"
         /\ \A i \in instTodo[t] : outcome[i] = "due"

\* As long as a base map is due, nobody has come to its instances.
Nesting ==
    \A i \in Instances : outcome[ParentOf[i]] = "due" =>
        /\ outcome[i] = "due" /\ i \notin Queued
        /\ \A t \in Threads : arg[t] # i /\ map[t] # i /\ i \notin instTodo[t]

\* A map that exists and is due is claimed, or its base map is due.
Covered ==
    \A m \in exists : outcome[m] = "due" =>
        \/ m \in passTodo \/ m \in Queued
        \/ \E t \in Threads : \/ arg[t] = m
                              \/ pc[t] = "update" /\ map[t] = m
                              \/ m \in instTodo[t]
        \/ m \in Instances /\ outcome[ParentOf[m]] = "due"

\* A pass forgets nothing that exists.
Complete == passStage = "updating" => Covered

\* What is referred to exists, and so does the base map of an instance.
Alive ==
    /\ passTodo \subseteq exists /\ Queued \subseteq exists
    /\ \A t \in Threads : /\ arg[t] \in exists \cup {NoMap}
                          /\ map[t] \in exists \cup {NoMap}
                          /\ instTodo[t] \subseteq exists
    /\ \A i \in Instances \cap exists : ParentOf[i] \in exists

Inv ==
    /\ IInv
    /\ Control
    /\ Resting
    /\ Claims
    /\ DueExact
    /\ Nesting
    /\ Complete
    /\ Alive

-----------------------------------------------------------------------------
\* Posting a request, and taking the oldest one.
LEMMA QueueAppend ==
    ASSUME TypeOK, NEW m \in AllMaps, queue' = Append(queue, m)
    PROVE  /\ Queued' = Queued \cup {m}
           /\ (\A j, k \in 1..Len(queue) : queue[j] = queue[k] => j = k) /\ m \notin Queued
                => \A j, k \in 1..Len(queue') : queue'[j] = queue'[k] => j = k
<1> DEFINE n == Len(queue)
<1>1. /\ n \in Nat /\ Len(queue') = n + 1 /\ queue'[n + 1] = m
      /\ \A k \in 1..n : queue'[k] = queue[k]
  BY DEF TypeOK
<1> HIDE DEF n
<1>2. 1..n + 1 = 1..n \cup {n + 1}
  BY <1>1
<1>3. Queued = {queue[k] : k \in 1..n} /\ Queued' = {queue'[k] : k \in 1..n + 1}
  <2>1. Queued' = {queue'[k] : k \in 1..Len(queue')}
    BY DEF Queued
  <2> QED
    BY <1>1, <2>1 DEF Queued, n
<1>4. Queued' = Queued \cup {m}
  BY <1>1, <1>2, <1>3
<1>5. ASSUME \A j, k \in 1..n : queue[j] = queue[k] => j = k, m \notin Queued,
             NEW j \in 1..n + 1, NEW k \in 1..n + 1, queue'[j] = queue'[k]
      PROVE  j = k
  BY <1>1, <1>2, <1>3, <1>5
<1> QED
  BY <1>1, <1>4, <1>5 DEF n

LEMMA QueueTail ==
    ASSUME TypeOK, queue # << >>, queue' = Tail(queue),
           \A j, k \in 1..Len(queue) : queue[j] = queue[k] => j = k
    PROVE  /\ Queued' = Queued \ {Head(queue)} /\ Head(queue) \in Queued
           /\ Head(queue) \in AllMaps
           /\ \A j, k \in 1..Len(queue') : queue'[j] = queue'[k] => j = k
<1> DEFINE n == Len(queue)
<1>1. /\ n \in Nat /\ n >= 1 /\ Len(queue') = n - 1 /\ Head(queue) = queue[1]
      /\ Head(queue) \in AllMaps
      /\ \A k \in 1..n - 1 : queue'[k] = queue[k + 1]
  BY DEF TypeOK
<1> HIDE DEF n
<1>2. Queued = {queue[k] : k \in 1..n} /\ Queued' = {queue'[k] : k \in 1..n - 1}
  <2>1. Queued' = {queue'[k] : k \in 1..Len(queue')}
    BY DEF Queued
  <2> QED
    BY <1>1, <2>1 DEF Queued, n
<1>3. \A j, k \in 1..n : queue[j] = queue[k] => j = k
  BY DEF n
<1>4. \A k \in 1..n - 1 : k + 1 \in 1..n /\ k + 1 # 1
  BY <1>1
<1>5. 1 \in 1..n /\ \A k \in 1..n : k # 1 => k - 1 \in 1..n - 1 /\ (k - 1) + 1 = k
  BY <1>1
<1>6. Queued' \subseteq Queued \ {Head(queue)}
  <2> SUFFICES ASSUME NEW k \in 1..n - 1
               PROVE  queue'[k] \in Queued /\ queue'[k] # Head(queue)
    BY <1>2
  <2> QED
    BY <1>1, <1>2, <1>3, <1>4, <1>5
<1>7. Queued \ {Head(queue)} \subseteq Queued'
  <2> SUFFICES ASSUME NEW k \in 1..n, queue[k] # Head(queue)
               PROVE  queue[k] \in Queued'
    BY <1>2
  <2>1. k # 1
    BY <1>1
  <2> QED
    BY <1>1, <1>2, <1>5, <2>1
<1>8. ASSUME NEW j \in 1..n - 1, NEW k \in 1..n - 1, queue'[j] = queue'[k]
      PROVE  j = k
  <2>1. j + 1 = k + 1
    BY <1>1, <1>3, <1>4, <1>8
  <2> QED
    BY <1>1, <2>1
<1> QED
  BY <1>1, <1>2, <1>5, <1>6, <1>7, <1>8

\* A queue that is left alone.
LEMMA QueueSame == queue' = queue => Queued' = Queued
BY DEF Queued

-----------------------------------------------------------------------------
LEMMA InitInv == Init => Inv
<1> SUFFICES ASSUME Init PROVE Inv
  OBVIOUS
<1> USE MapUpdaterAssumption DEF Init
<1>1. Queued = {} /\ Len(queue) = 0
  BY DEF Queued
<1>2. BusyWorkers = {}
  BY DEF BusyWorkers, Busy, Threads
<1>3. Control
  BY DEF Control, Threads
<1>4. Resting /\ Claims /\ DueExact
  BY <1>1, <1>2 DEF Resting, Claims, DueExact, Threads
<1>5. Nesting /\ Alive
  BY <1>1 DEF Nesting, Alive, AllMaps
<1>6. Complete
  BY DEF Complete, Covered
<1> QED
  BY <1>3, <1>4, <1>5, <1>6, IInit DEF Inv

\* Steps that move no claim: a thread goes between two locations at which it
\* holds no map.
MoveStep ==
    \/ Initialize \/ EndSchedule \/ DelayedUpdate \/ Drain \/ Join
    \/ SpuriousWakeup \/ Stopped \/ UNCHANGED vars
    \/ \E l \in {"wait", "drainWait"} : WaitTest(l)
    \/ \E w \in Workers : Finish(w) \/ ExitRun(w)

LEMMA MoveKeeps ==
    ASSUME Inv, MoveStep
    PROVE  Control' /\ Claims' /\ DueExact' /\ Nesting' /\ Alive'
<1> USE MapUpdaterAssumption DEF Goto, loopVars, poolVars, mapVars, Threads
<1> DEFINE Holding == {"update", "nested", "posting"}
<1>1. UNCHANGED <<map, arg, instTodo, passTodo, queue, exists, outcome>>
  BY DEF MoveStep, Initialize, EndSchedule, DelayedUpdate, Drain, Join, SpuriousWakeup,
         Stopped, vars, WaitTest, Finish, ExitRun
<1>2. TypeOK /\ Control
  BY DEF Inv, IInv
<1>3. /\ \A t \in Threads : pc'[t] = pc[t] \/ (pc[t] \notin Holding /\ pc'[t] \notin Holding)
      /\ pc[World] = "sched" /\ passTodo # {} => pc'[World] = "sched"
      /\ (\A t \in Threads : pc[t] # "posting") \/ activated' = activated
      /\ pc[World] \in {"update", "nested"} => activated' = activated
  <2>1. CASE Initialize
    <3>1. pc[World] = "init" /\ BusyWorkers = {}
      BY <2>1 DEF Initialize, Inv, Resting
    <3>2. \A w \in Workers : pc[w] \notin Holding
      BY <3>1 DEF BusyWorkers, Busy
    <3>3. pc'[World] = "idle" /\ \A w \in Workers : pc'[w] \in {"run", "off"}
      BY <2>1 DEF Initialize
    <3> QED
      BY <3>1, <3>2, <3>3
  <2>2. CASE Drain
    <3>1. pc[World] = "drain" /\ BusyWorkers = {}
      BY <2>2 DEF Drain, Inv, Resting
    <3>2. \A w \in Workers : pc[w] \notin Holding
      BY <3>1 DEF BusyWorkers, Busy
    <3>3. pc'[World] = "join" /\ \A w \in Workers : pc'[w] = pc[w]
      BY <1>2, <2>2 DEF Drain, TypeOK
    <3> QED
      BY <3>1, <3>2, <3>3
  <2>3. CASE \E w \in Workers : Finish(w)
    <3>1. PICK w \in Workers : Finish(w)
      BY <2>3
    <3>2. /\ pc[w] = "finish" /\ pc'[w] = "run" /\ activated' = activated
          /\ \A v \in Workers : v # w => pc'[v] = pc[v]
          /\ pc'[World] \in {pc[World], Woken(pc[World])}
      BY <1>2, <3>1 DEF Finish, TypeOK
    <3>3. pc'[World] # pc[World] => pc[World] \in {"sleep", "drainSleep"}
                                     /\ pc'[World] \in {"wait", "drainWait"}
      BY <3>2 DEF Woken
    <3> QED
      BY <3>2, <3>3
  <2>4. CASE \E w \in Workers : ExitRun(w)
    BY <1>2, <2>4 DEF ExitRun, TypeOK
  <2>5. CASE \/ EndSchedule \/ DelayedUpdate \/ Join \/ SpuriousWakeup
             \/ \E l \in {"wait", "drainWait"} : WaitTest(l)
    <3>1. /\ activated' = activated /\ pc[World] \notin Holding /\ pc'[World] \notin Holding
          /\ pc[World] = "sched" => passTodo = {}
          /\ \A w \in Workers : pc'[w] = pc[w]
      BY <1>2, <2>5 DEF EndSchedule, DelayedUpdate, Join, SpuriousWakeup, WaitTest, Woken,
           Waiting, Returned, TypeOK
    <3> QED
      BY <3>1
  <2>6. CASE Stopped \/ UNCHANGED vars
    BY <2>6 DEF Stopped, vars
  <2> QED
    BY <2>1, <2>2, <2>3, <2>4, <2>5, <2>6 DEF MoveStep
<1>4. Control'
  BY <1>1, <1>2, <1>3 DEF Control
<1>5. Claims' /\ DueExact' /\ Nesting' /\ Alive'
  BY <1>1, <1>3, QueueSame DEF Inv, Claims, DueExact, Nesting, Alive
<1> QED
  BY <1>4, <1>5

\* A base map goes from the loop of the pass to schedule_update, or to the
\* world thread itself.
LEMMA ScheduleKeeps ==
    ASSUME Inv, NEW m \in BaseMaps, ScheduleMap(m) \/ UpdateMapInline(m)
    PROVE  Control' /\ Claims' /\ DueExact' /\ Nesting' /\ Alive'
<1> USE MapUpdaterAssumption DEF Goto, loopVars, poolVars, mapVars, Threads, AllMaps
<1>1. /\ UNCHANGED <<instTodo, queue, exists, outcome, activated>>
      /\ m \in passTodo /\ passTodo' = passTodo \ {m} /\ pc[World] = "sched"
      /\ Queued' = Queued
  BY QueueSame DEF ScheduleMap, UpdateMapInline, LockAndCount
<1>2. TypeOK /\ Control /\ Claims /\ DueExact /\ Nesting /\ Alive
  BY DEF Inv, IInv
<1>3. arg[World] = NoMap /\ map[World] = NoMap /\ instTodo[World] = {} /\ m # NoMap
  BY <1>1, <1>2 DEF Control
<1>4. CASE ScheduleMap(m)
  <2>1. /\ map' = map /\ arg' = [arg EXCEPT ![World] = m]
        /\ pc' = [pc EXCEPT ![World] = "posting"] /\ activated
    BY <1>4 DEF ScheduleMap, LockAndCount
  <2>2. Control'
    BY <1>1, <1>2, <1>3, <2>1 DEF Control, TypeOK
  <2>3. Claims'
    BY <1>1, <1>2, <1>3, <2>1 DEF Claims, TypeOK
  <2>4. DueExact' /\ Nesting' /\ Alive'
    BY <1>1, <1>2, <1>3, <2>1 DEF DueExact, Nesting, Alive, TypeOK
  <2> QED
    BY <2>2, <2>3, <2>4
<1>5. CASE UpdateMapInline(m)
  <2>1. /\ arg' = arg /\ map' = [map EXCEPT ![World] = m]
        /\ pc' = [pc EXCEPT ![World] = "update"] /\ ~activated
    BY <1>5 DEF UpdateMapInline
  <2>2. Control'
    BY <1>1, <1>2, <1>3, <2>1 DEF Control, TypeOK
  <2>3. Claims'
    BY <1>1, <1>2, <1>3, <2>1 DEF Claims, TypeOK
  <2>4. DueExact' /\ Nesting' /\ Alive'
    BY <1>1, <1>2, <1>3, <2>1 DEF DueExact, Nesting, Alive, TypeOK
  <2> QED
    BY <2>2, <2>3, <2>4
<1> QED
  BY <1>4, <1>5

\* A request goes from schedule_update to the queue.
LEMMA PostKeeps ==
    ASSUME Inv, NEW t \in Threads, Post(t)
    PROVE  Control' /\ Claims' /\ DueExact' /\ Nesting' /\ Alive'
<1> USE MapUpdaterAssumption DEF Goto, loopVars, poolVars, mapVars, Threads
<1>1. TypeOK /\ PostingArg /\ Control /\ Claims /\ DueExact /\ Nesting /\ Alive
  BY DEF Inv, IInv
<1>2. /\ pc[t] = "posting" /\ activated /\ arg[t] \in AllMaps /\ arg[t] # NoMap
      /\ UNCHANGED <<map, instTodo, passTodo, activated, exists, outcome>>
      /\ arg' = [arg EXCEPT ![t] = NoMap]
      /\ pc' = [pc EXCEPT ![t] = CallerOf(t)] /\ queue' = Append(queue, arg[t])
  BY <1>1 DEF Post, Control, PostingArg
<1>3. arg[t] \notin Queued
  BY <1>1, <1>2 DEF Claims
<1>4. /\ Queued' = Queued \cup {arg[t]}
      /\ \A j, k \in 1..Len(queue') : queue'[j] = queue'[k] => j = k
  BY <1>1, <1>2, <1>3, QueueAppend DEF Claims
<1>5. Control'
  BY <1>1, <1>2 DEF Control, TypeOK, CallerOf
<1>6. Claims'
  <2>1. NoMap \notin Queued \cup passTodo /\ \A s \in Threads : NoMap \notin instTodo[s]
    BY <1>1 DEF Alive, TypeOK
  <2>2. CallerOf(t) # "update"
    BY DEF CallerOf
  <2>3. \A s \in Threads :
          /\ arg'[s] = IF s = t THEN NoMap ELSE arg[s]
          /\ pc'[s] = "update" => pc[s] = "update"
    BY <1>1, <1>2, <2>2 DEF TypeOK
  <2>4. arg[t] \notin passTodo /\ \A s \in Threads : arg[t] \notin instTodo[s]
    BY <1>1 DEF Claims
  <2>5. Queued' \cap passTodo = {} /\ \A s \in Threads : Queued' \cap instTodo[s] = {}
    BY <1>1, <1>4, <2>4 DEF Claims
  <2>6. ASSUME NEW r \in Threads, NEW s \in Threads, r # s
        PROVE  /\ arg'[r] # NoMap => arg'[r] # arg'[s]
               /\ pc'[r] = "update" /\ pc'[s] = "update" => map[r] # map[s]
               /\ instTodo[r] \cap instTodo[s] = {}
    BY <1>1, <2>3, <2>6 DEF Claims
  <2>7. ASSUME NEW r \in Threads, NEW s \in Threads
        PROVE  arg'[r] \notin passTodo /\ arg'[r] \notin Queued' /\ arg'[r] \notin instTodo[s]
    BY <1>1, <1>2, <1>4, <2>1, <2>3 DEF Claims
  <2>8. ASSUME NEW r \in Threads, NEW s \in Threads, pc'[r] = "update"
        PROVE  /\ map[r] \notin passTodo /\ map[r] \notin Queued'
               /\ map[r] \notin instTodo[s] /\ map[r] # arg'[s]
    <3>1. map[r] # NoMap /\ pc[r] = "update"
      BY <1>1, <2>3, <2>8 DEF Control
    <3> QED
      BY <1>1, <1>4, <2>3, <3>1 DEF Claims
  <2> QED
    BY <1>2, <1>4, <2>5, <2>6, <2>7, <2>8 DEF Claims
<1>7. DueExact'
  BY <1>1, <1>2, <1>4 DEF DueExact, TypeOK, CallerOf
<1>8. Nesting'
  BY <1>1, <1>2, <1>4 DEF Nesting, TypeOK, AllMaps
<1>9. Alive'
  BY <1>1, <1>2, <1>4 DEF Alive, TypeOK
<1> QED
  BY <1>5, <1>6, <1>7, <1>8, <1>9

\* And from the queue to a worker.
LEMMA DequeueKeeps ==
    ASSUME Inv, NEW w \in Workers, Dequeue(w)
    PROVE  Control' /\ Claims' /\ DueExact' /\ Nesting' /\ Alive'
<1> USE MapUpdaterAssumption DEF Goto, loopVars, poolVars, mapVars, Threads
<1> DEFINE h == Head(queue)
<1>1. TypeOK /\ Control /\ Claims /\ DueExact /\ Nesting /\ Alive
  BY DEF Inv, IInv
<1>2. /\ pc[w] = "run" /\ queue # << >> /\ queue' = Tail(queue)
      /\ UNCHANGED <<arg, instTodo, passTodo, activated, exists, outcome>>
      /\ map' = [map EXCEPT ![w] = h] /\ pc' = [pc EXCEPT ![w] = "update"]
  BY DEF Dequeue
<1>3. /\ Queued' = Queued \ {h} /\ h \in Queued /\ h \in AllMaps /\ h # NoMap
      /\ \A j, k \in 1..Len(queue') : queue'[j] = queue'[k] => j = k
  BY <1>1, <1>2, QueueTail DEF Claims, AllMaps
<1> HIDE DEF h
<1>4. map[w] = NoMap /\ arg[w] = NoMap /\ instTodo[w] = {}
  BY <1>1, <1>2 DEF Control
<1>5. Control'
  BY <1>1, <1>2, <1>3, <1>4 DEF Control, TypeOK
<1>6. Claims'
  BY <1>1, <1>2, <1>3, <1>4 DEF Claims, TypeOK
<1>7. DueExact' /\ Nesting' /\ Alive'
  BY <1>1, <1>2, <1>3, <1>4 DEF DueExact, Nesting, Alive, TypeOK
<1> QED
  BY <1>5, <1>6, <1>7

\* A thread begins to update a map: it is no longer due, and the thread claims
\* its instances, which nobody has come to before.
LEMMA UpdateMapKeeps ==
    ASSUME Inv, NEW t \in Threads, UpdateMap(t)
    PROVE  /\ Control' /\ Claims' /\ DueExact' /\ Nesting' /\ Alive'
           /\ map[t] \in exists /\ outcome[map[t]] = "due"
           /\ outcome' = [outcome EXCEPT ![map[t]] = "updated"]
<1> USE MapUpdaterAssumption DEF Goto, loopVars, poolVars, mapVars, Threads
<1> DEFINE m == map[t]
<1>1. TypeOK /\ Control /\ Claims /\ DueExact /\ Nesting /\ Alive
  BY DEF Inv, IInv
<1>2. /\ pc[t] = "update" /\ UNCHANGED <<map, arg, passTodo, queue, activated, exists>>
      /\ instTodo' = [instTodo EXCEPT ![t] = InstancesOf(m) \cap exists]
      /\ pc' = [pc EXCEPT ![t] = "nested"] /\ Queued' = Queued
  BY QueueSame DEF UpdateMap
<1>3. /\ m # NoMap /\ m \in exists /\ m \in AllMaps /\ outcome[m] = "due"
      /\ instTodo[t] = {}
  BY <1>1, <1>2 DEF Control, Alive, DueExact, TypeOK
<1>4. outcome' = [outcome EXCEPT ![m] = "updated"]
  BY <1>1, <1>3 DEF UpdateMap, Settle, TypeOK
<1>5. /\ m \notin passTodo /\ m \notin Queued
      /\ \A s \in Threads : /\ arg[s] # m
                            /\ m \notin instTodo[s]
                            /\ s # t /\ pc[s] = "update" => map[s] # m
  BY <1>1, <1>2, <1>3 DEF Claims
<1>6. \A i \in InstancesOf(m) :
         /\ i \in Instances /\ i # m /\ outcome[i] = "due" /\ i \notin Queued
         /\ \A s \in Threads : arg[s] # i /\ map[s] # i /\ i \notin instTodo[s]
  BY <1>1, <1>3 DEF InstancesOf, Nesting
<1>7. m \in Instances => InstancesOf(m) = {} /\ outcome[ParentOf[m]] # "due"
  BY <1>1 DEF InstancesOf, Nesting
<1>8. Control'
  BY <1>1, <1>2 DEF Control, TypeOK
<1>9. Claims'
  <2>1. \A i \in InstancesOf(m) : i \notin passTodo
    BY <1>1, <1>6 DEF TypeOK
  <2>2. \A s \in Threads :
          /\ instTodo'[s] = IF s = t THEN InstancesOf(m) \cap exists ELSE instTodo[s]
          /\ pc'[s] = "update" => pc[s] = "update"
    BY <1>1, <1>2 DEF TypeOK
  <2> HIDE DEF m
  <2> QED
    BY <1>1, <1>2, <1>6, <2>1, <2>2 DEF Claims
<1>10. DueExact'
  <2>1. \A x \in AllMaps : outcome'[x] = IF x = m THEN "updated" ELSE outcome[x]
    BY <1>1, <1>4 DEF TypeOK
  <2>2. /\ passTodo \subseteq AllMaps /\ Queued \subseteq AllMaps
        /\ \A s \in Threads : /\ instTodo[s] \subseteq AllMaps
                              /\ arg[s] \in AllMaps \cup {NoMap}
                              /\ map[s] \in AllMaps \cup {NoMap}
    BY <1>1 DEF Alive, TypeOK
  <2>3. \A s \in Threads :
          /\ instTodo'[s] = IF s = t THEN InstancesOf(m) \cap exists ELSE instTodo[s]
          /\ pc'[s] = IF s = t THEN "nested" ELSE pc[s]
    BY <1>1, <1>2 DEF TypeOK
  <2>4. \A x \in passTodo : outcome'[x] = "due"
    BY <1>1, <1>5, <2>1, <2>2 DEF DueExact
  <2>5. \A x \in Queued : outcome'[x] = "due"
    BY <1>1, <1>5, <2>1, <2>2 DEF DueExact
  <2>6. ASSUME NEW s \in Threads
        PROVE  /\ arg[s] # NoMap => outcome'[arg[s]] = "due"
               /\ pc'[s] = "update" => outcome'[map[s]] = "due"
               /\ map[s] # NoMap /\ pc'[s] # "update" => outcome'[map[s]] # "due"
    BY <1>1, <1>5, <2>1, <2>2, <2>3, <1>3, <1>2 DEF DueExact, Control
  <2>7. ASSUME NEW s \in Threads, NEW i \in instTodo'[s]
        PROVE  outcome'[i] = "due"
    <3>1. CASE s = t
      <4>1. i \in InstancesOf(m)
        BY <2>3, <2>7, <3>1
      <4> QED
        BY <1>6, <2>1, <4>1 DEF AllMaps
    <3>2. CASE s # t
      <4>1. i \in instTodo[s] /\ i # m
        BY <1>5, <2>3, <2>7, <3>2
      <4> QED
        BY <1>1, <2>1, <2>2, <4>1 DEF DueExact
    <3> QED
      BY <3>1, <3>2
  <2> QED
    BY <1>2, <2>4, <2>5, <2>6, <2>7 DEF DueExact
<1>11. Nesting'
  <2> SUFFICES ASSUME NEW i \in Instances, outcome'[ParentOf[i]] = "due"
               PROVE  /\ outcome'[i] = "due" /\ i \notin Queued
                      /\ \A s \in Threads : arg[s] # i /\ map[s] # i /\ i \notin instTodo'[s]
    BY <1>2 DEF Nesting
  <2>1. ParentOf[i] # m /\ outcome[ParentOf[i]] = "due"
    BY <1>1, <1>4 DEF TypeOK, AllMaps
  <2>2. /\ outcome[i] = "due" /\ i \notin Queued
        /\ \A s \in Threads : arg[s] # i /\ map[s] # i /\ i \notin instTodo[s]
    BY <1>1, <2>1 DEF Nesting
  <2>3. i # m /\ outcome'[i] = "due"
    BY <1>1, <1>4, <2>2 DEF TypeOK, AllMaps
  <2>4. i \notin InstancesOf(m)
    BY <2>1 DEF InstancesOf
  <2> QED
    BY <1>1, <1>2, <2>2, <2>3, <2>4 DEF TypeOK
<1>12. Alive'
  BY <1>1, <1>2 DEF Alive, TypeOK
<1> QED
  BY <1>3, <1>4, <1>8, <1>9, <1>10, <1>11, <1>12

\* A thread settles one of its instances without scheduling it.
SettleInstance(t, i, how) ==
    /\ pc[t] = "nested" /\ i \in instTodo[t]
    /\ instTodo' = [instTodo EXCEPT ![t] = @ \ {i}]
    /\ Settle(i, how)
    /\ exists' = IF how = "destroyed" THEN exists \ {i} ELSE exists
    /\ UNCHANGED <<pc, map, arg, passTodo, queue, activated, pending, passes>>

LEMMA InstanceSteps ==
    ASSUME NEW t \in Threads, NEW i \in Instances
    PROVE  /\ DestroyInstance(t, i) => SettleInstance(t, i, "destroyed")
           /\ KeepInstance(t, i) => SettleInstance(t, i, "kept")
           /\ UpdateInstanceInline(t, i) => SettleInstance(t, i, "updated")
BY DEF DestroyInstance, KeepInstance, UpdateInstanceInline, SettleInstance, poolVars

LEMMA SettleKeeps ==
    ASSUME Inv, NEW t \in Threads, NEW i \in Instances,
           NEW how \in {"updated", "kept", "destroyed"}, SettleInstance(t, i, how)
    PROVE  /\ Control' /\ Claims' /\ DueExact' /\ Nesting' /\ Alive'
           /\ i \in exists /\ outcome[i] = "due"
           /\ outcome' = [outcome EXCEPT ![i] = how]
<1> USE MapUpdaterAssumption DEF Threads
<1>1. TypeOK /\ Control /\ Claims /\ DueExact /\ Nesting /\ Alive
  BY DEF Inv, IInv
<1>2. /\ pc[t] = "nested" /\ i \in instTodo[t]
      /\ UNCHANGED <<pc, map, arg, passTodo, queue, activated>>
      /\ instTodo' = [instTodo EXCEPT ![t] = @ \ {i}] /\ Queued' = Queued
      /\ exists' \in {exists, exists \ {i}}
  BY QueueSame DEF SettleInstance
<1>3. i \in exists /\ outcome[i] = "due"
  BY <1>1, <1>2 DEF DueExact, Alive
<1>4. outcome' = [outcome EXCEPT ![i] = how]
  BY <1>1, <1>3 DEF SettleInstance, Settle, TypeOK
<1>5. \A x \in AllMaps : outcome'[x] = IF x = i THEN how ELSE outcome[x]
  BY <1>1, <1>4 DEF TypeOK
<1>6. /\ i \notin passTodo /\ i \notin Queued /\ i # NoMap /\ i \in AllMaps
      /\ \A s \in Threads : /\ arg[s] # i
                            /\ map[s] # i
                            /\ s # t => i \notin instTodo[s]
                            /\ i \notin instTodo'[s]
  <2>1. i \notin passTodo /\ i \notin Queued /\ i \in AllMaps
    BY <1>1, <1>2 DEF Claims, TypeOK, AllMaps
  <2>2. ASSUME NEW s \in Threads
        PROVE  arg[s] # i /\ (s # t => i \notin instTodo[s])
    BY <1>1, <1>2 DEF Claims
  <2>3. ASSUME NEW s \in Threads
        PROVE  map[s] # i
    BY <1>1, <1>2, <1>3, <2>1 DEF Claims, DueExact
  <2> QED
    BY <1>1, <1>2, <2>1, <2>2, <2>3 DEF TypeOK
<1>7. \A s \in Threads : instTodo'[s] \subseteq instTodo[s]
  BY <1>1, <1>2 DEF TypeOK
<1>8. outcome[ParentOf[i]] # "due"
  BY <1>1, <1>2 DEF Nesting
<1>9. Control'
  BY <1>1, <1>2, <1>7 DEF Control
<1>10. Claims'
  BY <1>1, <1>2, <1>7 DEF Claims
<1>11. DueExact'
  <2>1. /\ passTodo \subseteq AllMaps /\ Queued \subseteq AllMaps
        /\ \A s \in Threads : /\ instTodo[s] \subseteq AllMaps
                              /\ arg[s] \in AllMaps \cup {NoMap}
                              /\ map[s] \in AllMaps \cup {NoMap}
    BY <1>1 DEF Alive, TypeOK
  <2>2. \A x \in passTodo \cup Queued : outcome'[x] = "due"
    BY <1>1, <1>5, <1>6, <2>1 DEF DueExact
  <2>3. ASSUME NEW s \in Threads
        PROVE  /\ arg[s] # NoMap => outcome'[arg[s]] = "due"
               /\ pc[s] = "update" => outcome'[map[s]] = "due"
               /\ map[s] # NoMap /\ pc[s] # "update" => outcome'[map[s]] # "due"
    <3>1. pc[s] = "update" => map[s] # NoMap
      BY <1>1 DEF Control
    <3>2. arg[s] # i /\ map[s] # i
      BY <1>6
    <3> QED
      BY <1>1, <1>5, <2>1, <3>1, <3>2 DEF DueExact
  <2>4. ASSUME NEW s \in Threads, NEW x \in instTodo'[s]
        PROVE  outcome'[x] = "due"
    <3>1. x \in instTodo[s] /\ x # i /\ x \in AllMaps
      BY <1>6, <1>7, <2>1, <2>4
    <3> QED
      BY <1>1, <1>5, <3>1 DEF DueExact
  <2> QED
    BY <1>2, <2>2, <2>3, <2>4 DEF DueExact
<1>12. Nesting'
  <2>1. \A x \in Instances : ParentOf[x] \in AllMaps /\ ParentOf[x] # i /\ x \in AllMaps
    BY DEF AllMaps
  <2> QED
    BY <1>1, <1>2, <1>5, <1>7, <1>8, <2>1 DEF Nesting
<1>13. Alive'
  <2>1. \A x \in Instances : ParentOf[x] # i
    OBVIOUS
  <2> QED
    BY <1>1, <1>2, <1>6, <1>7, <2>1 DEF Alive
<1> QED
  BY <1>3, <1>4, <1>9, <1>10, <1>11, <1>12, <1>13

\* An instance goes from the list of a thread to schedule_update.
LEMMA ScheduleInstanceKeeps ==
    ASSUME Inv, NEW t \in Threads, NEW i \in Instances, ScheduleInstance(t, i)
    PROVE  Control' /\ Claims' /\ DueExact' /\ Nesting' /\ Alive'
<1> USE MapUpdaterAssumption DEF Goto, loopVars, poolVars, mapVars, Threads
<1>1. TypeOK /\ Control /\ Claims /\ DueExact /\ Nesting /\ Alive
  BY DEF Inv, IInv
<1>2. /\ pc[t] = "nested" /\ i \in instTodo[t] /\ activated
      /\ UNCHANGED <<map, passTodo, queue, activated, exists, outcome>>
      /\ instTodo' = [instTodo EXCEPT ![t] = @ \ {i}]
      /\ arg' = [arg EXCEPT ![t] = i]
      /\ pc' = [pc EXCEPT ![t] = "posting"] /\ Queued' = Queued
  BY QueueSame DEF ScheduleInstance, LockAndCount
<1>3. t \in Workers /\ arg[t] = NoMap /\ i # NoMap
  BY <1>1, <1>2 DEF Control, AllMaps
<1>4. \A s \in Threads :
        /\ arg'[s] = IF s = t THEN i ELSE arg[s]
        /\ instTodo'[s] = IF s = t THEN instTodo[t] \ {i} ELSE instTodo[s]
        /\ pc'[s] = IF s = t THEN "posting" ELSE pc[s]
  BY <1>1, <1>2 DEF TypeOK
<1>5. Control'
  BY <1>1, <1>2, <1>3, <1>4 DEF Control
<1>6. Claims'
  <2>1. i \notin passTodo
    BY <1>1 DEF TypeOK
  <2> QED
    BY <1>1, <1>2, <1>3, <1>4, <2>1 DEF Claims
<1>7. DueExact'
  BY <1>1, <1>2, <1>4 DEF DueExact
<1>8. Nesting'
  BY <1>1, <1>2, <1>4 DEF Nesting
<1>9. Alive'
  BY <1>1, <1>2, <1>4 DEF Alive
<1> QED
  BY <1>5, <1>6, <1>7, <1>8, <1>9

\* A thread has been through its instances.
LEMMA EndUpdateKeeps ==
    ASSUME Inv, NEW t \in Threads, EndUpdate(t)
    PROVE  Control' /\ Claims' /\ DueExact' /\ Nesting' /\ Alive'
<1> USE MapUpdaterAssumption DEF Goto, loopVars, poolVars, mapVars, Threads
<1>1. TypeOK /\ Control /\ Claims /\ DueExact /\ Nesting /\ Alive
  BY DEF Inv, IInv
<1>2. /\ pc[t] = "nested" /\ instTodo[t] = {} /\ Queued' = Queued
      /\ UNCHANGED <<arg, instTodo, passTodo, queue, activated, exists, outcome>>
      /\ map' = [map EXCEPT ![t] = NoMap]
      /\ pc' = [pc EXCEPT ![t] = AfterUpdate(t)]
  BY QueueSame DEF EndUpdate
<1>3. \A s \in Threads :
        /\ map'[s] = IF s = t THEN NoMap ELSE map[s]
        /\ pc'[s] = IF s = t THEN AfterUpdate(t) ELSE pc[s]
  BY <1>1, <1>2 DEF TypeOK
<1>4. Control'
  BY <1>1, <1>2, <1>3 DEF Control, AfterUpdate
<1>5. Claims' /\ DueExact'
  BY <1>1, <1>2, <1>3 DEF Claims, DueExact, AfterUpdate
<1>6. Nesting' /\ Alive'
  BY <1>1, <1>2, <1>3 DEF Nesting, Alive, AllMaps
<1> QED
  BY <1>4, <1>5, <1>6

\* Between two passes: maps are created, the next pass begins, or all is deleted.
LEMMA IdleKeeps ==
    ASSUME Inv, BeginPass \/ UnloadAll \/ \E m \in AllMaps : CreateMap(m)
    PROVE  Control' /\ Claims' /\ DueExact' /\ Nesting' /\ Alive'
<1> USE MapUpdaterAssumption DEF Goto, loopVars, poolVars, mapVars, Threads
<1>1. TypeOK /\ Control /\ Claims /\ DueExact /\ Nesting /\ Alive
  BY DEF Inv, IInv
<1>2. /\ pc[World] = "idle" /\ queue = << >> /\ BusyWorkers = {}
      /\ UNCHANGED <<map, arg, instTodo, queue, activated>>
      /\ \A w \in Workers : pc'[w] = pc[w]
  BY <1>1 DEF BeginPass, UnloadAll, CreateMap, Inv, Resting, TypeOK
<1>3. /\ \A t \in Threads : /\ pc[t] \notin {"update", "nested", "posting"}
                            /\ map[t] = NoMap /\ arg[t] = NoMap /\ instTodo[t] = {}
      /\ passTodo = {} /\ Queued = {} /\ Queued' = {}
  <2>1. \A w \in Workers : pc[w] \notin {"update", "nested", "posting"}
    BY <1>2 DEF BusyWorkers, Busy
  <2>2. Queued = {} /\ Queued' = {}
    BY <1>2 DEF Queued
  <2> QED
    BY <1>1, <1>2, <2>1, <2>2 DEF Control
<1>4. /\ pc'[World] \in {"idle", "sched", "drainWait", "stopped"}
      /\ passTodo' # {} => pc'[World] = "sched"
      /\ passTodo' \subseteq BaseMaps \cap exists'
  BY <1>1, <1>2, <1>3 DEF BeginPass, UnloadAll, CreateMap, TypeOK
<1>5. Control'
  BY <1>1, <1>2, <1>3, <1>4 DEF Control
<1>6. Claims'
  BY <1>2, <1>3, <1>4 DEF Claims, AllMaps
<1>7. DueExact' /\ Nesting'
  <2>1. CASE BeginPass
    BY <1>2, <1>3, <1>4, <2>1 DEF BeginPass, DueExact, Nesting, AllMaps
  <2>2. CASE UnloadAll \/ \E m \in AllMaps : CreateMap(m)
    <3>1. outcome' = outcome /\ passTodo' = {}
      BY <1>3, <2>2 DEF UnloadAll, CreateMap
    <3> QED
      BY <1>1, <1>2, <1>3, <1>4, <3>1 DEF DueExact, Nesting, AllMaps
  <2> QED
    BY <2>1, <2>2
<1>8. Alive'
  <2>1. \A i \in Instances \cap exists' : ParentOf[i] \in exists'
    BY <1>1 DEF BeginPass, UnloadAll, CreateMap, Alive
  <2> QED
    BY <1>2, <1>3, <1>4, <2>1 DEF Alive
<1> QED
  BY <1>5, <1>6, <1>7, <1>8

-----------------------------------------------------------------------------
(* Nothing is forgotten.                                                   *)

\* A claim that goes to another place is still there.
LEMMA MoveCovers ==
    ASSUME Inv, Covered, MoveStep
    PROVE  Covered'
<1> USE MapUpdaterAssumption DEF Goto, loopVars, poolVars, mapVars, Threads
<1>1. UNCHANGED <<map, arg, instTodo, passTodo, queue, exists, outcome>>
  BY DEF MoveStep, Initialize, EndSchedule, DelayedUpdate, Drain, Join, SpuriousWakeup,
         Stopped, vars, WaitTest, Finish, ExitRun
<1>2. \A t \in Threads : pc[t] = "update" => pc'[t] = "update"
  <2>1. TypeOK /\ (pc[World] = "init" => \A w \in Workers : pc[w] # "update")
    BY DEF Inv, IInv, Resting, BusyWorkers, Busy
  <2>2. CASE Initialize
    BY <2>1, <2>2 DEF Initialize
  <2>3. CASE MoveStep /\ ~Initialize
    BY <2>1, <2>3 DEF TypeOK, MoveStep, EndSchedule, DelayedUpdate, Drain, Join,
         SpuriousWakeup, Stopped, vars, WaitTest, Finish, ExitRun, Woken
  <2> QED
    BY <2>2, <2>3
<1> QED
  BY <1>1, <1>2, QueueSame DEF Covered

LEMMA ClaimCovers ==
    ASSUME Inv, Covered, NEW t \in Threads,
           \/ \E m \in BaseMaps : ScheduleMap(m) \/ UpdateMapInline(m)
           \/ Post(t) \/ EndUpdate(t)
           \/ t \in Workers /\ Dequeue(t)
           \/ \E i \in Instances : ScheduleInstance(t, i)
    PROVE  Covered'
<1> USE MapUpdaterAssumption DEF Goto, loopVars, poolVars, mapVars, Threads
<1>1. TypeOK /\ PostingArg /\ Control /\ Claims /\ World \in Threads
  BY DEF Inv, IInv
<1>2. ASSUME NEW m \in BaseMaps, ScheduleMap(m)
      PROVE  Covered'
  <2>1. /\ pc[World] = "sched" /\ pc' = [pc EXCEPT ![World] = "posting"]
        /\ arg' = [arg EXCEPT ![World] = m] /\ passTodo' = passTodo \ {m}
        /\ UNCHANGED <<map, instTodo, exists, outcome>> /\ Queued' = Queued
    BY <1>2, QueueSame DEF ScheduleMap, LockAndCount
  <2>2. arg[World] = NoMap /\ NoMap \notin exists
    BY <1>1, <2>1 DEF Control, TypeOK
  <2> QED
    BY <1>1, <2>1, <2>2 DEF Covered, TypeOK
<1>3. ASSUME NEW m \in BaseMaps, UpdateMapInline(m)
      PROVE  Covered'
  <2>1. /\ pc[World] = "sched" /\ pc' = [pc EXCEPT ![World] = "update"]
        /\ map' = [map EXCEPT ![World] = m] /\ passTodo' = passTodo \ {m}
        /\ UNCHANGED <<arg, instTodo, exists, outcome>> /\ Queued' = Queued
    BY <1>3, QueueSame DEF UpdateMapInline
  <2> QED
    BY <1>1, <2>1 DEF Covered, TypeOK
<1>4. CASE Post(t)
  <2>1. /\ pc[t] = "posting" /\ activated /\ arg[t] \in AllMaps
        /\ UNCHANGED <<map, instTodo, passTodo, exists, outcome>>
        /\ arg' = [arg EXCEPT ![t] = NoMap]
        /\ pc' = [pc EXCEPT ![t] = CallerOf(t)] /\ queue' = Append(queue, arg[t])
    BY <1>1, <1>4 DEF Post, Control, PostingArg
  <2>2. Queued' = Queued \cup {arg[t]}
    BY <1>1, <2>1, QueueAppend
  <2>3. \A s \in Threads : s # t => arg'[s] = arg[s] /\ pc'[s] = pc[s]
    BY <1>1, <2>1 DEF TypeOK
  <2> QED
    BY <2>1, <2>2, <2>3 DEF Covered
<1>5. CASE EndUpdate(t)
  <2>1. /\ pc[t] = "nested" /\ Queued' = Queued
        /\ UNCHANGED <<arg, instTodo, passTodo, exists, outcome>>
        /\ map' = [map EXCEPT ![t] = NoMap]
        /\ pc' = [pc EXCEPT ![t] = AfterUpdate(t)]
    BY <1>5, QueueSame DEF EndUpdate
  <2>2. \A s \in Threads : s # t => map'[s] = map[s] /\ pc'[s] = pc[s]
    BY <1>1, <2>1 DEF TypeOK
  <2> QED
    BY <2>1, <2>2 DEF Covered
<1>6. CASE t \in Workers /\ Dequeue(t)
  <2>1. /\ pc[t] = "run" /\ queue # << >> /\ queue' = Tail(queue)
        /\ UNCHANGED <<arg, instTodo, passTodo, exists, outcome>>
        /\ map' = [map EXCEPT ![t] = Head(queue)] /\ pc' = [pc EXCEPT ![t] = "update"]
    BY <1>6 DEF Dequeue
  <2>2. Queued' = Queued \ {Head(queue)}
    BY <1>1, <2>1, QueueTail DEF Claims
  <2>3. /\ \A s \in Threads : s # t => map'[s] = map[s] /\ pc'[s] = pc[s]
        /\ map'[t] = Head(queue) /\ pc'[t] = "update"
    BY <1>1, <2>1 DEF TypeOK
  <2> QED
    BY <2>1, <2>2, <2>3 DEF Covered
<1>7. ASSUME NEW i \in Instances, ScheduleInstance(t, i)
      PROVE  Covered'
  <2>1. /\ pc[t] = "nested" /\ Queued' = Queued
        /\ UNCHANGED <<map, passTodo, exists, outcome>>
        /\ instTodo' = [instTodo EXCEPT ![t] = @ \ {i}]
        /\ arg' = [arg EXCEPT ![t] = i] /\ pc' = [pc EXCEPT ![t] = "posting"]
    BY <1>7, QueueSame DEF ScheduleInstance, LockAndCount
  <2>2. arg[t] = NoMap /\ NoMap \notin exists
    BY <1>1, <2>1 DEF Control, TypeOK
  <2>3. /\ \A s \in Threads : s # t =>
              arg'[s] = arg[s] /\ pc'[s] = pc[s] /\ instTodo'[s] = instTodo[s]
        /\ arg'[t] = i /\ instTodo'[t] = instTodo[t] \ {i}
    BY <1>1, <2>1 DEF TypeOK
  <2> QED
    BY <2>1, <2>2, <2>3 DEF Covered
<1> QED
  BY <1>2, <1>3, <1>4, <1>5, <1>6, <1>7

\* A map that is settled is no longer due; the instances of one that is updated
\* are claimed by the thread.
LEMMA UpdateMapCovers ==
    ASSUME Inv, Covered, NEW t \in Threads, UpdateMap(t)
    PROVE  Covered'
<1> USE MapUpdaterAssumption DEF Goto, loopVars, poolVars, mapVars, Threads
<1> DEFINE m == map[t]
<1>1. TypeOK /\ Control /\ m \in AllMaps /\ \A x \in exists : x \in AllMaps
  BY UpdateMapKeeps DEF Inv, IInv, TypeOK
<1>2. /\ pc[t] = "update" /\ UNCHANGED <<map, arg, passTodo, exists>>
      /\ instTodo' = [instTodo EXCEPT ![t] = InstancesOf(m) \cap exists]
      /\ pc' = [pc EXCEPT ![t] = "nested"] /\ Queued' = Queued
      /\ instTodo[t] = {}
  BY <1>1, QueueSame DEF UpdateMap, Control
<1>3. \A x \in AllMaps : outcome'[x] = IF x = m THEN "updated" ELSE outcome[x]
  BY <1>1, UpdateMapKeeps DEF TypeOK
<1>4. /\ \A s \in Threads : s # t => instTodo'[s] = instTodo[s] /\ pc'[s] = pc[s]
      /\ instTodo'[t] = InstancesOf(m) \cap exists
  BY <1>1, <1>2 DEF TypeOK
<1> SUFFICES ASSUME NEW x \in exists, outcome'[x] = "due"
             PROVE  \/ x \in passTodo \/ x \in Queued
                    \/ \E s \in Threads : \/ arg[s] = x
                                          \/ pc'[s] = "update" /\ map[s] = x
                                          \/ x \in instTodo'[s]
                    \/ x \in Instances /\ outcome'[ParentOf[x]] = "due"
  BY <1>2 DEF Covered
<1>5. x # m /\ outcome[x] = "due"
  BY <1>1, <1>3
<1>6. CASE x \in Instances /\ outcome[ParentOf[x]] = "due"
  <2>1. CASE ParentOf[x] = m
    BY <1>4, <1>6, <2>1 DEF InstancesOf
  <2>2. CASE ParentOf[x] # m
    BY <1>3, <1>6, <2>2 DEF AllMaps
  <2> QED
    BY <2>1, <2>2
<1>7. CASE ~(x \in Instances /\ outcome[ParentOf[x]] = "due")
  <2>1. \/ x \in passTodo \/ x \in Queued
        \/ \E s \in Threads : \/ arg[s] = x
                              \/ pc[s] = "update" /\ map[s] = x
                              \/ x \in instTodo[s]
    BY <1>5, <1>7 DEF Covered
  <2> QED
    BY <1>2, <1>4, <1>5, <2>1
<1> QED
  BY <1>6, <1>7

LEMMA SettleCovers ==
    ASSUME Inv, Covered, NEW t \in Threads, NEW i \in Instances,
           NEW how \in {"updated", "kept", "destroyed"}, SettleInstance(t, i, how)
    PROVE  Covered'
<1> USE MapUpdaterAssumption DEF Threads
<1>1. TypeOK /\ i \in AllMaps /\ \A x \in exists : x \in AllMaps
  BY DEF Inv, IInv, TypeOK, AllMaps
<1>2. /\ UNCHANGED <<pc, map, arg, passTodo>> /\ Queued' = Queued
      /\ instTodo' = [instTodo EXCEPT ![t] = @ \ {i}] /\ exists' \subseteq exists
  BY QueueSame DEF SettleInstance
<1>3. \A x \in AllMaps : outcome'[x] = IF x = i THEN how ELSE outcome[x]
  BY <1>1, SettleKeeps DEF TypeOK
<1>4. \A s \in Threads : instTodo[s] \ {i} \subseteq instTodo'[s]
  BY <1>1, <1>2 DEF TypeOK
<1>5. \A x \in Instances : ParentOf[x] # i /\ ParentOf[x] \in AllMaps
  BY DEF AllMaps
<1> QED
  BY <1>1, <1>2, <1>3, <1>4, <1>5 DEF Covered

-----------------------------------------------------------------------------
\* Every step of Next, by its shape.
LEMMA StepShapes ==
    ASSUME [Next]_vars
    PROVE  \/ MoveStep
           \/ \E m \in BaseMaps : ScheduleMap(m) \/ UpdateMapInline(m)
           \/ \E t \in Threads : Post(t) \/ EndUpdate(t) \/ UpdateMap(t)
           \/ \E w \in Workers : Dequeue(w)
           \/ \E t \in Threads, i \in Instances : ScheduleInstance(t, i)
           \/ \E t \in Threads, i \in Instances, how \in {"updated", "kept", "destroyed"} :
                 SettleInstance(t, i, how)
           \/ BeginPass \/ UnloadAll \/ \E m \in AllMaps : CreateMap(m)
<1> USE DEF Threads
<1>1. ASSUME NEW t \in Threads, UpdateStep(t)
      PROVE  \/ Post(t) \/ EndUpdate(t) \/ UpdateMap(t)
             \/ \E i \in Instances : ScheduleInstance(t, i)
             \/ \E i \in Instances, how \in {"updated", "kept", "destroyed"} :
                   SettleInstance(t, i, how)
  BY <1>1, InstanceSteps DEF UpdateStep
<1>2. ASSUME NEW w \in Workers, WorkerStep(w)
      PROVE  \/ Dequeue(w) \/ MoveStep \/ UpdateStep(w)
  BY <1>2 DEF WorkerStep, MoveStep
<1>3. WorldStep => \/ MoveStep \/ UpdateStep(World)
                   \/ \E m \in BaseMaps : ScheduleMap(m) \/ UpdateMapInline(m)
  BY DEF WorldStep, MoveStep
<1>4. Stopped \/ SpuriousWakeup \/ UNCHANGED vars => MoveStep
  BY DEF MoveStep
<1>5. Environment => BeginPass \/ UnloadAll \/ \E m \in AllMaps : CreateMap(m)
  BY DEF Environment
<1> QED
  BY <1>1, <1>2, <1>3, <1>4, <1>5 DEF Next

\* Steps of a thread inside a handler, and steps of the world thread.
LEMMA RestingStep ==
    ASSUME Inv, IInv', [Next]_vars
    PROVE  Resting'
<1> USE MapUpdaterAssumption DEF Goto, loopVars, poolVars, mapVars, Threads
<1> SUFFICES ASSUME pc'[World] \in {"drainWait", "drainSleep"}
             PROVE  queue' = << >> /\ BusyWorkers' = {}
  BY DEF Resting, IInv, EmptyInv, Barrier, Quiet
<1>1. TypeOK /\ Resting /\ Control
  BY DEF Inv, IInv
<1>2. CASE UNCHANGED <<pc, queue>>
  BY <1>1, <1>2 DEF Resting, BusyWorkers, Busy
<1>3. ASSUME pc[World] \in {"idle", "drainWait", "drainSleep"}, queue' = queue,
             \A w \in Workers : pc'[w] = pc[w] \/ pc'[w] \in {"run", "exited"}
      PROVE  queue' = << >> /\ BusyWorkers' = {}
  <2>1. queue = << >> /\ BusyWorkers = {}
    BY <1>1, <1>3 DEF Resting
  <2> QED
    BY <1>3, <2>1 DEF BusyWorkers, Busy
<1>4. CASE MoveStep
  <2>1. CASE Initialize \/ EndSchedule \/ DelayedUpdate \/ Drain \/ Join
    BY <1>1, <2>1 DEF Initialize, EndSchedule, DelayedUpdate, Drain, Join, TypeOK
  <2>2. CASE SpuriousWakeup \/ \E l \in {"wait", "drainWait"} : WaitTest(l)
    <3>1. /\ pc[World] \in {"drainWait", "drainSleep"} /\ queue' = queue
          /\ \A w \in Workers : pc'[w] = pc[w]
      BY <1>1, <2>2 DEF SpuriousWakeup, WaitTest, Woken, Waiting, Returned, TypeOK
    <3> QED
      BY <1>3, <3>1
  <2>3. CASE \E w \in Workers : Finish(w) \/ ExitRun(w)
    <3>1. /\ pc[World] \in {"drainWait", "drainSleep"} /\ queue' = queue
          /\ \A w \in Workers : pc'[w] = pc[w] \/ pc'[w] \in {"run", "exited"}
      BY <1>1, <2>3 DEF Finish, ExitRun, Woken, TypeOK
    <3> QED
      BY <1>3, <3>1
  <2>4. CASE Stopped \/ UNCHANGED vars
    BY <1>2, <2>4 DEF Stopped, vars
  <2> QED
    BY <1>4, <2>1, <2>2, <2>3, <2>4 DEF MoveStep
<1>5. CASE \E m \in BaseMaps : ScheduleMap(m) \/ UpdateMapInline(m)
  BY <1>1, <1>5 DEF ScheduleMap, UpdateMapInline, LockAndCount, TypeOK
<1>6. ASSUME NEW t \in Threads,
             \/ Post(t) \/ EndUpdate(t) \/ UpdateMap(t)
             \/ \E i \in Instances : ScheduleInstance(t, i)
      PROVE  FALSE
  <2>1. CASE t = World
    BY <1>1, <1>6, <2>1 DEF Post, EndUpdate, UpdateMap, ScheduleInstance, LockAndCount,
         CallerOf, AfterUpdate, TypeOK
  <2>2. CASE t # World
    <3>1. pc'[World] = pc[World] /\ t \in BusyWorkers
      BY <1>1, <1>6, <2>2 DEF Post, EndUpdate, UpdateMap, ScheduleInstance, LockAndCount,
           BusyWorkers, Busy, TypeOK
    <3> QED
      BY <1>1, <3>1 DEF Resting
  <2> QED
    BY <2>1, <2>2
<1>7. ASSUME NEW w \in Workers, Dequeue(w)
      PROVE  FALSE
  <2>1. pc'[World] = pc[World] /\ queue # << >>
    BY <1>1, <1>7 DEF Dequeue, TypeOK
  <2> QED
    BY <1>1, <2>1 DEF Resting
<1>8. CASE \E t \in Threads, i \in Instances, how \in {"updated", "kept", "destroyed"} :
              SettleInstance(t, i, how)
  BY <1>2, <1>8 DEF SettleInstance
<1>9. CASE BeginPass \/ UnloadAll \/ \E m \in AllMaps : CreateMap(m)
  <2>1. /\ pc[World] = "idle" /\ queue' = queue /\ \A w \in Workers : pc'[w] = pc[w]
    BY <1>1, <1>9 DEF BeginPass, UnloadAll, CreateMap, TypeOK
  <2> QED
    BY <1>3, <2>1
<1> QED
  BY <1>4, <1>5, <1>6, <1>7, <1>8, <1>9, StepShapes

\* The phase of the updates is entered by BeginPass only.
LEMMA StageStep ==
    ASSUME TypeOK, [Next]_vars, passStage' = "updating"
    PROVE  passStage = "updating" \/ BeginPass
<1> USE MapUpdaterAssumption DEF Goto, Threads
<1> DEFINE Updating == {"sched", "update", "nested", "posting", "wait", "sleep", "unload"}
<1>1. pc[World] \in Updating => passStage = "updating"
  BY DEF passStage
<1>2. pc'[World] \in WorldPCs \cup WorkerPCs => pc'[World] \notin
          {"init", "idle", "delayed", "drainWait", "drainSleep", "drain", "join", "stopped"}
  BY DEF passStage
<1>3. CASE MoveStep
  <2>1. CASE Initialize \/ EndSchedule \/ DelayedUpdate \/ Drain \/ Join
    BY <1>1, <1>2, <2>1 DEF Initialize, EndSchedule, DelayedUpdate, Drain, Join, TypeOK,
         WorldPCs, WorkerPCs
  <2>2. CASE SpuriousWakeup \/ \E l \in {"wait", "drainWait"} : WaitTest(l)
    BY <1>1, <1>2, <2>2 DEF SpuriousWakeup, WaitTest, Woken, Waiting, Returned, TypeOK,
         WorldPCs, WorkerPCs
  <2>3. CASE \E w \in Workers : Finish(w) \/ ExitRun(w)
    BY <1>1, <1>2, <2>3 DEF Finish, ExitRun, Woken, TypeOK, WorldPCs, WorkerPCs
  <2>4. CASE Stopped \/ UNCHANGED vars
    BY <2>4 DEF Stopped, vars, passStage
  <2> QED
    BY <1>3, <2>1, <2>2, <2>3, <2>4 DEF MoveStep
<1>4. CASE \E m \in BaseMaps : ScheduleMap(m) \/ UpdateMapInline(m)
  BY <1>1, <1>4 DEF ScheduleMap, UpdateMapInline
<1>5. ASSUME NEW t \in Threads,
             \/ Post(t) \/ EndUpdate(t) \/ UpdateMap(t)
             \/ \E i \in Instances : ScheduleInstance(t, i)
      PROVE  passStage = "updating"
  <2>1. CASE t = World
    BY <1>1, <1>5, <2>1 DEF Post, EndUpdate, UpdateMap, ScheduleInstance
  <2>2. CASE t # World
    <3>1. pc'[World] = pc[World]
      BY <1>5, <2>2 DEF Post, EndUpdate, UpdateMap, ScheduleInstance, LockAndCount, TypeOK
    <3> QED
      BY <3>1 DEF passStage
  <2> QED
    BY <2>1, <2>2
<1>6. ASSUME NEW w \in Workers, Dequeue(w)
      PROVE  passStage = "updating"
  <2>1. pc'[World] = pc[World]
    BY <1>6 DEF Dequeue, TypeOK
  <2> QED
    BY <2>1 DEF passStage
<1>7. CASE \/ \E t \in Threads, i \in Instances, how \in {"updated", "kept", "destroyed"} :
                 SettleInstance(t, i, how)
           \/ \E m \in AllMaps : CreateMap(m)
  <2>1. pc' = pc
    BY <1>7 DEF SettleInstance, CreateMap
  <2> QED
    BY <2>1 DEF passStage
<1>8. CASE UnloadAll
  BY <1>2, <1>8 DEF UnloadAll, TypeOK, WorldPCs, WorkerPCs
<1> QED
  BY <1>3, <1>4, <1>5, <1>6, <1>7, <1>8, StepShapes

LEMMA CompleteStep ==
    ASSUME Inv, [Next]_vars
    PROVE  Complete'
<1> SUFFICES ASSUME passStage' = "updating" PROVE Covered'
  BY DEF Complete
<1>1. CASE BeginPass
  <2>1. /\ outcome' = [m \in AllMaps |-> "due"] /\ exists' = exists
        /\ passTodo' = exists \cap BaseMaps /\ exists \subseteq AllMaps
    BY <1>1 DEF BeginPass, Inv, IInv, TypeOK
  <2>2. \A i \in Instances : outcome'[ParentOf[i]] = "due"
    BY <2>1, MapUpdaterAssumption DEF AllMaps
  <2> QED
    BY <2>1, <2>2 DEF Covered, AllMaps
<1>2. CASE ~BeginPass
  <2>1. Covered /\ pc[World] # "idle"
    BY <1>2, StageStep DEF Inv, IInv, Complete, passStage
  <2>2. ~UnloadAll /\ \A m \in AllMaps : ~CreateMap(m)
    BY <2>1 DEF UnloadAll, CreateMap
  <2>3. World \in Threads /\ Workers \subseteq Threads
    BY DEF Threads
  <2> QED
    BY <1>2, <2>1, <2>2, <2>3, StepShapes, MoveCovers, ClaimCovers, UpdateMapCovers,
       SettleCovers
<1> QED
  BY <1>1, <1>2

LEMMA InvStep == Inv /\ [Next]_vars => Inv'
<1> SUFFICES ASSUME Inv, [Next]_vars PROVE Inv'
  OBVIOUS
<1>1. IInv'
  BY INext DEF Inv
<1>2. Resting' /\ Complete'
  BY <1>1, RestingStep, CompleteStep
<1>3. Control' /\ Claims' /\ DueExact' /\ Nesting' /\ Alive'
  BY StepShapes, MoveKeeps, ScheduleKeeps, PostKeeps, DequeueKeeps, UpdateMapKeeps,
     SettleKeeps, ScheduleInstanceKeeps, EndUpdateKeeps, IdleKeeps
<1> QED
  BY <1>1, <1>2, <1>3 DEF Inv

-----------------------------------------------------------------------------
(* The refinement.                                                         *)

\* When nothing is claimed any more every map has had its turn.
LEMMA NoneDue ==
    ASSUME Inv, Covered, passTodo = {}, queue = << >>, BusyWorkers = {},
           pc[World] \notin {"update", "nested", "posting"}
    PROVE  \A m \in exists : outcome[m] # "due"
<1>1. TypeOK /\ Control /\ Alive /\ Queued = {}
  BY DEF Inv, IInv, Queued
<1>2. \A t \in Threads : arg[t] = NoMap /\ pc[t] # "update" /\ instTodo[t] = {}
  <2>1. \A w \in Workers : pc[w] \notin {"update", "nested", "posting"}
    BY DEF BusyWorkers, Busy
  <2> QED
    BY <1>1, <2>1 DEF Control, Threads
<1>3. \A m \in exists : m # NoMap
  BY <1>1, MapUpdaterAssumption DEF TypeOK
<1>4. \A m \in exists : outcome[m] = "due" => m \in Instances /\ outcome[ParentOf[m]] = "due"
  BY <1>1, <1>2, <1>3 DEF Covered
<1>5. \A m \in exists \cap Instances : ParentOf[m] \in exists /\ ParentOf[m] \notin Instances
  BY <1>1, MapUpdaterAssumption DEF Alive
<1> QED
  BY <1>4, <1>5

\* A thread that updates a map does so in the phase of the updates.
LEMMA UpdatesInPhase ==
    ASSUME Inv, NEW t \in Threads, pc[t] \in {"update", "nested"}
    PROVE  passStage = "updating"
<1>1. pc[World] \notin {"init", "idle", "delayed", "drainWait", "drainSleep",
                        "drain", "join", "stopped"}
  <2>1. CASE t = World
    BY <2>1
  <2>2. CASE t # World
    <3>1. t \in BusyWorkers
      BY <2>2 DEF Threads, BusyWorkers, Busy
    <3> QED
      BY <3>1 DEF Inv, Resting
  <2> QED
    BY <2>1, <2>2
<1> QED
  BY <1>1 DEF passStage

\* A step that moves no claim ends a phase of the pass, or is not visible.
LEMMA MoveRefines ==
    ASSUME Inv, MoveStep
    PROVE  \/ Abstract!EndUpdates \/ Abstract!EndPass
           \/ UNCHANGED <<passStage, exists, outcome>>
<1> USE MapUpdaterAssumption DEF Goto, loopVars, poolVars, mapVars, Threads
<1>1. TypeOK /\ Control /\ UNCHANGED <<exists, outcome>>
  BY DEF Inv, IInv, MoveStep, Initialize, EndSchedule, DelayedUpdate, Drain, Join,
       SpuriousWakeup, Stopped, vars, WaitTest, Finish, ExitRun
<1>2. ASSUME pc[World] \in {"sched", "wait"}, pc'[World] = "delayed", passTodo = {},
             queue = << >>, BusyWorkers = {}
      PROVE  Abstract!EndUpdates
  <2>1. passStage = "updating" /\ passStage' = "delayed"
    BY <1>2 DEF passStage
  <2>2. \A m \in exists : outcome[m] # "due"
    BY <1>2, <2>1, NoneDue DEF Inv, Complete
  <2> QED
    BY <1>1, <2>1, <2>2 DEF Abstract!EndUpdates
<1>3. CASE EndSchedule
  <2>1. CASE activated
    <3>1. pc[World] = "sched" /\ pc'[World] = "wait"
      BY <1>1, <1>3, <2>1 DEF EndSchedule, TypeOK
    <3> QED
      BY <1>1, <3>1 DEF passStage
  <2>2. CASE ~activated
    BY <1>1, <1>2, <1>3, <2>2 DEF EndSchedule, TypeOK, Inv, IInv, EmptyInv
  <2> QED
    BY <2>1, <2>2
<1>4. ASSUME NEW l \in {"wait", "drainWait"}, WaitTest(l)
      PROVE  Abstract!EndUpdates \/ UNCHANGED <<passStage, exists, outcome>>
  <2>1. CASE l = "wait" /\ ~(pending > 0)
    <3>1. pc[World] = "wait" /\ pc'[World] = "delayed"
      BY <1>1, <1>4, <2>1 DEF WaitTest, Returned, TypeOK
    <3>2. queue = << >> /\ BusyWorkers = {}
      BY <1>1, <2>1, FiniteCounts DEF Inv, IInv, PendingCounts, TypeOK
    <3>3. passTodo = {}
      BY <1>1, <3>1 DEF Control
    <3> QED
      BY <1>2, <3>1, <3>2, <3>3
  <2>2. CASE ~(l = "wait" /\ ~(pending > 0))
    <3>1. \/ pc[World] = "wait" /\ pc'[World] = "sleep"
          \/ pc[World] = "drainWait" /\ pc'[World] \in {"drainSleep", "drain"}
      BY <1>1, <1>4, <2>2 DEF WaitTest, Returned, Waiting, TypeOK
    <3> QED
      BY <1>1, <3>1 DEF passStage
  <2> QED
    BY <2>1, <2>2
<1>5. CASE DelayedUpdate
  <2>1. pc[World] = "delayed" /\ pc'[World] = "idle"
    BY <1>1, <1>5 DEF DelayedUpdate, TypeOK
  <2> QED
    BY <1>1, <2>1 DEF passStage, Abstract!EndPass
<1>6. CASE Initialize \/ Drain \/ Join \/ SpuriousWakeup
  <2>1. \/ pc[World] = "init" /\ pc'[World] = "idle"
        \/ pc[World] = "drain" /\ pc'[World] = "join"
        \/ pc[World] = "join" /\ pc'[World] = "stopped"
        \/ pc[World] = "sleep" /\ pc'[World] = "wait"
        \/ pc[World] = "drainSleep" /\ pc'[World] = "drainWait"
    BY <1>1, <1>6 DEF Initialize, Drain, Join, SpuriousWakeup, Woken, TypeOK
  <2> QED
    BY <1>1, <2>1 DEF passStage
<1>7. CASE \E w \in Workers : Finish(w) \/ ExitRun(w)
  <2>1. \/ pc'[World] = pc[World]
        \/ pc[World] = "sleep" /\ pc'[World] = "wait"
        \/ pc[World] = "drainSleep" /\ pc'[World] = "drainWait"
    BY <1>1, <1>7 DEF Finish, ExitRun, Woken, TypeOK
  <2> QED
    BY <1>1, <2>1 DEF passStage
<1>8. CASE Stopped \/ UNCHANGED vars
  BY <1>1, <1>8 DEF Stopped, vars, passStage
<1> QED
  BY <1>3, <1>4, <1>5, <1>6, <1>7, <1>8 DEF MoveStep

\* Every step of the pool is a step of the pass or is not visible in it.
LEMMA StepRefines == Inv /\ [Next]_vars => [Abstract!Next]_(Abstract!vars)
<1> SUFFICES ASSUME Inv, [Next]_vars
             PROVE  Abstract!Next \/ UNCHANGED <<passStage, exists, outcome>>
  BY DEF Abstract!vars
<1> USE MapUpdaterAssumption DEF Goto, loopVars, poolVars, mapVars, Threads
<1>1. TypeOK /\ Control /\ exists \subseteq AllMaps
  BY DEF Inv, IInv, TypeOK
<1>2. CASE MoveStep
  BY <1>2, MoveRefines DEF Abstract!Next
<1>3. CASE \E m \in BaseMaps : ScheduleMap(m) \/ UpdateMapInline(m)
  <2>1. /\ pc[World] = "sched" /\ pc'[World] \in {"posting", "update"}
        /\ UNCHANGED <<exists, outcome>>
    BY <1>1, <1>3 DEF ScheduleMap, UpdateMapInline, LockAndCount, TypeOK
  <2> QED
    BY <2>1 DEF passStage
<1>4. ASSUME NEW t \in Threads,
             \/ Post(t) \/ EndUpdate(t) \/ \E i \in Instances : ScheduleInstance(t, i)
      PROVE  UNCHANGED <<passStage, exists, outcome>>
  <2>1. /\ UNCHANGED <<exists, outcome>>
        /\ t # World => pc'[World] = pc[World]
        /\ t = World => /\ pc[World] \in {"posting", "nested"}
                        /\ pc'[World] \in {"sched", "posting"}
    BY <1>1, <1>4 DEF Post, EndUpdate, ScheduleInstance, LockAndCount, CallerOf,
         AfterUpdate, TypeOK
  <2> QED
    BY <2>1 DEF passStage
<1>5. ASSUME NEW w \in Workers, Dequeue(w)
      PROVE  UNCHANGED <<passStage, exists, outcome>>
  <2>1. pc'[World] = pc[World] /\ UNCHANGED <<exists, outcome>>
    BY <1>1, <1>5 DEF Dequeue, TypeOK
  <2> QED
    BY <2>1 DEF passStage
<1>6. ASSUME NEW t \in Threads, UpdateMap(t)
      PROVE  Abstract!Next
  <2>1. /\ map[t] \in exists /\ outcome[map[t]] = "due" /\ exists' = exists
        /\ outcome' = [outcome EXCEPT ![map[t]] = "updated"]
    BY <1>6, UpdateMapKeeps DEF UpdateMap
  <2>2. pc[t] = "update" /\ pc' = [pc EXCEPT ![t] = "nested"]
    BY <1>6 DEF UpdateMap
  <2>3. passStage = "updating"
    BY <2>2, UpdatesInPhase
  <2>4. passStage' = passStage
    <3>1. pc'[World] = pc[World] \/ (pc[World] = "update" /\ pc'[World] = "nested")
      BY <1>1, <2>2 DEF TypeOK
    <3> QED
      BY <3>1 DEF passStage
  <2>5. Abstract!Update(map[t])
    BY <2>1, <2>3, <2>4 DEF Abstract!Update, Abstract!Settle
  <2> QED
    BY <1>1, <2>1, <2>5 DEF Abstract!Next, Abstract!AllMaps, AllMaps
<1>7. ASSUME NEW t \in Threads, NEW i \in Instances,
             NEW how \in {"updated", "kept", "destroyed"}, SettleInstance(t, i, how)
      PROVE  Abstract!Next
  <2>1. i \in exists /\ outcome[i] = "due" /\ outcome' = [outcome EXCEPT ![i] = how]
    BY <1>7, SettleKeeps
  <2>2. /\ pc[t] = "nested" /\ pc' = pc
        /\ exists' = IF how = "destroyed" THEN exists \ {i} ELSE exists
    BY <1>7 DEF SettleInstance
  <2>3. passStage = "updating" /\ passStage' = passStage
    BY <2>2, UpdatesInPhase DEF passStage
  <2>4. Abstract!Settle(i, how)
    BY <2>1, <2>3 DEF Abstract!Settle
  <2>5. CASE how = "updated"
    BY <2>2, <2>3, <2>4, <2>5
       DEF Abstract!Next, Abstract!Update, Abstract!AllMaps
  <2>6. CASE how = "kept"
    BY <2>2, <2>3, <2>4, <2>6 DEF Abstract!Next, Abstract!Refuse
  <2>7. CASE how = "destroyed"
    BY <2>2, <2>3, <2>4, <2>7 DEF Abstract!Next, Abstract!Destroy
  <2> QED
    BY <2>5, <2>6, <2>7
<1>8. CASE BeginPass
  <2>1. pc[World] = "idle" /\ pc'[World] = "sched"
    BY <1>1, <1>8 DEF BeginPass, TypeOK
  <2>2. passStage = "idle" /\ passStage' = "updating"
    BY <2>1 DEF passStage
  <2> QED
    BY <1>8, <2>2 DEF BeginPass, Abstract!Next, Abstract!Begin, Abstract!AllMaps, AllMaps
<1>9. CASE UnloadAll
  <2>1. pc[World] = "idle" /\ pc'[World] \in {"drainWait", "stopped"}
    BY <1>1, <1>9 DEF UnloadAll, TypeOK
  <2>2. passStage = "idle" /\ passStage' = "closed"
    BY <2>1 DEF passStage
  <2> QED
    BY <1>9, <2>2 DEF UnloadAll, Abstract!Next, Abstract!Close
<1>10. ASSUME NEW m \in AllMaps, CreateMap(m)
       PROVE  Abstract!Next
  <2>1. passStage = "idle" /\ passStage' = "idle"
    BY <1>10 DEF CreateMap, passStage
  <2>2. Abstract!Create(m)
    BY <1>10, <2>1 DEF CreateMap, Abstract!Create
  <2> QED
    BY <2>2 DEF Abstract!Next, Abstract!AllMaps, AllMaps
<1> QED
  BY <1>2, <1>3, <1>4, <1>5, <1>6, <1>7, <1>8, <1>9, <1>10, StepShapes

LEMMA InitRefines == Init => Abstract!Init
<1> SUFFICES ASSUME Init PROVE Abstract!Init
  OBVIOUS
<1>1. pc[World] = "init"
  BY DEF Init, Threads
<1> QED
  BY <1>1 DEF Init, passStage, Abstract!Init, Abstract!AllMaps, AllMaps

-----------------------------------------------------------------------------
\* No thread and no queued request ever refers to a map that was deleted, by a
\* worker in the middle of the pass or by UnloadAll.
THEOREM NeverUsedAfterDelete == Spec => []NoUseAfterDelete
<1>1. Inv => NoUseAfterDelete
  BY DEF Inv, Alive, NoUseAfterDelete, Referenced, Queued
<1> QED
  BY <1>1, InitInv, InvStep, PTL DEF Spec

\* The pool with its nested requests, or the world thread alone, implements the
\* pass in which every map is settled once before the delayed updates begin.
THEOREM PassImplemented == Spec => ImplementsMapPass
<1>1. Inv /\ [Next]_vars => [Abstract!Next]_(Abstract!vars)
  BY StepRefines
<1> QED
  BY <1>1, InitInv, InvStep, InitRefines, PTL DEF Spec, ImplementsMapPass, Abstract!Spec
=============================================================================
