-------------------------- MODULE DatabaseQueueProofs --------------------------
(***************************************************************************)
(* For any number of workers, clients and tasks: every accepted operation  *)
(* is executed once, on a connection that is open; a close is a drain; and *)
(* a wait leaves fewer than NumWorkers of the earlier operations           *)
(* unfinished, none when the pool has one worker.                          *)
(***************************************************************************)
EXTENDS DatabaseQueue, FunctionTheorems, FiniteSetTheorems, TLAPS

\* How far the owner is decides what the queue and the connections are.
OwnerControl ==
    /\ closed <=> main \in {"joining", "closed"}
    /\ guard <=> ~closed
    /\ main = "opening" =>
         /\ posted = 0
         /\ \A w \in Workers :
              /\ conn[w] # "closed"
              /\ conn[w] # "none" => Preceding(w, "open")
    /\ main = "open" => \A w \in Workers : conn[w] = "open"
    /\ closed => \A w \in Workers : conn[w] \in {"open", "closed"}

\* A thread exists with its connection, executes only while it is bound, and
\* has exited only when the executor is out of work.
WorkerControl ==
    \A w \in Workers :
        /\ running[w] # 0 => worker[w] = "bound"
        /\ worker[w] = "exited" => OutOfWork
        /\ conn[w] = "closed" => worker[w] = "exited"

\* Every dequeued task is executed by exactly one worker, exactly once: it
\* is running on one worker or done, and never both.
ExecutedOnce ==
    /\ \A k \in 1..taken : k \in done <=> \A w \in Workers : running[w] # k
    /\ \A v, w \in Workers : running[v] = running[w] => v = w \/ running[v] = 0

\* The worker that finished task b executes nothing that was posted before b.
OneIsPast == \A b \in done : \E w \in Workers : running[w] = 0 \/ running[w] > b

IInv ==
    /\ TypeOK
    /\ OwnerControl
    /\ WorkerControl
    /\ ExecutedOnce
    /\ OneIsPast

-----------------------------------------------------------------------------
LEMMA InitIInv == Init => IInv
<1> SUFFICES ASSUME Init PROVE IInv
  OBVIOUS
<1>1. TypeOK
  <2>1. closed \in BOOLEAN /\ guard \in BOOLEAN
    BY Zenon DEF Init
  <2> QED
    BY <2>1, DatabaseQueueAssumption DEF Init, TypeOK
<1>2. OwnerControl /\ WorkerControl
  BY DEF Init, OwnerControl, WorkerControl
<1>3. ExecutedOnce /\ OneIsPast
  BY DatabaseQueueAssumption DEF Init, ExecutedOnce, OneIsPast
<1> QED
  BY <1>1, <1>2, <1>3 DEF IInv

LEMMA TypeStep == TypeOK /\ [Next]_vars => TypeOK'
<1> SUFFICES ASSUME TypeOK, [Next]_vars PROVE TypeOK'
  OBVIOUS
<1> USE DatabaseQueueAssumption DEF TypeOK, queueVars
<1>1. ASSUME NEW w \in Workers, Owner(w) PROVE TypeOK'
  BY <1>1 DEF Owner, NewConnection, OpenConnection, CloseConnection
<1>2. ASSUME NEW w \in Workers, BindConnection(w) \/ Exit(w) PROVE TypeOK'
  BY <1>2 DEF BindConnection, Exit
<1>3. ASSUME NEW w \in Workers, Take(w) PROVE TypeOK'
  BY <1>3 DEF Take
<1>4. ASSUME NEW w \in Workers, Finish(w) PROVE TypeOK'
  <2>1. running[w] \in 1..taken
    BY <1>4 DEF Finish
  <2>2. done' \subseteq 1..taken
    BY <1>4, <2>1 DEF Finish
  <2>3. running' \in [Workers -> 0..taken]
    BY <1>4 DEF Finish
  <2> QED
    BY <1>4, <2>2, <2>3 DEF Finish
<1>5. ASSUME NEW c \in Clients, Client(c) PROVE TypeOK'
  <2>1. posted' \in 0..MaxTasks /\ posted <= posted' /\ taken' = taken
    BY <1>5 DEF Client, Enqueue, Wait, WaitReturns
  <2>2. waiting' \in [Clients -> 0..posted']
    BY <1>5, <2>1 DEF Client, Enqueue, Wait, WaitReturns
  <2>3. UNCHANGED <<taken, done, closed, guard, running, worker, conn, main>>
    BY <1>5 DEF Client, Enqueue, Wait, WaitReturns
  <2> QED
    BY <2>1, <2>2, <2>3
<1>6. ASSUME CloseQueue PROVE TypeOK'
  <2>1. closed' \in BOOLEAN /\ guard' \in BOOLEAN
    BY <1>6, Zenon DEF CloseQueue
  <2> QED
    BY <1>6, <2>1 DEF CloseQueue
<1>7. ASSUME UNCHANGED vars PROVE TypeOK'
  BY <1>7 DEF vars
<1> QED
  BY <1>1, <1>2, <1>3, <1>4, <1>5, <1>6, <1>7 DEF Next, Worker, Terminated

LEMMA OwnerControlStep == TypeOK /\ OwnerControl /\ [Next]_vars => OwnerControl'
<1> SUFFICES ASSUME TypeOK, OwnerControl, [Next]_vars PROVE OwnerControl'
  OBVIOUS
<1> USE DatabaseQueueAssumption DEF OwnerControl, Preceding, queueVars
<1>1. ASSUME NEW w \in Workers, NewConnection(w) PROVE OwnerControl'
  BY <1>1 DEF NewConnection, TypeOK, Workers
<1>2. ASSUME NEW w \in Workers, OpenConnection(w) PROVE OwnerControl'
  BY <1>2 DEF OpenConnection, TypeOK, Workers
<1>3. ASSUME NEW w \in Workers, CloseConnection(w) PROVE OwnerControl'
  BY <1>3 DEF CloseConnection, TypeOK
<1>4. ASSUME NEW w \in Workers, Worker(w) PROVE OwnerControl'
  BY <1>4 DEF Worker, BindConnection, Take, Finish, Exit
<1>5. ASSUME NEW c \in Clients, Client(c) PROVE OwnerControl'
  BY <1>5 DEF Client, Enqueue, Wait, WaitReturns
<1>6. ASSUME CloseQueue PROVE OwnerControl'
  <2>1. closed' /\ ~guard' /\ main' = "joining" /\ conn' = conn
    BY <1>6, Zenon DEF CloseQueue
  <2>2. \A w \in Workers : conn[w] = "open"
    BY <1>6 DEF CloseQueue
  <2> QED
    BY <2>1, <2>2
<1>7. ASSUME UNCHANGED vars PROVE OwnerControl'
  BY <1>7 DEF vars
<1> QED
  BY <1>1, <1>2, <1>3, <1>4, <1>5, <1>6, <1>7 DEF Next, Owner, Terminated

LEMMA WorkerControlStep ==
    TypeOK /\ OwnerControl /\ WorkerControl /\ [Next]_vars => WorkerControl'
<1> SUFFICES ASSUME TypeOK, OwnerControl, WorkerControl, [Next]_vars
             PROVE  WorkerControl'
  OBVIOUS
<1> USE DEF WorkerControl, OutOfWork, queueVars, TypeOK
<1>1. ASSUME NEW w \in Workers, Owner(w) PROVE WorkerControl'
  <2>1. ASSUME NewConnection(w) PROVE \A v \in Workers : running[v] = 0
    BY <1>1, <2>1 DEF NewConnection, OwnerControl
  <2> QED
    BY <1>1, <2>1 DEF Owner, NewConnection, OpenConnection, CloseConnection, OwnerControl
<1>2. ASSUME NEW w \in Workers, BindConnection(w) PROVE WorkerControl'
  BY <1>2 DEF BindConnection
<1>3. ASSUME NEW w \in Workers, Take(w) PROVE WorkerControl'
  BY <1>3 DEF Take
<1>4. ASSUME NEW w \in Workers, Finish(w) PROVE WorkerControl'
  BY <1>4 DEF Finish
<1>5. ASSUME NEW w \in Workers, Exit(w) PROVE WorkerControl'
  BY <1>5 DEF Exit
<1>6. ASSUME NEW c \in Clients, Client(c) PROVE WorkerControl'
  BY <1>6 DEF Client, Enqueue, Wait, WaitReturns, OwnerControl
<1>7. ASSUME CloseQueue PROVE WorkerControl'
  BY <1>7 DEF CloseQueue, OwnerControl
<1>8. ASSUME UNCHANGED vars PROVE WorkerControl'
  BY <1>8 DEF vars
<1> QED
  BY <1>1, <1>2, <1>3, <1>4, <1>5, <1>6, <1>7, <1>8 DEF Next, Worker, Terminated

\* Only a worker that takes or finishes a task changes the tasks' progress.
ExecutionUnchanged == UNCHANGED <<taken, done, running>>

LEMMA ExecutionStep ==
    ASSUME [Next]_vars
    PROVE  ExecutionUnchanged \/ \E w \in Workers : Take(w) \/ Finish(w)
BY DEF Next, Owner, NewConnection, OpenConnection, CloseConnection, Worker,
       BindConnection, Exit, Client, Enqueue, Wait, WaitReturns, CloseQueue,
       Terminated, vars, queueVars, ExecutionUnchanged

LEMMA ExecutedOnceStep == TypeOK /\ ExecutedOnce /\ [Next]_vars => ExecutedOnce'
<1> SUFFICES ASSUME TypeOK, ExecutedOnce, [Next]_vars PROVE ExecutedOnce'
  OBVIOUS
<1> USE DEF ExecutedOnce, TypeOK
<1>1. ASSUME ExecutionUnchanged PROVE ExecutedOnce'
  BY <1>1 DEF ExecutionUnchanged
<1>2. ASSUME NEW w \in Workers, Take(w) PROVE ExecutedOnce'
  <2>1. taken' = taken + 1 /\ done' = done
        /\ running' = [running EXCEPT ![w] = taken + 1] /\ running[w] = 0
    BY <1>2 DEF Take
  <2>2. \A v \in Workers : running[v] \in 0..taken
    OBVIOUS
  <2>3. \A k \in 1..taken' : k \in done' <=> \A v \in Workers : running'[v] # k
    BY <2>1, <2>2
  <2> QED
    BY <2>1, <2>2, <2>3
<1>3. ASSUME NEW w \in Workers, Finish(w) PROVE ExecutedOnce'
  BY <1>3 DEF Finish
<1> QED
  BY <1>1, <1>2, <1>3, ExecutionStep

LEMMA OneIsPastStep == TypeOK /\ OneIsPast /\ [Next]_vars => OneIsPast'
<1> SUFFICES ASSUME TypeOK, OneIsPast, [Next]_vars PROVE OneIsPast'
  OBVIOUS
<1> USE DEF OneIsPast, TypeOK
<1>1. ASSUME ExecutionUnchanged PROVE OneIsPast'
  BY <1>1 DEF ExecutionUnchanged
<1>2. ASSUME NEW w \in Workers, Take(w) PROVE OneIsPast'
  <2>1. running'[w] = taken + 1 /\ done' = done
    BY <1>2 DEF Take
  <2>2. \A b \in done : taken + 1 > b
    OBVIOUS
  <2> QED
    BY <2>1, <2>2
<1>3. ASSUME NEW w \in Workers, Finish(w) PROVE OneIsPast'
  <2>1. running'[w] = 0
    BY <1>3 DEF Finish
  <2> QED
    BY <2>1
<1> QED
  BY <1>1, <1>2, <1>3, ExecutionStep

LEMMA IInvStep == IInv /\ [Next]_vars => IInv'
BY TypeStep, OwnerControlStep, WorkerControlStep, ExecutedOnceStep, OneIsPastStep
   DEF IInv

-----------------------------------------------------------------------------
\* The inductive invariant, of which the other theorems are consequences.
THEOREM Invariance == Spec => []IInv
BY InitIInv, IInvStep, PTL DEF Spec

\* The state variables are well typed.
THEOREM TypeCorrect == Spec => []TypeOK
<1>1. IInv => TypeOK
  BY DEF IInv
<1> QED
  BY <1>1, Invariance, PTL

\* Every dequeued operation runs on one worker, once.
THEOREM ExecutedExactlyOnce == Spec => []ExecutedOnce
<1>1. IInv => ExecutedOnce
  BY DEF IInv
<1> QED
  BY <1>1, Invariance, PTL

\* An operation never meets a connection that is not open yet or deleted, and a
\* close drains the queue before it destroys a connection.
THEOREM ConnectionCorrect == Spec => []ConnectionSafe
<1>1. ASSUME IInv PROVE OpenWhileExecuting
  <2> SUFFICES ASSUME NEW w \in Workers, running[w] # 0
               PROVE  worker[w] = "bound" /\ conn[w] = "open"
    BY DEF OpenWhileExecuting
  <2>1. worker[w] = "bound" /\ conn[w] # "closed"
    BY <1>1 DEF IInv, WorkerControl
  <2>2. main # "opening"
    BY <1>1 DEF IInv, OwnerControl, TypeOK
  <2>3. conn[w] \in {"open", "closed"}
    BY <1>1, <2>2 DEF IInv, OwnerControl, TypeOK
  <2> QED
    BY <2>1, <2>3
<1>2. ASSUME IInv PROVE DrainedBeforeClose
  <2> SUFFICES ASSUME NEW w \in Workers, conn[w] = "closed"
               PROVE  done = 1..posted
    BY DEF DrainedBeforeClose
  <2>1. taken = posted /\ \A v \in Workers : running[v] = 0
    BY <1>2 DEF IInv, WorkerControl, OutOfWork
  <2>2. \A k \in 1..taken : k \in done
    BY <1>2, <2>1 DEF IInv, ExecutedOnce
  <2> QED
    BY <1>2, <2>1, <2>2 DEF IInv, TypeOK
<1>3. IInv => ConnectionSafe
  BY <1>1, <1>2 DEF ConnectionSafe
<1> QED
  BY <1>3, Invariance, PTL

-----------------------------------------------------------------------------
\* Tasks that workers other than one execute are fewer than the workers.
LEMMA BusyElsewhere ==
    ASSUME NEW w \in Workers, NEW U, \A k \in U : \E v \in Workers \ {w} : running[v] = k
    PROVE  Cardinality(U) < NumWorkers
<1> DEFINE f == [k \in U |-> CHOOSE v \in Workers \ {w} : running[v] = k]
<1>1. \A k \in U : f[k] \in Workers \ {w} /\ running[f[k]] = k
  OBVIOUS
<1>2. f \in Injection(U, Workers \ {w})
  <2>1. f \in [U -> Workers \ {w}]
    BY <1>1
  <2>2. \A j, k \in U : f[j] = f[k] => j = k
    BY <1>1
  <2> QED
    BY <2>1, <2>2 DEF Injection, IsInjective
<1>3. IsFiniteSet(Workers) /\ Cardinality(Workers) = NumWorkers
  BY DatabaseQueueAssumption, FS_Interval DEF Workers
<1>4. IsFiniteSet(Workers \ {w}) /\ Cardinality(Workers \ {w}) = NumWorkers - 1
  BY <1>3, FS_RemoveElement
<1>5. IsFiniteSet(U) /\ Cardinality(U) <= NumWorkers - 1
  BY <1>2, <1>4, FS_Injection
<1>6. Cardinality(U) \in Nat
  BY <1>5, FS_CardinalityType
<1> QED
  BY <1>5, <1>6, DatabaseQueueAssumption

\* Of the tasks before a finished one, those that are unfinished are being
\* executed, by pairwise distinct workers other than one: fewer than NumWorkers.
LEMMA FewUnfinished ==
    ASSUME IInv, NEW b \in done
    PROVE  Cardinality((1..b - 1) \ done) < NumWorkers
<1> DEFINE U == (1..b - 1) \ done
<1>1. PICK w \in Workers : running[w] = 0 \/ running[w] > b
  BY DEF IInv, OneIsPast
<1>2. \A k \in U : \E v \in Workers \ {w} : running[v] = k
  <2> SUFFICES ASSUME NEW k \in U PROVE \E v \in Workers \ {w} : running[v] = k
    OBVIOUS
  <2>1. b \in 1..taken /\ taken \in Nat
    BY DEF IInv, TypeOK
  <2>2. k \in 1..taken /\ k \notin done /\ k # 0 /\ ~(k > b)
    BY <2>1
  <2>3. PICK v \in Workers : running[v] = k
    BY <2>2 DEF IInv, ExecutedOnce
  <2> QED
    BY <1>1, <2>2, <2>3
<1> QED
  BY <1>2, BusyElsewhere

\* Only WaitReturns ends a wait.
LEMMA WaitStep ==
    ASSUME IInv, [Next]_vars, NEW c \in Clients, waiting[c] # 0, waiting'[c] = 0
    PROVE  waiting[c] \in done
<1>1. ASSUME NEW d \in Clients, Enqueue(d) \/ Wait(d) PROVE FALSE
  <2>1. posted + 1 # 0
    BY DEF IInv, TypeOK
  <2> QED
    BY <1>1, <2>1 DEF Enqueue, Wait, IInv, TypeOK
<1>2. ASSUME NEW d \in Clients, WaitReturns(d) PROVE waiting[c] \in done
  BY <1>2 DEF WaitReturns, IInv, TypeOK
<1>3. ASSUME waiting' = waiting PROVE FALSE
  BY <1>3
<1> QED
  BY <1>1, <1>2, <1>3
     DEF Next, Owner, NewConnection, OpenConnection, CloseConnection, Worker,
         BindConnection, Take, Finish, Exit, Client, CloseQueue, Terminated,
         vars, queueVars

\* A wait leaves fewer than NumWorkers of the earlier tasks unfinished.
THEOREM WaitCovers == Spec => WaitLeavesFew
<1>1. ASSUME IInv, [Next]_vars, NEW c \in Clients, waiting[c] # 0, waiting'[c] = 0
      PROVE  Cardinality((1..waiting[c] - 1) \ done) < NumWorkers
  BY <1>1, WaitStep, FewUnfinished
<1>2. IInv /\ [Next]_vars =>
        [\A c \in Clients :
           waiting[c] # 0 /\ waiting'[c] = 0 =>
               Cardinality((1..waiting[c] - 1) \ done) < NumWorkers]_vars
  BY <1>1
<1> QED
  BY <1>2, Invariance, PTL DEF Spec, WaitLeavesFew

\* With one worker a wait is exact, as DatabaseWorkerPool::Wait documents.
THEOREM WaitExactWithOneWorker ==
    ASSUME NumWorkers = 1 PROVE Spec => WaitLeavesNone
<1>1. ASSUME IInv, [Next]_vars, NEW c \in Clients, waiting[c] # 0, waiting'[c] = 0
      PROVE  1..waiting[c] - 1 \subseteq done
  <2>1. waiting[c] \in done
    BY <1>1, WaitStep
  <2>2. Workers = {1}
    BY DEF Workers
  <2>3. running[1] = 0 \/ running[1] > waiting[c]
    BY <1>1, <2>1, <2>2 DEF IInv, OneIsPast
  <2>4. \A k \in 1..waiting[c] - 1 : k \in 1..taken /\ running[1] # k
    BY <1>1, <2>1, <2>3 DEF IInv, TypeOK
  <2> QED
    BY <1>1, <2>2, <2>4 DEF IInv, ExecutedOnce
<1>2. IInv /\ [Next]_vars =>
        [\A c \in Clients :
           waiting[c] # 0 /\ waiting'[c] = 0 => 1..waiting[c] - 1 \subseteq done]_vars
  BY <1>1
<1> QED
  BY <1>2, Invariance, PTL DEF Spec, WaitLeavesNone

-----------------------------------------------------------------------------
(* The pool implements OperationQueue.                                     *)

\* The tasks in progress are those the workers execute.
LEMMA ExecutedInProgress ==
    ASSUME IInv
    PROVE  /\ \A k \in Abstract!InProgress : \E v \in Workers : running[v] = k /\ k # 0
           /\ \A v \in Workers : running[v] # 0 => running[v] \in Abstract!InProgress
BY DEF IInv, TypeOK, ExecutedOnce, Abstract!InProgress

LEMMA InitRefines == Init => Abstract!Init
BY DEF Init, poolPhase, Abstract!Init

\* The owner's steps, seen by the callers.
LEMMA OwnerRefines ==
    ASSUME IInv, NEW w \in Workers, Owner(w)
    PROVE  [Abstract!Next]_(Abstract!vars)
<1> USE DEF queueVars
<1>1. CASE NewConnection(w)
  BY <1>1 DEF NewConnection, Abstract!vars, poolPhase
<1>2. CASE OpenConnection(w)
  BY <1>2 DEF OpenConnection, Abstract!vars, Abstract!Next, Abstract!Open, poolPhase
<1>3. CASE CloseConnection(w)
  <2>1. taken = posted /\ \A v \in Workers : running[v] = 0
    BY <1>3 DEF CloseConnection, IInv, WorkerControl, OutOfWork
  <2>2. done = 1..posted
    <3>1. \A k \in 1..taken : k # 0 /\ k \in done
      BY <2>1 DEF IInv, ExecutedOnce, TypeOK
    <3> QED
      BY <2>1, <3>1 DEF IInv, TypeOK
  <2>3. /\ poolPhase = "closing" /\ poolPhase' \in {"closing", "closed"}
        /\ UNCHANGED <<posted, taken, done, waiting>>
    BY <1>3 DEF CloseConnection, poolPhase
  <2> QED
    BY <2>2, <2>3 DEF Abstract!vars, Abstract!Next, Abstract!Destroy
<1> QED
  BY <1>1, <1>2, <1>3 DEF Owner

\* Nothing is accepted but while the pool is open.
LEMMA ClientRefines ==
    ASSUME IInv, NEW c \in Clients, Client(c)
    PROVE  Abstract!Next
<1>1. ASSUME main # "opening", ~closed, main' = main
      PROVE  poolPhase = "open" /\ poolPhase' = "open"
  BY <1>1 DEF IInv, TypeOK, OwnerControl, poolPhase
<1>2. CASE Enqueue(c)
  BY <1>1, <1>2 DEF Enqueue, Abstract!Next, Abstract!Submit, Abstract!Accept
<1>3. CASE Wait(c)
  BY <1>1, <1>3 DEF Wait, Abstract!Next, Abstract!Await, Abstract!Accept
<1>4. CASE WaitReturns(c)
  BY <1>4 DEF WaitReturns, Abstract!Next, Abstract!Return, poolPhase, queueVars
<1> QED
  BY <1>2, <1>3, <1>4 DEF Client

\* A worker that takes a task was executing none: there is room for it.
LEMMA WorkerRefines ==
    ASSUME IInv, NEW w \in Workers, Worker(w)
    PROVE  [Abstract!Next]_(Abstract!vars)
<1>1. CASE BindConnection(w) \/ Exit(w)
  BY <1>1 DEF BindConnection, Exit, Abstract!vars, poolPhase, queueVars
<1>2. CASE Take(w)
  <2>1. \A k \in Abstract!InProgress : \E v \in Workers \ {w} : running[v] = k
    BY <1>2, ExecutedInProgress DEF Take
  <2>2. Cardinality(Abstract!InProgress) < NumWorkers
    BY <2>1, BusyElsewhere
  <2>3. /\ taken < posted /\ taken' = taken + 1
        /\ UNCHANGED <<poolPhase, posted, done, waiting>>
    BY <1>2 DEF Take, poolPhase
  <2>4. Abstract!Cardinality(Abstract!InProgress) = Cardinality(Abstract!InProgress)
    BY DEF Cardinality, Abstract!Cardinality
  <2>5. Abstract!Start
    BY <2>2, <2>3, <2>4 DEF Abstract!Start
  <2> QED
    BY <2>5 DEF Abstract!Next
<1>3. CASE Finish(w)
  <2>1. running[w] \in Abstract!InProgress
    BY <1>3, ExecutedInProgress DEF Finish
  <2> QED
    BY <1>3, <2>1 DEF Finish, Abstract!Next, Abstract!Finish, poolPhase
<1> QED
  BY <1>1, <1>2, <1>3 DEF Worker

LEMMA StepRefines == IInv /\ [Next]_vars => [Abstract!Next]_(Abstract!vars)
<1> SUFFICES ASSUME IInv, [Next]_vars PROVE [Abstract!Next]_(Abstract!vars)
  OBVIOUS
<1>1. CASE CloseQueue
  BY <1>1 DEF CloseQueue, Abstract!Next, Abstract!Close, poolPhase
<1>2. CASE UNCHANGED vars
  BY <1>2 DEF vars, queueVars, Abstract!vars, poolPhase
<1> QED
  BY <1>1, <1>2, OwnerRefines, ClientRefines, WorkerRefines DEF Next, Terminated

\* The pool keeps the promise OperationQueue makes, with as many operations in
\* progress as it has workers.
THEOREM QueueImplemented == Spec => ImplementsOperationQueue
BY InitRefines, StepRefines, Invariance, PTL
   DEF Spec, ImplementsOperationQueue, Abstract!Spec
=============================================================================
