----------------------------- MODULE DatabaseQueue -----------------------------
(***************************************************************************)
(* The asynchronous half of a DatabaseWorkerPool: one queue of SQL         *)
(* operations (an io_context), a worker thread per asynchronous            *)
(* connection, client threads that enqueue operations and wait for the     *)
(* queue, and the main thread that opens and closes the pool.  The queue   *)
(* is first in first out, so its tasks are the numbers taken+1..posted.    *)
(***************************************************************************)
EXTENDS Integers, FiniteSets

CONSTANTS
    NumWorkers,     \* <Database>.WorkerThreads
    Clients,        \* the threads that use the pool
    MaxTasks        \* bound: tasks posted in a behaviour

ASSUME DatabaseQueueAssumption ==
    /\ NumWorkers \in Nat \ {0}
    /\ MaxTasks \in Nat

Workers == 1..NumWorkers
Tasks == 1..MaxTasks

VARIABLES
    posted,         \* tasks given to the executor so far
    taken,          \* tasks a worker has dequeued so far
    done,           \* tasks whose handler has returned
    closed,         \* DatabaseQueue::Impl::closed
    guard,          \* the executor holds its work guard
    running,        \* of each worker: the task it executes, or 0
    worker,         \* of each worker: how far its thread is
    conn,           \* of each worker: its MySQLConnection
    waiting,        \* of each client: the barrier it waits for, or 0
    main            \* what the pool's owner is executing

queueVars == <<posted, taken, done, closed, guard>>
vars == <<queueVars, running, worker, conn, waiting, main>>

Init ==
    /\ posted = 0 /\ taken = 0 /\ done = {}
    /\ closed = FALSE /\ guard = TRUE
    /\ running = [w \in Workers |-> 0]
    /\ worker = [w \in Workers |-> "none"]
    /\ conn = [w \in Workers |-> "none"]
    /\ waiting = [c \in Clients |-> 0]
    /\ main = "opening"

-----------------------------------------------------------------------------
(* The pool's owner.                                                       *)

\* The connections are visited in the order of _connections[IDX_ASYNC].
Preceding(w, state) == \A v \in Workers : v < w => conn[v] = state

\* The constructor starts the worker thread; the connection opens after it.
NewConnection(w) ==
    /\ main = "opening"
    /\ conn[w] = "none" /\ Preceding(w, "open")
    /\ conn' = [conn EXCEPT ![w] = "created"]
    /\ worker' = [worker EXCEPT ![w] = "started"]
    /\ UNCHANGED <<queueVars, running, waiting, main>>

OpenConnection(w) ==
    /\ main = "opening"
    /\ conn[w] = "created"
    /\ conn' = [conn EXCEPT ![w] = "open"]
    /\ main' = IF w = NumWorkers THEN "open" ELSE main
    /\ UNCHANGED <<queueVars, running, worker, waiting>>

\* Faulty variant: the executor keeps its work guard.
CloseQueue_KeepGuard ==
    /\ main = "open"
    /\ closed' = TRUE /\ main' = "joining"
    /\ UNCHANGED <<posted, taken, done, guard, running, worker, conn, waiting>>

CloseQueue ==
    /\ main = "open"
    /\ closed' = TRUE /\ guard' = FALSE
    /\ main' = "joining"
    /\ UNCHANGED <<posted, taken, done, running, worker, conn, waiting>>

\* Faulty variant: the worker is deleted without waiting for its thread.
CloseConnection_NoJoin(w) ==
    /\ main = "joining"
    /\ conn[w] = "open" /\ Preceding(w, "closed")
    /\ conn' = [conn EXCEPT ![w] = "closed"]
    /\ main' = IF w = NumWorkers THEN "closed" ELSE main
    /\ UNCHANGED <<queueVars, running, worker, waiting>>

\* worker->wait(), then the worker and its connection are deleted.
CloseConnection(w) ==
    /\ main = "joining"
    /\ conn[w] = "open" /\ Preceding(w, "closed")
    /\ worker[w] = "exited"
    /\ conn' = [conn EXCEPT ![w] = "closed"]
    /\ main' = IF w = NumWorkers THEN "closed" ELSE main
    /\ UNCHANGED <<queueVars, running, worker, waiting>>

-----------------------------------------------------------------------------
(* The clients.  What enqueue and wait do under stateLock is one action.   *)

\* Faulty variant: closed is not tested, the task is posted all the same.
Enqueue_IgnoreClosed(c) ==
    /\ main # "opening"
    /\ waiting[c] = 0 /\ posted < MaxTasks
    /\ posted' = posted + 1
    /\ UNCHANGED <<taken, done, closed, guard, running, worker, conn, waiting,
                   main>>

\* On a closed queue enqueue returns and the operation is dropped.
Enqueue(c) ==
    /\ main # "opening"
    /\ waiting[c] = 0 /\ posted < MaxTasks
    /\ ~closed
    /\ posted' = posted + 1
    /\ UNCHANGED <<taken, done, closed, guard, running, worker, conn, waiting,
                   main>>

\* Faulty variant: closed is not tested, the barrier is posted all the same.
Wait_IgnoreClosed(c) ==
    /\ main # "opening"
    /\ waiting[c] = 0 /\ posted < MaxTasks
    /\ posted' = posted + 1
    /\ waiting' = [waiting EXCEPT ![c] = posted']
    /\ UNCHANGED <<taken, done, closed, guard, running, worker, conn, main>>

\* On a closed queue wait returns at once.
Wait(c) ==
    /\ main # "opening"
    /\ waiting[c] = 0 /\ posted < MaxTasks
    /\ ~closed
    /\ posted' = posted + 1
    /\ waiting' = [waiting EXCEPT ![c] = posted']
    /\ UNCHANGED <<taken, done, closed, guard, running, worker, conn, main>>

\* Faulty variant: the caller does not wait for its barrier.
WaitReturns_NoBarrier(c) ==
    /\ waiting[c] # 0
    /\ waiting' = [waiting EXCEPT ![c] = 0]
    /\ UNCHANGED <<queueVars, running, worker, conn, main>>

WaitReturns(c) ==
    /\ waiting[c] # 0
    /\ waiting[c] \in done
    /\ waiting' = [waiting EXCEPT ![c] = 0]
    /\ UNCHANGED <<queueVars, running, worker, conn, main>>

-----------------------------------------------------------------------------
(* The worker threads: the io_context runs until it is out of work.        *)

OutOfWork ==
    /\ ~guard
    /\ taken = posted
    /\ \A w \in Workers : running[w] = 0

BindConnection(w) ==
    /\ worker[w] = "started"
    /\ worker' = [worker EXCEPT ![w] = "bound"]
    /\ UNCHANGED <<queueVars, running, conn, waiting, main>>

\* Faulty variant: the task is executed but stays at the head of the queue.
Take_Peek(w) ==
    /\ worker[w] = "bound" /\ running[w] = 0
    /\ taken < posted
    /\ running' = [running EXCEPT ![w] = taken + 1]
    /\ UNCHANGED <<queueVars, worker, conn, waiting, main>>

Take(w) ==
    /\ worker[w] = "bound" /\ running[w] = 0
    /\ taken < posted
    /\ taken' = taken + 1
    /\ running' = [running EXCEPT ![w] = taken']
    /\ UNCHANGED <<posted, done, closed, guard, worker, conn, waiting, main>>

Finish(w) ==
    /\ running[w] # 0
    /\ done' = done \union {running[w]}
    /\ running' = [running EXCEPT ![w] = 0]
    /\ UNCHANGED <<posted, taken, closed, guard, worker, conn, waiting, main>>

\* run() returns; ClearConnection and the end of the thread.
Exit(w) ==
    /\ worker[w] = "bound"
    /\ OutOfWork
    /\ worker' = [worker EXCEPT ![w] = "exited"]
    /\ UNCHANGED <<queueVars, running, conn, waiting, main>>

-----------------------------------------------------------------------------
Owner(w) == NewConnection(w) \/ OpenConnection(w) \/ CloseConnection(w)
Client(c) == Enqueue(c) \/ Wait(c) \/ WaitReturns(c)
Worker(w) == BindConnection(w) \/ Take(w) \/ Finish(w) \/ Exit(w)

\* The pool has been closed and nobody waits: the process may end.
Terminated ==
    /\ main = "closed"
    /\ \A c \in Clients : waiting[c] = 0
    /\ UNCHANGED vars

Next ==
    \/ \E w \in Workers : Owner(w) \/ Worker(w)
    \/ \E c \in Clients : Client(c)
    \/ CloseQueue
    \/ Terminated

\* The owner and the workers do not stop in the middle of what they do, and
\* an SQL operation returns.  Nothing makes a client call or the owner close.
Fairness ==
    /\ \A w \in Workers : WF_vars(Owner(w)) /\ WF_vars(Worker(w))
    /\ \A c \in Clients : WF_vars(WaitReturns(c))

Spec == Init /\ [][Next]_vars /\ Fairness

-----------------------------------------------------------------------------
\* The state variables are well typed.
TypeOK ==
    /\ posted \in 0..MaxTasks /\ taken \in 0..posted
    /\ done \subseteq 1..taken
    /\ closed \in BOOLEAN /\ guard \in BOOLEAN
    /\ running \in [Workers -> 0..taken]
    /\ worker \in [Workers -> {"none", "started", "bound", "exited"}]
    /\ conn \in [Workers -> {"none", "created", "open", "closed"}]
    /\ waiting \in [Clients -> 0..posted]
    /\ main \in {"opening", "open", "joining", "closed"}

\* An operation executes on a connection that is bound to its thread, is open and
\* has not been deleted, also while the pool shuts down; and Close destroys no
\* connection before every operation the queue accepted has been executed.
OpenWhileExecuting ==
    \A w \in Workers :
        running[w] # 0 => worker[w] = "bound" /\ conn[w] = "open"
DrainedBeforeClose ==
    (\E w \in Workers : conn[w] = "closed") => done = 1..posted
ConnectionSafe == OpenWhileExecuting /\ DrainedBeforeClose

\* What wait() guarantees: when it returns, fewer than NumWorkers of the tasks
\* posted before it are unfinished.  With one worker none is.
WaitLeavesFew ==
    [][\A c \in Clients :
         waiting[c] # 0 /\ waiting'[c] = 0 =>
             Cardinality((1..waiting[c] - 1) \ done) < NumWorkers]_vars

\* What DatabaseWorkerPool::Wait documents: all the operations queued at
\* the call have finished when it returns, whatever the number of workers.
WaitLeavesNone ==
    [][\A c \in Clients :
         waiting[c] # 0 /\ waiting'[c] = 0 => 1..waiting[c] - 1 \subseteq done]_vars

\* Every operation the queue accepts is executed in the end, and a thread that
\* waits for the queue returns, also when another thread closes it meanwhile.
NoneStranded ==
    /\ \A k \in Tasks : k <= posted ~> k \in done
    /\ \A c \in Clients : waiting[c] # 0 ~> waiting[c] = 0

\* A close ends: the queue drains, the workers exit and are joined.
CloseEnds == main = "joining" ~> main = "closed"

\* The pool as its callers see it, see OperationQueue.
poolPhase == IF main = "joining" THEN "closing" ELSE main

Abstract == INSTANCE OperationQueue
    WITH Callers <- Clients, Capacity <- NumWorkers,
         phase <- poolPhase,
         accepted <- posted, started <- taken, finished <- done, barrier <- waiting

\* The queue, its worker threads and the order of opening and closing give what
\* the pool promises: nothing is accepted before all connections are open or
\* after the close, operations start in order, no more of them at a time than
\* there are workers, and all have finished before the pool is gone.
ImplementsOperationQueue == Abstract!Spec

=============================================================================
