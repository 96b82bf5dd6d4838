---------------------------- MODULE TransactionTask ----------------------------
(***************************************************************************)
(* The transactions that one MySQLConnection executes: START TRANSACTION,  *)
(* the statements in order, COMMIT or ROLLBACK, the retries after a        *)
(* deadlock, and the reconnection when the server has gone.  The session   *)
(* at the server is the environment: it may answer a statement with an     *)
(* error, or vanish before or after it has applied a command.              *)
(***************************************************************************)
EXTENDS Integers, Sequences

CONSTANTS
    LoopBreaker,    \* how often a deadlocked transaction is retried
    MaxStatements,  \* bound: statements of a transaction
    MaxFaults,      \* bound: errors and losses of the connection in a behaviour
    MaxTasks        \* bound: operations the connection executes

ASSUME TransactionTaskAssumption ==
    /\ LoopBreaker \in Nat
    /\ MaxStatements \in Nat
    /\ MaxFaults \in Nat
    /\ MaxTasks \in Nat

Statements == 1..MaxStatements

VARIABLES
    pc,             \* what the thread that owns the connection is executing
    size, cur,      \* the transaction has statements 1..size; cur is the next one
    attempt,        \* calls of ExecuteTransaction for this transaction
    errno,          \* mysql_errno of the last call: "ok", "deadlock" or "other"
    handle,         \* m_Mysql is not NULL
    prepareError,   \* m_prepareError
    inTx, work,     \* server: a transaction is open, what it has done so far
    applied,        \* server: the statements of this transaction in effect
    deadlocked,     \* history: the last attempt was ended by a deadlock
    ignored,        \* history: commands of this transaction whose error was ignored
    lost,           \* history: the connection was lost during this transaction
    faults, tasks   \* bounds

vars == <<pc, size, cur, attempt, errno, handle, prepareError, inTx, work, applied,
          deadlocked, ignored, lost, faults, tasks>>
connVars == <<handle, prepareError>>
serverVars == <<inTx, work, applied>>
taskVars == <<size, attempt, tasks>>

Init ==
    /\ pc = "idle"
    /\ size = 0 /\ cur = 1 /\ attempt = 1
    /\ errno = "ok" /\ handle = TRUE /\ prepareError = FALSE
    /\ inTx = FALSE /\ work = <<>> /\ applied = <<>>
    /\ deadlocked = FALSE /\ ignored = {} /\ lost = FALSE
    /\ faults = 0 /\ tasks = 0

All == [k \in 1..size |-> k]

-----------------------------------------------------------------------------
(* The connection: Execute and _HandleMySQLErrno.                          *)

\* Where ExecuteTransaction goes on when a command has failed for good: the
\* results of START TRANSACTION, ROLLBACK and COMMIT are ignored.
AfterFailure ==
    CASE pc = "begin" -> "stmt"
      [] pc = "stmt" -> "rollback"
      [] pc = "rollback" -> "failed"
      [] pc = "commit" -> "committed"

Commands == {"begin", "stmt", "rollback", "commit"}

Busy == pc \in Commands

\* The server's session ends with its connection and rolls back what was open,
\* unless it had applied the command before the answer was lost.
Outcomes ==
    CASE pc = "stmt" /\ ~inTx -> {applied, Append(applied, cur)}
      [] pc = "commit" -> {applied, applied \o work}
      [] OTHER -> {applied}

\* Open succeeds, or cannot connect, or cannot prepare a statement: then there is
\* a handle, and m_prepareError makes every later Open fail.
Reopen(opened) ==
    \/ opened /\ ~prepareError /\ handle' = TRUE /\ UNCHANGED prepareError
    \/ ~opened /\ handle' = FALSE /\ UNCHANGED prepareError
    \/ ~opened /\ handle' = TRUE /\ prepareError' = TRUE

\* Faulty variant: after a reconnection the transaction goes on from its start.
LoseConnection_Restart ==
    /\ Busy /\ handle
    /\ faults < MaxFaults /\ faults' = faults + 1
    /\ lost' = TRUE
    /\ applied' \in Outcomes /\ inTx' = FALSE /\ work' = <<>>
    /\ \/ Reopen(TRUE) /\ errno' = "ok" /\ cur' = 1 /\ UNCHANGED pc
       \/ Reopen(FALSE) /\ errno' = "other" /\ cur' = cur /\ pc' = AfterFailure
    /\ UNCHANGED <<taskVars, deadlocked, ignored>>

\* The handle is closed and Open called again: when it succeeds the command is
\* tried again in the new session, which commits every statement by itself.
LoseConnection ==
    /\ Busy /\ handle
    /\ faults < MaxFaults /\ faults' = faults + 1
    /\ lost' = TRUE
    /\ applied' \in Outcomes /\ inTx' = FALSE /\ work' = <<>>
    /\ \/ Reopen(TRUE) /\ errno' = "ok" /\ UNCHANGED pc
       \/ Reopen(FALSE) /\ errno' = "other" /\ pc' = AfterFailure
    /\ UNCHANGED <<taskVars, cur, deadlocked, ignored>>

\* Without a handle every command fails, and nothing opens the connection again.
NoHandle ==
    /\ Busy /\ ~handle
    /\ pc' = AfterFailure
    /\ UNCHANGED <<taskVars, cur, errno, connVars, serverVars, deadlocked, ignored, lost, faults>>

Answer(e) == errno' = e /\ UNCHANGED <<taskVars, connVars, lost>>

-----------------------------------------------------------------------------
(* ExecuteTransaction.                                                     *)

\* An empty transaction fails before anything is sent.
BeginTransaction ==
    /\ pc = "begin" /\ size > 0 /\ handle
    /\ Answer("ok")
    /\ inTx' = TRUE
    /\ pc' = "stmt" /\ cur' = 1
    /\ UNCHANGED <<work, applied, deadlocked, ignored, faults>>

\* START TRANSACTION is answered with an error: nobody looks at it, and the
\* statements take effect one by one.
BeginFails ==
    /\ pc = "begin" /\ handle
    /\ faults < MaxFaults /\ faults' = faults + 1
    /\ Answer("other")
    /\ ignored' = ignored \union {"begin"}
    /\ pc' = "stmt"
    /\ UNCHANGED <<cur, serverVars, deadlocked>>

\* Faulty variant: the loop goes one past the last statement.
ExecuteStatement_PastEnd ==
    /\ pc = "stmt" /\ handle
    /\ Answer("ok")
    /\ IF inTx THEN work' = Append(work, cur) /\ UNCHANGED applied
               ELSE applied' = Append(applied, cur) /\ UNCHANGED work
    /\ cur' = cur + 1
    /\ pc' = IF cur > size THEN "commit" ELSE "stmt"
    /\ UNCHANGED <<inTx, deadlocked, ignored, faults>>

ExecuteStatement ==
    /\ pc = "stmt" /\ handle
    /\ Answer("ok")
    /\ IF inTx THEN work' = Append(work, cur) /\ UNCHANGED applied
               ELSE applied' = Append(applied, cur) /\ UNCHANGED work
    /\ cur' = cur + 1
    /\ pc' = IF cur = size THEN "commit" ELSE "stmt"
    /\ UNCHANGED <<inTx, deadlocked, ignored, faults>>

\* Faulty variant: a failed statement ends the loop, not the function.
StatementFails_Break ==
    /\ pc = "stmt" /\ handle
    /\ faults < MaxFaults /\ faults' = faults + 1
    /\ Answer("other")
    /\ pc' = "commit"
    /\ UNCHANGED <<cur, serverVars, deadlocked, ignored>>

\* A statement error undoes that statement and nothing else.
StatementFails ==
    /\ pc = "stmt" /\ handle
    /\ faults < MaxFaults /\ faults' = faults + 1
    /\ Answer("other")
    /\ pc' = "rollback"
    /\ UNCHANGED <<cur, serverVars, deadlocked, ignored>>

\* ER_LOCK_DEADLOCK: the server has rolled back the whole transaction.
StatementDeadlocks ==
    /\ pc = "stmt" /\ handle
    /\ faults < MaxFaults /\ faults' = faults + 1
    /\ Answer("deadlock")
    /\ inTx' = FALSE /\ work' = <<>> /\ UNCHANGED applied
    /\ deadlocked' = TRUE
    /\ pc' = "rollback"
    /\ UNCHANGED <<cur, ignored>>

\* Faulty variant: an aborted transaction is not rolled back.
RollbackTransaction_Skip ==
    /\ pc = "rollback" /\ handle
    /\ Answer("ok")
    /\ pc' = "failed"
    /\ UNCHANGED <<cur, serverVars, deadlocked, ignored, faults>>

RollbackTransaction ==
    /\ pc = "rollback" /\ handle
    /\ Answer("ok")
    /\ inTx' = FALSE /\ work' = <<>> /\ UNCHANGED applied
    /\ pc' = "failed"
    /\ UNCHANGED <<cur, deadlocked, ignored, faults>>

CommitTransaction ==
    /\ pc = "commit" /\ handle
    /\ Answer("ok")
    /\ inTx' = FALSE /\ work' = <<>> /\ applied' = applied \o work
    /\ pc' = "committed"
    /\ UNCHANGED <<cur, deadlocked, ignored, faults>>

\* COMMIT is answered with an error, the server has rolled the transaction back:
\* nobody looks at the error, and the transaction is reported as committed.
CommitFails ==
    /\ pc = "commit" /\ handle
    /\ faults < MaxFaults /\ faults' = faults + 1
    /\ \E e \in {"deadlock", "other"} : Answer(e)
    /\ inTx' = FALSE /\ work' = <<>> /\ UNCHANGED applied
    /\ ignored' = ignored \union {"commit"}
    /\ pc' = "committed"
    /\ UNCHANGED <<cur, deadlocked>>

ExecuteTransaction ==
    \/ BeginTransaction \/ BeginFails
    \/ ExecuteStatement \/ StatementFails \/ StatementDeadlocks
    \/ RollbackTransaction \/ CommitTransaction \/ CommitFails
    \/ LoseConnection \/ NoHandle

-----------------------------------------------------------------------------
(* TransactionTask::Execute and the operations around it.                  *)

\* A new transaction on the connection.
Execute ==
    /\ pc = "idle" /\ tasks < MaxTasks
    /\ tasks' = tasks + 1
    /\ size' \in 0..MaxStatements
    /\ pc' = IF size' = 0 THEN "failed" ELSE "begin"
    /\ cur' = 1 /\ attempt' = 1
    /\ applied' = <<>> /\ deadlocked' = FALSE /\ ignored' = {} /\ lost' = FALSE
    /\ UNCHANGED <<errno, connVars, inTx, work, faults>>

\* GetLastError is read after the ROLLBACK of the first attempt; once in the
\* retry loop it is not read again.
Retries ==
    /\ attempt <= LoopBreaker
    /\ attempt > 1 \/ (handle /\ errno = "deadlock")

\* Faulty variant: every retry starts the count again.
NextAttempt_Reset == 2

NextAttempt == attempt + 1

AttemptFailed ==
    /\ pc = "failed"
    /\ \/ /\ Retries
          /\ attempt' = NextAttempt
          /\ pc' = IF size = 0 THEN "failed" ELSE "begin"
          /\ cur' = 1 /\ deadlocked' = FALSE
       \/ /\ ~Retries
          /\ pc' = "givenup"
          /\ UNCHANGED <<attempt, cur, deadlocked>>
    /\ UNCHANGED <<size, errno, connVars, serverVars, ignored, lost, faults, tasks>>

\* The task is deleted.
Complete ==
    /\ pc \in {"committed", "givenup"}
    /\ pc' = "idle"
    /\ UNCHANGED <<taskVars, cur, errno, connVars, serverVars, deadlocked, ignored, lost, faults>>

\* Any other operation on the connection: a single statement and its errno.
OtherOperation ==
    /\ pc = "idle" /\ handle
    /\ tasks < MaxTasks /\ tasks' = tasks + 1
    /\ \/ errno' = "ok" /\ UNCHANGED faults
       \/ /\ faults < MaxFaults /\ faults' = faults + 1
          /\ errno' \in {"deadlock", "other"}
    /\ UNCHANGED <<pc, size, cur, attempt, connVars, serverVars, deadlocked, ignored, lost>>

Terminated ==
    /\ pc = "idle" /\ tasks = MaxTasks
    /\ UNCHANGED vars

Working == ExecuteTransaction \/ AttemptFailed \/ Complete

Next == Execute \/ Working \/ OtherOperation \/ Terminated

\* A worker finishes the operation it has dequeued; it need not get another.
Spec == Init /\ [][Next]_vars /\ WF_vars(Working)

-----------------------------------------------------------------------------
\* The state variables are well typed.
TypeOK ==
    /\ pc \in Commands \union {"idle", "failed", "committed", "givenup"}
    /\ size \in 0..MaxStatements /\ cur \in 1..MaxStatements + 1
    /\ attempt \in 1..LoopBreaker + 1
    /\ errno \in {"ok", "deadlock", "other"}
    /\ handle \in BOOLEAN /\ inTx \in BOOLEAN
    /\ prepareError \in BOOLEAN
    /\ deadlocked \in BOOLEAN /\ lost \in BOOLEAN
    /\ ignored \subseteq {"begin", "commit"}
    /\ work \in Seq(Statements) /\ applied \in Seq(Statements)
    /\ faults \in 0..MaxFaults /\ tasks \in 0..MaxTasks

Finished == pc \in {"committed", "givenup"}

\* As long as the connection holds and the server accepts START TRANSACTION: a
\* transaction given up is not in effect at all; one reported as committed is in
\* effect completely if COMMIT was answered without an error, and otherwise not at
\* all, although it is reported as committed all the same.
ResultExact ==
    Finished /\ ~lost /\ "begin" \notin ignored =>
        applied = IF pc = "committed" /\ "commit" \notin ignored THEN All ELSE <<>>

\* The statements take effect in the order in which they were appended to the
\* transaction, whatever fails, also when the connection is lost in between.
OrderRespected ==
    LET effects == applied \o work
    IN  \A j, k \in DOMAIN effects : j < k => effects[j] <= effects[k]

\* No operation leaves a transaction open on the connection, where the next
\* operation's statements would become part of it.
NoTransactionLeftOpen == pc = "idle" \/ Finished => ~inTx /\ work = <<>>

\* Every operation ends, when the connection fails finitely often.
TaskEnds == pc # "idle" ~> pc = "idle"

\* What Transaction.cpp and MySQLConnection.cpp say of ER_LOCK_DEADLOCK: a
\* transaction that a deadlock ended is given up only after its retries.
DeadlockRetried ==
    pc = "givenup" /\ deadlocked => attempt = LoopBreaker + 1

\* What BeginTransaction documents: a transaction that is not committed is
\* rolled back, so of one that is reported as committed the statements are in
\* effect all together, or none is.
AllOrNothing ==
    LET inEffect == {applied[k] : k \in DOMAIN applied}
    IN  pc = "committed" => inEffect \in {{}, 1..size}

=============================================================================
