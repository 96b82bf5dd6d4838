------------------------- MODULE TransactionTaskProofs -------------------------
(***************************************************************************)
(* For transactions of any length, any number of faults and any number of  *)
(* retries: as long as the connection holds and START TRANSACTION is not   *)
(* refused a transaction is executed completely or not at all, and         *)
(* reported so unless COMMIT is answered with an error; the order of its   *)
(* statements is respected whatever fails; and none is left open.          *)
(***************************************************************************)
EXTENDS TransactionTask, SequenceTheorems, TLAPS

\* The session has an open transaction only between BEGIN and COMMIT or ROLLBACK.
Session ==
    /\ ~inTx => work = <<>>
    /\ inTx => handle /\ pc \in {"stmt", "rollback", "commit"}

\* Where an attempt is.  The ROLLBACK of a failed attempt clears the error that
\* GetLastError reads: only an empty transaction, which sends nothing, is retried.
Control ==
    /\ pc = "failed" /\ handle => size = 0 \/ errno # "deadlock"
    /\ attempt > 1 => size = 0
    /\ pc \in Commands => size > 0
    /\ pc = "begin" => cur = 1 /\ applied = <<>>
    /\ pc = "stmt" => cur \in 1..size
    /\ pc = "failed" => size > 0 \/ applied = <<>>
    /\ pc \in {"commit", "committed"} => size > 0
    /\ "commit" \in ignored => pc \in {"committed", "idle"}

Prefix(m) == [k \in 1..m |-> k]

\* What an attempt on an unbroken connection has done so far.
Unbroken == ~lost /\ "begin" \notin ignored

Progress ==
    Unbroken =>
        /\ pc \in {"stmt", "rollback", "commit", "failed", "givenup"} => applied = <<>>
        /\ pc = "stmt" /\ handle => inTx /\ work = Prefix(cur - 1)
        /\ pc = "commit" => inTx /\ work = Prefix(size)
        /\ pc = "committed" =>
             applied = IF "commit" \in ignored THEN <<>> ELSE Prefix(size)

\* No statement later than the next one has taken effect.
Bounded ==
    pc = "stmt" => \A k \in DOMAIN (applied \o work) : (applied \o work)[k] <= cur

IInv ==
    /\ TypeOK
    /\ Session
    /\ Control
    /\ Progress
    /\ OrderRespected
    /\ Bounded

-----------------------------------------------------------------------------
LEMMA PrefixGrows == \A m \in Nat : Append(Prefix(m), m + 1) = Prefix(m + 1)
<1> SUFFICES ASSUME NEW m \in Nat PROVE Append(Prefix(m), m + 1) = Prefix(m + 1)
  OBVIOUS
<1>1. Prefix(m) \in Seq(Nat) /\ Len(Prefix(m)) = m
  BY DEF Prefix
<1> QED
  BY <1>1 DEF Prefix

LEMMA InitIInv == Init => IInv
<1> SUFFICES ASSUME Init PROVE IInv
  OBVIOUS
<1>1. /\ handle \in BOOLEAN /\ prepareError \in BOOLEAN /\ inTx \in BOOLEAN
      /\ deadlocked \in BOOLEAN /\ lost \in BOOLEAN
  BY Zenon DEF Init
<1>2. TypeOK
  BY <1>1, TransactionTaskAssumption DEF Init, TypeOK
<1>3. Session /\ Control /\ Progress
  BY DEF Init, Session, Control, Commands, Progress, Unbroken
<1>4. <<>> \o <<>> = <<>>
  BY EmptySeq, ConcatEmptySeq
<1>5. OrderRespected /\ Bounded
  BY <1>4 DEF Init, OrderRespected, Bounded
<1> QED
  BY <1>2, <1>3, <1>5 DEF IInv

\* The commands that the server answers while the connection holds.
Answered ==
    \/ BeginTransaction \/ BeginFails
    \/ ExecuteStatement \/ StatementFails \/ StatementDeadlocks
    \/ RollbackTransaction \/ CommitTransaction \/ CommitFails

LEMMA NextCases ==
    ASSUME [Next]_vars
    PROVE  \/ Answered \/ LoseConnection \/ NoHandle \/ AttemptFailed
           \/ Complete \/ Execute \/ OtherOperation \/ UNCHANGED vars
BY DEF Next, Working, ExecuteTransaction, Answered, Terminated

LEMMA NextStatement ==
    ASSUME TypeOK, Control, pc = "stmt"
    PROVE  cur \in 1..size /\ cur \in Statements
<1>1. cur \in 1..size
  BY Zenon DEF Control
<1>2. size \in 0..MaxStatements
  BY Zenon DEF TypeOK
<1> QED
  BY <1>1, <1>2, TransactionTaskAssumption DEF Statements

LEMMA OutcomesType ==
    ASSUME TypeOK, Control
    PROVE  Outcomes \subseteq Seq(Statements)
<1>1. pc = "stmt" => Append(applied, cur) \in Seq(Statements)
  BY NextStatement DEF TypeOK
<1>2. applied \o work \in Seq(Statements)
  BY ConcatProperties DEF TypeOK
<1>3. applied \in Seq(Statements)
  BY DEF TypeOK
<1> QED
  BY <1>1, <1>2, <1>3, Zenon DEF Outcomes

LEMMA TypeStep == TypeOK /\ Control /\ [Next]_vars => TypeOK'
<1> SUFFICES ASSUME TypeOK, Control, [Next]_vars PROVE TypeOK'
  OBVIOUS
<1> USE TransactionTaskAssumption
<1>0. <<>> \in Seq(Statements)
  BY EmptySeq
<1>a. ASSUME BeginTransaction PROVE TypeOK'
  <2>1. inTx' \in BOOLEAN
    BY <1>a, Zenon DEF BeginTransaction
  <2> QED
    BY <1>a, <2>1 DEF BeginTransaction, Answer, TypeOK, Commands, taskVars, connVars
<1>b. ASSUME ExecuteStatement PROVE TypeOK'
  <2>1. cur \in Statements /\ cur \in 1..size
    BY <1>b, NextStatement DEF ExecuteStatement
  <2>2. work' \in Seq(Statements) /\ applied' \in Seq(Statements)
    <3>1. CASE inTx
      BY <1>b, <2>1, <3>1 DEF ExecuteStatement, TypeOK
    <3>2. CASE ~inTx
      BY <1>b, <2>1, <3>2 DEF ExecuteStatement, TypeOK
    <3> QED
      BY <3>1, <3>2
  <2>3. cur' = cur + 1
    BY <1>b, Zenon DEF ExecuteStatement
  <2>4. cur' \in 1..MaxStatements + 1
    BY <2>1, <2>3 DEF Statements
  <2> QED
    BY <1>b, <2>2, <2>4 DEF ExecuteStatement, Answer, TypeOK, Commands, taskVars, connVars
<1>c. ASSUME StatementFails PROVE TypeOK'
  BY <1>c DEF StatementFails, Answer, TypeOK, Commands, taskVars, connVars, serverVars
<1>d. ASSUME StatementDeadlocks PROVE TypeOK'
  <2>1. inTx' \in BOOLEAN /\ deadlocked' \in BOOLEAN
    BY <1>d, Zenon DEF StatementDeadlocks
  <2> QED
    BY <1>0, <1>d, <2>1 DEF StatementDeadlocks, Answer, TypeOK, Commands, taskVars, connVars
<1>e. ASSUME RollbackTransaction PROVE TypeOK'
  <2>1. inTx' \in BOOLEAN
    BY <1>e, Zenon DEF RollbackTransaction
  <2> QED
    BY <1>0, <1>e, <2>1 DEF RollbackTransaction, Answer, TypeOK, taskVars, connVars
<1>f. ASSUME CommitTransaction PROVE TypeOK'
  <2>1. inTx' \in BOOLEAN
    BY <1>f, Zenon DEF CommitTransaction
  <2>2. applied' \in Seq(Statements) /\ work' \in Seq(Statements)
    BY <1>0, <1>f, ConcatProperties DEF CommitTransaction, TypeOK
  <2> QED
    BY <1>f, <2>1, <2>2 DEF CommitTransaction, Answer, TypeOK, taskVars, connVars
<1>g. ASSUME BeginFails PROVE TypeOK'
  BY <1>g DEF BeginFails, Answer, TypeOK, Commands, taskVars, connVars, serverVars
<1>h. ASSUME CommitFails PROVE TypeOK'
  <2>1. inTx' \in BOOLEAN
    BY <1>h, Zenon DEF CommitFails
  <2> QED
    BY <1>0, <1>h, <2>1 DEF CommitFails, Answer, TypeOK, taskVars, connVars
<1>1. ASSUME Answered PROVE TypeOK'
  BY <1>1, <1>a, <1>b, <1>c, <1>d, <1>e, <1>f, <1>g, <1>h DEF Answered
<1>2. ASSUME LoseConnection PROVE TypeOK'
  <2>1. /\ handle' \in BOOLEAN /\ prepareError' \in BOOLEAN
        /\ lost' \in BOOLEAN /\ inTx' \in BOOLEAN /\ deadlocked' \in BOOLEAN
    BY <1>2, Zenon DEF LoseConnection, Reopen, TypeOK
  <2>2. applied' \in Seq(Statements) /\ work' \in Seq(Statements)
    BY <1>0, <1>2, OutcomesType DEF LoseConnection
  <2>3. /\ pc \in Commands /\ faults < MaxFaults /\ faults' = faults + 1
        /\ errno' \in {"ok", "other"} /\ pc' \in {pc, AfterFailure}
        /\ UNCHANGED <<size, cur, attempt, ignored, tasks>>
    BY <1>2 DEF LoseConnection, Busy, taskVars
  <2> QED
    BY <2>1, <2>2, <2>3 DEF Commands, AfterFailure, TypeOK
<1>3. ASSUME NoHandle PROVE TypeOK'
  BY <1>3 DEF NoHandle, Busy, Commands, AfterFailure, TypeOK, taskVars, connVars, serverVars
<1>4. ASSUME AttemptFailed PROVE TypeOK'
  <2>1. deadlocked' \in BOOLEAN
    BY <1>4, Zenon DEF AttemptFailed, TypeOK
  <2> QED
    BY <1>4, <2>1 DEF AttemptFailed, Retries, NextAttempt, Commands, TypeOK, connVars, serverVars
<1>5. ASSUME Complete PROVE TypeOK'
  BY <1>5 DEF Complete, TypeOK, taskVars, connVars, serverVars
<1>6. ASSUME Execute PROVE TypeOK'
  <2>1. deadlocked' \in BOOLEAN /\ lost' \in BOOLEAN
    BY <1>6, Zenon DEF Execute
  <2>2. size' \in 0..MaxStatements /\ cur' = 1
    BY <1>6, Zenon DEF Execute
  <2>3. tasks < MaxTasks /\ tasks' = tasks + 1 /\ attempt' = 1
    BY <1>6, Zenon DEF Execute
  <2>4. tasks' \in 0..MaxTasks /\ attempt' \in 1..LoopBreaker + 1
    BY <2>3 DEF TypeOK
  <2>5. cur' \in 1..MaxStatements + 1
    BY <2>2
  <2> QED
    BY <1>0, <1>6, <2>1, <2>2, <2>4, <2>5 DEF Execute, Commands, TypeOK, connVars
<1>7. ASSUME OtherOperation PROVE TypeOK'
  BY <1>7 DEF OtherOperation, TypeOK, connVars, serverVars
<1>8. ASSUME UNCHANGED vars PROVE TypeOK'
  BY <1>8 DEF vars, TypeOK
<1> QED
  BY <1>1, <1>2, <1>3, <1>4, <1>5, <1>6, <1>7, <1>8, NextCases

LEMMA SessionStep == TypeOK /\ Session /\ Control /\ [Next]_vars => Session'
<1> SUFFICES ASSUME TypeOK, Session, Control, [Next]_vars PROVE Session'
  OBVIOUS
<1> USE DEF Session
<1>1. ASSUME Answered PROVE Session'
  <2>1. ASSUME BeginTransaction PROVE Session'
    BY <2>1 DEF BeginTransaction, Answer, connVars, TypeOK
  <2>2. ASSUME ExecuteStatement PROVE Session'
    <3>1. CASE inTx
      BY <2>2, <3>1 DEF ExecuteStatement, Answer, connVars, TypeOK
    <3>2. CASE ~inTx
      BY <2>2, <3>2 DEF ExecuteStatement, Answer, connVars, TypeOK
    <3> QED
      BY <3>1, <3>2
  <2>3. ASSUME StatementFails PROVE Session'
    BY <2>3 DEF StatementFails, Answer, connVars, serverVars, TypeOK
  <2>4. ASSUME StatementDeadlocks PROVE Session'
    BY <2>4, Zenon DEF StatementDeadlocks
  <2>5. ASSUME RollbackTransaction PROVE Session'
    BY <2>5, Zenon DEF RollbackTransaction
  <2>6. ASSUME CommitTransaction PROVE Session'
    BY <2>6, Zenon DEF CommitTransaction
  <2>7. ASSUME BeginFails PROVE Session'
    BY <2>7 DEF BeginFails, Answer, connVars, serverVars, TypeOK
  <2>8. ASSUME CommitFails PROVE Session'
    BY <2>8, Zenon DEF CommitFails
  <2> QED
    BY <1>1, <2>1, <2>2, <2>3, <2>4, <2>5, <2>6, <2>7, <2>8 DEF Answered
<1>2. ASSUME LoseConnection PROVE Session'
  BY <1>2, Zenon DEF LoseConnection
<1>3. ASSUME NoHandle PROVE Session'
  BY <1>3, Zenon DEF NoHandle, connVars, serverVars
<1>4. ASSUME AttemptFailed PROVE Session'
  BY <1>4 DEF AttemptFailed, connVars, serverVars, TypeOK
<1>5. ASSUME Complete PROVE Session'
  BY <1>5 DEF Complete, connVars, serverVars, TypeOK
<1>6. ASSUME Execute PROVE Session'
  <2>1. pc = "idle" /\ UNCHANGED <<handle, inTx, work>>
    BY <1>6, Zenon DEF Execute, connVars
  <2> QED
    BY <2>1
<1>7. ASSUME OtherOperation PROVE Session'
  BY <1>7 DEF OtherOperation, connVars, serverVars
<1>8. ASSUME UNCHANGED vars PROVE Session'
  BY <1>8 DEF vars
<1> QED
  BY <1>1, <1>2, <1>3, <1>4, <1>5, <1>6, <1>7, <1>8, NextCases

LEMMA ControlStep == TypeOK /\ Session /\ Control /\ [Next]_vars => Control'
<1> SUFFICES ASSUME TypeOK, Session, Control, [Next]_vars PROVE Control'
  OBVIOUS
<1> USE DEF Control, Commands, taskVars, connVars, serverVars
<1>1. ASSUME Answered PROVE Control'
  <2>1. ASSUME BeginTransaction PROVE Control'
    BY <2>1 DEF BeginTransaction, Answer, TypeOK
  <2>2. ASSUME ExecuteStatement PROVE Control'
    <3>1. pc = "stmt" /\ cur \in 1..size /\ size \in Nat
      BY <2>2, NextStatement, TransactionTaskAssumption DEF ExecuteStatement, TypeOK
    <3>2. cur' = cur + 1 /\ pc' = (IF cur = size THEN "commit" ELSE "stmt")
          /\ UNCHANGED <<size, attempt, handle, ignored>>
      BY <2>2, Zenon DEF ExecuteStatement, Answer
    <3> QED
      BY <3>1, <3>2
  <2>3. ASSUME StatementFails PROVE Control'
    BY <2>3 DEF StatementFails, Answer
  <2>4. ASSUME StatementDeadlocks PROVE Control'
    <3>1. pc = "stmt" /\ pc' = "rollback" /\ UNCHANGED <<size, attempt, handle, ignored>>
      BY <2>4, Zenon DEF StatementDeadlocks, Answer
    <3> QED
      BY <3>1
  <2>5. ASSUME RollbackTransaction PROVE Control'
    <3>1. pc = "rollback" /\ pc' = "failed" /\ errno' = "ok"
          /\ UNCHANGED <<size, attempt, handle, ignored>>
      BY <2>5, Zenon DEF RollbackTransaction, Answer
    <3> QED
      BY <3>1
  <2>6. ASSUME CommitTransaction PROVE Control'
    <3>1. pc = "commit" /\ pc' = "committed" /\ UNCHANGED <<size, attempt, ignored>>
      BY <2>6, Zenon DEF CommitTransaction, Answer
    <3> QED
      BY <3>1
  <2>7. ASSUME BeginFails PROVE Control'
    <3>1. /\ pc = "begin" /\ pc' = "stmt" /\ ignored' = ignored \union {"begin"}
          /\ UNCHANGED <<size, attempt, cur>>
      BY <2>7, Zenon DEF BeginFails, Answer
    <3>2. 1 \in 1..size
      BY <3>1, TransactionTaskAssumption DEF TypeOK
    <3> QED
      BY <3>1, <3>2
  <2>8. ASSUME CommitFails PROVE Control'
    <3>1. pc = "commit" /\ pc' = "committed" /\ UNCHANGED <<size, attempt>>
      BY <2>8, Zenon DEF CommitFails, Answer
    <3> QED
      BY <3>1
  <2> QED
    BY <1>1, <2>1, <2>2, <2>3, <2>4, <2>5, <2>6, <2>7, <2>8 DEF Answered
<1>2. ASSUME LoseConnection PROVE Control'
  <2>1. pc \in Commands /\ applied' \in Outcomes /\ UNCHANGED <<size, cur, attempt, ignored>>
        /\ \/ pc' = pc
           \/ errno' = "other" /\ pc' = AfterFailure
    BY <1>2, Zenon DEF LoseConnection, Busy
  <2>2. pc = "begin" => applied' = <<>>
    BY <2>1 DEF Outcomes
  <2>3. pc = "begin" => 1 \in 1..size
    BY TransactionTaskAssumption DEF TypeOK
  <2> QED
    BY <2>1, <2>2, <2>3 DEF AfterFailure
<1>3. ASSUME NoHandle PROVE Control'
  <2>1. pc \in Commands /\ ~handle' /\ UNCHANGED <<size, cur, attempt, applied, ignored>>
        /\ pc' = AfterFailure
    BY <1>3, Zenon DEF NoHandle, Busy
  <2>2. pc = "begin" => 1 \in 1..size
    BY TransactionTaskAssumption DEF TypeOK
  <2> QED
    BY <2>1, <2>2 DEF AfterFailure
<1>4. ASSUME AttemptFailed PROVE Control'
  <2>1. pc = "failed" /\ UNCHANGED <<size, errno, handle, applied, ignored>>
    BY <1>4, Zenon DEF AttemptFailed
  <2>2. ASSUME Retries, attempt' = NextAttempt,
               pc' = (IF size = 0 THEN "failed" ELSE "begin"), cur' = 1
        PROVE  Control'
    BY <2>1, <2>2 DEF Retries
  <2>3. ASSUME pc' = "givenup", attempt' = attempt PROVE Control'
    BY <2>1, <2>3
  <2> QED
    BY <1>4, <2>2, <2>3, Zenon DEF AttemptFailed
<1>5. ASSUME Complete PROVE Control'
  BY <1>5 DEF Complete
<1>6. ASSUME Execute PROVE Control'
  <2>1. size' \in 0..MaxStatements /\ pc' = (IF size' = 0 THEN "failed" ELSE "begin")
        /\ cur' = 1 /\ attempt' = 1 /\ applied' = <<>> /\ ignored' = {}
    BY <1>6, Zenon DEF Execute
  <2>2. size' # 0 => size' > 0
    BY <2>1
  <2> QED
    BY <2>1, <2>2
<1>7. ASSUME OtherOperation PROVE Control'
  BY <1>7 DEF OtherOperation
<1>8. ASSUME UNCHANGED vars PROVE Control'
  BY <1>8 DEF vars
<1> QED
  BY <1>1, <1>2, <1>3, <1>4, <1>5, <1>6, <1>7, <1>8, NextCases

LEMMA ProgressStep ==
    TypeOK /\ Session /\ Control /\ Progress /\ [Next]_vars => Progress'
<1> SUFFICES ASSUME TypeOK, Session, Control, Progress, [Next]_vars, Unbroken'
             PROVE  Progress'
  BY DEF Progress
<1> USE DEF Unbroken
<1>1. ASSUME Answered PROVE Progress'
  <2>1. Unbroken
    BY <1>1 DEF Answered, BeginTransaction, BeginFails, ExecuteStatement, StatementFails,
       StatementDeadlocks, RollbackTransaction, CommitTransaction, CommitFails, Answer
  <2>2. ASSUME BeginTransaction PROVE Progress'
    <3>1. pc = "begin" /\ pc' = "stmt" /\ inTx' /\ cur' = 1 /\ UNCHANGED <<work, applied>>
      BY <2>2, Zenon DEF BeginTransaction
    <3>2. applied = <<>> /\ work = <<>>
      BY <3>1 DEF Control, Session
    <3>3. Prefix(0) = <<>>
      BY DEF Prefix
    <3> QED
      BY <3>1, <3>2, <3>3 DEF Progress
  <2>3. ASSUME ExecuteStatement PROVE Progress'
    <3>1. pc = "stmt" /\ handle
      BY <2>3 DEF ExecuteStatement
    <3>2. cur \in 1..size /\ size \in Nat
      BY <3>1, NextStatement, TransactionTaskAssumption DEF TypeOK
    <3>3. applied = <<>> /\ inTx /\ work = Prefix(cur - 1)
      BY <2>1, <3>1 DEF Progress
    <3>4. work' = Append(work, cur) /\ applied' = applied /\ inTx' /\ cur' = cur + 1
          /\ pc' = (IF cur = size THEN "commit" ELSE "stmt") /\ size' = size
      BY <2>3, <3>3, Zenon DEF ExecuteStatement, Answer, taskVars
    <3>5. work' = Prefix(cur)
      <4>1. cur - 1 \in Nat /\ (cur - 1) + 1 = cur
        BY <3>2
      <4>2. Append(Prefix(cur - 1), (cur - 1) + 1) = Prefix((cur - 1) + 1)
        BY <4>1, PrefixGrows
      <4> QED
        BY <3>3, <3>4, <4>1, <4>2, Zenon
    <3>6. CASE cur = size
      BY <3>3, <3>4, <3>5, <3>6 DEF Progress
    <3>7. CASE cur # size
      <4>1. cur' - 1 = cur
        BY <3>2, <3>4
      <4> QED
        BY <3>3, <3>4, <3>5, <3>7, <4>1 DEF Progress
    <3> QED
      BY <3>6, <3>7
  <2>4. ASSUME StatementFails \/ StatementDeadlocks PROVE Progress'
    <3>1. pc = "stmt" /\ pc' = "rollback" /\ applied' = applied
      BY <2>4, Zenon DEF StatementFails, StatementDeadlocks, serverVars
    <3> QED
      BY <2>1, <3>1 DEF Progress
  <2>5. ASSUME RollbackTransaction PROVE Progress'
    <3>1. pc = "rollback" /\ pc' = "failed" /\ applied' = applied
      BY <2>5, Zenon DEF RollbackTransaction
    <3> QED
      BY <2>1, <3>1 DEF Progress
  <2>6. ASSUME CommitTransaction PROVE Progress'
    <3>1. pc = "commit" /\ pc' = "committed" /\ applied' = applied \o work
          /\ UNCHANGED <<size, ignored>>
      BY <2>6, Zenon DEF CommitTransaction, Answer, taskVars
    <3>2. applied = <<>> /\ work = Prefix(size) /\ "commit" \notin ignored
      BY <2>1, <3>1 DEF Progress, Control
    <3>3. applied' = work
      BY <3>1, <3>2, ConcatEmptySeq DEF TypeOK
    <3> QED
      BY <3>1, <3>2, <3>3 DEF Progress
  <2>7. ASSUME BeginFails PROVE FALSE
    BY <2>7 DEF BeginFails
  <2>8. ASSUME CommitFails PROVE Progress'
    <3>1. pc = "commit" /\ pc' = "committed" /\ applied' = applied
          /\ ignored' = ignored \union {"commit"}
      BY <2>8, Zenon DEF CommitFails
    <3> QED
      BY <2>1, <3>1 DEF Progress
  <2> QED
    BY <1>1, <2>2, <2>3, <2>4, <2>5, <2>6, <2>7, <2>8 DEF Answered
<1>2. ASSUME LoseConnection PROVE Progress'
  BY <1>2, Zenon DEF LoseConnection
<1>3. ASSUME NoHandle PROVE Progress'
  <2>1. pc \in Commands /\ ~handle /\ ~handle' /\ pc' = AfterFailure
        /\ Unbroken /\ UNCHANGED <<applied, size>>
    BY <1>3, Zenon DEF NoHandle, Busy, connVars, serverVars, taskVars
  <2>2. pc # "commit"
    BY <2>1 DEF Progress, Session
  <2> QED
    BY <2>1, <2>2 DEF Progress, Control, AfterFailure, Commands
<1>4. ASSUME AttemptFailed PROVE Progress'
  <2>1. pc = "failed" /\ pc' \in {"failed", "begin", "givenup"} /\ Unbroken
        /\ applied' = applied
    BY <1>4, Zenon DEF AttemptFailed, serverVars
  <2> QED
    BY <2>1 DEF Progress
<1>5. ASSUME Complete PROVE Progress'
  <2>1. pc' = "idle"
    BY <1>5 DEF Complete
  <2> QED
    BY <2>1 DEF Progress
<1>6. ASSUME Execute PROVE Progress'
  <2>1. pc' \in {"failed", "begin"} /\ applied' = <<>>
    BY <1>6, Zenon DEF Execute
  <2> QED
    BY <2>1 DEF Progress
<1>7. ASSUME OtherOperation PROVE Progress'
  <2>1. pc' = "idle"
    BY <1>7 DEF OtherOperation
  <2> QED
    BY <2>1 DEF Progress
<1>8. ASSUME UNCHANGED vars PROVE Progress'
  BY <1>8 DEF vars, Progress
<1> QED
  BY <1>1, <1>2, <1>3, <1>4, <1>5, <1>6, <1>7, <1>8, NextCases

-----------------------------------------------------------------------------
\* A sequence that never decreases, and one with no element greater than e.
Ordered(s) == \A j, k \in DOMAIN s : j < k => s[j] <= s[k]
AtMost(s, e) == \A k \in DOMAIN s : s[k] <= e

LEMMA OrderedAppend ==
    ASSUME NEW s \in Seq(Statements), NEW e \in Statements, Ordered(s), AtMost(s, e)
    PROVE  Ordered(Append(s, e)) /\ AtMost(Append(s, e), e)
<1>0. \A k \in DOMAIN s : s[k] \in Statements
  BY LenProperties, ElementOfSeq
<1>1. \A k \in DOMAIN s : s[k] \in Int
  BY <1>0, TransactionTaskAssumption DEF Statements
<1>2. Len(s) \in Nat /\ DOMAIN s = 1..Len(s)
  OBVIOUS
<1>3. DOMAIN Append(s, e) = 1..Len(s) + 1
  BY <1>2
<1>4. \A k \in 1..Len(s) : Append(s, e)[k] = s[k]
  BY <1>2
<1>5. Append(s, e)[Len(s) + 1] = e
  BY <1>2
<1>6. \A k \in 1..Len(s) : s[k] \in Int /\ s[k] <= e
  BY <1>1, <1>2 DEF AtMost
<1>7. e \in Int
  BY DEF Statements
<1>8. AtMost(Append(s, e), e)
  BY <1>2, <1>3, <1>4, <1>5, <1>6, <1>7 DEF AtMost
<1>9. Ordered(Append(s, e))
  <2> SUFFICES ASSUME NEW j \in 1..Len(s) + 1, NEW k \in 1..Len(s) + 1, j < k
               PROVE  Append(s, e)[j] <= Append(s, e)[k]
    BY <1>3 DEF Ordered
  <2>1. j \in 1..Len(s)
    BY <1>2
  <2>2. CASE k = Len(s) + 1
    BY <2>1, <2>2, <1>4, <1>5, <1>6
  <2>3. CASE k # Len(s) + 1
    <3>1. k \in 1..Len(s)
      BY <1>2, <2>3
    <3> QED
      BY <1>2, <1>4, <2>1, <3>1 DEF Ordered
  <2> QED
    BY <2>2, <2>3
<1> QED
  BY <1>8, <1>9

LEMMA OrderedPrefix ==
    ASSUME NEW s \in Seq(Statements), NEW t \in Seq(Statements), Ordered(s \o t)
    PROVE  Ordered(s) /\ \A e \in Nat : AtMost(s \o t, e) => AtMost(s, e)
<1>1. Len(s) \in Nat /\ DOMAIN s = 1..Len(s) /\ Len(t) \in Nat
  OBVIOUS
<1>2. DOMAIN (s \o t) = 1..Len(s) + Len(t)
  BY <1>1
<1>3. \A k \in 1..Len(s) : (s \o t)[k] = s[k]
  BY <1>1
<1> QED
  BY <1>1, <1>2, <1>3 DEF Ordered, AtMost

\* OrderRespected and Bounded, as statements about one sequence.
Sorted == Ordered(applied \o work) /\ (pc = "stmt" => AtMost(applied \o work, cur))

LEMMA SortedIs == OrderRespected /\ Bounded <=> Sorted
<1>1. OrderRespected <=> Ordered(applied \o work)
  BY DEF OrderRespected, Ordered
<1>2. Bounded <=> (pc = "stmt" => AtMost(applied \o work, cur))
  BY DEF Bounded, AtMost
<1> QED
  BY <1>1, <1>2 DEF Sorted

LEMMA NothingSorted == Ordered(<<>>) /\ \A e \in Nat : AtMost(<<>>, e)
BY DEF Ordered, AtMost

LEMMA SortedStep ==
    TypeOK /\ TypeOK' /\ Session /\ Control /\ Sorted /\ [Next]_vars => Sorted'
<1> SUFFICES ASSUME TypeOK, TypeOK', Session, Control, Sorted, [Next]_vars
             PROVE  Sorted'
  OBVIOUS
<1>0. /\ applied \in Seq(Statements) /\ work \in Seq(Statements)
      /\ <<>> \in Seq(Statements)
      /\ applied \o <<>> = applied
      /\ Ordered(applied)
      /\ cur \in Nat /\ cur' \in Nat
  <2>1. applied \in Seq(Statements) /\ work \in Seq(Statements) /\ <<>> \in Seq(Statements)
    BY EmptySeq DEF TypeOK
  <2>2. cur \in Nat /\ cur' \in Nat
    BY TransactionTaskAssumption DEF TypeOK
  <2> QED
    BY <2>1, <2>2, ConcatEmptySeq, OrderedPrefix DEF Sorted
<1>1. ASSUME UNCHANGED <<applied, work>>, pc' # "stmt" PROVE Sorted'
  BY <1>1 DEF Sorted
<1>2. ASSUME UNCHANGED <<applied, work>>, pc = "begin" PROVE Sorted'
  <2>1. applied = <<>> /\ work = <<>>
    BY <1>2 DEF Control, Session
  <2>2. applied' \o work' = <<>>
    BY <1>0, <1>2, <2>1
  <2> QED
    BY <1>0, <2>2, NothingSorted DEF Sorted
<1>3. ASSUME applied' = applied, work' = <<>>, pc' # "stmt" PROVE Sorted'
  <2>1. applied' \o work' = applied
    BY <1>0, <1>3
  <2> QED
    BY <1>0, <1>3, <2>1 DEF Sorted
<1>4. ASSUME ExecuteStatement PROVE Sorted'
  <2>1. pc = "stmt" /\ cur \in Statements /\ cur' = cur + 1
    BY <1>4, NextStatement DEF ExecuteStatement
  <2>2. applied' \o work' = Append(applied \o work, cur)
    <3>1. CASE inTx
      <4>1. applied' = applied /\ work' = Append(work, cur)
        BY <1>4, <3>1, Zenon DEF ExecuteStatement
      <4> QED
        BY <1>0, <2>1, <4>1
    <3>2. CASE ~inTx
      <4>1. applied' = Append(applied, cur) /\ work' = <<>> /\ work = <<>>
        BY <1>4, <3>2, Zenon DEF ExecuteStatement, Session
      <4>2. Append(applied, cur) \in Seq(Statements)
        BY <1>0, <2>1
      <4> QED
        BY <1>0, <4>1, <4>2, ConcatEmptySeq
    <3> QED
      BY <3>1, <3>2
  <2>3. applied \o work \in Seq(Statements)
    BY <1>0, ConcatProperties
  <2>4. Ordered(applied' \o work') /\ AtMost(applied' \o work', cur)
    BY <2>1, <2>2, <2>3, OrderedAppend DEF Sorted
  <2>5. applied' \o work' \in Seq(Statements)
    BY <2>1, <2>2, <2>3
  <2>6. AtMost(applied' \o work', cur')
    BY <1>0, <2>1, <2>4, <2>5, ElementOfSeq, LenProperties, TransactionTaskAssumption
       DEF AtMost, Statements
  <2> QED
    BY <2>4, <2>6 DEF Sorted
<1>5. ASSUME CommitTransaction PROVE Sorted'
  <2>1. applied' = applied \o work /\ work' = <<>> /\ pc' = "committed"
    BY <1>5, Zenon DEF CommitTransaction
  <2>2. applied' \o work' = applied \o work
    BY <1>0, <2>1, ConcatProperties, ConcatEmptySeq
  <2> QED
    BY <2>1, <2>2 DEF Sorted
<1>6. ASSUME LoseConnection PROVE Sorted'
  <2>1. applied' \in Outcomes /\ work' = <<>> /\ cur' = cur /\ pc \in Commands
        /\ (pc' = pc \/ pc' = AfterFailure)
    BY <1>6, Zenon DEF LoseConnection, Busy
  <2>2. pc' = "stmt" => pc \in {"begin", "stmt"}
    BY <2>1 DEF AfterFailure, Commands
  <2>3. pc = "begin" => applied = <<>>
    BY DEF Control
  <2>4. CASE applied' = applied
    <3>1. applied' \o work' = applied
      BY <1>0, <2>1, <2>4
    <3>2. pc = "stmt" => AtMost(applied, cur)
      BY <1>0, OrderedPrefix DEF Sorted
    <3> QED
      BY <1>0, <2>1, <2>2, <2>3, <3>1, <3>2, NothingSorted DEF Sorted
  <2>5. CASE pc = "stmt" /\ ~inTx /\ applied' = Append(applied, cur)
    <3>1. cur \in Statements
      BY <2>5, NextStatement
    <3>2. applied' \o work' = Append(applied, cur)
      <4>1. Append(applied, cur) \in Seq(Statements)
        BY <1>0, <3>1
      <4> QED
        BY <2>1, <2>5, <4>1, ConcatEmptySeq
    <3>3. AtMost(applied, cur)
      BY <1>0, <2>5, OrderedPrefix DEF Sorted
    <3> QED
      BY <1>0, <2>1, <3>1, <3>2, <3>3, OrderedAppend DEF Sorted
  <2>6. CASE pc = "commit" /\ applied' = applied \o work
    <3>1. applied' \o work' = applied \o work
      BY <1>0, <2>1, <2>6, ConcatProperties, ConcatEmptySeq
    <3> QED
      BY <2>2, <2>6, <3>1 DEF Sorted
  <2> QED
    BY <2>1, <2>4, <2>5, <2>6 DEF Outcomes
<1>7. ASSUME NoHandle PROVE Sorted'
  <2>1. UNCHANGED <<applied, work>> /\ pc \in Commands /\ pc' = AfterFailure
    BY <1>7, Zenon DEF NoHandle, Busy, serverVars
  <2> QED
    BY <1>1, <1>2, <2>1 DEF AfterFailure, Commands
<1>8. ASSUME Execute PROVE Sorted'
  <2>1. applied' = <<>> /\ pc = "idle" /\ work' = work /\ pc' # "stmt" /\ inTx' = inTx
    BY <1>8 DEF Execute
  <2>2. work = <<>>
    BY <2>1 DEF Session
  <2>3. applied' \o work' = <<>>
    BY <1>0, <2>1, <2>2, ConcatEmptySeq
  <2> QED
    BY <2>1, <2>3, NothingSorted DEF Sorted
<1>9. ASSUME Answered PROVE Sorted'
  <2>1. ASSUME BeginTransaction \/ BeginFails PROVE Sorted'
    BY <1>2, <2>1 DEF BeginTransaction, BeginFails, serverVars
  <2>2. ASSUME StatementFails PROVE Sorted'
    BY <1>1, <2>2 DEF StatementFails, serverVars
  <2>3. ASSUME StatementDeadlocks \/ RollbackTransaction \/ CommitFails PROVE Sorted'
    BY <1>3, <2>3 DEF StatementDeadlocks, RollbackTransaction, CommitFails
  <2> QED
    BY <1>4, <1>5, <1>9, <2>1, <2>2, <2>3 DEF Answered
<1>10. ASSUME AttemptFailed \/ Complete \/ OtherOperation PROVE Sorted'
  <2>1. UNCHANGED <<applied, work>> /\ pc' # "stmt"
    BY <1>10 DEF AttemptFailed, Complete, OtherOperation, serverVars
  <2> QED
    BY <1>1, <2>1
<1>11. ASSUME UNCHANGED vars PROVE Sorted'
  BY <1>11 DEF vars, Sorted
<1> QED
  BY <1>6, <1>7, <1>8, <1>9, <1>10, <1>11, NextCases

LEMMA IInvStep == IInv /\ [Next]_vars => IInv'
<1> SUFFICES ASSUME IInv, [Next]_vars PROVE IInv'
  OBVIOUS
<1>1. TypeOK' /\ Session' /\ Control' /\ Progress'
  BY TypeStep, SessionStep, ControlStep, ProgressStep DEF IInv
<1>2. Sorted
  BY SortedIs DEF IInv
<1>3. Sorted'
  BY <1>1, <1>2, SortedStep DEF IInv
<1>4. OrderRespected' /\ Bounded'
  BY <1>3 DEF Sorted, OrderRespected, Bounded, Ordered, AtMost
<1> QED
  BY <1>1, <1>4 DEF IInv

-----------------------------------------------------------------------------
\* The inductive invariant, of which the other theorems are consequences.
THEOREM Invariance == Spec => []IInv
BY InitIInv, IInvStep, PTL DEF Spec

\* The state variables are well typed.
THEOREM TypeCorrect == Spec => []TypeOK
<1>1. IInv => TypeOK
  BY DEF IInv
<1> QED
  BY <1>1, Invariance, PTL

\* On a connection that holds, and unless START TRANSACTION is refused, a
\* transaction is executed as it is reported, but for the COMMIT answered with an
\* error, which is reported as committed with nothing in effect.
THEOREM ResultCorrect == Spec => []ResultExact
<1>1. IInv => ResultExact
  BY DEF IInv, Progress, Unbroken, Prefix, ResultExact, Finished, All
<1> QED
  BY <1>1, Invariance, PTL

\* The statements take effect in the order of the transaction, whatever fails.
THEOREM OrderCorrect == Spec => []OrderRespected
<1>1. IInv => OrderRespected
  BY DEF IInv
<1> QED
  BY <1>1, Invariance, PTL

\* The next operation on the connection never runs inside a transaction.
THEOREM NoneLeftOpen == Spec => []NoTransactionLeftOpen
<1>1. IInv => NoTransactionLeftOpen
  BY DEF IInv, Session, NoTransactionLeftOpen, Finished
<1> QED
  BY <1>1, Invariance, PTL
=============================================================================
