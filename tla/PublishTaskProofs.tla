------------------------- MODULE PublishTaskProofs -------------------------
(***************************************************************************)
(* Proofs about PublishTask, for every number of tasks, executions,        *)
(* attempts, chunks and faults.                                            *)
(*                                                                         *)
(* The rows alone carry an invariant (RowInv) that every transaction       *)
(* preserves if its execution's memory agrees with the rows (ExecInv): the *)
(* token an execution holds names a log row that exists, at the revision   *)
(* it was claimed at.                                                      *)
(***************************************************************************)
EXTENDS PublishTask, TLAPS

Working == {"loading", "checking", "sending", "completing", "failing"}

RowType == task \in [Task -> TaskRow] /\ log \in [Task -> [Attempt -> LogRow]]

\* What the status of a task says about its last attempt.
LastVerdict ==
    \A t \in Task :
        /\ task[t].status \in {"absent", "pending"} => task[t].attempts = 0
        /\ task[t].status \in {"running", "retry_wait", "succeeded", "failed"} => task[t].attempts \in Attempt
        /\ task[t].status = "retry_wait" => log[t][task[t].attempts].status = "failed"
        /\ task[t].status = "failed" => log[t][task[t].attempts].status \in {"failed", "lease_expired"}
        /\ task[t].live => task[t].status = "running"
        /\ \A n \in Attempt : log[t][n].status = "none" => log[t][n].progress = 0

RowInv ==
    /\ RowType
    /\ RunningLogHoldsLease
    /\ AttemptsMatchLog
    /\ SucceededOnce
    /\ FailedOnlyExhausted
    /\ LastVerdict

\* What the memory of an execution knows about the rows.
ExecInv ==
    \A e \in Executor :
        LET x == exec[e] IN
        /\ x.pc = "claiming" => x.task \in Task
        /\ x.pc \in Working =>
              /\ x.task \in Task
              /\ x.attempt \in Attempt
              /\ x.token = x.attempt
              /\ x.attempt <= task[x.task].attempts
              /\ log[x.task][x.attempt].revision = x.revision
              /\ log[x.task][x.attempt].progress <= x.sent

\* No two executions work on the same attempt.
OneWorker ==
    \A e, f \in Executor :
        /\ e # f /\ exec[e].pc \in Working /\ exec[f].pc \in Working
        /\ exec[e].task = exec[f].task
        => exec[e].attempt # exec[f].attempt

\* A superseded execution sends one chunk at most: its next check fails.
LateInv ==
    \A e \in Executor :
        \/ late[e] = 0
        \/ /\ late[e] = 1
           /\ exec[e].pc \in {"checking", "failing"}
           /\ task[exec[e].task].token > exec[e].token

IInv == TypeOK /\ RowInv /\ ExecInv /\ OneWorker /\ LateInv

\* A step leaves every checkpoint as it is, or execution e wrote its own.
ProgressKept == \A t \in Task, n \in Attempt : log'[t][n].progress = log[t][n].progress
ProgressBy(e) ==
    \A t \in Task, n \in Attempt :
        \/ log'[t][n].progress = log[t][n].progress
        \/ exec[e].task = t /\ exec[e].attempt = n /\ log'[t][n].progress = exec[e].sent

\* What a step never does to the rows: it takes no attempt back, and it leaves
\* the revision, the counters and the verdict of a log row in place.
RowStep ==
    \A t \in Task :
        /\ task'[t].attempts >= task[t].attempts
        /\ task'[t].token >= task[t].token
        /\ task[t].status \in {"succeeded", "failed"} => task'[t] = task[t]
        /\ \A n \in Attempt :
              /\ n <= task[t].attempts => log'[t][n].revision = log[t][n].revision
              /\ log'[t][n].progress >= log[t][n].progress
              /\ log[t][n].status \in {"succeeded", "failed", "lease_expired"}
                    => log'[t][n] = log[t][n]

-----------------------------------------------------------------------------
(* What each transaction does to the rows.                                 *)

LEMMA AttemptFacts ==
    /\ MaxAttempts \in Nat /\ MaxAttempts >= 1
    /\ \A n : n \in Attempt <=> n \in Nat /\ 1 <= n /\ n <= MaxAttempts
BY AttemptsAssumption DEF Attempt

LEMMA InsertRows ==
    ASSUME RowInv, revision \in Nat, NEW t \in Task, InsertTask(t), UNCHANGED log
    PROVE  RowInv' /\ RowStep
<1>. USE AttemptFacts
<1>1. /\ task' \in [Task -> TaskRow] /\ \A u \in Task : u # t => task'[u] = task[u]
      /\ task'[t].attempts = 0 /\ task'[t].status = "pending" /\ task'[t].token = 0
      /\ task'[t].live = FALSE
  <2>. DEFINE new == NewTask(revision + 1)
  <2>1. /\ new \in TaskRow /\ new.attempts = 0 /\ new.status = "pending" /\ new.token = 0
        /\ new.live = FALSE
    BY DEF NewTask, TaskRow, TaskStatus
  <2>2. task' = [task EXCEPT ![t] = new]
    BY DEF InsertTask
  <2>. HIDE DEF new
  <2>. QED BY <2>1, <2>2 DEF RowInv, RowType
<1>4. task[t].status = "absent" /\ task[t].attempts = 0
  BY DEF InsertTask, RowInv, LastVerdict
<1>5. RowType'
  BY <1>1 DEF RowInv, RowType
<1>6. RunningLogHoldsLease'
  BY <1>1, <1>4 DEF RowInv, RunningLogHoldsLease
<1>7. AttemptsMatchLog'
  BY <1>1, <1>4 DEF RowInv, AttemptsMatchLog
<1>8. SucceededOnce' /\ FailedOnlyExhausted' /\ LastVerdict'
  BY <1>1, <1>4 DEF RowInv, SucceededOnce, FailedOnlyExhausted, LastVerdict
<1>9. RowStep
  <2>1. task[t].token = 0
    BY <1>4 DEF RowInv, AttemptsMatchLog
  <2>2. \A u \in Task : task[u] \in TaskRow /\ \A n \in Attempt : log[u][n] \in LogRow
    BY DEF RowInv, RowType
  <2>. QED BY <1>1, <1>4, <2>1, <2>2 DEF RowStep, TaskRow, LogRow
<1>. QED BY <1>5, <1>6, <1>7, <1>8, <1>9 DEF RowInv

\* Marking the running logs of t as expired leaves no running log behind.
LEMMA ExpiredRows ==
    ASSUME RowInv, NEW t \in Task, task[t].status \in {"pending", "retry_wait", "running"}
    PROVE  /\ LogsAtClaim(t) \in [Attempt -> LogRow]
           /\ \A n \in Attempt :
                 /\ log[t][n].status = "running" => LogsAtClaim(t)[n].status = "lease_expired"
                 /\ LogsAtClaim(t)[n].token = log[t][n].token
                 /\ LogsAtClaim(t)[n].revision = log[t][n].revision
                 /\ LogsAtClaim(t)[n].progress = log[t][n].progress
                 /\ log[t][n].status # "running" => LogsAtClaim(t)[n] = log[t][n]
                 /\ LogsAtClaim(t)[n].complete = 1 <=> log[t][n].status = "succeeded"
<1>. USE AttemptFacts
<1>1. log[t] \in [Attempt -> LogRow]
  BY DEF RowInv, RowType
<1>2. CASE task[t].status = "running"
  <2>1. LogsAtClaim(t) = ExpireLogs(t)
    BY <1>2 DEF LogsAtClaim
  <2>2. ASSUME NEW n \in Attempt
        PROVE  /\ ExpireLogs(t)[n] \in LogRow
               /\ log[t][n].status = "running" => ExpireLogs(t)[n].status = "lease_expired"
               /\ ExpireLogs(t)[n].token = log[t][n].token
               /\ ExpireLogs(t)[n].revision = log[t][n].revision
               /\ ExpireLogs(t)[n].progress = log[t][n].progress
               /\ log[t][n].status # "running" => ExpireLogs(t)[n] = log[t][n]
               /\ log[t][n].status = "running" => ExpireLogs(t)[n].complete = 0
    <3>1. log[t][n] \in LogRow
      BY <1>1
    <3>2. CASE log[t][n].status = "running"
      <4>1. ExpireLogs(t)[n] = [log[t][n] EXCEPT !.status = "lease_expired", !.complete = 0]
        BY <3>2 DEF ExpireLogs
      <4>. QED BY <3>1, <3>2, <4>1 DEF LogRow, LogStatus
    <3>3. CASE log[t][n].status # "running"
      <4>1. ExpireLogs(t)[n] = log[t][n]
        BY <3>3 DEF ExpireLogs
      <4>. QED BY <3>1, <3>3, <4>1
    <3>. QED BY <3>2, <3>3
  <2>3. ExpireLogs(t) \in [Attempt -> LogRow]
    BY <2>2 DEF ExpireLogs
  <2>4. ASSUME NEW n \in Attempt
        PROVE  ExpireLogs(t)[n].complete = 1 <=> log[t][n].status = "succeeded"
    <3>1. log[t][n].complete = 1 <=> log[t][n].status = "succeeded"
      BY <1>1 DEF RowInv, SucceededOnce, LogRow
    <3>. QED BY <2>2, <3>1
  <2>. QED BY <2>1, <2>2, <2>3, <2>4
<1>3. CASE task[t].status # "running"
  <2>1. LogsAtClaim(t) = log[t]
    BY <1>3 DEF LogsAtClaim
  <2>2. \A n \in Attempt : log[t][n].status # "running"
    BY <1>3 DEF RowInv, RunningLogHoldsLease
  <2>3. \A n \in Attempt : log[t][n].complete = 1 <=> log[t][n].status = "succeeded"
    BY <1>1 DEF RowInv, SucceededOnce, LogRow
  <2>. QED BY <1>1, <2>1, <2>2, <2>3
<1>. QED BY <1>2, <1>3

\* claimTask opens the next attempt and closes the one it takes over.
LEMMA ClaimRows ==
    ASSUME RowInv, revision \in Nat, workerId \in Nat, NEW t \in Task,
           canClaimPublishTask(t), task[t].attempts + 1 <= MaxAttempts, ClaimWrites(t)
    PROVE  /\ RowInv' /\ RowStep
           /\ task'[t].attempts = task[t].attempts + 1
           /\ task'[t].token = task[t].token + 1
           /\ log'[t][task[t].attempts + 1].revision = revision
           /\ ProgressKept /\ log'[t][task[t].attempts + 1].progress = 0
<1>. USE AttemptFacts
<1>. DEFINE n == task[t].attempts + 1
<1>1. /\ task[t] \in TaskRow /\ task[t].attempts \in Nat /\ task[t].token = task[t].attempts
      /\ n \in Attempt /\ task[t].status \in {"pending", "retry_wait", "running"}
  BY DEF RowInv, RowType, TaskRow, AttemptsMatchLog, Attempt, canClaimPublishTask
<1>2. /\ task' \in [Task -> TaskRow] /\ \A u \in Task : u # t => task'[u] = task[u]
      /\ task'[t].status = "running" /\ task'[t].attempts = n
      /\ task'[t].token = task[t].token + 1
  <2>. DEFINE new == [task[t] EXCEPT !.status = "running", !.attempts = n, !.live = TRUE,
                                     !.token = task[t].token + 1, !.owner = workerId]
  <2>1. new \in TaskRow /\ new.status = "running" /\ new.attempts = n /\ new.token = task[t].token + 1
    BY <1>1 DEF TaskRow, TaskStatus
  <2>2. task' = [task EXCEPT ![t] = new]
    BY DEF ClaimWrites
  <2>. HIDE DEF new
  <2>. QED BY <2>1, <2>2 DEF RowInv, RowType
<1>4. /\ log' \in [Task -> [Attempt -> LogRow]]
      /\ \A u \in Task : u # t => log'[u] = log[u]
      /\ \A m \in Attempt : m # n => log'[t][m] = LogsAtClaim(t)[m]
      /\ log'[t][n].status = "running" /\ log'[t][n].token = task[t].token + 1
      /\ log'[t][n].revision = revision /\ log'[t][n].complete = 0
      /\ log'[t][n].progress = 0
  <2>. DEFINE row == [NoLog EXCEPT !.status = "running", !.token = task[t].token + 1,
                                   !.worker = workerId, !.revision = revision]
  <2>1. /\ row \in LogRow /\ row.status = "running" /\ row.token = task[t].token + 1
        /\ row.revision = revision /\ row.complete = 0 /\ row.progress = 0
    BY <1>1 DEF NoLog, LogRow, LogStatus, ErrorCode
  <2>2. LogsAtClaim(t) \in [Attempt -> LogRow]
    BY <1>1, ExpiredRows
  <2>3. log' = [log EXCEPT ![t] = [LogsAtClaim(t) EXCEPT ![n] = row]]
    BY DEF ClaimWrites
  <2>. HIDE DEF row
  <2>. QED BY <1>1, <2>1, <2>2, <2>3 DEF RowInv, RowType
<1>. HIDE DEF n
<1>5. \A m \in Attempt :
         m # n => /\ log[t][m].status = "running" => log'[t][m].status = "lease_expired"
                  /\ log[t][m].status # "running" => log'[t][m] = log[t][m]
                  /\ log'[t][m].token = log[t][m].token
                  /\ log'[t][m].revision = log[t][m].revision
                  /\ log'[t][m].progress = log[t][m].progress
                  /\ log'[t][m].complete = 1 <=> log[t][m].status = "succeeded"
  BY <1>1, <1>4, ExpiredRows
<1>6. log[t][n].status = "none"
  BY <1>1 DEF RowInv, AttemptsMatchLog, n
<1>7. \A m \in Attempt : log[t][m].status # "succeeded"
  BY <1>1 DEF RowInv, SucceededOnce
<1>8. RowType'
  BY <1>2, <1>4 DEF RowType
<1>9. RunningLogHoldsLease'
  BY <1>2, <1>4, <1>5 DEF RowInv, RunningLogHoldsLease
<1>10. AttemptsMatchLog'
  <2>1. \A m \in Attempt : m <= n <=> m = n \/ m <= task[t].attempts
    BY <1>1 DEF n
  <2>2. \A m \in Attempt : m < n => log'[t][m].status \in {"failed", "lease_expired"}
    <3>1. SUFFICES ASSUME NEW m \in Attempt, m < n PROVE log'[t][m].status \in {"failed", "lease_expired"}
      OBVIOUS
    <3>2. m <= task[t].attempts /\ m # n
      BY <1>1, <3>1 DEF n
    <3>3. CASE m < task[t].attempts
      BY <1>5, <3>2, <3>3 DEF RowInv, AttemptsMatchLog
    <3>4. CASE m = task[t].attempts
      BY <1>1, <1>5, <3>2, <3>4 DEF RowInv, RunningLogHoldsLease, LastVerdict
    <3>. QED BY <1>1, <3>2, <3>3, <3>4
  <2>3. ASSUME NEW m \in Attempt
        PROVE  /\ log'[t][m].status # "none" <=> m <= n
               /\ log'[t][m].status # "none" => log'[t][m].token = m
    BY <1>1, <1>4, <1>5, <2>1 DEF RowInv, AttemptsMatchLog, n
  <2>4. n <= MaxAttempts /\ task'[t].token = n
    BY <1>1, <1>2 DEF n
  <2>. QED BY <1>2, <1>4, <2>2, <2>3, <2>4 DEF RowInv, AttemptsMatchLog
<1>11. SucceededOnce'
  BY <1>2, <1>4, <1>5, <1>7 DEF RowInv, SucceededOnce
<1>12. FailedOnlyExhausted'
  BY <1>2 DEF RowInv, FailedOnlyExhausted
<1>14. LastVerdict'
  <2>1. \A m \in Attempt : log'[t][m].status = "none" => log'[t][m].progress = 0
    <3>1. SUFFICES ASSUME NEW m \in Attempt, log'[t][m].status = "none"
                   PROVE  log'[t][m].progress = 0
      OBVIOUS
    <3>2. m # n
      BY <1>4, <3>1
    <3>3. log'[t][m] = log[t][m]
      BY <1>5, <3>1, <3>2
    <3>. QED BY <3>1, <3>3 DEF RowInv, LastVerdict
  <2>2. n \in Attempt
    BY <1>1
  <2>. QED BY <1>2, <1>4, <2>1, <2>2 DEF RowInv, LastVerdict
<1>13. RowStep
  <2>1. \A u \in Task : task[u] \in TaskRow /\ \A m \in Attempt : log[u][m] \in LogRow
    BY DEF RowInv, RowType
  <2>2. \A m \in Attempt : m <= task[t].attempts => m # n
    BY <1>1 DEF n
  <2>3. log[t][n].progress = 0
    BY <1>1, <1>6 DEF RowInv, LastVerdict
  <2>4. ASSUME NEW m \in Attempt
        PROVE  /\ m <= task[t].attempts => log'[t][m].revision = log[t][m].revision
               /\ log'[t][m].progress >= log[t][m].progress
               /\ log[t][m].status \in {"succeeded", "failed", "lease_expired"}
                     => log'[t][m] = log[t][m]
    <3>1. CASE m = n
      BY <1>4, <1>6, <2>2, <2>3, <3>1
    <3>2. CASE m # n
      BY <1>5, <2>1, <3>2 DEF LogRow
    <3>. QED BY <3>1, <3>2
  <2>5. /\ task'[t].attempts >= task[t].attempts /\ task'[t].token >= task[t].token
        /\ task[t].status \notin {"succeeded", "failed"}
    BY <1>1, <1>2 DEF n
  <2>. QED BY <1>2, <1>4, <2>1, <2>4, <2>5 DEF RowStep, TaskRow, LogRow
<1>15. ProgressKept
  BY <1>1, <1>4, <1>5, <1>6 DEF ProgressKept, RowInv, LastVerdict
<1>. QED BY <1>2, <1>4, <1>8, <1>9, <1>10, <1>11, <1>12, <1>13, <1>14, <1>15 DEF RowInv, n

\* claimTask gives up a task whose last permitted attempt lost its lease.
LEMMA ExhaustRows ==
    ASSUME RowInv, NEW t \in Task, canClaimPublishTask(t),
           task[t].attempts + 1 > MaxAttempts, ExhaustWrites(t)
    PROVE  RowInv' /\ RowStep /\ ProgressKept
<1>. USE AttemptFacts
<1>1. /\ task[t] \in TaskRow /\ task[t].attempts = MaxAttempts /\ task[t].attempts \in Attempt
      /\ task[t].status \in {"retry_wait", "running"}
  <2>1. task[t] \in TaskRow /\ task[t].attempts \in Nat /\ task[t].attempts <= MaxAttempts
    BY DEF RowInv, RowType, TaskRow, AttemptsMatchLog
  <2>2. task[t].attempts = MaxAttempts
    BY <2>1
  <2>3. task[t].status # "pending"
    BY <2>2 DEF RowInv, LastVerdict
  <2>. QED BY <2>1, <2>2, <2>3 DEF canClaimPublishTask
<1>2. /\ task' \in [Task -> TaskRow] /\ \A u \in Task : u # t => task'[u] = task[u]
      /\ task'[t].status = "failed" /\ task'[t].attempts = task[t].attempts
      /\ task'[t].token = task[t].token /\ task'[t].live = task[t].live
  <2>. DEFINE new == [task[t] EXCEPT !.status = "failed"]
  <2>1. /\ new \in TaskRow /\ new.status = "failed" /\ new.attempts = task[t].attempts
        /\ new.token = task[t].token /\ new.live = task[t].live
    BY <1>1 DEF TaskRow, TaskStatus
  <2>2. task' = [task EXCEPT ![t] = new]
    BY DEF ExhaustWrites
  <2>. HIDE DEF new
  <2>. QED BY <2>1, <2>2 DEF RowInv, RowType
<1>3. /\ log' \in [Task -> [Attempt -> LogRow]] /\ log'[t] = LogsAtClaim(t)
      /\ \A u \in Task : u # t => log'[u] = log[u]
  BY <1>1, ExpiredRows DEF ExhaustWrites, RowInv, RowType
<1>4. \A m \in Attempt :
         /\ log[t][m].status = "running" => log'[t][m].status = "lease_expired"
         /\ log[t][m].status # "running" => log'[t][m] = log[t][m]
         /\ log'[t][m].token = log[t][m].token
         /\ log'[t][m].revision = log[t][m].revision
         /\ log'[t][m].progress = log[t][m].progress
         /\ log'[t][m].complete = 1 <=> log[t][m].status = "succeeded"
  BY <1>1, <1>3, ExpiredRows
<1>5. \A m \in Attempt : log[t][m].status # "succeeded"
  BY <1>1 DEF RowInv, SucceededOnce
<1>6. task[t].live = FALSE
  BY <1>1 DEF canClaimPublishTask, RowInv, LastVerdict, TaskRow
<1>7. RowType'
  BY <1>2, <1>3 DEF RowType
<1>12. RunningLogHoldsLease'
  BY <1>2, <1>3, <1>4 DEF RowInv, RunningLogHoldsLease
<1>13. SucceededOnce'
  <2>1. \A m \in Attempt : log'[t][m].complete # 1 /\ log'[t][m].status # "succeeded"
    BY <1>4, <1>5
  <2>. QED BY <1>2, <1>3, <2>1 DEF RowInv, SucceededOnce
<1>8. AttemptsMatchLog'
  <2>1. ASSUME NEW m \in Attempt
        PROVE  /\ log'[t][m].status # "none" <=> m <= task[t].attempts
               /\ log'[t][m].status # "none" => log'[t][m].token = m
               /\ m < task[t].attempts => log'[t][m].status \in {"failed", "lease_expired"}
    BY <1>4 DEF RowInv, AttemptsMatchLog
  <2>. QED BY <1>2, <1>3, <2>1 DEF RowInv, AttemptsMatchLog
<1>9. log'[t][task[t].attempts].status \in {"failed", "lease_expired"}
  BY <1>1, <1>4 DEF RowInv, LastVerdict, RunningLogHoldsLease
<1>10. FailedOnlyExhausted'
  BY <1>1, <1>2 DEF RowInv, FailedOnlyExhausted
<1>14. LastVerdict'
  <2>1. \A m \in Attempt : log'[t][m].status = "none" => log'[t][m].progress = 0
    BY <1>4 DEF RowInv, LastVerdict
  <2>. QED BY <1>1, <1>2, <1>3, <1>6, <1>9, <2>1 DEF RowInv, LastVerdict
<1>11. RowStep
  <2>1. \A u \in Task : task[u] \in TaskRow /\ \A m \in Attempt : log[u][m] \in LogRow
    BY DEF RowInv, RowType
  <2>2. ASSUME NEW m \in Attempt
        PROVE  /\ log'[t][m].revision = log[t][m].revision
               /\ log'[t][m].progress >= log[t][m].progress
               /\ log[t][m].status \in {"succeeded", "failed", "lease_expired"}
                     => log'[t][m] = log[t][m]
    BY <1>4, <2>1 DEF LogRow
  <2>. QED BY <1>1, <1>2, <1>3, <2>1, <2>2 DEF RowStep, TaskRow, LogRow
<1>15. ProgressKept
  BY <1>3, <1>4 DEF ProgressKept
<1>. QED BY <1>7, <1>8, <1>10, <1>11, <1>12, <1>13, <1>14, <1>15 DEF RowInv

\* The attempt that holds the lease is the last one, and its log row is running.
LEMMA HolderIsLast ==
    ASSUME RowInv, NEW e \in Executor, exec[e].task \in Task, exec[e].attempt \in Attempt,
           exec[e].token = exec[e].attempt, HoldsLease(e)
    PROVE  LET t == exec[e].task IN
           /\ task[t].status = "running" /\ task[t].attempts = exec[e].attempt
           /\ log[t][exec[e].attempt].status = "running"
BY AttemptFacts DEF RowInv, AttemptsMatchLog, RunningLogHoldsLease, HoldsLease

\* renewTaskLease: the lease and the checkpoint, nothing else.
LEMMA RenewRows ==
    ASSUME RowInv, NEW e \in Executor, exec[e].task \in Task, exec[e].attempt \in Attempt,
           exec[e].token = exec[e].attempt, exec[e].sent \in Nat,
           log[exec[e].task][exec[e].attempt].progress <= exec[e].sent,
           HoldsLease(e), RenewWrites(e)
    PROVE  RowInv' /\ RowStep /\ ProgressBy(e)
<1>. USE AttemptFacts
<1>. DEFINE t == exec[e].task
            n == exec[e].attempt
<1>1. /\ t \in Task /\ n \in Attempt /\ task[t] \in TaskRow /\ log[t][n] \in LogRow
      /\ task[t].status = "running" /\ task[t].attempts = n /\ log[t][n].status = "running"
  BY HolderIsLast DEF RowInv, RowType
<1>2. /\ task' \in [Task -> TaskRow] /\ \A u \in Task : u # t => task'[u] = task[u]
      /\ task'[t].status = "running" /\ task'[t].attempts = n
      /\ task'[t].token = task[t].token
  <2>. DEFINE new == [task[t] EXCEPT !.live = TRUE]
  <2>1. new \in TaskRow /\ new.status = "running" /\ new.attempts = n /\ new.token = task[t].token
    BY <1>1 DEF TaskRow
  <2>2. task' = [task EXCEPT ![t] = new]
    BY DEF RenewWrites
  <2>. HIDE DEF new, t, n
  <2>. QED BY <1>1, <2>1, <2>2 DEF RowInv, RowType
<1>3. /\ log' \in [Task -> [Attempt -> LogRow]]
      /\ \A u \in Task, m \in Attempt : ~(u = t /\ m = n) => log'[u][m] = log[u][m]
      /\ log'[t][n].status = "running" /\ log'[t][n].token = log[t][n].token
      /\ log'[t][n].revision = log[t][n].revision /\ log'[t][n].complete = 0
      /\ log'[t][n].progress = exec[e].sent
  <2>. DEFINE row == [log[t][n] EXCEPT !.progress = exec[e].sent, !.complete = 0]
  <2>1. /\ row \in LogRow /\ row.status = "running" /\ row.token = log[t][n].token
        /\ row.revision = log[t][n].revision /\ row.complete = 0 /\ row.progress = exec[e].sent
    BY <1>1 DEF LogRow
  <2>2. log' = [log EXCEPT ![t][n] = row]
    BY DEF RenewWrites
  <2>. HIDE DEF row, t, n
  <2>. QED BY <1>1, <2>1, <2>2 DEF RowInv, RowType
<1>. HIDE DEF t, n
<1>8. \A u \in Task : task'[u].status = task[u].status /\ task'[u].attempts = task[u].attempts
                     /\ task'[u].token = task[u].token
  BY <1>1, <1>2
<1>9. \A u \in Task, m \in Attempt : log'[u][m].status = log[u][m].status
                                    /\ log'[u][m].token = log[u][m].token
  BY <1>1, <1>3
<1>4. RowType'
  BY <1>2, <1>3 DEF RowType
<1>11. RunningLogHoldsLease'
  BY <1>8, <1>9 DEF RowInv, RunningLogHoldsLease
<1>10. AttemptsMatchLog'
  BY <1>8, <1>9 DEF RowInv, AttemptsMatchLog
<1>5. SucceededOnce' /\ FailedOnlyExhausted'
  <2>1. \A u \in Task, m \in Attempt : log'[u][m].complete = 1 <=> log[u][m].status = "succeeded"
    BY <1>1, <1>3 DEF RowInv, SucceededOnce
  <2>. QED BY <1>8, <1>9, <2>1 DEF RowInv, SucceededOnce, FailedOnlyExhausted
<1>6. LastVerdict'
  <2>1. \A u \in Task, m \in Attempt : log'[u][m].status = "none" => log'[u][m].progress = 0
    BY <1>1, <1>3 DEF RowInv, LastVerdict
  <2>2. \A u \in Task : task'[u].live => task'[u].status = "running"
    BY <1>1, <1>2 DEF RowInv, LastVerdict
  <2>. QED BY <1>8, <1>9, <2>1, <2>2 DEF RowInv, LastVerdict
<1>7. RowStep
  <2>1. \A u \in Task : task[u] \in TaskRow /\ \A m \in Attempt : log[u][m] \in LogRow
    BY DEF RowInv, RowType
  <2>2. log[t][n].progress <= exec[e].sent
    BY DEF t, n
  <2>. QED BY <1>1, <1>2, <1>3, <2>1, <2>2 DEF RowStep, TaskRow, LogRow
<1>12. ProgressBy(e)
  BY <1>3 DEF ProgressBy, t, n
<1>. QED BY <1>4, <1>5, <1>6, <1>7, <1>10, <1>11, <1>12 DEF RowInv

\* The verdict on the running attempt t, n and what becomes of the task with it.
LEMMA DecidedRows ==
    ASSUME RowInv, NEW t \in Task, NEW n \in Attempt,
           task[t].status = "running", task[t].attempts = n,
           task' \in [Task -> TaskRow], \A u \in Task : u # t => task'[u] = task[u],
           task'[t].attempts = n, task'[t].token = task[t].token, task'[t].live = FALSE,
           log' \in [Task -> [Attempt -> LogRow]],
           \A u \in Task, m \in Attempt : ~(u = t /\ m = n) => log'[u][m] = log[u][m],
           log'[t][n].token = log[t][n].token, log'[t][n].revision = log[t][n].revision,
           log'[t][n].progress >= log[t][n].progress,
           \/ /\ task'[t].status = "succeeded"
              /\ log'[t][n].status = "succeeded" /\ log'[t][n].complete = 1
           \/ /\ task'[t].status \in {"retry_wait", "failed"}
              /\ task'[t].status = "failed" => n = MaxAttempts
              /\ log'[t][n].status = "failed" /\ log'[t][n].complete = 0
    PROVE  RowInv' /\ RowStep
<1>. USE AttemptFacts
<1>1. log[t][n].status = "running"
  BY DEF RowInv, RunningLogHoldsLease
<1>2. \A m \in Attempt : m # n => log[t][m].status \notin {"running", "succeeded"}
  BY DEF RowInv, RunningLogHoldsLease, SucceededOnce
<1>3. RowType'
  BY DEF RowType
<1>4. RunningLogHoldsLease'
  BY <1>2 DEF RowInv, RunningLogHoldsLease
<1>5. AttemptsMatchLog'
  <2>1. ASSUME NEW m \in Attempt
        PROVE  /\ log'[t][m].status # "none" <=> m <= n
               /\ log'[t][m].status # "none" => log'[t][m].token = m
               /\ m < n => log'[t][m].status \in {"failed", "lease_expired"}
    <3>1. CASE m = n
      BY <1>1, <3>1 DEF RowInv, AttemptsMatchLog
    <3>2. CASE m # n
      BY <3>2 DEF RowInv, AttemptsMatchLog
    <3>. QED BY <3>1, <3>2
  <2>. QED BY <2>1 DEF RowInv, AttemptsMatchLog
<1>6. SucceededOnce'
  <2>1. \A m \in Attempt : m # n => log'[t][m].complete # 1 /\ log'[t][m].status # "succeeded"
    BY <1>2 DEF RowInv, SucceededOnce
  <2>. QED BY <2>1 DEF RowInv, SucceededOnce
<1>7. FailedOnlyExhausted'
  BY DEF RowInv, FailedOnlyExhausted
<1>8. LastVerdict'
  <2>1. \A u \in Task, m \in Attempt : log'[u][m].status = "none" => log'[u][m].progress = 0
    BY DEF RowInv, LastVerdict
  <2>. QED BY <2>1 DEF RowInv, LastVerdict
<1>9. RowStep
  <2>1. \A u \in Task : task[u] \in TaskRow /\ \A m \in Attempt : log[u][m] \in LogRow
    BY DEF RowInv, RowType
  <2>. QED BY <1>1, <2>1 DEF RowStep, TaskRow, LogRow
<1>. QED BY <1>3, <1>4, <1>5, <1>6, <1>7, <1>8, <1>9 DEF RowInv

LEMMA CompleteRows ==
    ASSUME RowInv, NEW e \in Executor, exec[e].task \in Task, exec[e].attempt \in Attempt,
           exec[e].token = exec[e].attempt, exec[e].sent \in Nat,
           log[exec[e].task][exec[e].attempt].progress <= exec[e].sent,
           HoldsLease(e), CompleteWrites(e)
    PROVE  RowInv' /\ RowStep /\ ProgressBy(e)
<1>. DEFINE t == exec[e].task
            n == exec[e].attempt
<1>1. /\ t \in Task /\ n \in Attempt /\ task[t] \in TaskRow /\ log[t][n] \in LogRow
      /\ task[t].status = "running" /\ task[t].attempts = n
  BY HolderIsLast DEF RowInv, RowType
<1>2. /\ task' \in [Task -> TaskRow] /\ \A u \in Task : u # t => task'[u] = task[u]
      /\ task'[t].status = "succeeded" /\ task'[t].attempts = n
      /\ task'[t].token = task[t].token /\ task'[t].live = FALSE
  <2>. DEFINE new == [task[t] EXCEPT !.status = "succeeded", !.owner = 0, !.live = FALSE]
  <2>1. /\ new \in TaskRow /\ new.status = "succeeded" /\ new.attempts = n
        /\ new.token = task[t].token /\ new.live = FALSE
    BY <1>1 DEF TaskRow, TaskStatus
  <2>2. task' = [task EXCEPT ![t] = new]
    BY DEF CompleteWrites
  <2>. HIDE DEF new, t, n
  <2>. QED BY <1>1, <2>1, <2>2 DEF RowInv, RowType
<1>3. /\ log' \in [Task -> [Attempt -> LogRow]]
      /\ \A u \in Task, m \in Attempt : ~(u = t /\ m = n) => log'[u][m] = log[u][m]
      /\ log'[t][n].status = "succeeded" /\ log'[t][n].token = log[t][n].token
      /\ log'[t][n].revision = log[t][n].revision /\ log'[t][n].complete = 1
      /\ log'[t][n].progress = exec[e].sent
  <2>. DEFINE row == [log[t][n] EXCEPT !.status = "succeeded", !.progress = exec[e].sent, !.complete = 1]
  <2>1. /\ row \in LogRow /\ row.status = "succeeded" /\ row.token = log[t][n].token
        /\ row.revision = log[t][n].revision /\ row.complete = 1 /\ row.progress = exec[e].sent
    BY <1>1 DEF LogRow, LogStatus
  <2>2. log' = [log EXCEPT ![t][n] = row]
    BY DEF CompleteWrites
  <2>. HIDE DEF row, t, n
  <2>. QED BY <1>1, <2>1, <2>2 DEF RowInv, RowType
<1>4. log[t][n].progress \in Nat
  BY <1>1 DEF LogRow
<1>5. log'[t][n].progress >= log[t][n].progress
  BY <1>3, <1>4
<1>6. ProgressBy(e)
  BY <1>3 DEF ProgressBy
<1>. HIDE DEF t, n
<1>. QED BY <1>1, <1>2, <1>3, <1>5, <1>6, DecidedRows

LEMMA FailRows ==
    ASSUME RowInv, NEW e \in Executor, exec[e].task \in Task, exec[e].attempt \in Attempt,
           exec[e].token = exec[e].attempt, exec[e].error \in ErrorCode,
           HoldsLease(e), FailWrites(e)
    PROVE  RowInv' /\ RowStep /\ ProgressKept
<1>. USE AttemptFacts
<1>. DEFINE t == exec[e].task
            n == exec[e].attempt
<1>1. /\ t \in Task /\ n \in Attempt /\ task[t] \in TaskRow /\ log[t][n] \in LogRow
      /\ task[t].status = "running" /\ task[t].attempts = n
  BY HolderIsLast DEF RowInv, RowType
<1>2. /\ task' \in [Task -> TaskRow] /\ \A u \in Task : u # t => task'[u] = task[u]
      /\ task'[t].status \in {"retry_wait", "failed"} /\ task'[t].attempts = n
      /\ task'[t].status = "failed" => n = MaxAttempts
      /\ task'[t].token = task[t].token /\ task'[t].live = FALSE
  <2>. DEFINE new == [task[t] EXCEPT !.status = FailureStatus(n), !.owner = 0,
                                     !.live = FALSE, !.due = FALSE]
  <2>1. FailureStatus(n) \in {"retry_wait", "failed"} /\ (FailureStatus(n) = "failed" => n = MaxAttempts)
    BY <1>1 DEF FailureStatus
  <2>2. /\ new \in TaskRow /\ new.status = FailureStatus(n) /\ new.attempts = n
        /\ new.token = task[t].token /\ new.live = FALSE
    BY <1>1, <2>1 DEF TaskRow, TaskStatus
  <2>3. task' = [task EXCEPT ![t] = new]
    BY DEF FailWrites
  <2>. HIDE DEF new, t, n
  <2>. QED BY <1>1, <2>1, <2>2, <2>3 DEF RowInv, RowType
<1>3. /\ log' \in [Task -> [Attempt -> LogRow]]
      /\ \A u \in Task, m \in Attempt : ~(u = t /\ m = n) => log'[u][m] = log[u][m]
      /\ log'[t][n].status = "failed" /\ log'[t][n].token = log[t][n].token
      /\ log'[t][n].revision = log[t][n].revision /\ log'[t][n].complete = 0
      /\ log'[t][n].progress = log[t][n].progress
  <2>. DEFINE row == [log[t][n] EXCEPT !.status = "failed", !.error = exec[e].error, !.complete = 0]
  <2>1. /\ row \in LogRow /\ row.status = "failed" /\ row.token = log[t][n].token
        /\ row.revision = log[t][n].revision /\ row.complete = 0 /\ row.progress = log[t][n].progress
    BY <1>1 DEF LogRow, LogStatus
  <2>2. log' = [log EXCEPT ![t][n] = row]
    BY DEF FailWrites
  <2>. HIDE DEF row, t, n
  <2>. QED BY <1>1, <2>1, <2>2 DEF RowInv, RowType
<1>4. log[t][n].progress \in Nat
  BY <1>1 DEF LogRow
<1>5. log'[t][n].progress >= log[t][n].progress
  BY <1>3, <1>4
<1>6. ProgressKept
  BY <1>1, <1>3 DEF ProgressKept
<1>. HIDE DEF t, n
<1>. QED BY <1>1, <1>2, <1>3, <1>5, <1>6, DecidedRows

\* Time changes live and due, and nothing else of a row.
LEMMA TimeRows ==
    ASSUME RowInv, NEW t \in Task, UNCHANGED log,
           \/ task' = [task EXCEPT ![t] = [task[t] EXCEPT !.live = FALSE]]
           \/ task[t].status = "retry_wait" /\ task' = [task EXCEPT ![t] = [task[t] EXCEPT !.due = TRUE]]
    PROVE  RowInv' /\ (task[t].status \notin {"succeeded", "failed"} => RowStep)
<1>1. task[t] \in TaskRow
  BY DEF RowInv, RowType
<1>2. /\ task' \in [Task -> TaskRow] /\ \A u \in Task : u # t => task'[u] = task[u]
      /\ task'[t].status = task[t].status /\ task'[t].attempts = task[t].attempts
      /\ task'[t].token = task[t].token /\ (task'[t].live => task[t].live)
  <2>1. CASE task' = [task EXCEPT ![t] = [task[t] EXCEPT !.live = FALSE]]
    BY <1>1, <2>1 DEF RowInv, RowType, TaskRow
  <2>2. CASE task' = [task EXCEPT ![t] = [task[t] EXCEPT !.due = TRUE]]
    BY <1>1, <2>2 DEF RowInv, RowType, TaskRow
  <2>. QED BY <2>1, <2>2
<1>3. \A u \in Task : /\ task'[u].status = task[u].status /\ task'[u].attempts = task[u].attempts
                      /\ task'[u].token = task[u].token /\ (task'[u].live => task[u].live)
  BY <1>2
<1>4. RowType'
  BY <1>2 DEF RowInv, RowType
<1>5. RunningLogHoldsLease' /\ AttemptsMatchLog'
  BY <1>3 DEF RowInv, RunningLogHoldsLease, AttemptsMatchLog
<1>6. SucceededOnce' /\ FailedOnlyExhausted'
  BY <1>3 DEF RowInv, SucceededOnce, FailedOnlyExhausted
<1>7. LastVerdict'
  BY <1>3 DEF RowInv, LastVerdict
<1>8. task[t].status \notin {"succeeded", "failed"} => RowStep
  <2>1. \A u \in Task : task[u] \in TaskRow /\ \A m \in Attempt : log[u][m] \in LogRow
    BY DEF RowInv, RowType
  <2>. QED BY <1>2, <1>3, <2>1 DEF RowStep, TaskRow, LogRow
<1>. QED BY <1>4, <1>5, <1>6, <1>7, <1>8 DEF RowInv

LEMMA SameRows ==
    ASSUME RowInv, UNCHANGED <<task, log>>
    PROVE  RowInv' /\ RowStep /\ ProgressKept
<1>1. \A u \in Task : task[u] \in TaskRow /\ \A m \in Attempt : log[u][m] \in LogRow
  BY DEF RowInv, RowType
<1>2. RowStep
  BY <1>1 DEF RowStep, TaskRow, LogRow
<1>3. RowInv'
  BY DEF RowInv, RowType, RunningLogHoldsLease, AttemptsMatchLog, SucceededOnce,
         FailedOnlyExhausted, LastVerdict
<1>4. ProgressKept
  BY DEF ProgressKept
<1>. QED BY <1>2, <1>3, <1>4

-----------------------------------------------------------------------------
(* What a step does to the memory of the executions.                       *)

\* Execution e goes idle, starts on a task, or goes on with the attempt it has.
ExecMove(e) ==
    /\ exec' \in [Executor -> Execution]
    /\ \A f \in Executor : f # e => exec'[f] = exec[f]
    /\ \/ exec'[e].pc = "idle"
       \/ exec'[e].pc = "claiming" /\ exec'[e].task \in Task
       \/ /\ exec[e].pc \in Working /\ exec'[e].pc \in Working
          /\ exec'[e].task = exec[e].task /\ exec'[e].attempt = exec[e].attempt
          /\ exec'[e].token = exec[e].token /\ exec'[e].revision = exec[e].revision
          /\ exec'[e].sent >= exec[e].sent

LEMMA MoveKeepsExec ==
    ASSUME TypeOK, ExecInv, OneWorker, RowType', RowStep, NEW e \in Executor, ExecMove(e),
           ProgressKept \/ (exec[e].pc \in Working /\ ProgressBy(e))
    PROVE  ExecInv' /\ OneWorker'
<1>1. ASSUME NEW f \in Executor, exec'[f].pc \in Working
      PROVE  /\ exec[f].pc \in Working
             /\ exec'[f].task = exec[f].task /\ exec'[f].attempt = exec[f].attempt
             /\ exec'[f].token = exec[f].token /\ exec'[f].revision = exec[f].revision
             /\ exec'[f].sent >= exec[f].sent /\ exec[f].sent \in Nat /\ exec'[f].sent \in Nat
  <2>1. exec[f] \in Execution /\ exec'[f] \in Execution
    BY DEF TypeOK, ExecMove
  <2>2. exec[f].sent \in Nat /\ exec'[f].sent \in Nat
    BY <2>1 DEF Execution
  <2>. QED BY <1>1, <2>2 DEF ExecMove, Working
<1>2. ASSUME NEW f \in Executor, exec'[f].pc \in Working
      PROVE  /\ exec'[f].task \in Task
             /\ exec'[f].attempt \in Attempt
             /\ exec'[f].token = exec'[f].attempt
             /\ exec'[f].attempt <= task'[exec'[f].task].attempts
             /\ log'[exec'[f].task][exec'[f].attempt].revision = exec'[f].revision
             /\ log'[exec'[f].task][exec'[f].attempt].progress <= exec'[f].sent
  <2>. DEFINE t == exec[f].task
              n == exec[f].attempt
  <2>1. /\ exec[f].pc \in Working /\ exec'[f].task = t /\ exec'[f].attempt = n
        /\ exec'[f].token = exec[f].token /\ exec'[f].revision = exec[f].revision
        /\ exec'[f].sent >= exec[f].sent /\ exec[f].sent \in Nat /\ exec'[f].sent \in Nat
    BY <1>1, <1>2
  <2>2. /\ t \in Task /\ n \in Attempt /\ exec[f].token = n /\ n <= task[t].attempts
        /\ log[t][n].revision = exec[f].revision /\ log[t][n].progress <= exec[f].sent
    BY <2>1 DEF ExecInv
  <2>3. /\ task'[t].attempts >= task[t].attempts
        /\ log'[t][n].revision = log[t][n].revision
    BY <2>2 DEF RowStep
  <2>4. /\ n \in Nat /\ task[t].attempts \in Nat /\ log[t][n].progress \in Nat
        /\ task'[t].attempts \in Nat
    BY <2>2, AttemptFacts DEF TypeOK, RowType, TaskRow, LogRow
  <2>5. n <= task'[t].attempts
    BY <2>2, <2>3, <2>4
  <2>6. log'[t][n].progress <= exec'[f].sent
    <3>1. CASE ProgressKept
      BY <2>1, <2>2, <2>4, <3>1 DEF ProgressKept
    <3>2. CASE exec[e].pc \in Working /\ ProgressBy(e)
      <4>1. CASE f = e
        BY <2>1, <2>2, <2>4, <3>2, <4>1 DEF ProgressBy
      <4>2. CASE f # e
        <5>1. ~(exec[e].task = t /\ exec[e].attempt = n)
          BY <2>1, <3>2, <4>2 DEF OneWorker
        <5>2. log'[t][n].progress = log[t][n].progress
          BY <2>2, <3>2, <5>1 DEF ProgressBy
        <5>. QED BY <2>1, <2>2, <2>4, <5>2
      <4>. QED BY <4>1, <4>2
    <3>. QED BY <3>1, <3>2
  <2>. QED BY <2>1, <2>2, <2>3, <2>5, <2>6
<1>3. ASSUME NEW f \in Executor, exec'[f].pc = "claiming"
      PROVE  exec'[f].task \in Task
  BY <1>3 DEF ExecMove, ExecInv, Working
<1>4. ExecInv'
  BY <1>2, <1>3 DEF ExecInv
<1>5. OneWorker'
  BY <1>1 DEF OneWorker
<1>. QED BY <1>4, <1>5

\* A claimed attempt is new: no execution works on it yet.
LEMMA ClaimedExec ==
    ASSUME TypeOK, RowInv, ExecInv, OneWorker, RowInv', RowStep, ProgressKept, NEW e \in Executor,
           NEW t \in Task, task'[t].attempts = task[t].attempts + 1,
           exec' \in [Executor -> Execution],
           \A f \in Executor : f # e => exec'[f] = exec[f],
           exec'[e].pc \in Working, exec'[e].task = t,
           exec'[e].attempt = task[t].attempts + 1, exec'[e].token = task[t].attempts + 1,
           exec'[e].attempt <= MaxAttempts,
           log'[t][task[t].attempts + 1].revision = exec'[e].revision,
           log'[t][task[t].attempts + 1].progress = 0
    PROVE  ExecInv' /\ OneWorker'
<1>. USE AttemptFacts
<1>. DEFINE n == task[t].attempts + 1
<1>1. task[t].attempts \in Nat /\ n \in Attempt /\ ~(n <= task[t].attempts) /\ n <= task'[t].attempts
  BY DEF TypeOK, TaskRow
<1>2. exec'[e].sent \in Nat
  BY DEF Execution
<1>3. ASSUME NEW f \in Executor, exec'[f].pc \in Working, f # e
      PROVE  /\ exec'[f] = exec[f] /\ exec[f].pc \in Working
             /\ exec[f].task \in Task /\ exec[f].attempt \in Attempt
             /\ exec[f].token = exec[f].attempt
             /\ exec[f].attempt <= task[exec[f].task].attempts
             /\ log[exec[f].task][exec[f].attempt].revision = exec[f].revision
             /\ log[exec[f].task][exec[f].attempt].progress <= exec[f].sent
  BY <1>3 DEF ExecInv
<1>4. ASSUME NEW f \in Executor, exec'[f].pc \in Working
      PROVE  /\ exec'[f].task \in Task
             /\ exec'[f].attempt \in Attempt
             /\ exec'[f].token = exec'[f].attempt
             /\ exec'[f].attempt <= task'[exec'[f].task].attempts
             /\ log'[exec'[f].task][exec'[f].attempt].revision = exec'[f].revision
             /\ log'[exec'[f].task][exec'[f].attempt].progress <= exec'[f].sent
  <2>1. CASE f = e
    BY <1>1, <1>2, <2>1
  <2>2. CASE f # e
    <3>1. \A u \in Task : task[u].attempts \in Nat /\ task'[u].attempts \in Nat
      BY DEF RowInv, RowType, TaskRow
    <3>2. /\ task'[exec[f].task].attempts >= task[exec[f].task].attempts
          /\ log'[exec[f].task][exec[f].attempt].revision = log[exec[f].task][exec[f].attempt].revision
      BY <1>3, <1>4, <2>2 DEF RowStep
    <3>3. log'[exec[f].task][exec[f].attempt].progress = log[exec[f].task][exec[f].attempt].progress
      BY <1>3, <1>4, <2>2 DEF ProgressKept
    <3>. QED BY <1>3, <1>4, <2>2, <3>1, <3>2, <3>3
  <2>. QED BY <2>1, <2>2
<1>5. ASSUME NEW f \in Executor, exec'[f].pc = "claiming"
      PROVE  exec'[f].task \in Task
  BY <1>5 DEF ExecInv, Working
<1>6. ExecInv'
  BY <1>4, <1>5 DEF ExecInv
<1>7. ASSUME NEW f \in Executor, f # e, exec'[f].pc \in Working, exec'[f].task = t
      PROVE  exec'[f].attempt # n
  BY <1>1, <1>3, <1>7
<1>8. ASSUME NEW f \in Executor, NEW g \in Executor, f # g, f # e, g # e,
             exec'[f].pc \in Working, exec'[g].pc \in Working, exec'[f].task = exec'[g].task
      PROVE  exec'[f].attempt # exec'[g].attempt
  BY <1>8 DEF OneWorker
<1>9. OneWorker'
  BY <1>7, <1>8 DEF OneWorker
<1>. QED BY <1>6, <1>9

\* The history of late chunks follows the move of execution e.
LateMove(e) ==
    /\ late' \in [Executor -> Nat]
    /\ \A f \in Executor : f # e => late'[f] = late[f] /\ exec'[f] = exec[f]
    /\ \/ late'[e] = 0
       \/ /\ late'[e] = late[e] /\ exec[e].pc \in Working
          /\ exec'[e].task = exec[e].task /\ exec'[e].token = exec[e].token
          /\ exec'[e].pc \in {"checking", "failing"}

LEMMA MoveKeepsLate ==
    ASSUME TypeOK, ExecInv, LateInv, RowType', RowStep, NEW e \in Executor, LateMove(e)
    PROVE  LateInv'
<1>1. SUFFICES ASSUME NEW f \in Executor, late'[f] # 0
               PROVE  /\ late'[f] = 1 /\ exec'[f].pc \in {"checking", "failing"}
                      /\ task'[exec'[f].task].token > exec'[f].token
  BY DEF LateInv
<1>2. /\ late'[f] = late[f] /\ exec'[f].task = exec[f].task /\ exec'[f].token = exec[f].token
      /\ f # e => exec'[f] = exec[f]
      /\ f = e => exec'[f].pc \in {"checking", "failing"}
  BY <1>1 DEF LateMove
<1>3. /\ late[f] = 1 /\ exec[f].pc \in {"checking", "failing"}
      /\ task[exec[f].task].token > exec[f].token
  BY <1>1, <1>2 DEF LateInv
<1>4. exec[f].task \in Task
  BY <1>3 DEF ExecInv, Working
<1>5. task'[exec[f].task].token >= task[exec[f].task].token
  BY <1>4 DEF RowStep
<1>6. /\ task[exec[f].task].token \in Nat /\ task'[exec[f].task].token \in Nat
      /\ exec[f].token \in Nat
  BY <1>4 DEF TypeOK, RowType, TaskRow, Execution
<1>. QED BY <1>2, <1>3, <1>5, <1>6

LEMMA ReturnMove ==
    ASSUME TypeOK, NEW e \in Executor, Return(e)
    PROVE  ExecMove(e) /\ LateMove(e)
<1>1. exec' = [exec EXCEPT ![e] = Idle] /\ late' = [late EXCEPT ![e] = 0]
  BY DEF Return
<1>2. Idle \in Execution /\ Idle.pc = "idle"
  BY DEF Idle, Execution, Pc, ErrorCode
<1>3. ExecMove(e)
  BY <1>1, <1>2 DEF ExecMove, TypeOK
<1>4. LateMove(e)
  BY <1>1, <1>2 DEF LateMove, TypeOK
<1>. QED BY <1>3, <1>4

LEMMA ReturnOrThrowMove ==
    ASSUME TypeOK, NEW e \in Executor,
           \/ ReturnOrThrow(e)
           \/ faults' = faults + 1 /\ Throw(e)
           \/ Return(e) /\ UNCHANGED <<batch, faults>>
    PROVE  ExecMove(e) /\ LateMove(e) /\ batch' \in SUBSET Task /\ faults' \in Nat
<1>1. Return(e)
  BY DEF ReturnOrThrow, Throw
<1>2. batch' \in SUBSET Task /\ faults' \in Nat
  BY DEF ReturnOrThrow, Throw, TypeOK
<1>. QED BY <1>1, <1>2, ReturnMove

\* An execution goes on with its attempt, with another pc and error.
LEMMA GotoMove ==
    ASSUME TypeOK, NEW e \in Executor, exec[e].pc \in Working,
           NEW pc \in Working, Goto(e, pc), UNCHANGED late,
           late[e] = 0 \/ pc \in {"checking", "failing"}
    PROVE  ExecMove(e) /\ LateMove(e)
<1>. DEFINE new == [exec[e] EXCEPT !.pc = pc]
<1>1. exec[e] \in Execution
  BY DEF TypeOK
<1>2. /\ new \in Execution /\ new.pc = pc /\ new.task = exec[e].task
      /\ new.attempt = exec[e].attempt /\ new.token = exec[e].token
      /\ new.revision = exec[e].revision /\ new.sent = exec[e].sent /\ exec[e].sent \in Nat
  BY <1>1 DEF Execution, Pc, Working
<1>3. exec' = [exec EXCEPT ![e] = new]
  BY DEF Goto
<1>. HIDE DEF new
<1>4. ExecMove(e)
  BY <1>2, <1>3 DEF ExecMove, TypeOK
<1>5. LateMove(e)
  BY <1>2, <1>3 DEF LateMove, TypeOK
<1>. QED BY <1>4, <1>5

LEMMA CatchMove ==
    ASSUME TypeOK, NEW e \in Executor, exec[e].pc \in Working,
           NEW code \in ErrorCode, Catch(e, code), UNCHANGED late
    PROVE  ExecMove(e) /\ LateMove(e)
<1>. DEFINE new == [exec[e] EXCEPT !.pc = "failing", !.error = code]
<1>1. exec[e] \in Execution
  BY DEF TypeOK
<1>2. /\ new \in Execution /\ new.pc = "failing" /\ new.task = exec[e].task
      /\ new.attempt = exec[e].attempt /\ new.token = exec[e].token
      /\ new.revision = exec[e].revision /\ new.sent = exec[e].sent /\ exec[e].sent \in Nat
  BY <1>1 DEF Execution, Pc
<1>3. exec' = [exec EXCEPT ![e] = new]
  BY DEF Catch
<1>. HIDE DEF new
<1>4. ExecMove(e)
  BY <1>2, <1>3 DEF ExecMove, TypeOK, Working
<1>5. LateMove(e)
  BY <1>2, <1>3 DEF LateMove, TypeOK
<1>. QED BY <1>4, <1>5

\* A step of execution e that moves it along and keeps the rows keeps IInv.
LEMMA StepKeeps ==
    ASSUME IInv, NEW e \in Executor, ExecMove(e), LateMove(e), RowInv', RowStep,
           ProgressKept \/ (exec[e].pc \in Working /\ ProgressBy(e)),
           UNCHANGED <<revision, workerId, recovering>>, batch' \in SUBSET Task, faults' \in Nat
    PROVE  IInv'
<1>1. ExecInv' /\ OneWorker'
  BY MoveKeepsExec DEF IInv, RowInv
<1>2. LateInv'
  BY MoveKeepsLate DEF IInv, RowInv
<1>3. TypeOK'
  BY DEF IInv, TypeOK, RowInv, RowType, ExecMove, LateMove
<1>. QED BY <1>1, <1>2, <1>3 DEF IInv

-----------------------------------------------------------------------------
(* Every action preserves the invariant.                                   *)

LEMMA InitInv == Init => IInv
<1>. SUFFICES ASSUME Init PROVE IInv
  OBVIOUS
<1>. USE AttemptFacts DEF Init
<1>1. NoTask \in TaskRow /\ NoTask.status = "absent" /\ NoTask.attempts = 0 /\ NoTask.token = 0 /\ NoTask.live = FALSE
  BY DEF NoTask, TaskRow, TaskStatus
<1>2. NoLog \in LogRow /\ NoLog.status = "none" /\ NoLog.progress = 0 /\ NoLog.complete = 0
  BY DEF NoLog, LogRow, LogStatus, ErrorCode
<1>3. Idle \in Execution /\ Idle.pc = "idle"
  BY DEF Idle, Execution, Pc, ErrorCode
<1>4. TypeOK
  <2>1. task \in [Task -> TaskRow] /\ log \in [Task -> [Attempt -> LogRow]]
    BY <1>1, <1>2
  <2>2. exec \in [Executor -> Execution] /\ late \in [Executor -> Nat]
    BY <1>3
  <2>3. revision \in Nat /\ workerId \in Nat \ {0} /\ batch \in SUBSET Task /\ faults \in Nat
    OBVIOUS
  <2>4. recovering \in BOOLEAN
    OBVIOUS
  <2>. QED BY <2>1, <2>2, <2>3, <2>4 DEF TypeOK
<1>5. RowInv
  <2>1. RowType
    BY <1>1, <1>2 DEF RowType
  <2>2. RunningLogHoldsLease /\ AttemptsMatchLog
    BY <1>1, <1>2 DEF RunningLogHoldsLease, AttemptsMatchLog
  <2>3. SucceededOnce /\ FailedOnlyExhausted /\ LastVerdict
    BY <1>1, <1>2 DEF SucceededOnce, FailedOnlyExhausted, LastVerdict
  <2>. QED BY <2>1, <2>2, <2>3 DEF RowInv
<1>6. ExecInv /\ OneWorker /\ LateInv
  BY <1>3 DEF ExecInv, OneWorker, LateInv, Working
<1>. QED BY <1>4, <1>5, <1>6 DEF IInv

\* A step on the rows that touches no execution.
LEMMA RowsOnlyKeep ==
    ASSUME IInv, RowInv', RowStep, ProgressKept, UNCHANGED <<exec, late>>
    PROVE  ExecInv' /\ OneWorker' /\ LateInv'
<1>1. \A u \in Task : /\ task'[u].token \in Nat /\ task[u].token \in Nat
                      /\ task'[u].attempts \in Nat /\ task[u].attempts \in Nat
                      /\ task'[u].token >= task[u].token /\ task'[u].attempts >= task[u].attempts
  BY DEF RowInv, RowType, TaskRow, RowStep, IInv
<1>2. ASSUME NEW e \in Executor, exec[e].pc \in Working
      PROVE  /\ exec[e].task \in Task /\ exec[e].attempt \in Attempt
             /\ exec[e].attempt <= task'[exec[e].task].attempts
             /\ log'[exec[e].task][exec[e].attempt].revision = log[exec[e].task][exec[e].attempt].revision
             /\ log'[exec[e].task][exec[e].attempt].progress = log[exec[e].task][exec[e].attempt].progress
  <2>1. exec[e].task \in Task /\ exec[e].attempt \in Attempt /\ exec[e].attempt <= task[exec[e].task].attempts
    BY <1>2 DEF IInv, ExecInv
  <2>. QED BY <1>1, <2>1, AttemptFacts DEF RowStep, ProgressKept
<1>3. ExecInv'
  BY <1>2 DEF IInv, ExecInv
<1>4. OneWorker'
  BY DEF IInv, OneWorker
<1>5. LateInv'
  <2>1. \A e \in Executor : exec[e].pc \in {"checking", "failing"} => exec[e].task \in Task
    BY DEF IInv, ExecInv, Working
  <2>2. \A e \in Executor : exec[e].token \in Nat
    BY DEF IInv, TypeOK, Execution
  <2>. QED BY <1>1, <2>1, <2>2 DEF IInv, LateInv
<1>. QED BY <1>3, <1>4, <1>5

LEMMA PublishKeeps ==
    ASSUME IInv, NEW t \in Task, Publish(t)
    PROVE  IInv' /\ RowStep
<1>1. RowInv' /\ RowStep
  BY InsertRows DEF Publish, IInv, TypeOK
<1>2. ProgressKept
  BY DEF Publish, ProgressKept
<1>3. TypeOK'
  BY <1>1 DEF Publish, InsertTask, IInv, TypeOK, RowInv, RowType
<1>4. ExecInv' /\ OneWorker' /\ LateInv'
  BY <1>1, <1>2, RowsOnlyKeep DEF Publish
<1>. QED BY <1>1, <1>3, <1>4 DEF IInv

LEMMA TimeKeeps ==
    ASSUME IInv, NEW t \in Task, LeaseExpires(t) \/ RetryBecomesDue(t)
    PROVE  IInv' /\ RowStep
<1>1. RowInv' /\ RowStep
  <2>1. RowInv /\ UNCHANGED log
    BY DEF LeaseExpires, RetryBecomesDue, IInv
  <2>2. CASE LeaseExpires(t)
    BY <2>1, <2>2, TimeRows DEF LeaseExpires
  <2>3. CASE RetryBecomesDue(t)
    BY <2>1, <2>3, TimeRows DEF RetryBecomesDue
  <2>. QED BY <2>2, <2>3
<1>2. ProgressKept
  BY DEF LeaseExpires, RetryBecomesDue, ProgressKept
<1>3. UNCHANGED <<revision, log, workerId, exec, batch, recovering, late, faults>>
  BY DEF LeaseExpires, RetryBecomesDue
<1>4. TypeOK'
  BY <1>1, <1>3 DEF IInv, TypeOK, RowInv, RowType
<1>5. ExecInv' /\ OneWorker' /\ LateInv'
  BY <1>1, <1>2, <1>3, RowsOnlyKeep
<1>. QED BY <1>1, <1>4, <1>5 DEF IInv

\* Execution e starts on a task.
LEMMA StartingMove ==
    ASSUME TypeOK, NEW e \in Executor, exec[e].pc = "idle", NEW t \in Task,
           exec' = [exec EXCEPT ![e] = Starting(t)], UNCHANGED late
    PROVE  ExecMove(e)
<1>1. Starting(t) \in Execution /\ Starting(t).pc = "claiming" /\ Starting(t).task = t
  BY DEF Starting, Idle, Execution, Pc, ErrorCode
<1>. QED BY <1>1 DEF ExecMove, TypeOK

\* An idle execution has no late chunk on record.
LEMMA StartingKeeps ==
    ASSUME IInv, NEW e \in Executor, exec[e].pc = "idle", NEW t \in Task,
           exec' = [exec EXCEPT ![e] = Starting(t)], UNCHANGED late,
           RowInv', RowStep, ProgressKept
    PROVE  ExecInv' /\ OneWorker' /\ LateInv' /\ exec' \in [Executor -> Execution]
<1>1. ExecMove(e)
  BY StartingMove DEF IInv
<1>2. ExecInv' /\ OneWorker'
  <2>1. TypeOK /\ ExecInv /\ OneWorker /\ RowType'
    BY DEF IInv, RowInv
  <2>. QED BY <1>1, <2>1, MoveKeepsExec
<1>3. late[e] = 0
  BY DEF IInv, LateInv
<1>4. LateMove(e)
  BY <1>1, <1>3 DEF LateMove, ExecMove, IInv, TypeOK
<1>5. LateInv'
  BY <1>4, MoveKeepsLate DEF IInv, RowInv
<1>. QED BY <1>1, <1>2, <1>5 DEF ExecMove

LEMMA MutatePolicyKeeps ==
    ASSUME IInv, NEW e \in Inline, NEW t \in Task, MutatePolicy(e, t)
    PROVE  IInv' /\ RowStep
<1>1. RowInv' /\ RowStep
  BY InsertRows DEF MutatePolicy, IInv, TypeOK
<1>2. ProgressKept
  BY DEF MutatePolicy, ProgressKept
<1>3. ExecInv' /\ OneWorker' /\ LateInv' /\ exec' \in [Executor -> Execution]
  BY <1>1, <1>2, StartingKeeps DEF MutatePolicy, Executor
<1>4. TypeOK'
  BY <1>1, <1>3 DEF MutatePolicy, InsertTask, IInv, TypeOK, RowInv, RowType
<1>. QED BY <1>1, <1>3, <1>4 DEF IInv

LEMMA RecoverKeeps ==
    ASSUME IInv, Recover
    PROVE  IInv' /\ RowStep
<1>1. RowInv' /\ RowStep /\ ProgressKept /\ UNCHANGED <<task, log, revision, workerId, late, faults>>
  BY SameRows DEF Recover, RecoverBegin, RecoverNext, RecoverEnd, IInv
<1>2. batch' \in SUBSET Task /\ recovering' \in BOOLEAN
  BY DEF Recover, RecoverBegin, RecoverNext, RecoverEnd, DueTasks, IInv, TypeOK
<1>3. ExecInv' /\ OneWorker' /\ LateInv' /\ exec' \in [Executor -> Execution]
  <2>1. CASE UNCHANGED exec
    BY <1>1, <2>1, RowsOnlyKeep DEF IInv, TypeOK
  <2>2. CASE RecoverNext
    <3>1. PICK t \in batch : exec' = [exec EXCEPT ![Recovery] = Starting(t)]
      BY <2>2 DEF RecoverNext
    <3>2. t \in Task
      BY DEF IInv, TypeOK
    <3>. QED BY <1>1, <2>2, <3>1, <3>2, StartingKeeps DEF RecoverNext, Executor
  <2>. QED BY <2>1, <2>2 DEF Recover, RecoverBegin, RecoverEnd
<1>4. TypeOK'
  BY <1>1, <1>2, <1>3 DEF IInv, TypeOK, RowInv, RowType
<1>. QED BY <1>1, <1>3, <1>4 DEF IInv

LEMMA RestartKeeps ==
    ASSUME IInv, Restart
    PROVE  IInv' /\ RowStep
<1>1. RowInv' /\ RowStep
  BY SameRows DEF Restart, IInv
<1>2. Idle \in Execution /\ Idle.pc = "idle"
  BY DEF Idle, Execution, Pc, ErrorCode
<1>3. exec' \in [Executor -> Execution] /\ late' \in [Executor -> Nat]
  BY <1>2 DEF Restart
<1>4. ExecInv' /\ OneWorker' /\ LateInv'
  BY <1>2 DEF Restart, ExecInv, OneWorker, LateInv, Working
<1>5. workerId' \in Nat \ {0} /\ faults' \in Nat
  BY DEF Restart, IInv, TypeOK
<1>6. TypeOK'
  BY <1>1, <1>3, <1>5 DEF Restart, IInv, TypeOK, RowInv, RowType
<1>. QED BY <1>1, <1>4, <1>6 DEF IInv

\* What an execution at work knows, for the actions below.
LEMMA Knows ==
    ASSUME IInv, NEW e \in Executor, exec[e].pc \in Working
    PROVE  /\ exec[e].task \in Task /\ exec[e].attempt \in Attempt
           /\ exec[e].token = exec[e].attempt /\ exec[e].sent \in Nat
           /\ exec[e].attempt <= task[exec[e].task].attempts
           /\ log[exec[e].task][exec[e].attempt].revision = exec[e].revision
           /\ log[exec[e].task][exec[e].attempt].progress <= exec[e].sent
           /\ exec[e].error \in ErrorCode
BY DEF IInv, ExecInv, TypeOK, Execution

LEMMA ClaimEndsKeep ==
    ASSUME IInv, NEW e \in Executor, ClaimRefused(e) \/ ClaimExhausted(e)
    PROVE  IInv' /\ RowStep
<1>1. exec[e].task \in Task
  BY DEF ClaimRefused, ClaimExhausted, IInv, ExecInv
<1>2. RowInv' /\ RowStep /\ ProgressKept
  <2>1. CASE ClaimRefused(e)
    BY <2>1, SameRows DEF ClaimRefused, IInv
  <2>2. CASE ClaimExhausted(e)
    BY <1>1, <2>2, ExhaustRows DEF ClaimExhausted, IInv
  <2>. QED BY <2>1, <2>2
<1>3. ExecMove(e) /\ LateMove(e) /\ batch' \in SUBSET Task /\ faults' \in Nat
  BY ReturnOrThrowMove DEF ClaimRefused, ClaimExhausted, IInv
<1>4. UNCHANGED <<revision, workerId, recovering>>
  BY DEF ClaimRefused, ClaimExhausted
<1>. QED BY <1>2, <1>3, <1>4, StepKeeps

LEMMA ClaimKeeps ==
    ASSUME IInv, NEW e \in Executor, Claim(e)
    PROVE  IInv' /\ RowStep
<1>. USE AttemptFacts
<1>. DEFINE t == exec[e].task
            new == [Starting(t) EXCEPT !.pc = "loading", !.attempt = task[t].attempts + 1,
                                       !.token = task[t].token + 1, !.revision = revision]
<1>1. /\ t \in Task /\ task[t].attempts \in Nat /\ task[t].token = task[t].attempts
      /\ revision \in Nat /\ workerId \in Nat /\ late[e] = 0
  BY DEF Claim, IInv, ExecInv, TypeOK, TaskRow, RowInv, AttemptsMatchLog, LateInv
<1>2. /\ task[t].attempts + 1 <= MaxAttempts /\ canClaimPublishTask(t) /\ ClaimWrites(t)
      /\ UNCHANGED <<revision, workerId, recovering>>
  BY DEF Claim
<1>3. /\ RowInv' /\ RowStep /\ ProgressKept
      /\ task'[t].attempts = task[t].attempts + 1
      /\ log'[t][task[t].attempts + 1].revision = revision
      /\ log'[t][task[t].attempts + 1].progress = 0
  BY <1>1, <1>2, ClaimRows DEF IInv
<1>4. CASE exec' = [exec EXCEPT ![e] = new] /\ UNCHANGED <<batch, late, faults>>
  <2>1. /\ new \in Execution /\ new.pc = "loading" /\ new.task = t
        /\ new.attempt = task[t].attempts + 1 /\ new.token = task[t].attempts + 1
        /\ new.revision = revision
    <3>1. Starting(t) \in Execution /\ Starting(t).task = t
      BY <1>1 DEF Starting, Idle, Execution, Pc, ErrorCode
    <3>2. task[t].attempts + 1 \in Nat /\ task[t].token + 1 = task[t].attempts + 1
      BY <1>1
    <3>. HIDE DEF t
    <3>. QED BY <1>1, <3>1, <3>2 DEF Execution, Pc
  <2>. HIDE DEF new
  <2>2. /\ exec' \in [Executor -> Execution] /\ exec'[e] = new
        /\ \A f \in Executor : f # e => exec'[f] = exec[f]
    BY <1>4, <2>1 DEF IInv, TypeOK
  <2>. HIDE DEF t
  <2>3. /\ exec'[e].pc \in Working /\ exec'[e].task = t
        /\ exec'[e].attempt = task[t].attempts + 1 /\ exec'[e].token = task[t].attempts + 1
        /\ exec'[e].attempt <= MaxAttempts
        /\ log'[t][task[t].attempts + 1].revision = exec'[e].revision
    BY <1>2, <1>3, <2>1, <2>2 DEF Working
  <2>4. ExecInv' /\ OneWorker'
    <3>1. TypeOK /\ RowInv /\ ExecInv /\ OneWorker
      BY DEF IInv
    <3>. QED BY <1>1, <1>3, <2>2, <2>3, <3>1, ClaimedExec
  <2>5. LateMove(e)
    BY <1>1, <1>4, <2>2 DEF LateMove, IInv, TypeOK
  <2>6. LateInv'
    BY <1>3, <2>5, MoveKeepsLate DEF IInv, RowInv
  <2>7. TypeOK'
    BY <1>2, <1>3, <1>4, <2>2 DEF IInv, TypeOK, RowInv, RowType
  <2>. QED BY <1>3, <2>4, <2>6, <2>7 DEF IInv
<1>5. CASE faults' = faults + 1 /\ Throw(e)
  <2>1. ExecMove(e) /\ LateMove(e) /\ batch' \in SUBSET Task /\ faults' \in Nat
    BY <1>5, ReturnOrThrowMove DEF IInv
  <2>. QED BY <1>2, <1>3, <2>1, StepKeeps
<1>. QED BY <1>4, <1>5 DEF Claim

LEMMA LoadKeeps ==
    ASSUME IInv, NEW e \in Executor,
           LoadCatalog(e) \/ LoadCatalogFails(e) \/ RenewRefused(e)
    PROVE  IInv' /\ RowStep
<1>1. RowInv' /\ RowStep /\ ProgressKept
  BY SameRows DEF LoadCatalog, LoadCatalogFails, RenewRefused, IInv
<1>2. /\ exec[e].pc \in Working /\ UNCHANGED <<revision, workerId, recovering, batch, late>>
      /\ faults' \in {faults, faults + 1}
  BY DEF LoadCatalog, LoadCatalogFails, RenewRefused, Working
<1>3. \/ Goto(e, "checking")
      \/ \E code \in ErrorCode : Catch(e, code)
  BY DEF LoadCatalog, LoadCatalogFails, RenewRefused, RequireError, ErrorCode
<1>4. ExecMove(e) /\ LateMove(e)
  BY <1>2, <1>3, GotoMove, CatchMove DEF IInv, Working
<1>5. batch' \in SUBSET Task /\ faults' \in Nat
  BY <1>2 DEF IInv, TypeOK
<1>. QED BY <1>1, <1>2, <1>4, <1>5, StepKeeps

LEMMA RenewKeeps ==
    ASSUME IInv, NEW e \in Executor, Renew(e) \/ RenewFails(e)
    PROVE  IInv' /\ RowStep
<1>1. /\ exec[e].pc \in Working /\ UNCHANGED <<revision, workerId, recovering, batch, late>>
      /\ faults' \in {faults, faults + 1}
  BY DEF Renew, RenewFails, Working
<1>2. RowInv' /\ RowStep /\ (ProgressKept \/ ProgressBy(e))
  <2>1. CASE UNCHANGED <<task, log>>
    BY <2>1, SameRows DEF IInv
  <2>2. CASE HoldsLease(e) /\ RenewWrites(e)
    BY <1>1, <2>2, Knows, RenewRows DEF IInv
  <2>. QED BY <2>1, <2>2 DEF Renew, RenewFails
<1>3. ExecMove(e) /\ LateMove(e)
  <2>1. CASE Renew(e)
    <3>1. late[e] = 0
      <4>1. /\ task[exec[e].task].token = exec[e].token /\ exec[e].token \in Nat
        BY <1>1, <2>1, Knows, AttemptFacts DEF Renew, HoldsLease
      <4>. QED BY <4>1 DEF IInv, LateInv
    <3>2. \/ \E pc \in Working : Goto(e, pc)
          \/ \E code \in ErrorCode : Catch(e, code)
      BY <2>1 DEF Renew, Working, ErrorCode
    <3>. QED BY <1>1, <3>1, <3>2, GotoMove, CatchMove DEF IInv
  <2>2. CASE RenewFails(e)
    BY <1>1, <2>2, CatchMove DEF IInv, RenewFails, ErrorCode
  <2>. QED BY <2>1, <2>2
<1>4. batch' \in SUBSET Task /\ faults' \in Nat
  BY <1>1 DEF IInv, TypeOK
<1>. QED BY <1>1, <1>2, <1>3, <1>4, StepKeeps

LEMMA SendKeeps ==
    ASSUME IInv, NEW e \in Executor, Send(e)
    PROVE  IInv' /\ RowStep
<1>1. /\ exec[e].pc \in Working /\ UNCHANGED <<task, log, revision, workerId, recovering, batch, faults>>
  BY DEF Send, Working
<1>2. RowInv' /\ RowStep /\ ProgressKept
  BY <1>1, SameRows DEF IInv
<1>3. PICK errors \in BOOLEAN :
         exec' = [exec EXCEPT ![e].pc = "checking", ![e].sent = @ + 1, ![e].emitErrors = @ \/ errors]
  BY DEF Send
<1>. DEFINE anyError == exec[e].emitErrors \/ errors
            new == [exec[e] EXCEPT !.pc = "checking", !.sent = exec[e].sent + 1, !.emitErrors = anyError]
<1>4. exec[e] \in Execution
  BY DEF IInv, TypeOK
<1>5. /\ new \in Execution /\ new.pc = "checking" /\ new.task = exec[e].task
      /\ new.attempt = exec[e].attempt /\ new.token = exec[e].token
      /\ new.revision = exec[e].revision /\ new.sent >= exec[e].sent
  <2>1. anyError \in BOOLEAN
    OBVIOUS
  <2>2. exec[e].sent \in Nat
    BY <1>4 DEF Execution
  <2>. HIDE DEF anyError
  <2>. DEFINE s1 == exec[e].sent + 1
  <2>3. s1 \in Nat /\ s1 >= exec[e].sent
    BY <2>2
  <2>. HIDE DEF s1
  <2>4. new = [exec[e] EXCEPT !.pc = "checking", !.sent = s1, !.emitErrors = anyError]
    BY DEF s1
  <2>. HIDE DEF new
  <2>. QED BY <1>4, <2>1, <2>3, <2>4 DEF Execution, Pc
<1>6. exec' = [exec EXCEPT ![e] = new]
  BY <1>3
<1>. HIDE DEF new
<1>7. ExecMove(e) /\ exec'[e] = new
  BY <1>1, <1>5, <1>6 DEF ExecMove, IInv, TypeOK, Working
<1>8. TypeOK'
  <2>1. late' \in [Executor -> Nat]
    BY DEF Send, IInv, TypeOK
  <2>. QED BY <1>1, <1>2, <1>7, <2>1 DEF IInv, TypeOK, RowInv, RowType, ExecMove
<1>9. ExecInv' /\ OneWorker'
  BY <1>2, <1>7, MoveKeepsExec DEF IInv, RowInv
<1>10. late[e] = 0
  BY DEF Send, IInv, LateInv
<1>11. LateInv'
  <2>1. CASE Superseded(e)
    <3>1. /\ task'[exec'[e].task].token > exec'[e].token /\ exec'[e].pc = "checking"
      <4>1. /\ task[exec[e].task].token \in Nat /\ exec[e].token \in Nat
            /\ exec[e].token <= task[exec[e].task].token
        BY <1>1, Knows, AttemptFacts DEF IInv, RowInv, RowType, TaskRow, AttemptsMatchLog
      <4>. QED BY <1>1, <1>5, <1>7, <2>1, <4>1 DEF Superseded
    <3>2. late' = [late EXCEPT ![e] = 1]
      BY <1>10, <2>1 DEF Send
    <3>. QED BY <1>1, <1>6, <3>1, <3>2 DEF IInv, LateInv, TypeOK
  <2>2. CASE ~Superseded(e)
    <3>1. LateMove(e)
      BY <1>6, <1>10, <2>2 DEF Send, LateMove, IInv, TypeOK
    <3>. QED BY <1>2, <3>1, MoveKeepsLate DEF IInv, RowInv
  <2>. QED BY <2>1, <2>2
<1>. QED BY <1>2, <1>8, <1>9, <1>11 DEF IInv

LEMMA CompleteKeeps ==
    ASSUME IInv, NEW e \in Executor,
           Complete(e) \/ CompleteRefused(e) \/ CompleteFails(e)
    PROVE  IInv' /\ RowStep
<1>1. exec[e].pc \in Working /\ UNCHANGED <<revision, workerId, recovering>>
  BY DEF Complete, CompleteRefused, CompleteFails, Working
<1>2. RowInv' /\ RowStep /\ (ProgressKept \/ ProgressBy(e))
  <2>1. CASE UNCHANGED <<task, log>>
    BY <2>1, SameRows DEF IInv
  <2>2. CASE HoldsLease(e) /\ CompleteWrites(e)
    BY <1>1, <2>2, Knows, CompleteRows DEF IInv
  <2>. QED BY <2>1, <2>2 DEF Complete, CompleteRefused, CompleteFails
<1>3. ExecMove(e) /\ LateMove(e) /\ batch' \in SUBSET Task /\ faults' \in Nat
  <2>1. CASE \/ ReturnOrThrow(e)
             \/ faults' = faults + 1 /\ Throw(e)
             \/ Return(e) /\ UNCHANGED <<batch, faults>>
    BY <2>1, ReturnOrThrowMove DEF IInv
  <2>2. CASE \E code \in ErrorCode : Catch(e, code) /\ UNCHANGED <<batch, late>> /\ faults' \in {faults, faults + 1}
    BY <1>1, <2>2, CatchMove DEF IInv, TypeOK
  <2>. QED BY <2>1, <2>2 DEF Complete, CompleteRefused, CompleteFails, RequireError, ErrorCode
<1>. QED BY <1>1, <1>2, <1>3, StepKeeps

LEMMA FailKeeps ==
    ASSUME IInv, NEW e \in Executor, Fail(e) \/ FailRefused(e)
    PROVE  IInv' /\ RowStep
<1>1. exec[e].pc \in Working /\ UNCHANGED <<revision, workerId, recovering>>
  BY DEF Fail, FailRefused, Working
<1>2. RowInv' /\ RowStep /\ ProgressKept
  <2>1. CASE UNCHANGED <<task, log>>
    BY <2>1, SameRows DEF IInv
  <2>2. CASE HoldsLease(e) /\ FailWrites(e)
    BY <1>1, <2>2, Knows, FailRows DEF IInv
  <2>. QED BY <2>1, <2>2 DEF Fail, FailRefused
<1>3. ExecMove(e) /\ LateMove(e) /\ batch' \in SUBSET Task /\ faults' \in Nat
  BY ReturnOrThrowMove DEF Fail, FailRefused, IInv
<1>. QED BY <1>1, <1>2, <1>3, StepKeeps

LEMMA NextInv ==
    ASSUME IInv, [Next]_vars
    PROVE  IInv' /\ RowStep
<1>1. ASSUME NEW e \in Executor, Execute(e)
      PROVE  IInv' /\ RowStep
  BY <1>1, ClaimEndsKeep, ClaimKeeps, LoadKeeps, RenewKeeps, SendKeeps, CompleteKeeps, FailKeeps DEF Execute
<1>2. CASE UNCHANGED vars
  <2>1. RowInv' /\ RowStep /\ ProgressKept
    BY <1>2, SameRows DEF IInv, vars
  <2>2. ExecInv' /\ OneWorker' /\ LateInv'
    BY <1>2, <2>1, RowsOnlyKeep DEF vars
  <2>3. TypeOK'
    BY <1>2 DEF IInv, TypeOK, vars
  <2>. QED BY <2>1, <2>2, <2>3 DEF IInv
<1>3. CASE Next
  BY <1>1, <1>3, PublishKeeps, TimeKeeps, MutatePolicyKeeps, RecoverKeeps, RestartKeeps DEF Next
<1>. QED BY <1>2, <1>3

-----------------------------------------------------------------------------
(* What holds in every behaviour.                                          *)

\* The invariant is inductive: rows, memory and history agree at every step.
THEOREM Invariant == Spec => []IInv
<1>1. Init => IInv
  BY InitInv
<1>2. IInv /\ [Next]_vars => IInv'
  BY NextInv
<1>. QED BY <1>1, <1>2, PTL DEF Spec

\* Every row, and the memory of every execution, stays well formed.
THEOREM TypeCorrect == Spec => []TypeOK
<1>1. IInv => TypeOK
  BY DEF IInv
<1>. QED BY <1>1, Invariant, PTL

\* claimTask, the UPDATE guards and the failure path keep at most one attempt
\* of a task open, and that one holds the lease.
THEOREM OneOpenAttempt == Spec => []RunningLogHoldsLease
<1>1. IInv => RunningLogHoldsLease
  BY DEF IInv, RowInv
<1>. QED BY <1>1, Invariant, PTL

\* attempt_count, the fencing token and the execution log always tell the same.
THEOREM LogIsComplete == Spec => []AttemptsMatchLog
<1>1. IInv => AttemptsMatchLog
  BY DEF IInv, RowInv
<1>. QED BY <1>1, Invariant, PTL

\* No task succeeds twice, and metrics_complete marks the attempt that did.
THEOREM OneSuccess == Spec => []SucceededOnce
<1>1. IInv => SucceededOnce
  BY DEF IInv, RowInv
<1>. QED BY <1>1, Invariant, PTL

\* A task is given up only when its attempts are used up.
THEOREM NoEarlyFailure == Spec => []FailedOnlyExhausted
<1>1. IInv => FailedOnlyExhausted
  BY DEF IInv, RowInv
<1>. QED BY <1>1, Invariant, PTL

\* A worker that was taken over sends one more chunk at most.
THEOREM OneLateChunk == Spec => []LateSendsBounded
<1>1. IInv => LateSendsBounded
  BY DEF IInv, LateInv, LateSendsBounded
<1>. QED BY <1>1, Invariant, PTL

\* Verdicts are final: nothing rewrites a finished task or a closed attempt.
THEOREM FinalVerdicts == Spec => VerdictsAreFinal
<1>1. IInv /\ [Next]_vars =>
        [\A t \in Task :
          /\ task[t].status \in {"succeeded", "failed"} => task'[t] = task[t]
          /\ \A n \in Attempt :
                log[t][n].status \in {"succeeded", "failed", "lease_expired"}
                    => log'[t][n] = log[t][n]]_vars
  BY NextInv DEF RowStep
<1>. QED BY <1>1, Invariant, PTL DEF Spec, VerdictsAreFinal

\* A committed checkpoint is never taken back.
THEOREM LastingCheckpoints == Spec => CheckpointSurvives
<1>1. IInv /\ [Next]_vars =>
        [\A t \in Task, n \in Attempt : log'[t][n].progress >= log[t][n].progress]_vars
  BY NextInv DEF RowStep
<1>. QED BY <1>1, Invariant, PTL DEF Spec, CheckpointSurvives

\* An execution's action leaves the memory of every other execution alone.
LEMMA OthersRest ==
    ASSUME TypeOK, NEW f \in Executor, Execute(f), NEW e \in Executor, e # f
    PROVE  exec'[e] = exec[e]
<1>1. \E new : exec' = [exec EXCEPT ![f] = new]
  <2>1. CASE ClaimRefused(f) \/ ClaimExhausted(f) \/ Claim(f)
    BY <2>1 DEF ClaimRefused, ClaimExhausted, Claim, ReturnOrThrow, Throw, Return
  <2>2. CASE LoadCatalog(f) \/ LoadCatalogFails(f) \/ Renew(f) \/ RenewRefused(f) \/ RenewFails(f)
    BY <2>2 DEF LoadCatalog, LoadCatalogFails, Renew, RenewRefused, RenewFails, Goto, Catch
  <2>3. CASE Send(f)
    BY <2>3 DEF Send
  <2>4. CASE Complete(f) \/ CompleteRefused(f) \/ CompleteFails(f)
    BY <2>4 DEF Complete, CompleteRefused, CompleteFails, ReturnOrThrow, Throw, Return, Catch
  <2>5. CASE Fail(f) \/ FailRefused(f)
    BY <2>5 DEF Fail, FailRefused, ReturnOrThrow, Throw, Return
  <2>. QED BY <2>1, <2>2, <2>3, <2>4, <2>5 DEF Execute
<1>. QED BY <1>1 DEF TypeOK

\* An execution whose token is no longer the task's writes no row.
LEMMA SupersededWrites ==
    ASSUME NEW e \in Executor, Superseded(e), Execute(e)
    PROVE  UNCHANGED <<task, log>>
<1>1. exec[e].pc # "claiming" /\ ~HoldsLease(e)
  BY DEF Superseded, HoldsLease
<1>. QED BY <1>1 DEF Execute, ClaimRefused, ClaimExhausted, Claim, LoadCatalog, LoadCatalogFails,
            Renew, RenewRefused, RenewFails, Send, Complete, CompleteRefused, CompleteFails,
            Fail, FailRefused

\* Fencing: a step of an execution that was taken over touches no row.
THEOREM Fencing == Spec => SupersededWritesNothing
<1>1. ASSUME IInv, [Next]_vars, NEW e \in Executor, Superseded(e), exec'[e] # exec[e]
      PROVE  UNCHANGED <<task, log>>
  <2>1. exec[e].pc # "idle"
    BY <1>1 DEF Superseded
  <2>2. ASSUME NEW t \in Task, Publish(t) \/ LeaseExpires(t) \/ RetryBecomesDue(t)
        PROVE  FALSE
    BY <1>1, <2>2 DEF Publish, LeaseExpires, RetryBecomesDue
  <2>3. ASSUME NEW f \in Inline, NEW t \in Task, MutatePolicy(f, t)
        PROVE  FALSE
    BY <1>1, <2>1, <2>3 DEF MutatePolicy, IInv, TypeOK, Executor
  <2>4. CASE Recover
    BY <2>4 DEF Recover, RecoverBegin, RecoverNext, RecoverEnd
  <2>5. ASSUME NEW f \in Executor, Execute(f)
        PROVE  UNCHANGED <<task, log>>
    <3>1. f = e
      BY <1>1, <2>5, OthersRest DEF IInv
    <3>. QED BY <1>1, <2>5, <3>1, SupersededWrites
  <2>6. CASE Restart
    BY <2>6 DEF Restart
  <2>7. CASE UNCHANGED vars
    BY <2>7 DEF vars
  <2>. QED BY <1>1, <2>2, <2>3, <2>4, <2>5, <2>6, <2>7 DEF Next
<1>2. IInv /\ [Next]_vars =>
        [\A e \in Executor :
          Superseded(e) /\ exec'[e] # exec[e] => UNCHANGED <<task, log>>]_vars
  BY <1>1
<1>. QED BY <1>2, Invariant, PTL DEF Spec, SupersededWritesNothing

-----------------------------------------------------------------------------
(* Checkpoints and success.                                                *)

Sending == {"loading", "checking", "sending", "completing"}

\* What an execution has sent and what its log row counts, from step to step.
SentOf(e) ==
    LET x == exec[e] IN
    /\ x.pc = "completing" => ~x.emitErrors
    /\ x.pc \in Sending
          => \/ log[x.task][x.attempt].progress = x.sent
             \/ x.pc = "checking" /\ log[x.task][x.attempt].progress = x.sent - 1

SentInv == \A e \in Executor : SentOf(e)

\* Only the execution itself writes the checkpoint of its attempt.
LEMMA ProgressStep ==
    ASSUME IInv, NEW e \in Executor, Execute(e)
    PROVE  /\ ProgressKept \/ (exec[e].pc \in Working /\ ProgressBy(e))
           /\ \A f \in Executor : f # e => exec'[f] = exec[f]
<1>1. \A f \in Executor : f # e => exec'[f] = exec[f]
  BY OthersRest DEF IInv
<1>2. CASE UNCHANGED <<task, log>>
  BY <1>1, <1>2, SameRows DEF IInv
<1>3. CASE ClaimExhausted(e)
  BY <1>1, <1>3, ExhaustRows DEF ClaimExhausted, IInv, ExecInv
<1>4. CASE Claim(e)
  <2>1. exec[e].task \in Task /\ revision \in Nat /\ workerId \in Nat
    BY <1>4 DEF Claim, IInv, ExecInv, TypeOK
  <2>. QED BY <1>1, <1>4, <2>1, ClaimRows DEF Claim, IInv
<1>5. CASE exec[e].pc \in Working /\ HoldsLease(e) /\ (RenewWrites(e) \/ CompleteWrites(e))
  BY <1>1, <1>5, Knows, RenewRows, CompleteRows DEF IInv
<1>6. CASE Fail(e)
  <2>1. exec[e].pc \in Working
    BY <1>6 DEF Fail, Working
  <2>. QED BY <1>1, <1>6, <2>1, Knows, FailRows DEF Fail, IInv
<1>7. \/ UNCHANGED <<task, log>> \/ ClaimExhausted(e) \/ Claim(e) \/ Fail(e)
      \/ exec[e].pc \in Working /\ HoldsLease(e) /\ (RenewWrites(e) \/ CompleteWrites(e))
  BY DEF Execute, ClaimRefused, LoadCatalog, LoadCatalogFails, Renew, RenewRefused, RenewFails, Send,
         Complete, CompleteRefused, CompleteFails, FailRefused, Working
<1>. QED BY <1>2, <1>3, <1>4, <1>5, <1>6, <1>7

LEMMA SentOfOthers ==
    ASSUME IInv, SentInv, NEW e \in Executor, Execute(e), NEW f \in Executor, f # e,
           exec[f].pc \in Sending
    PROVE  log'[exec[f].task][exec[f].attempt].progress = log[exec[f].task][exec[f].attempt].progress
<1>1. exec[f].pc \in Working /\ exec[f].task \in Task /\ exec[f].attempt \in Attempt
  BY Knows DEF Sending, Working
<1>2. CASE ProgressKept
  BY <1>1, <1>2 DEF ProgressKept
<1>3. CASE exec[e].pc \in Working /\ ProgressBy(e)
  BY <1>1, <1>3 DEF ProgressBy, IInv, OneWorker
<1>. QED BY <1>2, <1>3, ProgressStep

LEMMA SentBySelf ==
    ASSUME IInv, SentInv, NEW e \in Executor, Execute(e)
    PROVE  SentOf(e)'
<1>0. exec[e] \in Execution /\ exec \in [Executor -> Execution] /\ SentOf(e)
  BY DEF IInv, TypeOK, SentInv
<1>a. \A code : Catch(e, code) => exec'[e].pc = "failing"
  BY <1>0 DEF Catch
<1>b. Return(e) => exec'[e].pc = "idle"
  BY <1>0 DEF Return, Idle
<1>1. CASE exec'[e].pc \in {"idle", "claiming", "failing"}
  BY <1>1 DEF SentOf, Sending
<1>2. CASE Claim(e) /\ exec'[e].pc \notin {"idle", "claiming", "failing"}
  <2>. DEFINE t == exec[e].task
  <2>1. t \in Task /\ revision \in Nat /\ workerId \in Nat
    BY <1>2 DEF Claim, IInv, ExecInv, TypeOK
  <2>2. log'[t][task[t].attempts + 1].progress = 0
    BY <1>2, <2>1, ClaimRows DEF Claim, IInv
  <2>3. exec'[e].task = t /\ exec'[e].attempt = task[t].attempts + 1 /\ exec'[e].sent = 0
        /\ exec'[e].pc = "loading"
    <3>. DEFINE new == [Starting(t) EXCEPT !.pc = "loading", !.attempt = task[t].attempts + 1,
                                           !.token = task[t].token + 1, !.revision = revision]
    <3>1. exec' = [exec EXCEPT ![e] = new]
      BY <1>2, <1>b DEF Claim, Throw
    <3>2. new.task = t /\ new.attempt = task[t].attempts + 1 /\ new.sent = 0 /\ new.pc = "loading"
      BY DEF Starting, Idle
    <3>. HIDE DEF new
    <3>. QED BY <1>0, <3>1, <3>2
  <2>. QED BY <2>2, <2>3 DEF SentOf, Sending
<1>3. CASE LoadCatalog(e) /\ Goto(e, "checking")
  BY <1>0, <1>3 DEF LoadCatalog, Goto, SentOf, Sending
<1>4. CASE Send(e)
  <2>1. /\ exec'[e].pc = "checking" /\ exec'[e].sent = exec[e].sent + 1 /\ exec[e].sent \in Nat
        /\ exec'[e].task = exec[e].task /\ exec'[e].attempt = exec[e].attempt /\ log' = log
        /\ exec[e].pc = "sending"
    BY <1>0, <1>4 DEF Send, Execution
  <2>. QED BY <1>0, <2>1 DEF SentOf, Sending
<1>5. CASE Renew(e) /\ exec'[e].pc \notin {"idle", "claiming", "failing"}
  <2>1. exec[e].pc \in Working /\ RenewWrites(e)
    BY <1>5 DEF Renew, Working
  <2>2. exec[e].task \in Task /\ exec[e].attempt \in Attempt
    BY <2>1, Knows
  <2>3. log'[exec[e].task][exec[e].attempt].progress = exec[e].sent
    BY <2>1, <2>2 DEF RenewWrites, IInv, TypeOK, LogRow
  <2>4. \/ Goto(e, "sending")
        \/ Goto(e, "completing") /\ ~exec[e].emitErrors
    BY <1>a, <1>5 DEF Renew
  <2>5. /\ exec'[e].task = exec[e].task /\ exec'[e].attempt = exec[e].attempt
        /\ exec'[e].sent = exec[e].sent /\ exec'[e].emitErrors = exec[e].emitErrors
        /\ exec'[e].pc = "completing" => ~exec[e].emitErrors
    <3>1. CASE Goto(e, "sending")
      BY <1>0, <3>1 DEF Goto, Execution
    <3>2. CASE Goto(e, "completing") /\ ~exec[e].emitErrors
      BY <1>0, <3>2 DEF Goto, Execution
    <3>. QED BY <2>4, <3>1, <3>2
  <2>. QED BY <2>3, <2>5 DEF SentOf
<1>6. \/ exec'[e].pc \in {"idle", "claiming", "failing"}
      \/ Claim(e) \/ (LoadCatalog(e) /\ Goto(e, "checking")) \/ Send(e) \/ Renew(e)
  <2>1. CASE ClaimRefused(e) \/ ClaimExhausted(e)
    BY <1>b, <2>1 DEF ClaimRefused, ClaimExhausted, ReturnOrThrow, Throw
  <2>2. CASE LoadCatalog(e) \/ LoadCatalogFails(e) \/ RenewRefused(e) \/ RenewFails(e)
    BY <1>a, <2>2 DEF LoadCatalog, LoadCatalogFails, RenewRefused, RenewFails
  <2>3. CASE Complete(e) \/ CompleteRefused(e) \/ CompleteFails(e)
    BY <1>a, <1>b, <2>3 DEF Complete, CompleteRefused, CompleteFails, ReturnOrThrow, Throw
  <2>4. CASE Fail(e) \/ FailRefused(e)
    BY <1>b, <2>4 DEF Fail, FailRefused, ReturnOrThrow, Throw
  <2>. QED BY <2>1, <2>2, <2>3, <2>4 DEF Execute
<1>. QED BY <1>1, <1>2, <1>3, <1>4, <1>5, <1>6

LEMMA SentKept == IInv /\ SentInv /\ [Next]_vars => SentInv'
<1>. SUFFICES ASSUME IInv, SentInv, [Next]_vars, NEW e \in Executor PROVE SentOf(e)'
  BY DEF SentInv
<1>0. SentOf(e) /\ exec \in [Executor -> Execution]
  BY DEF SentInv, IInv, TypeOK
<1>1. ASSUME NEW f \in Executor, Execute(f) PROVE SentOf(e)'
  <2>1. CASE f = e
    BY <1>1, <2>1, SentBySelf
  <2>2. CASE f # e
    <3>1. exec'[e] = exec[e]
      BY <1>1, <2>2, ProgressStep
    <3>2. exec[e].pc \in Sending
          => log'[exec[e].task][exec[e].attempt].progress = log[exec[e].task][exec[e].attempt].progress
      BY <1>1, <2>2, SentOfOthers
    <3>. QED BY <1>0, <3>1, <3>2 DEF SentOf
  <2>. QED BY <2>1, <2>2
<1>2. ASSUME UNCHANGED log, exec'[e] = exec[e] \/ exec'[e].pc \in {"idle", "claiming"} PROVE SentOf(e)'
  BY <1>0, <1>2 DEF SentOf, Sending
<1>3. ASSUME NEW t \in Task, Publish(t) \/ LeaseExpires(t) \/ RetryBecomesDue(t) PROVE SentOf(e)'
  BY <1>2, <1>3 DEF Publish, LeaseExpires, RetryBecomesDue
<1>4. ASSUME NEW f \in Inline, NEW t \in Task, MutatePolicy(f, t) PROVE SentOf(e)'
  BY <1>0, <1>2, <1>4 DEF MutatePolicy, Starting, Executor, Idle
<1>5. CASE Recover
  BY <1>0, <1>2, <1>5 DEF Recover, RecoverBegin, RecoverNext, RecoverEnd, Starting, Executor, Idle
<1>6. CASE Restart
  BY <1>2, <1>6 DEF Restart, Idle
<1>7. CASE UNCHANGED vars
  BY <1>2, <1>7 DEF vars
<1>. QED BY <1>1, <1>3, <1>4, <1>5, <1>6, <1>7 DEF Next

LEMMA SentInvariant == Spec => []SentInv
<1>1. Init => SentInv
  BY DEF Init, SentInv, SentOf, Sending, Idle
<1>. QED BY <1>1, SentKept, Invariant, PTL DEF Spec

\* renewTaskLease commits what is sent after every chunk: while an attempt is current
\* its row is at most one chunk behind.
THEOREM Checkpoints == Spec => []CheckpointWithinChunk
<1>1. SentInv => CheckpointWithinChunk
  BY DEF SentInv, SentOf, Sending, CheckpointWithinChunk
<1>. QED BY <1>1, SentInvariant, PTL

\* A success is written at the revision that the attempt was claimed at, by the
\* execution that sent everything without an error, with its counters.
THEOREM CurrentSuccess == Spec => SuccessIsCurrent
<1>1. ASSUME IInv, SentInv, [Next]_vars, NEW t \in Task, NEW n \in Attempt,
             log[t][n].status # "succeeded", log'[t][n].status = "succeeded"
      PROVE  /\ log[t][n].revision = revision
             /\ \E e \in Executor : /\ exec[e].task = t /\ exec[e].attempt = n
                                    /\ ~exec[e].emitErrors
                                    /\ log'[t][n].progress = exec[e].sent
  <2>0. log \in [Task -> [Attempt -> LogRow]]
    BY <1>1 DEF IInv, TypeOK
  <2>1. PICK e \in Executor : Execute(e)
    BY <1>1 DEF Next, Publish, LeaseExpires, RetryBecomesDue, MutatePolicy, Recover, RecoverBegin,
                RecoverNext, RecoverEnd, Restart, vars
  <2>2. CASE Complete(e)
    <3>1. exec[e].pc = "completing" /\ revision = exec[e].revision /\ CompleteWrites(e)
      BY <2>2 DEF Complete
    <3>2. /\ exec[e].task \in Task /\ exec[e].attempt \in Attempt
          /\ log[exec[e].task][exec[e].attempt].revision = exec[e].revision
      BY <1>1, <3>1, Knows DEF Working
    <3>3. exec[e].task = t /\ exec[e].attempt = n /\ log'[t][n].progress = exec[e].sent
      BY <1>1, <2>0, <3>1, <3>2 DEF CompleteWrites, LogRow
    <3>. QED BY <1>1, <3>1, <3>2, <3>3 DEF SentInv, SentOf
  <2>3. CASE Claim(e) \/ ClaimExhausted(e)
    <3>1. exec[e].task \in Task
      BY <1>1, <2>3 DEF Claim, ClaimExhausted, IInv, ExecInv
    <3>2. LogsAtClaim(exec[e].task)[n].status = "succeeded" => log[exec[e].task][n].status = "succeeded"
      BY <2>0, <3>1 DEF LogsAtClaim, ExpireLogs
    <3>3. LogsAtClaim(exec[e].task) = [m \in Attempt |-> LogsAtClaim(exec[e].task)[m]]
      BY <2>0, <3>1 DEF LogsAtClaim, ExpireLogs
    <3>4. PICK u \in Task : u = exec[e].task
      BY <3>1
    <3>5. PICK logs : logs = LogsAtClaim(u)
      OBVIOUS
    <3>6. PICK m : m = task[u].attempts + 1
      OBVIOUS
    <3>7. \/ log' = [log EXCEPT ![u] = logs]
          \/ \E row : row.status = "running" /\ log' = [log EXCEPT ![u] = [logs EXCEPT ![m] = row]]
      <4>. DEFINE row == [NoLog EXCEPT !.status = "running", !.token = task[u].token + 1,
                                      !.worker = workerId, !.revision = revision]
      <4>1. row.status = "running"
        BY DEF NoLog
      <4>2. log' = [log EXCEPT ![u] = logs] \/ log' = [log EXCEPT ![u] = [logs EXCEPT ![m] = row]]
        BY <2>3, <3>4, <3>5, <3>6 DEF Claim, ClaimExhausted, ClaimWrites, ExhaustWrites
      <4>. QED BY <4>1, <4>2
    <3>8. logs = [k \in Attempt |-> logs[k]] /\ (logs[n].status = "succeeded" => log[u][n].status = "succeeded")
      BY <3>2, <3>3, <3>4, <3>5
    <3>9. CASE log' = [log EXCEPT ![u] = logs]
      BY <1>1, <2>0, <3>8, <3>9
    <3>10. CASE \E row : row.status = "running" /\ log' = [log EXCEPT ![u] = [logs EXCEPT ![m] = row]]
      BY <1>1, <2>0, <3>8, <3>10
    <3>. QED BY <3>7, <3>9, <3>10
  <2>4. CASE Renew(e) \/ RenewFails(e) \/ Fail(e)
    <3>1. exec[e].pc \in Working
      BY <2>4 DEF Renew, RenewFails, Fail, Working
    <3>2. exec[e].task \in Task /\ exec[e].attempt \in Attempt
      BY <1>1, <3>1, Knows
    <3>3. CASE RenewWrites(e)
      BY <1>1, <2>0, <3>2, <3>3 DEF RenewWrites, LogRow
    <3>4. CASE FailWrites(e)
      BY <1>1, <2>0, <3>2, <3>4 DEF FailWrites, LogRow
    <3>5. CASE UNCHANGED log
      BY <1>1, <3>5
    <3>. QED BY <2>4, <3>3, <3>4, <3>5 DEF Renew, RenewFails, Fail
  <2>5. CASE UNCHANGED log
    BY <1>1, <2>5
  <2>. QED BY <2>1, <2>2, <2>3, <2>4, <2>5
           DEF Execute, ClaimRefused, LoadCatalog, LoadCatalogFails, RenewRefused, Send,
               CompleteRefused, CompleteFails, FailRefused
<1>2. IInv /\ SentInv /\ [Next]_vars =>
        [\A t \in Task, n \in Attempt :
          log[t][n].status # "succeeded" /\ log'[t][n].status = "succeeded"
          => /\ log[t][n].revision = revision
             /\ \E e \in Executor : /\ exec[e].task = t /\ exec[e].attempt = n
                                    /\ ~exec[e].emitErrors
                                    /\ log'[t][n].progress = exec[e].sent]_vars
  BY <1>1
<1>. QED BY <1>2, Invariant, SentInvariant, PTL DEF Spec, SuccessIsCurrent

-----------------------------------------------------------------------------
(* The rows implement TaskOutcome.                                         *)

\* A task that waits for a retry has an attempt left.
RetriesLeft ==
    \A t \in Task : task[t].status = "retry_wait" => task[t].attempts < MaxAttempts

Outcomes == [t \in Task |-> OutcomeOf(task[t])]
Verdicts == [t \in Task |-> [n \in Attempt |-> log[t][n].status]]

\* Nothing is told of the tasks other than t.
OthersSame(t) ==
    \A u \in Task \ {t} : /\ task'[u].status = task[u].status
                          /\ \A n \in Attempt : log'[u][n].status = log[u][n].status

\* Every attempt of t that was running has the verdict v.
SettledBy(t, v) ==
    \A n \in Attempt :
        log'[t][n].status = IF log[t][n].status = "running" THEN v ELSE log[t][n].status

LEMMA ToldSame ==
    ASSUME \A t \in Task : /\ OutcomeOf(task[t])' = OutcomeOf(task[t])
                           /\ \A n \in Attempt : log'[t][n].status = log[t][n].status
    PROVE  UNCHANGED Promise!outcomeVars
BY DEF Promise!outcomeVars

LEMMA ToldSubmit ==
    ASSUME NEW t \in Task, task[t].status = "absent", task'[t].status = "pending",
           OthersSame(t), UNCHANGED log
    PROVE  Promise!Next
<1>1. Promise!Submit(t)
  BY DEF Promise!Submit, OutcomeOf, OthersSame
<1>. QED BY <1>1 DEF Promise!Next

LEMMA ToldBegin ==
    ASSUME RowInv, NEW t \in Task, NEW n \in Attempt, n = task[t].attempts + 1,
           task[t].status \in {"pending", "retry_wait", "running"}, task'[t].status = "running",
           OthersSame(t), log'[t][n].status = "running",
           \A m \in Attempt : m # n => log'[t][m].status =
                IF log[t][m].status = "running" THEN "lease_expired" ELSE log[t][m].status
    PROVE  Promise!Next
<1>. USE AttemptFacts
<1>1. \A m \in Attempt : log[t][m].status # "none" <=> m < n
  BY DEF RowInv, RowType, TaskRow, AttemptsMatchLog
<1>2. Promise!IsNext(t, n)
  BY <1>1 DEF Promise!IsNext, Promise!Untried, Attempt
<1>3. Outcomes[t] = "open" /\ Outcomes' = Outcomes
  BY DEF Outcomes, OutcomeOf, OthersSame
<1>4. Verdicts' = [Verdicts EXCEPT ![t] = [Promise!Settled(t, "lease_expired") EXCEPT ![n] = "running"]]
  <2>. DEFINE settled == [Promise!Settled(t, "lease_expired") EXCEPT ![n] = "running"]
  <2>0. Promise!Settled(t, "lease_expired") =
            [m \in Attempt |-> IF log[t][m].status = "running" THEN "lease_expired"
                                                              ELSE log[t][m].status]
    BY DEF Promise!Settled, Attempt
  <2>1. settled = [m \in Attempt |-> log'[t][m].status]
    BY <2>0
  <2>. HIDE DEF settled
  <2>2. \A u \in Task \ {t} : Verdicts'[u] = Verdicts[u]
    BY DEF Verdicts, OthersSame
  <2>3. Verdicts'[t] = settled
    BY <2>1 DEF Verdicts
  <2>4. Verdicts' = [Verdicts EXCEPT ![t] = settled]
    BY <2>2, <2>3 DEF Verdicts
  <2>. QED BY <2>4 DEF settled
<1>5. Promise!Begin(t, n)
  BY <1>2, <1>3, <1>4 DEF Promise!Begin, Outcomes, Verdicts
<1>. QED BY <1>5 DEF Promise!Next, Attempt

LEMMA ToldDecide ==
    ASSUME RowInv, NEW t \in Task, NEW v, NEW s,
           <<v, s>> \in {<<"succeeded", "succeeded">>, <<"failed", "retry_wait">>,
                         <<"failed", "failed">>, <<"lease_expired", "failed">>},
           task[t].status = "running", task'[t].status = s,
           s = "failed" => task[t].attempts = MaxAttempts,
           OthersSame(t), SettledBy(t, v)
    PROVE  Promise!Next
<1>. USE AttemptFacts
<1>. DEFINE o == IF s = "retry_wait" THEN "open" ELSE s
<1>1. Outcomes[t] = "open" /\ Outcomes' = [Outcomes EXCEPT ![t] = o]
  BY DEF Outcomes, OutcomeOf, OthersSame
<1>2. Verdicts' = [Verdicts EXCEPT ![t] = Promise!Settled(t, v)]
  <2>. DEFINE settled == Promise!Settled(t, v)
  <2>0. settled = [m \in Attempt |-> IF log[t][m].status = "running" THEN v ELSE log[t][m].status]
    BY DEF Promise!Settled, Attempt
  <2>1. settled = [m \in Attempt |-> log'[t][m].status]
    BY <2>0 DEF SettledBy
  <2>. HIDE DEF settled
  <2>2. \A u \in Task \ {t} : Verdicts'[u] = Verdicts[u]
    BY DEF Verdicts, OthersSame
  <2>3. Verdicts'[t] = settled
    BY <2>1 DEF Verdicts
  <2>4. Verdicts' = [Verdicts EXCEPT ![t] = settled]
    BY <2>2, <2>3 DEF Verdicts
  <2>. QED BY <2>4 DEF settled
<1>3. task[t].attempts \in Attempt /\ log[t][task[t].attempts].status = "running"
  BY DEF RowInv, LastVerdict, RunningLogHoldsLease
<1>4. s = "failed" => \A m \in Attempt : log[t][m].status # "none"
  BY DEF RowInv, AttemptsMatchLog
<1>5. o = "failed" => \A m \in 1..MaxAttempts : ~Promise!Untried(t, m)
  BY <1>4 DEF Promise!Untried, Attempt
<1>6. \E m \in 1..MaxAttempts : Verdicts[t][m] = "running"
  BY <1>3 DEF Verdicts, Attempt
<1>7. <<v, o>> \in {<<"succeeded", "succeeded">>, <<"failed", "open">>, <<"failed", "failed">>,
                    <<"lease_expired", "failed">>}
  OBVIOUS
<1>8. v \in Promise!Verdict /\ o \in Promise!Outcome
  BY DEF Promise!Verdict, Promise!Outcome
<1>. HIDE DEF o
<1>9. Promise!Decide(t, v, o)
  BY <1>1, <1>2, <1>5, <1>6, <1>7 DEF Promise!Decide, Outcomes, Verdicts
<1>. QED BY <1>8, <1>9 DEF Promise!Next

\* A step tells a reader of the rows a step of the promise, or nothing.
Told == RetriesLeft' /\ (Promise!Next \/ UNCHANGED Promise!outcomeVars)

LEMMA ClaimTold ==
    ASSUME RowInv, RetriesLeft, NEW t \in Task, canClaimPublishTask(t),
           task[t].attempts + 1 <= MaxAttempts, ClaimWrites(t)
    PROVE  Told
<1>. USE AttemptFacts
<1>. DEFINE n == task[t].attempts + 1
<1>1. /\ task[t] \in TaskRow /\ task[t].status \in {"pending", "retry_wait", "running"}
      /\ n \in Attempt
  BY DEF RowInv, RowType, TaskRow, AttemptsMatchLog, Attempt, canClaimPublishTask
<1>2. task'[t].status = "running" /\ \A u \in Task \ {t} : task'[u] = task[u]
  BY <1>1 DEF ClaimWrites, RowInv, RowType, TaskRow
<1>3. /\ \A u \in Task \ {t} : log'[u] = log[u]
      /\ log'[t][n].status = "running"
      /\ \A m \in Attempt : m # n => log'[t][m] = LogsAtClaim(t)[m]
  <2>. DEFINE row == [NoLog EXCEPT !.status = "running", !.token = task[t].token + 1,
                                   !.worker = workerId, !.revision = revision]
  <2>1. row.status = "running"
    BY DEF NoLog
  <2>2. LogsAtClaim(t) \in [Attempt -> LogRow]
    BY <1>1, ExpiredRows
  <2>3. log' = [log EXCEPT ![t] = [LogsAtClaim(t) EXCEPT ![n] = row]]
    BY DEF ClaimWrites
  <2>. HIDE DEF row
  <2>. QED BY <1>1, <2>1, <2>2, <2>3 DEF RowInv, RowType
<1>4. \A m \in Attempt : LogsAtClaim(t)[m].status =
          IF log[t][m].status = "running" THEN "lease_expired" ELSE log[t][m].status
  BY <1>1, ExpiredRows
<1>5. RetriesLeft'
  BY <1>2 DEF RetriesLeft
<1>6. OthersSame(t)
  BY <1>2, <1>3 DEF OthersSame
<1>. HIDE DEF n
<1>7. Promise!Next
  BY <1>1, <1>2, <1>3, <1>4, <1>6, ToldBegin DEF n
<1>. QED BY <1>5, <1>7 DEF Told

LEMMA ExhaustTold ==
    ASSUME RowInv, RetriesLeft, NEW t \in Task, canClaimPublishTask(t),
           task[t].attempts + 1 > MaxAttempts, ExhaustWrites(t)
    PROVE  Told
<1>. USE AttemptFacts
<1>1. task[t].status = "running" /\ task[t].attempts = MaxAttempts
  <2>1. task[t] \in TaskRow /\ task[t].attempts \in Nat /\ task[t].attempts <= MaxAttempts
    BY DEF RowInv, RowType, TaskRow, AttemptsMatchLog
  <2>2. task[t].attempts = MaxAttempts
    BY <2>1
  <2>. QED BY <2>2 DEF canClaimPublishTask, RetriesLeft, RowInv, LastVerdict
<1>2. task'[t].status = "failed" /\ \A u \in Task \ {t} : task'[u] = task[u]
  BY DEF ExhaustWrites, RowInv, RowType, TaskRow
<1>3. log'[t] = LogsAtClaim(t) /\ \A u \in Task \ {t} : log'[u] = log[u]
  BY DEF ExhaustWrites, RowInv, RowType
<1>4. SettledBy(t, "lease_expired")
  BY <1>1, <1>3, ExpiredRows DEF SettledBy
<1>5. RetriesLeft' /\ OthersSame(t)
  BY <1>2, <1>3 DEF RetriesLeft, OthersSame
<1>6. Promise!Next
  BY <1>1, <1>2, <1>4, <1>5, ToldDecide
<1>. QED BY <1>5, <1>6 DEF Told

\* A renewal changes no status.
LEMMA RenewTold ==
    ASSUME RowInv, RetriesLeft, NEW e \in Executor, exec[e].task \in Task,
           exec[e].attempt \in Attempt, RenewWrites(e)
    PROVE  Told
<1>. DEFINE t == exec[e].task
            k == exec[e].attempt
<1>1. /\ \A u \in Task : /\ task'[u].status = task[u].status
                         /\ task'[u].attempts = task[u].attempts
  BY DEF RenewWrites, RowInv, RowType, TaskRow
<1>2. \A u \in Task, n \in Attempt : log'[u][n].status = log[u][n].status
  <2>. DEFINE row == [log[t][k] EXCEPT !.progress = exec[e].sent, !.complete = 0]
  <2>1. row.status = log[t][k].status /\ log' = [log EXCEPT ![t][k] = row]
    BY DEF RenewWrites, RowInv, RowType, LogRow
  <2>2. t \in Task /\ k \in Attempt
    OBVIOUS
  <2>. HIDE DEF row, t, k
  <2>. QED BY <2>1, <2>2 DEF RowInv, RowType
<1>3. RetriesLeft'
  BY <1>1 DEF RetriesLeft
<1>4. \A u \in Task : OutcomeOf(task[u])' = OutcomeOf(task[u])
  BY <1>1 DEF OutcomeOf
<1>. QED BY <1>2, <1>3, <1>4, ToldSame DEF Told

\* The running attempt n of t is decided, and t with it.
LEMMA DecisionTold ==
    ASSUME RowInv, RetriesLeft, NEW t \in Task, NEW n \in Attempt,
           task[t].status = "running", task[t].attempts = n, NEW row, NEW entry,
           task' = [task EXCEPT ![t] = row], log' = [log EXCEPT ![t][n] = entry],
           row.attempts = n,
           <<entry.status, row.status>> \in {<<"succeeded", "succeeded">>,
                <<"failed", "retry_wait">>, <<"failed", "failed">>},
           row.status = "failed" => n = MaxAttempts,
           row.status = "retry_wait" => n < MaxAttempts
    PROVE  Told
<1>1. task'[t] = row /\ \A u \in Task \ {t} : task'[u] = task[u]
  BY DEF RowInv, RowType
<1>2. /\ log'[t][n] = entry
      /\ \A u \in Task, m \in Attempt : ~(u = t /\ m = n) => log'[u][m] = log[u][m]
  BY DEF RowInv, RowType
<1>3. RetriesLeft' /\ OthersSame(t)
  BY <1>1, <1>2 DEF RetriesLeft, OthersSame
<1>4. SettledBy(t, entry.status)
  BY <1>2 DEF SettledBy, RowInv, RunningLogHoldsLease
<1>5. Promise!Next
  BY <1>1, <1>3, <1>4, ToldDecide
<1>. QED BY <1>3, <1>5 DEF Told

LEMMA EndTold ==
    ASSUME RowInv, RetriesLeft, NEW e \in Executor, exec[e].task \in Task,
           exec[e].attempt \in Attempt, exec[e].token = exec[e].attempt,
           HoldsLease(e), CompleteWrites(e) \/ FailWrites(e)
    PROVE  Told
<1>. USE AttemptFacts
<1>. DEFINE t == exec[e].task
            n == exec[e].attempt
<1>1. /\ t \in Task /\ n \in Attempt /\ task[t].status = "running" /\ task[t].attempts = n
      /\ task[t] \in TaskRow /\ log[t][n] \in LogRow
  BY HolderIsLast DEF RowInv, RowType
<1>2. CASE CompleteWrites(e)
  <2>. DEFINE row == [task[t] EXCEPT !.status = "succeeded", !.owner = 0, !.live = FALSE]
              entry == [log[t][n] EXCEPT !.status = "succeeded", !.progress = exec[e].sent,
                                         !.complete = 1]
  <2>1. task' = [task EXCEPT ![t] = row] /\ log' = [log EXCEPT ![t][n] = entry]
    BY <1>2 DEF CompleteWrites
  <2>2. row.status = "succeeded" /\ row.attempts = n /\ entry.status = "succeeded"
    BY <1>1 DEF TaskRow, LogRow
  <2>. HIDE DEF row, entry, t, n
  <2>. QED BY <1>1, <2>1, <2>2, DecisionTold
<1>3. CASE FailWrites(e)
  <2>. DEFINE row == [task[t] EXCEPT !.status = FailureStatus(n), !.owner = 0,
                                     !.live = FALSE, !.due = FALSE]
              entry == [log[t][n] EXCEPT !.status = "failed", !.error = exec[e].error,
                                         !.complete = 0]
  <2>1. task' = [task EXCEPT ![t] = row] /\ log' = [log EXCEPT ![t][n] = entry]
    BY <1>3 DEF FailWrites
  <2>2. row.status = FailureStatus(n) /\ row.attempts = n /\ entry.status = "failed"
    BY <1>1 DEF TaskRow, LogRow
  <2>. HIDE DEF row, entry, t, n
  <2>3. /\ FailureStatus(n) \in {"failed", "retry_wait"}
        /\ FailureStatus(n) = "failed" => n = MaxAttempts
        /\ FailureStatus(n) = "retry_wait" => n < MaxAttempts
    BY <1>1 DEF FailureStatus
  <2>. QED BY <1>1, <2>1, <2>2, <2>3, DecisionTold
<1>. QED BY <1>2, <1>3

LEMMA SameTold ==
    ASSUME RetriesLeft, UNCHANGED <<task, log>>
    PROVE  Told
<1>1. RetriesLeft' /\ \A u \in Task : OutcomeOf(task[u])' = OutcomeOf(task[u])
  BY DEF RetriesLeft, OutcomeOf
<1>. QED BY <1>1, ToldSame DEF Told

LEMMA ExecuteTold ==
    ASSUME IInv, RetriesLeft, NEW e \in Executor, Execute(e)
    PROVE  Told
<1>1. CASE ClaimExhausted(e)
  BY <1>1, ExhaustTold DEF ClaimExhausted, IInv, ExecInv
<1>2. CASE Claim(e)
  BY <1>2, ClaimTold DEF Claim, IInv, ExecInv
<1>3. CASE exec[e].pc \in Working /\ RenewWrites(e)
  BY <1>3, Knows, RenewTold DEF IInv
<1>4. CASE exec[e].pc \in Working /\ HoldsLease(e) /\ (CompleteWrites(e) \/ FailWrites(e))
  BY <1>4, Knows, EndTold DEF IInv
<1>5. CASE UNCHANGED <<task, log>>
  BY <1>5, SameTold
<1>6. \/ UNCHANGED <<task, log>> \/ ClaimExhausted(e) \/ Claim(e)
      \/ exec[e].pc \in Working /\ RenewWrites(e)
      \/ exec[e].pc \in Working /\ HoldsLease(e) /\ (CompleteWrites(e) \/ FailWrites(e))
  BY DEF Execute, ClaimRefused, LoadCatalog, LoadCatalogFails, Renew, RenewRefused, RenewFails, Send,
         Complete, CompleteRefused, CompleteFails, Fail, FailRefused, Working
<1>. QED BY <1>1, <1>2, <1>3, <1>4, <1>5, <1>6

LEMMA NextTold ==
    ASSUME IInv, RetriesLeft, [Next]_vars
    PROVE  Told
<1>0. task \in [Task -> TaskRow]
  BY DEF IInv, TypeOK
<1>1. ASSUME NEW t \in Task, InsertTask(t), UNCHANGED log PROVE Told
  <2>1. /\ task[t].status = "absent" /\ task'[t].status = "pending"
        /\ \A u \in Task \ {t} : task'[u] = task[u]
    BY <1>0, <1>1 DEF InsertTask, NewTask
  <2>2. OthersSame(t) /\ RetriesLeft'
    BY <1>1, <2>1 DEF OthersSame, RetriesLeft
  <2>. QED BY <1>1, <2>1, <2>2, ToldSubmit DEF Told
<1>2. ASSUME NEW t \in Task, LeaseExpires(t) \/ RetryBecomesDue(t) PROVE Told
  <2>1. /\ \A u \in Task : /\ task'[u].status = task[u].status
                           /\ task'[u].attempts = task[u].attempts
        /\ UNCHANGED log
    <3>1. CASE LeaseExpires(t)
      BY <1>0, <3>1 DEF LeaseExpires, TaskRow
    <3>2. CASE RetryBecomesDue(t)
      BY <1>0, <3>2 DEF RetryBecomesDue, TaskRow
    <3>. QED BY <1>2, <3>1, <3>2
  <2>2. RetriesLeft' /\ \A u \in Task : OutcomeOf(task[u])' = OutcomeOf(task[u])
    BY <2>1 DEF RetriesLeft, OutcomeOf
  <2>. QED BY <2>1, <2>2, ToldSame DEF Told
<1>3. CASE UNCHANGED <<task, log>>
  BY <1>3, SameTold
<1>4. \/ UNCHANGED <<task, log>>
      \/ \E t \in Task : InsertTask(t) /\ UNCHANGED log
      \/ \E t \in Task : LeaseExpires(t) \/ RetryBecomesDue(t)
      \/ \E e \in Executor : Execute(e)
  BY DEF Next, Publish, MutatePolicy, Recover, RecoverBegin, RecoverNext, RecoverEnd, Restart, vars
<1>. QED BY <1>1, <1>2, <1>3, <1>4, ExecuteTold

\* The rows of tasks and attempts implement TaskOutcome: whatever crashes, lost answers
\* and takeovers happen, a reader sees a task submitted once, tried one attempt at a
\* time and at most MaxAttempts times, and each attempt given one verdict.
THEOREM OutcomeRefinement == Spec => ImplementsTaskOutcome
<1>1. Init => Promise!Init /\ RetriesLeft
  <2>. SUFFICES ASSUME Init PROVE Promise!Init /\ RetriesLeft
    OBVIOUS
  <2>1. \A t \in Task : OutcomeOf(task[t]) = "absent" /\ task[t].status = "absent"
    BY DEF Init, NoTask, OutcomeOf
  <2>2. \A t \in Task, n \in Attempt : log[t][n].status = "none"
    BY DEF Init, NoLog
  <2>3. RetriesLeft
    BY <2>1 DEF RetriesLeft
  <2>. QED BY <2>1, <2>2, <2>3 DEF Promise!Init, Attempt
<1>2. IInv /\ RetriesLeft /\ [Next]_vars
         => RetriesLeft' /\ [Promise!Next]_(Promise!outcomeVars)
  BY NextTold DEF Told
<1>. QED BY <1>1, <1>2, Invariant, PTL DEF Spec, Promise!Spec, ImplementsTaskOutcome
=============================================================================
