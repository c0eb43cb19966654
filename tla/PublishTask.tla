---------------------------- MODULE PublishTask ----------------------------
(***************************************************************************)
(* The publish task worker of one application: tasks and their execution   *)
(* log in MySQL, the executions a process runs over them (the recovery     *)
(* loop and those started inside a management request), the lease and the  *)
(* token that fence them, lost database answers, and crashes.              *)
(*                                                                         *)
(* Every transaction locks the rows it decides on before it writes them:   *)
(* the application row and then the task row, or, where an attempt records *)
(* its failure, the task row alone.  So a transaction is one action.  Time *)
(* is abstract: a lease is live or has expired, a retry is due or is not.  *)
(***************************************************************************)
EXTENDS Naturals, FiniteSets

CONSTANTS
    Task,           \* publish tasks that may be inserted
    Inline,         \* executions management requests can have in progress
    Recovery,       \* the execution of the recovery loop
    None,           \* the task of an idle execution
    MaxAttempts,    \* max_attempts of a task
    BatchSize,      \* tasks one recovery pass takes
    MaxChunks,      \* bound: chunks of subscribers one execution sends
    MaxFaults       \* bound: crashes and lost or failed database calls

ASSUME AttemptsAssumption == MaxAttempts \in Nat \ {0}
ASSUME BoundsAssumption == BatchSize \in Nat \ {0} /\ MaxChunks \in Nat \ {0} /\ MaxFaults \in Nat
ASSUME ExecutorAssumption == Recovery \notin Inline
ASSUME NoneAssumption == None \notin Task

VARIABLES
    revision,       \* catalog_revision of the application row
    task,           \* the publish_task rows
    log,            \* the publish_task_log rows, UNIQUE (task_id, attempt_no)
    workerId,       \* the running process: a restart takes a new worker id
    exec,           \* executions in progress, in memory
    batch,          \* tasks the recovery pass still has to execute
    recovering,     \* recoveringTasks
    late,           \* history: chunks an execution sent after it was superseded
    faults          \* faults so far

vars == <<revision, task, log, workerId, exec, batch, recovering, late, faults>>

-----------------------------------------------------------------------------
Executor == Inline \cup {Recovery}
Attempt == 1..MaxAttempts
TaskStatus == {"absent", "pending", "running", "retry_wait", "succeeded", "failed"}
LogStatus == {"none", "running", "succeeded", "failed", "lease_expired"}
ErrorCode == {"none", "catalog_revision_changed", "lease_lost", "emit_failed", "dispatch_failed"}

\* requested: requested_revision, which also orders the rows by created_at;
\* live: lease_until > now; due: next_run_at <= now.
TaskRow == [status : TaskStatus, requested : Nat, attempts : Nat, token : Nat, owner : Nat,
            live : BOOLEAN, due : BOOLEAN]
\* progress: the chunks the last committed checkpoint counts.
LogRow == [status : LogStatus, token : Nat, worker : Nat, revision : Nat,
           progress : Nat, complete : {0, 1}, error : ErrorCode]

Pc == {"idle", "claiming", "loading", "checking", "sending", "completing", "failing"}
Execution == [pc : Pc, task : Task \cup {None}, attempt : Nat, token : Nat, revision : Nat,
              sent : Nat, emitErrors : BOOLEAN, error : ErrorCode]

NoTask == [status |-> "absent", requested |-> 0, attempts |-> 0, token |-> 0, owner |-> 0,
           live |-> FALSE, due |-> FALSE]
NoLog == [status |-> "none", token |-> 0, worker |-> 0, revision |-> 0,
          progress |-> 0, complete |-> 0, error |-> "none"]
Idle == [pc |-> "idle", task |-> None, attempt |-> 0, token |-> 0,
         revision |-> 0, sent |-> 0, emitErrors |-> FALSE, error |-> "none"]
Starting(t) == [Idle EXCEPT !.pc = "claiming", !.task = t]

Init ==
    /\ revision = 0
    /\ task = [t \in Task |-> NoTask]
    /\ log = [t \in Task |-> [n \in Attempt |-> NoLog]]
    /\ workerId = 1
    /\ exec = [e \in Executor |-> Idle]
    /\ batch = {}
    /\ recovering = FALSE
    /\ late = [e \in Executor |-> 0]
    /\ faults = 0

-----------------------------------------------------------------------------
(* Management transactions that insert a task.                             *)

NewTask(requested) ==
    [status |-> "pending", requested |-> requested, attempts |-> 0, token |-> 0, owner |-> 0,
     live |-> FALSE, due |-> TRUE]

\* insertPublishTask, with the catalog revision bumped in the same transaction.
InsertTask(t) ==
    /\ task[t].status = "absent"
    /\ revision' = revision + 1
    /\ task' = [task EXCEPT ![t] = NewTask(revision + 1)]

\* publish leaves the new task to the recovery loop.
Publish(t) ==
    /\ InsertTask(t)
    /\ UNCHANGED <<log, workerId, exec, batch, recovering, late, faults>>

\* A policy change executes its task inside the request, after the commit.
MutatePolicy(e, t) ==
    /\ exec[e].pc = "idle"
    /\ InsertTask(t)
    /\ exec' = [exec EXCEPT ![e] = Starting(t)]
    /\ UNCHANGED <<log, workerId, batch, recovering, late, faults>>

-----------------------------------------------------------------------------
(* recoverTasks: one pass at a time, over a snapshot of the due tasks.     *)

\* Mutant: a running task is never taken over.
NoTakeover(t) == task[t].status \in {"pending", "retry_wait"} /\ task[t].due

canClaimPublishTask(t) ==
    \/ task[t].status \in {"pending", "retry_wait"} /\ task[t].due
    \/ task[t].status = "running" /\ ~task[t].live

DueTasks == {t \in Task : canClaimPublishTask(t)}

Older(t, S) == {u \in S : task[u].requested < task[t].requested}

\* .orderBy(created_at).take(10): the oldest due tasks, at most BatchSize of them.
RecoverBegin ==
    /\ ~recovering
    /\ DueTasks # {}
    /\ batch' = {t \in DueTasks : Cardinality(Older(t, DueTasks)) < BatchSize}
    /\ recovering' = TRUE
    /\ UNCHANGED <<revision, task, log, workerId, exec, late, faults>>

\* The loop executes its batch one task at a time, oldest first.
RecoverNext ==
    /\ recovering
    /\ exec[Recovery].pc = "idle"
    /\ \E t \in batch :
          /\ Older(t, batch) = {}
          /\ exec' = [exec EXCEPT ![Recovery] = Starting(t)]
          /\ batch' = batch \ {t}
    /\ UNCHANGED <<revision, task, log, workerId, recovering, late, faults>>

\* Mutant: the pass goes on waiting while any task is due.
RecoverUntilNoneDue ==
    /\ recovering /\ batch = {} /\ DueTasks = {}
    /\ exec[Recovery].pc = "idle"
    /\ recovering' = FALSE
    /\ UNCHANGED <<revision, task, log, workerId, exec, batch, late, faults>>

RecoverEnd ==
    /\ recovering /\ batch = {}
    /\ exec[Recovery].pc = "idle"
    /\ recovering' = FALSE
    /\ UNCHANGED <<revision, task, log, workerId, exec, batch, late, faults>>

-----------------------------------------------------------------------------
(* execute, one action per transaction or per step between two awaits.     *)

Return(e) ==
    /\ exec' = [exec EXCEPT ![e] = Idle]
    /\ late' = [late EXCEPT ![e] = 0]

\* execute rejects: a recovery pass is abandoned with the rest of its batch.
Throw(e) ==
    /\ Return(e)
    /\ batch' = IF e = Recovery THEN {} ELSE batch

\* execute returns, or its last database call was lost and it rejects.
ReturnOrThrow(e) ==
    \/ Return(e) /\ UNCHANGED <<batch, faults>>
    \/ faults < MaxFaults /\ faults' = faults + 1 /\ Throw(e)

Goto(e, pc) == exec' = [exec EXCEPT ![e].pc = pc]

\* The error path begins with the code it will record.
Catch(e, code) == exec' = [exec EXCEPT ![e].pc = "failing", ![e].error = code]

\* The logs of t once the attempts still running are marked as expired.
ExpireLogs(t) ==
    [n \in Attempt |->
        IF log[t][n].status = "running"
        THEN [log[t][n] EXCEPT !.status = "lease_expired", !.complete = 0]
        ELSE log[t][n]]

LogsAtClaim(t) == IF task[t].status = "running" THEN ExpireLogs(t) ELSE log[t]

\* claimTask finds nothing to claim, or fails and is rolled back.
ClaimRefused(e) ==
    /\ exec[e].pc = "claiming"
    /\ \/ ~canClaimPublishTask(exec[e].task) /\ ReturnOrThrow(e)
       \/ faults < MaxFaults /\ faults' = faults + 1 /\ Throw(e)
    /\ UNCHANGED <<revision, task, log, workerId, recovering>>

\* Mutant: the task fails but its last attempt stays open.
ExhaustTaskOnly(t) ==
    /\ task' = [task EXCEPT ![t] = [task[t] EXCEPT !.status = "failed"]]
    /\ UNCHANGED log

ExhaustWrites(t) ==
    /\ task' = [task EXCEPT ![t] = [task[t] EXCEPT !.status = "failed"]]
    /\ log' = [log EXCEPT ![t] = LogsAtClaim(t)]

\* claimTask on a task whose last attempt lost its lease: the task fails.
ClaimExhausted(e) ==
    LET t == exec[e].task IN
    /\ exec[e].pc = "claiming"
    /\ canClaimPublishTask(t)
    /\ task[t].attempts + 1 > MaxAttempts
    /\ ExhaustWrites(t)
    /\ ReturnOrThrow(e)
    /\ UNCHANGED <<revision, workerId, recovering>>

\* What claimTask writes: the attempt, the fencing token, a new log row.
ClaimWrites(t) ==
    LET n == task[t].attempts + 1 IN
    /\ task' = [task EXCEPT ![t] =
                    [task[t] EXCEPT !.status = "running", !.attempts = n, !.live = TRUE,
                                    !.token = task[t].token + 1, !.owner = workerId]]
    /\ log' = [log EXCEPT ![t] = [LogsAtClaim(t) EXCEPT ![n] =
                    [NoLog EXCEPT !.status = "running", !.token = task[t].token + 1,
                                  !.worker = workerId, !.revision = revision]]]

Claim(e) ==
    LET t == exec[e].task IN
    /\ exec[e].pc = "claiming"
    /\ canClaimPublishTask(t)
    /\ task[t].attempts + 1 <= MaxAttempts
    /\ ClaimWrites(t)
    /\ \/ /\ exec' = [exec EXCEPT ![e] = [Starting(t) EXCEPT
                            !.pc = "loading", !.attempt = task[t].attempts + 1,
                            !.token = task[t].token + 1, !.revision = revision]]
          /\ UNCHANGED <<batch, late, faults>>
       \/ \* The commit is applied but its answer is lost: nobody runs the attempt.
          /\ faults < MaxFaults /\ faults' = faults + 1
          /\ Throw(e)
    /\ UNCHANGED <<revision, workerId, recovering>>

\* dispatchApplicationUpdate loads the catalog afresh and compares revisions.
LoadCatalog(e) ==
    /\ exec[e].pc = "loading"
    /\ IF revision = exec[e].revision THEN Goto(e, "checking")
                                      ELSE Catch(e, "catalog_revision_changed")
    /\ UNCHANGED <<revision, task, log, workerId, batch, recovering, late, faults>>

\* Loading fails: an error message that contains "lease", as every message
\* that says "release" does, is classified as a lost lease.
LoadCatalogFails(e) ==
    /\ exec[e].pc = "loading"
    /\ faults < MaxFaults /\ faults' = faults + 1
    /\ \E code \in {"dispatch_failed", "lease_lost"} : Catch(e, code)
    /\ UNCHANGED <<revision, task, log, workerId, batch, recovering, late>>

\* requireLiveLease, and the same conditions of the UPDATE statements.
HoldsLease(e) ==
    LET row == task[exec[e].task] IN
    /\ row.status = "running" /\ row.token = exec[e].token
    /\ row.owner = workerId /\ row.live

\* The conditions on the log row of an UPDATE; unmet, the transaction rolls back.
HoldsLog(e) ==
    LET row == log[exec[e].task][exec[e].attempt] IN
    row.status = "running" /\ row.token = exec[e].token /\ row.worker = workerId

RequireError(e) == IF revision # exec[e].revision THEN "catalog_revision_changed" ELSE "lease_lost"

\* Mutant: the renewal writes the lease without the checkpoint.
RenewLeaseOnly(e) ==
    /\ task' = [task EXCEPT ![exec[e].task] = [task[exec[e].task] EXCEPT !.live = TRUE]]
    /\ UNCHANGED log

\* The lease and the checkpoint are written in one transaction.
RenewWrites(e) ==
    LET x == exec[e] IN
    /\ task' = [task EXCEPT ![x.task] = [task[x.task] EXCEPT !.live = TRUE]]
    /\ log' = [log EXCEPT ![x.task][x.attempt] =
                    [log[x.task][x.attempt] EXCEPT !.progress = x.sent, !.complete = 0]]

\* renewTaskLease succeeds: before the first chunk, between chunks, after the last.
Renew(e) ==
    /\ exec[e].pc = "checking"
    /\ revision = exec[e].revision /\ HoldsLease(e) /\ HoldsLog(e)
    /\ RenewWrites(e)
    /\ \/ exec[e].sent < MaxChunks /\ Goto(e, "sending")
       \/ exec[e].sent > 0 /\ (IF exec[e].emitErrors THEN Catch(e, "emit_failed")
                                                     ELSE Goto(e, "completing"))
    /\ UNCHANGED <<revision, workerId, batch, recovering, late, faults>>

RenewRefused(e) ==
    /\ exec[e].pc = "checking"
    /\ ~(revision = exec[e].revision /\ HoldsLease(e) /\ HoldsLog(e))
    /\ Catch(e, RequireError(e))
    /\ UNCHANGED <<revision, task, log, workerId, batch, recovering, late, faults>>

\* The renewal fails, or is committed and its answer lost.
RenewFails(e) ==
    /\ exec[e].pc = "checking"
    /\ faults < MaxFaults /\ faults' = faults + 1
    /\ \/ UNCHANGED <<task, log>>
       \/ revision = exec[e].revision /\ HoldsLease(e) /\ HoldsLog(e) /\ RenewWrites(e)
    /\ Catch(e, "dispatch_failed")
    /\ UNCHANGED <<revision, workerId, batch, recovering, late>>

Superseded(e) ==
    /\ exec[e].pc \in {"loading", "checking", "sending", "completing", "failing"}
    /\ task[exec[e].task].token # exec[e].token

\* Mutant: the lease is checked once, not after every chunk.
SendAll(e) ==
    /\ exec[e].pc = "sending"
    /\ \E errors \in BOOLEAN :
          exec' = [exec EXCEPT ![e].pc = IF @ = "sending" /\ exec[e].sent + 1 < MaxChunks
                                         THEN "sending" ELSE "checking",
                               ![e].sent = @ + 1, ![e].emitErrors = @ \/ errors]
    /\ late' = IF Superseded(e) THEN [late EXCEPT ![e] = @ + 1] ELSE late
    /\ UNCHANGED <<revision, task, log, workerId, batch, recovering, faults>>

\* A chunk of at most 100 subscribers is sent without an await.
Send(e) ==
    /\ exec[e].pc = "sending"
    /\ \E errors \in BOOLEAN :
          exec' = [exec EXCEPT ![e].pc = "checking", ![e].sent = @ + 1,
                               ![e].emitErrors = @ \/ errors]
    /\ late' = IF Superseded(e) THEN [late EXCEPT ![e] = @ + 1] ELSE late
    /\ UNCHANGED <<revision, task, log, workerId, batch, recovering, faults>>

CompleteWrites(e) ==
    LET x == exec[e] IN
    /\ task' = [task EXCEPT ![x.task] =
                    [task[x.task] EXCEPT !.status = "succeeded", !.owner = 0, !.live = FALSE]]
    /\ log' = [log EXCEPT ![x.task][x.attempt] =
                    [log[x.task][x.attempt] EXCEPT !.status = "succeeded", !.progress = x.sent, !.complete = 1]]

\* The completion transaction commits.
Complete(e) ==
    /\ exec[e].pc = "completing"
    /\ revision = exec[e].revision /\ HoldsLease(e) /\ HoldsLog(e)
    /\ CompleteWrites(e)
    /\ ReturnOrThrow(e)
    /\ UNCHANGED <<revision, workerId, recovering>>

\* It throws in its own checks, or rolls back because the log row is not its own.
CompleteRefused(e) ==
    /\ exec[e].pc = "completing"
    /\ ~(revision = exec[e].revision /\ HoldsLease(e) /\ HoldsLog(e))
    /\ IF revision = exec[e].revision /\ HoldsLease(e) THEN Return(e)
       ELSE Catch(e, RequireError(e)) /\ UNCHANGED late
    /\ UNCHANGED <<revision, task, log, workerId, batch, recovering, faults>>

\* It fails and is rolled back: on a live connection the error path follows.
CompleteFails(e) ==
    /\ exec[e].pc = "completing"
    /\ faults < MaxFaults /\ faults' = faults + 1
    /\ \/ Catch(e, "dispatch_failed") /\ UNCHANGED <<batch, late>>
       \/ Throw(e)
    /\ UNCHANGED <<revision, task, log, workerId, recovering>>

\* publishTaskFailureTransition.
FailureStatus(attempt) == IF attempt >= MaxAttempts THEN "failed" ELSE "retry_wait"

FailWrites(e) ==
    LET x == exec[e] IN
    /\ task' = [task EXCEPT ![x.task] =
                    [task[x.task] EXCEPT !.status = FailureStatus(x.attempt), !.owner = 0,
                              !.live = FALSE, !.due = FALSE]]
    /\ log' = [log EXCEPT ![x.task][x.attempt] =
                    [log[x.task][x.attempt] EXCEPT !.status = "failed", !.error = x.error, !.complete = 0]]

\* Mutant: the failure is recorded without looking at the lease.
FailUnfenced(e) ==
    /\ exec[e].pc = "failing"
    /\ FailWrites(e)
    /\ ReturnOrThrow(e)
    /\ UNCHANGED <<revision, workerId, recovering>>

\* The error path records the failure while the lease is still its own.
Fail(e) ==
    /\ exec[e].pc = "failing"
    /\ HoldsLease(e) /\ HoldsLog(e)
    /\ FailWrites(e)
    /\ ReturnOrThrow(e)
    /\ UNCHANGED <<revision, workerId, recovering>>

\* The lease is gone (or the failure transaction fails): nothing is written.
FailRefused(e) ==
    /\ exec[e].pc = "failing"
    /\ \/ ~(HoldsLease(e) /\ HoldsLog(e)) /\ ReturnOrThrow(e)
       \/ faults < MaxFaults /\ faults' = faults + 1 /\ Throw(e)
    /\ UNCHANGED <<revision, task, log, workerId, recovering>>

-----------------------------------------------------------------------------
(* Time and crashes.                                                       *)

LeaseExpires(t) ==
    /\ task[t].status = "running" /\ task[t].live
    /\ task' = [task EXCEPT ![t] = [task[t] EXCEPT !.live = FALSE]]
    /\ UNCHANGED <<revision, log, workerId, exec, batch, recovering, late, faults>>

RetryBecomesDue(t) ==
    /\ task[t].status = "retry_wait" /\ ~task[t].due
    /\ task' = [task EXCEPT ![t] = [task[t] EXCEPT !.due = TRUE]]
    /\ UNCHANGED <<revision, log, workerId, exec, batch, recovering, late, faults>>

\* The process dies and is started again: its memory is gone, the rows are not.
Restart ==
    /\ faults < MaxFaults /\ faults' = faults + 1
    /\ workerId' = workerId + 1
    /\ exec' = [e \in Executor |-> Idle]
    /\ late' = [e \in Executor |-> 0]
    /\ batch' = {}
    /\ recovering' = FALSE
    /\ UNCHANGED <<revision, task, log>>

-----------------------------------------------------------------------------
Execute(e) ==
    \/ ClaimRefused(e) \/ ClaimExhausted(e) \/ Claim(e)
    \/ LoadCatalog(e) \/ LoadCatalogFails(e)
    \/ Renew(e) \/ RenewRefused(e) \/ RenewFails(e)
    \/ Send(e)
    \/ Complete(e) \/ CompleteRefused(e) \/ CompleteFails(e)
    \/ Fail(e) \/ FailRefused(e)

Recover == RecoverBegin \/ RecoverNext \/ RecoverEnd

Next ==
    \/ \E t \in Task : Publish(t) \/ LeaseExpires(t) \/ RetryBecomesDue(t)
    \/ \E e \in Inline, t \in Task : MutatePolicy(e, t)
    \/ Recover
    \/ \E e \in Executor : Execute(e)
    \/ Restart

\* The event loop runs every started step and the poll timer; time passes.
Fairness ==
    /\ WF_vars(Recover)
    /\ \A e \in Executor : WF_vars(Execute(e))
    /\ \A t \in Task : WF_vars(LeaseExpires(t)) /\ WF_vars(RetryBecomesDue(t))

Spec == Init /\ [][Next]_vars
FairSpec == Spec /\ Fairness

-----------------------------------------------------------------------------
(* Properties.                                                             *)

TypeOK ==
    /\ revision \in Nat
    /\ task \in [Task -> TaskRow]
    /\ log \in [Task -> [Attempt -> LogRow]]
    /\ workerId \in Nat \ {0}
    /\ exec \in [Executor -> Execution]
    /\ batch \in SUBSET Task
    /\ recovering \in BOOLEAN
    /\ late \in [Executor -> Nat]
    /\ faults \in Nat

\* The lease and the log agree: an attempt's log row is running exactly while
\* the task is running under that attempt's token, so at most one attempt of a
\* task is ever open and a takeover never leaves a second one behind.
RunningLogHoldsLease ==
    \A t \in Task, n \in Attempt :
        log[t][n].status = "running" <=> task[t].status = "running" /\ task[t].attempts = n

\* attempt_count tells the log rows that exist, the token fences with the same
\* number, and the attempts before the last one all failed or lost their lease.
AttemptsMatchLog ==
    \A t \in Task :
        /\ task[t].attempts <= MaxAttempts
        /\ task[t].token = task[t].attempts
        /\ \A n \in Attempt :
              /\ log[t][n].status # "none" <=> n <= task[t].attempts
              /\ log[t][n].status # "none" => log[t][n].token = n
              /\ n < task[t].attempts => log[t][n].status \in {"failed", "lease_expired"}

\* A task succeeded exactly when its last attempt did, metrics_complete is set
\* on that attempt and on no other.
SucceededOnce ==
    \A t \in Task, n \in Attempt :
        /\ log[t][n].complete = 1 <=> log[t][n].status = "succeeded"
        /\ log[t][n].status = "succeeded" <=> task[t].status = "succeeded" /\ n = task[t].attempts

\* A task fails for good only after its last permitted attempt: no error, crash
\* or expired lease gives one up early.
FailedOnlyExhausted ==
    \A t \in Task : task[t].status = "failed" => task[t].attempts = MaxAttempts

\* An execution that lost its lease to a takeover sends at most the one chunk
\* its last successful check had already released.
LateSendsBounded == \A e \in Executor : late[e] <= 1

\* While an attempt is current its last committed checkpoint is behind what was
\* sent by at most one chunk.
CheckpointWithinChunk ==
    \A e \in Executor :
        LET x == exec[e] IN
        /\ x.pc \in {"loading", "checking", "sending", "completing"}
        /\ HoldsLease(e)
        => log[x.task][x.attempt].progress \in {x.sent, x.sent - 1}

\* No step of a superseded execution touches any task or log row.
SupersededWritesNothing ==
    [][\A e \in Executor :
          Superseded(e) /\ exec'[e] # exec[e] => UNCHANGED <<task, log>>]_vars

\* A finished task and the verdicts of its attempts are never rewritten, by a
\* late worker, a stale recovery batch or a repeated execute.
VerdictsAreFinal ==
    [][\A t \in Task :
          /\ task[t].status \in {"succeeded", "failed"} => task'[t] = task[t]
          /\ \A n \in Attempt :
                log[t][n].status \in {"succeeded", "failed", "lease_expired"}
                    => log'[t][n] = log[t][n]]_vars

\* A task succeeds only at the catalog revision its attempt was claimed at, and
\* the counters written with the success are those of everything it sent.
SuccessIsCurrent ==
    [][\A t \in Task, n \in Attempt :
          log[t][n].status # "succeeded" /\ log'[t][n].status = "succeeded"
          => /\ log[t][n].revision = revision
             /\ \E e \in Executor : /\ exec[e].task = t /\ exec[e].attempt = n
                                    /\ ~exec[e].emitErrors
                                    /\ log'[t][n].progress = exec[e].sent]_vars

\* The counters of a log row never go back: an attempt that fails or loses its
\* lease keeps its last committed checkpoint, and a late checkpoint of an earlier
\* attempt cannot lower those of its successor.
CheckpointSurvives ==
    [][\A t \in Task, n \in Attempt : log'[t][n].progress >= log[t][n].progress]_vars

\* An attempt whose recorded error is a lost lease had lost it: the code the
\* execution log shows ('Publish task lease was lost').
LeaseLostMeansLost ==
    [][\A t \in Task, n \in Attempt :
          log'[t][n].error = "lease_lost" /\ log[t][n].error # "lease_lost"
          => ~task[t].live]_vars

\* Every inserted task is eventually decided, whatever crashes, expired leases
\* and lost answers happen on the way (finitely often).
EventuallyFinished ==
    \A t \in Task : task[t].status = "pending" ~> task[t].status \in {"succeeded", "failed"}

\* A recovery pass always ends: the guard flag never blocks recovery for good.
RecoveryPassEnds == recovering ~> ~recovering

-----------------------------------------------------------------------------
(* The rows implement the promise of TaskOutcome.                          *)

OutcomeOf(row) ==
    IF row.status \in {"pending", "running", "retry_wait"} THEN "open" ELSE row.status

Promise == INSTANCE TaskOutcome WITH
    outcome <- [t \in Task |-> OutcomeOf(task[t])],
    verdict <- [t \in Task |-> [n \in Attempt |-> log[t][n].status]]

\* Every step on the rows is a step of the promise or changes nothing it tells.
ImplementsTaskOutcome == Promise!Spec
=============================================================================
