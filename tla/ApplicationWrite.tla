-------------------------- MODULE ApplicationWrite --------------------------
(***************************************************************************)
(* Writing to one application's tables: the named lock that management     *)
(* requests share with the preparation of the application, the transaction *)
(* whose outcome each request tracks, the failure audit that only follows  *)
(* a confirmed rollback, and the preparation that creates the tables.      *)
(*                                                                         *)
(* A session holds its named lock and its transaction: when its connection *)
(* dies the server releases both, and the client learns of it at its next  *)
(* call.  The table prefix of a row never changes and the schema version   *)
(* is 1 from the first time a row is ready, so status stands for all three.*)
(***************************************************************************)
EXTENDS Naturals, FiniteSets

CONSTANTS
    Operation,          \* audited management requests, one operation_id each
    Preparation,        \* the session that prepares the application
    Nobody,             \* the lock is free
    MaxPreparations,    \* bound: runs of prepare
    MaxFaults           \* bound: lost connections, failed or lost statements

ASSUME SessionAssumption == Preparation \notin Operation /\ Nobody \notin Operation \cup {Preparation}

VARIABLES
    lock,               \* the session that holds applicationPreparationLock
    status,             \* status of the ota_applications row
    tables,             \* all tables of the application exist
    committed,          \* operations whose change and success audit are committed
    auditFailed,        \* operations with a result = failed audit row
    op,                 \* the request of each operation
    prep,               \* step of prepare
    globalAudit,        \* result of each prepare, per run
    preparations,       \* runs of prepare so far
    alive,              \* sessions whose connection is up
    faults              \* faults so far

rows == <<status, tables, committed, auditFailed, globalAudit>>
vars == <<lock, rows, op, prep, preparations, alive, faults>>

-----------------------------------------------------------------------------
Session == Operation \cup {Preparation}
Status == {"absent", "preparing", "ready", "failed"}
Outcome == {"not_started", "writing", "committing", "committed", "rolled_back", "unknown"}
Pc == {"idle", "locking", "starting", "checking", "writing", "committing", "catching",
       "releasing", "ok", "error"}
\* phase: the business write, or the failure audit in a transaction of its own;
\* thrown: there is a failure to rethrow.
Request == [pc : Pc, phase : {"write", "audit"}, outcome : Outcome,
            attempted : BOOLEAN, thrown : BOOLEAN]
PrepPc == {"idle", "locking", "reading", "ddl", "finishing", "failing", "releasing"}

NewRequest == [pc |-> "idle", phase |-> "write", outcome |-> "not_started",
               attempted |-> FALSE, thrown |-> FALSE]

Init ==
    /\ lock = Nobody
    /\ status = "absent"
    /\ tables = FALSE
    /\ committed = {} /\ auditFailed = {}
    /\ op = [w \in Operation |-> NewRequest]
    /\ prep = "idle"
    /\ globalAudit = {}
    /\ preparations = 0
    /\ alive = {}
    /\ faults = 0

Fault == faults < MaxFaults /\ faults' = faults + 1

Step(w, pc, outcome) == op' = [op EXCEPT ![w].pc = pc, ![w].outcome = outcome]

\* A statement of w throws.
Throws(w, pc) == op' = [op EXCEPT ![w].pc = pc, ![w].thrown = TRUE]

-----------------------------------------------------------------------------
(* withApplicationWrite.                                                   *)

\* requireReady has accepted the application; a connection is taken.
Begin(w) ==
    /\ op[w].pc = "idle" /\ status = "ready"
    /\ op' = [op EXCEPT ![w].pc = "locking"]
    /\ alive' = alive \cup {w}
    /\ UNCHANGED <<lock, rows, prep, preparations, faults>>

\* Mutant: the lock is not waited for.
LockShared(w) ==
    /\ op[w].pc = "locking" /\ w \in alive
    /\ lock' = w
    /\ Step(w, "starting", "unknown")
    /\ UNCHANGED <<rows, prep, preparations, alive, faults>>

Lock(w) ==
    /\ op[w].pc = "locking" /\ w \in alive /\ lock = Nobody
    /\ lock' = w
    /\ Step(w, "starting", "unknown")
    /\ UNCHANGED <<rows, prep, preparations, alive, faults>>

\* GET_LOCK times out after 30 s, or there is no connection.
LockBusy(w) ==
    /\ op[w].pc = "locking"
    /\ w \notin alive \/ lock # Nobody
    /\ Throws(w, "releasing")
    /\ UNCHANGED <<lock, rows, prep, preparations, alive, faults>>

StartTransaction(w) ==
    /\ op[w].pc = "starting" /\ w \in alive
    /\ Step(w, "checking", "writing")
    /\ UNCHANGED <<lock, rows, prep, preparations, alive, faults>>

\* Mutant: the status read by requireReady is trusted.
CheckSkipped(w) ==
    /\ op[w].pc = "checking" /\ w \in alive
    /\ Step(w, "writing", "writing")
    /\ UNCHANGED <<lock, rows, prep, preparations, alive, faults>>

\* SELECT ... FOR UPDATE: the application must still be ready.
CheckReady(w) ==
    /\ op[w].pc = "checking" /\ w \in alive
    /\ IF status = "ready" THEN Step(w, "writing", "writing") ELSE Throws(w, "catching")
    /\ UNCHANGED <<lock, rows, prep, preparations, alive, faults>>

\* write(runner) has run; COMMIT is about to be sent.
Write(w) ==
    /\ op[w].pc = "writing" /\ w \in alive
    /\ op' = [op EXCEPT ![w].pc = "committing", ![w].outcome = "committing",
                        ![w].attempted = TRUE]
    /\ UNCHANGED <<lock, rows, prep, preparations, alive, faults>>

\* It throws, for a business reason or because a statement failed.
WriteThrows(w) ==
    /\ op[w].pc = "writing"
    /\ Throws(w, "catching")
    /\ UNCHANGED <<lock, rows, prep, preparations, alive, faults>>

\* What a commit of w makes durable in its phase.
Applied(w) ==
    IF op[w].phase = "write"
    THEN committed' = committed \cup {w} /\ UNCHANGED auditFailed
    ELSE auditFailed' = auditFailed \cup {w} /\ UNCHANGED committed

Commit(w) ==
    /\ op[w].pc = "committing" /\ w \in alive
    /\ Applied(w)
    /\ Step(w, "releasing", "committed")
    /\ UNCHANGED <<lock, status, tables, globalAudit, prep, preparations, alive, faults>>

\* COMMIT is refused, or it is applied and the acknowledgement is lost.
CommitFails(w) ==
    /\ op[w].pc = "committing" /\ w \in alive
    /\ Fault
    /\ Applied(w) \/ UNCHANGED <<committed, auditFailed>>
    /\ Throws(w, "catching")
    /\ \E up \in SUBSET {w} : alive' = (alive \ {w}) \cup up
    /\ lock' = IF w \notin alive' /\ lock = w THEN Nobody ELSE lock
    /\ UNCHANGED <<status, tables, globalAudit, prep, preparations>>

\* A statement finds the connection gone.
Unreachable(w) ==
    /\ op[w].pc \in {"starting", "checking", "writing", "committing"} /\ w \notin alive
    /\ Throws(w, "catching")
    /\ UNCHANGED <<lock, rows, prep, preparations, alive, faults>>

\* Mutant: a rollback that succeeds counts as one even after COMMIT was sent.
OutcomeOfRollback(w) == "rolled_back"

\* A lost COMMIT acknowledgement cannot be resolved by a later ROLLBACK.
OutcomeAfterRollback(w) == IF op[w].attempted THEN "unknown" ELSE "rolled_back"

Rollback(w) ==
    /\ op[w].pc = "catching" /\ w \in alive
    /\ Step(w, "releasing", OutcomeAfterRollback(w))
    /\ UNCHANGED <<lock, rows, prep, preparations, alive, faults>>

RollbackFails(w) ==
    /\ op[w].pc = "catching" /\ w \notin alive
    /\ Step(w, "releasing", "unknown")
    /\ UNCHANGED <<lock, rows, prep, preparations, alive, faults>>

-----------------------------------------------------------------------------
(* The end of withApplicationWrite and withAuditedApplicationWrite's catch. *)

\* RELEASE_LOCK throws when the connection is gone.
Thrown(w) == op[w].thrown \/ w \notin alive

\* A failure row follows only an outcome that is certainly not a commit.
AuditsFailure(w) == op[w].phase = "write" /\ op[w].outcome \in {"not_started", "rolled_back"}

\* Mutant: the lock is left to the session when the write failed.
UnlockedOnSuccess(x) ==
    IF lock = x /\ (x \in Operation => ~op[x].thrown) THEN Nobody ELSE lock

\* The lock without session x.
Unlocked(x) == IF lock = x THEN Nobody ELSE lock

\* RELEASE_LOCK and the release of the connection; then the answer, or the
\* failure audit on a new connection.
Release(w) ==
    /\ op[w].pc = "releasing"
    /\ lock' = Unlocked(w)
    /\ \/ /\ ~Thrown(w)
          /\ op' = [op EXCEPT ![w].pc = IF op[w].phase = "write" THEN "ok" ELSE "error"]
          /\ alive' = alive \ {w}
       \/ /\ Thrown(w) /\ AuditsFailure(w)
          /\ op' = [op EXCEPT ![w] = [NewRequest EXCEPT !.pc = "locking", !.phase = "audit"]]
          /\ alive' = alive \cup {w}
       \/ /\ Thrown(w) /\ ~AuditsFailure(w)
          /\ op' = [op EXCEPT ![w].pc = "error"]
          /\ alive' = alive \ {w}
    /\ UNCHANGED <<rows, prep, preparations, faults>>

-----------------------------------------------------------------------------
(* prepare, a command of the operations CLI.                               *)

PrepareBegin ==
    /\ prep = "idle" /\ preparations < MaxPreparations
    /\ preparations' = preparations + 1
    /\ prep' = "locking"
    /\ alive' = alive \cup {Preparation}
    /\ UNCHANGED <<lock, rows, op, faults>>

PrepareLocks ==
    /\ prep = "locking" /\ Preparation \in alive /\ lock = Nobody
    /\ lock' = Preparation
    /\ prep' = "reading"
    /\ UNCHANGED <<rows, op, preparations, alive, faults>>

PrepareBusy ==
    /\ prep = "locking"
    /\ lock # Nobody \/ Preparation \notin alive
    /\ prep' = "releasing"
    /\ UNCHANGED <<lock, rows, op, preparations, alive, faults>>

\* What the first transaction finds and does; a ready application is done.
ReadRow ==
    /\ status' = IF status = "absent" THEN "preparing" ELSE status
    /\ prep' = IF status = "ready" THEN "releasing" ELSE "ddl"

PrepareReads ==
    /\ prep = "reading" /\ Preparation \in alive
    /\ ReadRow
    /\ UNCHANGED <<lock, tables, committed, auditFailed, globalAudit, op, preparations, alive, faults>>

\* Each CREATE TABLE IF NOT EXISTS commits by itself.
PrepareTables ==
    /\ prep = "ddl" /\ Preparation \in alive
    /\ tables' = TRUE
    /\ prep' = "finishing"
    /\ UNCHANGED <<lock, status, committed, auditFailed, globalAudit, op, preparations, alive, faults>>

FinishWrites ==
    /\ status' = "ready"
    /\ globalAudit' = globalAudit \cup {<<preparations, "succeeded">>}

PrepareFinishes ==
    /\ prep = "finishing" /\ Preparation \in alive
    /\ FinishWrites
    /\ prep' = "releasing"
    /\ UNCHANGED <<lock, tables, committed, auditFailed, op, preparations, alive, faults>>

\* A statement of prepare throws; a lost commit may have been applied.
PrepareThrows ==
    /\ prep \in {"reading", "ddl", "finishing"}
    /\ \/ Preparation \notin alive /\ UNCHANGED faults
       \/ Preparation \in alive /\ Fault
    /\ \/ UNCHANGED <<status, globalAudit>>
       \/ prep = "finishing" /\ Preparation \in alive /\ FinishWrites
    /\ prep' = "failing"
    /\ UNCHANGED <<lock, tables, committed, auditFailed, op, preparations, alive>>

\* The catch of prepare: whatever the row says, it is marked failed.
PrepareFails ==
    /\ prep = "failing" /\ Preparation \in alive
    /\ status' = IF status = "absent" THEN "absent" ELSE "failed"
    /\ globalAudit' = globalAudit \cup {<<preparations, "failed">>}
    /\ prep' = "releasing"
    /\ UNCHANGED <<lock, tables, committed, auditFailed, op, preparations, alive, faults>>

\* The catch throws too: there is no connection to mark anything with.
PrepareGivesUp ==
    /\ prep = "failing" /\ Preparation \notin alive
    /\ prep' = "releasing"
    /\ UNCHANGED <<lock, rows, op, preparations, alive, faults>>

PrepareReleases ==
    /\ prep = "releasing"
    /\ lock' = Unlocked(Preparation)
    /\ alive' = alive \ {Preparation}
    /\ prep' = "idle"
    /\ UNCHANGED <<rows, op, preparations, faults>>

-----------------------------------------------------------------------------
\* The server loses a connection: its transaction and its lock are gone.
Disconnect(x) ==
    /\ x \in alive
    /\ Fault
    /\ alive' = alive \ {x}
    /\ lock' = Unlocked(x)
    /\ UNCHANGED <<rows, op, prep, preparations>>

WriteStep(w) ==
    \/ Begin(w)
    \/ Lock(w) \/ LockBusy(w) \/ StartTransaction(w) \/ CheckReady(w)
    \/ Write(w) \/ WriteThrows(w) \/ Commit(w) \/ CommitFails(w)
    \/ Unreachable(w) \/ Rollback(w) \/ RollbackFails(w) \/ Release(w)

PrepareStep ==
    \/ PrepareLocks \/ PrepareBusy \/ PrepareReads \/ PrepareTables \/ PrepareFinishes
    \/ PrepareThrows \/ PrepareFails \/ PrepareGivesUp \/ PrepareReleases

Next ==
    \/ \E w \in Operation : WriteStep(w)
    \/ PrepareBegin \/ PrepareStep
    \/ \E x \in Session : Disconnect(x)

Spec == Init /\ [][Next]_vars

\* Every started call of a client returns or throws.
FairSpec ==
    /\ Spec
    /\ \A w \in Operation : WF_vars(op[w].pc # "idle" /\ WriteStep(w))
    /\ WF_vars(PrepareStep)

-----------------------------------------------------------------------------
(* Properties.                                                             *)

TypeOK ==
    /\ lock \in Session \cup {Nobody}
    /\ status \in Status
    /\ tables \in BOOLEAN
    /\ committed \subseteq Operation /\ auditFailed \subseteq Operation
    /\ op \in [Operation -> Request]
    /\ prep \in PrepPc
    /\ globalAudit \subseteq (Nat \X {"succeeded", "failed"})
    /\ preparations \in Nat
    /\ alive \subseteq Session
    /\ faults \in Nat

\* A failed audit row is never forged: the operation it names has not been
\* committed, whatever connection or acknowledgement was lost.
FailedAuditIsTrue == auditFailed \cap committed = {}

\* The outcome a request has tracked never says less or more than the database:
\* it only claims a commit or its absence when that is a fact, and the caller
\* gets a success only for what is committed.
OutcomeNeverLies ==
    \A w \in Operation :
        /\ op[w].phase = "write" /\ op[w].outcome \in {"rolled_back", "not_started", "writing"}
              => w \notin committed
        /\ op[w].phase = "write" /\ op[w].outcome = "committed" => w \in committed
        /\ op[w].phase = "audit" => w \notin committed
        /\ op[w].pc = "ok" => w \in committed

\* Requests that allocate sequences and preparations that create tables never
\* overlap: one live session at a time is past the named lock.
WritesAreSerial ==
    \A x \in Session : x \in alive /\ lock # x =>
        /\ x \in Operation => op[x].pc \notin {"starting", "checking", "writing", "committing"}
        /\ x = Preparation => prep \notin {"reading", "ddl", "finishing", "failing"}

\* An application is offered as ready only with all of its tables, also after
\* preparations that failed half-way.
ReadyHasTables == status = "ready" => tables

\* What a request or its failure audit commits goes to an application that is
\* ready at the commit, although it was checked earlier and a preparation may
\* have failed since.
CommitsWhileReady ==
    [][committed' # committed \/ auditFailed' # auditFailed => status = "ready" /\ tables]_vars

\* The test of prepare says that it does not downgrade a ready application.
ReadyStaysReady == [][status = "ready" => status' = "ready"]_vars

\* What the client of an operation was told.
Told(w) == IF op[w].pc \in {"ok", "error"} THEN op[w].pc ELSE "none"

Audited == INSTANCE AuditedWrites WITH
    ready <- status = "ready" /\ tables,
    applied <- committed,
    refused <- auditFailed,
    answer <- [w \in Operation |-> Told(w)]

\* The lock, the transactions and the tracked outcome implement the operation ids as
\* clients and auditors see them, whatever is lost: applied or audited as failed, never
\* both, to a ready application only, and finished when it is answered.
ImplementsAuditedWrites == Audited!Spec

\* Every request that is waiting for the lock is answered in the end.
EveryRequestAnswered ==
    \A w \in Operation : op[w].pc = "locking" ~> op[w].pc \in {"ok", "error"}

\* The named lock is always given back.
LockComesBack == lock # Nobody ~> lock = Nobody

\* Every way out of the write answers the caller and unlocks.
NobodyIsStuck == EveryRequestAnswered /\ LockComesBack
=============================================================================
