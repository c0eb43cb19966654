----------------------- MODULE ApplicationWriteProofs -----------------------
(***************************************************************************)
(* ApplicationWrite keeps its audit true and its writes serial, for any    *)
(* number of requests, preparations, lost connections and lost answers.    *)
(***************************************************************************)
EXTENDS ApplicationWrite, TLAPS

Inside == {"starting", "checking", "writing", "committing"}
PrepInside == {"reading", "ddl", "finishing", "failing"}

\* What holds of one request: it holds the lock while it is past it, the
\* application is ready from its check on, and its outcome is what it says.
Sound(w) ==
    /\ w \in alive /\ op[w].pc \in Inside => lock = w
    /\ w \in alive /\ op[w].pc \in {"writing", "committing"} => status = "ready"
    /\ op[w].pc \in {"idle", "locking", "starting", "checking", "writing"} => ~op[w].attempted
    /\ op[w].pc = "committing" => op[w].attempted /\ op[w].outcome = "committing"
    /\ op[w].pc = "catching" => op[w].thrown
    /\ op[w].phase = "write" /\ op[w].pc = "releasing" /\ ~op[w].thrown
          => op[w].outcome = "committed"
    /\ op[w].phase = "write" /\ ~op[w].attempted => w \notin committed
    /\ op[w].phase = "write" /\ op[w].outcome \in {"rolled_back", "not_started", "writing"}
          => w \notin committed
    /\ op[w].phase = "write" /\ op[w].outcome = "committed" => w \in committed
    /\ op[w].phase = "audit" => w \notin committed
    /\ op[w].pc = "ok" => w \in committed
    /\ w \in auditFailed => op[w].phase = "audit"
    /\ op[w].pc \in {"idle", "locking"} \cup Inside => w \notin committed \cup auditFailed

\* The preparation holds the lock while it is past it, and reaches its last
\* transaction with all tables made.
Prepared ==
    /\ Preparation \in alive /\ prep \in PrepInside => lock = Preparation
    /\ prep = "finishing" => tables
    /\ status = "ready" => tables

\* The inductive invariant.
IInv == TypeOK /\ Prepared /\ \A w \in Operation : Sound(w)

-----------------------------------------------------------------------------
(* Typing.                                                                 *)

LEMMA InitTypes == Init => TypeOK
  <1>1. NewRequest \in Request
    BY DEF NewRequest, Request, Pc, Outcome
  <1>2. Init => op \in [Operation -> Request]
    BY <1>1 DEF Init
  <1>3. Init => lock \in Session \cup {Nobody} /\ status \in Status /\ prep \in PrepPc
    BY DEF Init, Status, PrepPc
  <1>4. Init => globalAudit \subseteq (Nat \X {"succeeded", "failed"}) /\ tables \in BOOLEAN
    BY DEF Init
  <1>5. Init => committed \subseteq Operation /\ auditFailed \subseteq Operation
                /\ preparations \in Nat /\ faults \in Nat /\ alive \subseteq Session
    BY DEF Init
  <1> QED BY <1>2, <1>3, <1>4, <1>5 DEF TypeOK

LEMMA RequestTypes ==
    ASSUME TypeOK, NEW w \in Operation, WriteStep(w)
    PROVE  op' \in [Operation -> Request]
  <1>0. op \in [Operation -> Request] /\ op[w] \in Request
    BY DEF TypeOK
  <1>1. NewRequest \in Request
    BY DEF NewRequest, Request, Pc, Outcome
  <1>2. \A pc \in Pc : [op EXCEPT ![w].pc = pc] \in [Operation -> Request]
    BY <1>0 DEF Request
  <1>3. ASSUME NEW pc \in Pc, NEW o \in Outcome, Step(w, pc, o)
        PROVE  op' \in [Operation -> Request]
    <2>1. [op[w] EXCEPT !.pc = pc, !.outcome = o] \in Request
      BY <1>0 DEF Request
    <2>2. op' = [op EXCEPT ![w] = [op[w] EXCEPT !.pc = pc, !.outcome = o]]
      BY <1>0, <1>3 DEF Step
    <2> QED BY <1>0, <2>1, <2>2
  <1>4. ASSUME NEW pc \in Pc, Throws(w, pc)
        PROVE  op' \in [Operation -> Request]
    <2>1. [op[w] EXCEPT !.pc = pc, !.thrown = TRUE] \in Request
      BY <1>0 DEF Request
    <2>2. op' = [op EXCEPT ![w] = [op[w] EXCEPT !.pc = pc, !.thrown = TRUE]]
      BY <1>0, <1>4 DEF Throws
    <2> QED BY <1>0, <2>1, <2>2
  <1>5. OutcomeAfterRollback(w) \in Outcome
    BY DEF OutcomeAfterRollback, Outcome
  <1>6. {"locking", "starting", "checking", "writing", "committing", "catching",
         "releasing", "ok", "error"} \subseteq Pc
    BY DEF Pc
  <1>7. {"unknown", "writing", "committing", "committed"} \subseteq Outcome
    BY DEF Outcome
  <1>8. CASE Begin(w)
    BY <1>8, <1>2, <1>6 DEF Begin
  <1>9. CASE Write(w)
    BY <1>9, <1>0 DEF Write, Request, Pc, Outcome
  <1>10. CASE Release(w)
    <2>1. [NewRequest EXCEPT !.pc = "locking", !.phase = "audit"] \in Request
      BY DEF NewRequest, Request, Pc, Outcome
    <2> QED BY <1>10, <2>1, <1>0, <1>2, <1>6 DEF Release
  <1>11. CASE Lock(w) \/ StartTransaction(w) \/ CheckReady(w) \/ Commit(w)
              \/ Rollback(w) \/ RollbackFails(w)
    BY <1>11, <1>3, <1>4, <1>5, <1>6, <1>7
    DEF Lock, StartTransaction, CheckReady, Commit, Rollback, RollbackFails
  <1>12. CASE LockBusy(w) \/ WriteThrows(w) \/ CommitFails(w) \/ Unreachable(w)
    BY <1>12, <1>4, <1>6 DEF LockBusy, WriteThrows, CommitFails, Unreachable
  <1> QED BY <1>8, <1>9, <1>10, <1>11, <1>12 DEF WriteStep

LEMMA WriteTypes ==
    ASSUME TypeOK, NEW w \in Operation, WriteStep(w)
    PROVE  TypeOK'
  <1>1. op' \in [Operation -> Request]
    BY RequestTypes
  <1>2. lock' \in Session \cup {Nobody} /\ alive' \subseteq Session
    BY DEF TypeOK, WriteStep, Begin, Lock, LockBusy, StartTransaction, CheckReady, Write,
           WriteThrows, Commit, CommitFails, Unreachable, Rollback, RollbackFails, Release,
           Unlocked, Session
  <1>3. committed' \subseteq Operation /\ auditFailed' \subseteq Operation
    BY DEF TypeOK, WriteStep, Begin, Lock, LockBusy, StartTransaction, CheckReady, Write,
           WriteThrows, Commit, CommitFails, Unreachable, Rollback, RollbackFails, Release,
           Applied, rows
  <1>4. UNCHANGED <<status, tables, globalAudit, prep, preparations>> /\ faults' \in Nat
    BY DEF TypeOK, WriteStep, Begin, Lock, LockBusy, StartTransaction, CheckReady, Write,
           WriteThrows, Commit, CommitFails, Unreachable, Rollback, RollbackFails, Release,
           Fault, rows
  <1> QED BY <1>1, <1>2, <1>3, <1>4 DEF TypeOK

LEMMA PrepareTypes == TypeOK /\ (PrepareBegin \/ PrepareStep) => TypeOK'
  <1> SUFFICES ASSUME TypeOK, PrepareBegin \/ PrepareStep PROVE TypeOK'
    OBVIOUS
  <1> USE DEF PrepareStep, PrepareBegin, PrepareLocks, PrepareBusy, PrepareReads, PrepareTables,
              PrepareFinishes, PrepareThrows, PrepareFails, PrepareGivesUp, PrepareReleases
  <1>1. UNCHANGED <<op, committed, auditFailed>>
    BY DEF rows
  <1>2. lock' \in Session \cup {Nobody} /\ alive' \subseteq Session
    BY DEF TypeOK, Session, Unlocked
  <1>3. prep' \in PrepPc /\ preparations' \in Nat /\ faults' \in Nat
    BY DEF TypeOK, PrepPc, ReadRow, Fault, rows
  <1>4. status' \in Status /\ tables' \in BOOLEAN
    BY DEF TypeOK, Status, ReadRow, FinishWrites, rows
  <1>5. globalAudit' \subseteq (Nat \X {"succeeded", "failed"})
    BY DEF TypeOK, FinishWrites, rows
  <1> QED BY <1>1, <1>2, <1>3, <1>4, <1>5 DEF TypeOK

LEMMA Types == TypeOK /\ [Next]_vars => TypeOK'
  <1>1. ASSUME TypeOK, NEW x \in Session, Disconnect(x) PROVE TypeOK'
    BY <1>1 DEF TypeOK, Disconnect, Unlocked, Fault, rows, Session
  <1>2. TypeOK /\ UNCHANGED vars => TypeOK'
    BY DEF TypeOK, vars, rows
  <1> QED BY <1>1, <1>2, WriteTypes, PrepareTypes DEF Next

-----------------------------------------------------------------------------
(* Requests.                                                               *)

\* A step that leaves a request, what it committed and what its lock protects
\* alone leaves it sound.
LEMMA Frame ==
    ASSUME NEW v \in Operation, Sound(v),
           op'[v] = op[v],
           v \in alive' => v \in alive,
           lock = v => lock' = v \/ v \notin alive' \/ op[v].pc \notin Inside,
           lock = v /\ v \in alive /\ op[v].pc \in Inside => status' = status,
           v \in committed' <=> v \in committed,
           v \in auditFailed' <=> v \in auditFailed
    PROVE  Sound(v)'
  BY DEF Sound, Inside

\* A request's own step leaves the others sound.
LEMMA OthersSound ==
    ASSUME TypeOK, NEW w \in Operation, NEW v \in Operation, v # w,
           Sound(v), WriteStep(w)
    PROVE  Sound(v)'
  <1>1. op'[v] = op[v]
    BY DEF TypeOK, WriteStep, Begin, Lock, LockBusy, StartTransaction, CheckReady, Write,
           WriteThrows, Commit, CommitFails, Unreachable, Rollback, RollbackFails, Release,
           Step, Throws
  <1>2. v \in alive' => v \in alive
    BY DEF WriteStep, Begin, Lock, LockBusy, StartTransaction, CheckReady, Write,
           WriteThrows, Commit, CommitFails, Unreachable, Rollback, RollbackFails, Release
  <1>3. lock = v => lock' = v
    BY SessionAssumption
       DEF WriteStep, Begin, Lock, LockBusy, StartTransaction, CheckReady, Write,
           WriteThrows, Commit, CommitFails, Unreachable, Rollback, RollbackFails, Release,
           Unlocked
  <1>4. status' = status
    BY DEF WriteStep, Begin, Lock, LockBusy, StartTransaction, CheckReady, Write,
           WriteThrows, Commit, CommitFails, Unreachable, Rollback, RollbackFails, Release, rows
  <1>5. (v \in committed' <=> v \in committed) /\ (v \in auditFailed' <=> v \in auditFailed)
    BY DEF WriteStep, Begin, Lock, LockBusy, StartTransaction, CheckReady, Write,
           WriteThrows, Commit, CommitFails, Unreachable, Rollback, RollbackFails, Release,
           Applied, rows
  <1> QED BY <1>1, <1>2, <1>3, <1>4, <1>5, Frame

LEMMA OwnSound ==
    ASSUME TypeOK, NEW w \in Operation, Sound(w), WriteStep(w)
    PROVE  Sound(w)'
  <1>0. op \in [Operation -> Request] /\ op[w] \in Request
    BY DEF TypeOK
  <1>1. CASE Begin(w)
    BY <1>0, <1>1 DEF Begin, Sound, Request, Inside, rows
  <1>2. CASE Lock(w)
    BY <1>0, <1>2 DEF Lock, Step, Sound, Request, Inside, rows
  <1>3. CASE LockBusy(w)
    BY <1>0, <1>3 DEF LockBusy, Throws, Sound, Request, Inside, rows
  <1>4. CASE StartTransaction(w)
    BY <1>0, <1>4 DEF StartTransaction, Step, Sound, Request, Inside, rows
  <1>5. CASE CheckReady(w)
    BY <1>0, <1>5 DEF CheckReady, Step, Throws, Sound, Request, Inside, rows
  <1>6. CASE Write(w)
    BY <1>0, <1>6 DEF Write, Sound, Request, Inside, rows
  <1>7. CASE WriteThrows(w)
    BY <1>0, <1>7 DEF WriteThrows, Throws, Sound, Request, Inside, rows
  <1>8. CASE Commit(w)
    BY <1>0, <1>8 DEF Commit, Step, Applied, Sound, Request, Inside
  <1>9. CASE CommitFails(w)
    BY <1>0, <1>9 DEF CommitFails, Throws, Applied, Sound, Request, Inside
  <1>10. CASE Unreachable(w)
    BY <1>0, <1>10 DEF Unreachable, Throws, Sound, Request, Inside, rows
  <1>11. CASE Rollback(w)
    BY <1>0, <1>11 DEF Rollback, Step, OutcomeAfterRollback, Sound, Request, Inside, rows
  <1>12. CASE RollbackFails(w)
    BY <1>0, <1>12 DEF RollbackFails, Step, Sound, Request, Inside, rows
  <1>13. CASE Release(w)
    <2>1. UNCHANGED <<status, committed, auditFailed>>
      BY <1>13 DEF Release, rows
    <2>2. CASE op' = [op EXCEPT ![w].pc = IF op[w].phase = "write" THEN "ok" ELSE "error"]
               /\ ~Thrown(w)
      BY <1>0, <1>13, <2>1, <2>2 DEF Release, Thrown, Sound, Request, Inside
    <2>3. CASE op' = [op EXCEPT ![w] = [NewRequest EXCEPT !.pc = "locking", !.phase = "audit"]]
               /\ AuditsFailure(w)
      BY <1>0, <1>13, <2>1, <2>3 DEF Release, AuditsFailure, NewRequest, Sound, Request, Inside
    <2>4. CASE op' = [op EXCEPT ![w].pc = "error"]
      BY <1>0, <1>13, <2>1, <2>4 DEF Release, Sound, Request, Inside
    <2> QED BY <1>13, <2>2, <2>3, <2>4 DEF Release
  <1> QED
    BY <1>1, <1>2, <1>3, <1>4, <1>5, <1>6, <1>7, <1>8, <1>9, <1>10, <1>11, <1>12, <1>13
    DEF WriteStep

\* No request's step takes the lock from the preparation or undoes its tables.
LEMMA WritePrepared ==
    ASSUME TypeOK, Prepared, NEW w \in Operation, WriteStep(w)
    PROVE  Prepared'
  <1>1. UNCHANGED <<prep, tables, status>>
    BY DEF WriteStep, Begin, Lock, LockBusy, StartTransaction, CheckReady, Write,
           WriteThrows, Commit, CommitFails, Unreachable, Rollback, RollbackFails, Release, rows
  <1>2. Preparation \in alive' => Preparation \in alive
    BY SessionAssumption
       DEF WriteStep, Begin, Lock, LockBusy, StartTransaction, CheckReady, Write,
           WriteThrows, Commit, CommitFails, Unreachable, Rollback, RollbackFails, Release
  <1>3. lock = Preparation => lock' = Preparation
    BY SessionAssumption
       DEF WriteStep, Begin, Lock, LockBusy, StartTransaction, CheckReady, Write,
           WriteThrows, Commit, CommitFails, Unreachable, Rollback, RollbackFails, Release,
           Unlocked
  <1> QED BY <1>1, <1>2, <1>3 DEF Prepared

-----------------------------------------------------------------------------
(* The preparation and lost connections.                                   *)

LEMMA PreparePrepared ==
    ASSUME TypeOK, Prepared, PrepareBegin \/ PrepareStep
    PROVE  Prepared'
  <1>1. CASE PrepareBegin
    BY <1>1 DEF PrepareBegin, Prepared, PrepInside, rows
  <1>2. CASE PrepareLocks
    BY <1>2 DEF PrepareLocks, Prepared, PrepInside, rows
  <1>3. CASE PrepareBusy \/ PrepareGivesUp
    BY <1>3 DEF PrepareBusy, PrepareGivesUp, Prepared, PrepInside, rows
  <1>4. CASE PrepareReads
    BY <1>4 DEF PrepareReads, ReadRow, Prepared, PrepInside
  <1>5. CASE PrepareTables
    BY <1>5 DEF PrepareTables, Prepared, PrepInside
  <1>6. CASE PrepareFinishes
    BY <1>6 DEF PrepareFinishes, FinishWrites, Prepared, PrepInside
  <1>7. CASE PrepareThrows
    BY <1>7 DEF PrepareThrows, FinishWrites, Prepared, PrepInside
  <1>8. CASE PrepareFails
    BY <1>8 DEF PrepareFails, Prepared, PrepInside
  <1>9. CASE PrepareReleases
    BY <1>9 DEF PrepareReleases, Prepared, PrepInside, rows
  <1> QED BY <1>1, <1>2, <1>3, <1>4, <1>5, <1>6, <1>7, <1>8, <1>9 DEF PrepareStep

\* The preparation changes a status only under the lock, so never between the
\* check and the commit of a request.
LEMMA PrepareSound ==
    ASSUME TypeOK, Prepared, NEW v \in Operation, Sound(v), PrepareBegin \/ PrepareStep
    PROVE  Sound(v)'
  <1> USE DEF PrepareStep, PrepareBegin, PrepareLocks, PrepareBusy, PrepareReads, PrepareTables,
              PrepareFinishes, PrepareThrows, PrepareFails, PrepareGivesUp, PrepareReleases
  <1>0. v # Preparation /\ v # Nobody
    BY SessionAssumption
  <1>1. UNCHANGED <<op, committed, auditFailed>>
    BY DEF rows
  <1>2. v \in alive' => v \in alive
    BY <1>0
  <1>3. lock = v => lock' = v
    BY <1>0 DEF Unlocked
  <1>4. lock = v => status' = status
    BY <1>0 DEF Prepared, PrepInside, rows
  <1> QED BY <1>1, <1>2, <1>3, <1>4, Frame

LEMMA DisconnectSound ==
    ASSUME TypeOK, Prepared, NEW x \in Session, Disconnect(x)
    PROVE  Prepared' /\ \A v \in Operation : Sound(v) => Sound(v)'
  <1>1. Prepared'
    BY DEF Disconnect, Unlocked, Prepared, rows
  <1>2. ASSUME NEW v \in Operation, Sound(v) PROVE Sound(v)'
    BY <1>2, SessionAssumption DEF Disconnect, Unlocked, Sound, Inside, rows
  <1> QED BY <1>1, <1>2

LEMMA Inductive == IInv /\ [Next]_vars => IInv'
  <1> SUFFICES ASSUME IInv, [Next]_vars PROVE IInv'
    OBVIOUS
  <1>0. TypeOK /\ Prepared /\ \A v \in Operation : Sound(v)
    BY DEF IInv
  <1>1. TypeOK'
    BY <1>0, Types
  <1>2. ASSUME NEW w \in Operation, WriteStep(w)
        PROVE  Prepared' /\ \A v \in Operation : Sound(v)'
    BY <1>0, <1>2, WritePrepared, OwnSound, OthersSound
  <1>3. CASE PrepareBegin \/ PrepareStep
    <2>1. Prepared'
      BY <1>0, <1>3, PreparePrepared
    <2>2. \A v \in Operation : Sound(v)'
      BY <1>0, <1>3, PrepareSound
    <2> QED BY <1>1, <2>1, <2>2 DEF IInv
  <1>4. ASSUME NEW x \in Session, Disconnect(x)
        PROVE  Prepared' /\ \A v \in Operation : Sound(v)'
    BY <1>0, <1>4, DisconnectSound
  <1>5. CASE UNCHANGED vars
    BY <1>0, <1>1, <1>5 DEF IInv, Prepared, Sound, vars, rows
  <1> QED BY <1>1, <1>2, <1>3, <1>4, <1>5 DEF Next, IInv

-----------------------------------------------------------------------------
(* Theorems.                                                               *)

\* IInv holds of every reachable state.
THEOREM WriteInvariant == Spec => []IInv
  <1>1. Init => Prepared /\ \A w \in Operation : Sound(w)
    BY DEF Init, Prepared, Sound, NewRequest, PrepInside, Inside
  <1>2. Init => IInv
    BY <1>1, InitTypes DEF IInv
  <1> QED BY <1>2, Inductive, PTL DEF Spec

\* The state of requests, locks and rows stays well formed.
THEOREM WriteTypesHold == Spec => []TypeOK
  <1>1. IInv => TypeOK
    BY DEF IInv
  <1> QED BY <1>1, WriteInvariant, PTL

\* No failure audit names an operation that was committed.
THEOREM AuditIsTrue == Spec => []FailedAuditIsTrue
  <1>1. IInv => FailedAuditIsTrue
    BY DEF IInv, TypeOK, Sound, FailedAuditIsTrue
  <1> QED BY <1>1, WriteInvariant, PTL

\* The tracked outcome agrees with the database, in every interleaving.
THEOREM OutcomeIsTrue == Spec => []OutcomeNeverLies
  <1>1. IInv => OutcomeNeverLies
    BY DEF IInv, Sound, OutcomeNeverLies
  <1> QED BY <1>1, WriteInvariant, PTL

\* One live session at a time is past the named lock.
THEOREM SerialWrites == Spec => []WritesAreSerial
  <1>1. IInv => WritesAreSerial
    BY DEF IInv, Sound, Prepared, WritesAreSerial, Inside, PrepInside, Session
  <1> QED BY <1>1, WriteInvariant, PTL

\* A ready application has all of its tables.
THEOREM TablesWhenReady == Spec => []ReadyHasTables
  <1>1. IInv => ReadyHasTables
    BY DEF IInv, Prepared, ReadyHasTables
  <1> QED BY <1>1, WriteInvariant, PTL

\* Requests commit, and audit, only into a ready application.
THEOREM ReadyCommits == Spec => CommitsWhileReady
  <1>1. ASSUME IInv, [Next]_vars
        PROVE  committed' # committed \/ auditFailed' # auditFailed => status = "ready" /\ tables
    <2>1. ASSUME NEW w \in Operation, Commit(w) \/ CommitFails(w)
          PROVE  status = "ready" /\ tables
      BY <1>1, <2>1 DEF Commit, CommitFails, IInv, Sound, Prepared
    <2>2. ASSUME NEW w \in Operation, WriteStep(w), ~Commit(w), ~CommitFails(w)
          PROVE  UNCHANGED <<committed, auditFailed>>
      BY <2>2 DEF WriteStep, Begin, Lock, LockBusy, StartTransaction, CheckReady, Write,
                  WriteThrows, Unreachable, Rollback, RollbackFails, Release, rows
    <2>3. PrepareBegin \/ PrepareStep => UNCHANGED <<committed, auditFailed>>
      BY DEF PrepareStep, PrepareBegin, PrepareLocks, PrepareBusy, PrepareReads, PrepareTables,
             PrepareFinishes, PrepareThrows, PrepareFails, PrepareGivesUp, PrepareReleases, rows
    <2>4. ASSUME NEW x \in Session, Disconnect(x) PROVE UNCHANGED <<committed, auditFailed>>
      BY <2>4 DEF Disconnect, rows
    <2>5. CASE UNCHANGED vars
      BY <2>5 DEF vars, rows
    <2> QED BY <1>1, <2>1, <2>2, <2>3, <2>4, <2>5 DEF Next
  <1>2. IInv /\ [Next]_vars
        => [committed' # committed \/ auditFailed' # auditFailed => status = "ready" /\ tables]_vars
    BY <1>1
  <1> QED BY <1>2, WriteInvariant, PTL DEF Spec, CommitsWhileReady

-----------------------------------------------------------------------------
(* The refinement of AuditedWrites.                                        *)

AuditedReady == status = "ready" /\ tables
Answers == [w \in Operation |-> Told(w)]

\* A step that decides nothing and answers nobody.
LEMMA Unnoticed ==
    ASSUME UNCHANGED <<status, tables, committed, auditFailed>>,
           \A v \in Operation : Told(v)' = Told(v)
    PROVE  UNCHANGED Audited!writesVars
  BY DEF Audited!writesVars

\* A request that goes on tells nobody.
LEMMA StillUntold ==
    ASSUME TypeOK, NEW w \in Operation,
           \A v \in Operation \ {w} : op'[v] = op[v],
           op[w].pc \notin {"ok", "error"}, op'[w].pc \notin {"ok", "error"}
    PROVE  \A v \in Operation : Told(v)' = Told(v)
  BY DEF Told

LEMMA CommitDecides ==
    ASSUME IInv, NEW w \in Operation, Commit(w) \/ CommitFails(w)
    PROVE  [Audited!Next]_(Audited!writesVars)
  <1>0. op \in [Operation -> Request] /\ op[w] \in Request /\ Sound(w) /\ Prepared
    BY DEF IInv, TypeOK
  <1>1. op[w].pc = "committing" /\ w \in alive
    BY DEF Commit, CommitFails
  <1>2. status = "ready" /\ tables /\ w \notin committed \cup auditFailed
    BY <1>0, <1>1 DEF Sound, Prepared, Inside
  <1>3. UNCHANGED <<status, tables>>
    BY DEF Commit, CommitFails
  <1>4. \A v \in Operation \ {w} : op'[v] = op[v]
    BY <1>0 DEF Commit, CommitFails, Step, Throws
  <1>5. op'[w].pc \in {"releasing", "catching"}
    BY <1>0 DEF Commit, CommitFails, Step, Throws, Request
  <1>6. \A v \in Operation : Told(v)' = Told(v)
    BY <1>0, <1>1, <1>4, <1>5, StillUntold DEF IInv
  <1>7. Answers' = Answers
    BY <1>6 DEF Answers
  <1>8. Told(w) = "none"
    BY <1>1 DEF Told
  <1>9. CASE Applied(w) /\ op[w].phase = "write"
    <2>1. Audited!Apply(w)
      BY <1>2, <1>3, <1>7, <1>8, <1>9 DEF Applied, Audited!Apply, Audited!Undecided, Answers
    <2> QED BY <2>1 DEF Audited!Next
  <1>10. CASE Applied(w) /\ op[w].phase # "write"
    <2>1. Audited!Refuse(w)
      BY <1>2, <1>3, <1>7, <1>8, <1>10 DEF Applied, Audited!Refuse, Audited!Undecided, Answers
    <2> QED BY <2>1 DEF Audited!Next
  <1>11. CASE UNCHANGED <<committed, auditFailed>>
    BY <1>3, <1>6, <1>11, Unnoticed
  <1> QED BY <1>9, <1>10, <1>11 DEF Commit, CommitFails

LEMMA ReleaseReplies ==
    ASSUME IInv, NEW w \in Operation, Release(w)
    PROVE  [Audited!Next]_(Audited!writesVars)
  <1>0. op \in [Operation -> Request] /\ op[w] \in Request /\ Sound(w)
    BY DEF IInv, TypeOK
  <1>1. op[w].pc = "releasing" /\ Told(w) = "none"
    BY DEF Release, Told
  <1>2. UNCHANGED <<status, tables, committed, auditFailed>>
    BY DEF Release, rows
  <1>3. \A v \in Operation \ {w} : op'[v] = op[v]
    BY <1>0 DEF Release
  <1>4. op'[w].pc \in {"ok", "error", "locking"}
    BY <1>0 DEF Release, NewRequest, Request
  <1>5. CASE op'[w].pc = "locking"
    BY <1>0, <1>1, <1>2, <1>3, <1>5, StillUntold, Unnoticed DEF IInv
  <1>6. CASE op'[w].pc \in {"ok", "error"}
    <2>1. Told(w)' = op'[w].pc
      BY <1>6 DEF Told
    <2>2. Answers' = [Answers EXCEPT ![w] = op'[w].pc]
      BY <1>3, <2>1 DEF Answers, Told
    <2>3. op'[w].pc = "ok" => w \in committed
      BY <1>0, <1>1 DEF Release, Thrown, Sound, Request, NewRequest
    <2>4. Audited!Reply(w, op'[w].pc)
      BY <1>1, <1>2, <2>2, <2>3 DEF Audited!Reply, Answers
    <2> QED BY <1>6, <2>4 DEF Audited!Next, Audited!Answer
  <1> QED BY <1>4, <1>5, <1>6

LEMMA PrepareReplaces ==
    ASSUME IInv, IInv', PrepareBegin \/ PrepareStep
    PROVE  [Audited!Next]_(Audited!writesVars)
  <1>1. UNCHANGED <<op, committed, auditFailed>>
    BY DEF PrepareStep, PrepareBegin, PrepareLocks, PrepareBusy, PrepareReads, PrepareTables,
           PrepareFinishes, PrepareThrows, PrepareFails, PrepareGivesUp, PrepareReleases, rows
  <1>2. Answers' = Answers
    BY <1>1 DEF Answers, Told
  <1>3. AuditedReady \in BOOLEAN /\ AuditedReady' \in BOOLEAN
    BY DEF AuditedReady
  <1>4. CASE AuditedReady' = AuditedReady
    BY <1>1, <1>2, <1>4 DEF Audited!writesVars, AuditedReady, Answers
  <1>5. CASE AuditedReady' = ~AuditedReady
    BY <1>1, <1>2, <1>5 DEF Audited!Next, Audited!Prepare, AuditedReady, Answers
  <1> QED BY <1>3, <1>4, <1>5

\* Every step is one of AuditedWrites, or none.
LEMMA StepAudited ==
    ASSUME IInv, [Next]_vars
    PROVE  [Audited!Next]_(Audited!writesVars)
  <1>0. TypeOK /\ IInv'
    BY Inductive DEF IInv
  <1>1. ASSUME NEW w \in Operation, WriteStep(w), ~Commit(w), ~CommitFails(w), ~Release(w)
        PROVE  [Audited!Next]_(Audited!writesVars)
    <2>1. op \in [Operation -> Request] /\ op[w] \in Request
      BY <1>0 DEF TypeOK
    <2>2. UNCHANGED <<status, tables, committed, auditFailed>>
      BY <1>1 DEF WriteStep, Begin, Lock, LockBusy, StartTransaction, CheckReady, Write,
                  WriteThrows, Unreachable, Rollback, RollbackFails, rows
    <2>3. \A v \in Operation \ {w} : op'[v] = op[v]
      BY <1>1, <2>1
         DEF WriteStep, Begin, Lock, LockBusy, StartTransaction, CheckReady, Write,
             WriteThrows, Unreachable, Rollback, RollbackFails, Step, Throws
    <2>4. op[w].pc \notin {"ok", "error"}
      BY <1>1 DEF WriteStep, Begin, Lock, LockBusy, StartTransaction, CheckReady, Write,
                  WriteThrows, Unreachable, Rollback, RollbackFails
    <2>5. op'[w].pc \notin {"ok", "error"}
      BY <1>1, <2>1
         DEF WriteStep, Begin, Lock, LockBusy, StartTransaction, CheckReady, Write,
             WriteThrows, Unreachable, Rollback, RollbackFails, Step, Throws, Request
    <2> QED BY <1>0, <2>2, <2>3, <2>4, <2>5, StillUntold, Unnoticed
  <1>2. ASSUME NEW x \in Session, Disconnect(x) PROVE UNCHANGED Audited!writesVars
    BY <1>2, Unnoticed DEF Disconnect, rows, Told
  <1>3. CASE UNCHANGED vars
    BY <1>3, Unnoticed DEF vars, rows, Told
  <1> QED
    BY <1>0, <1>1, <1>2, <1>3, CommitDecides, ReleaseReplies, PrepareReplaces DEF Next

\* Whoever knows only operation ids, answers and audit rows sees AuditedWrites, however
\* many requests, preparations and faults there are.
THEOREM WritesRefinement == Spec => ImplementsAuditedWrites
  <1>1. Init => Audited!Init
    BY DEF Init, Audited!Init, Told, NewRequest
  <1> QED BY <1>1, StepAudited, WriteInvariant, PTL DEF Spec, ImplementsAuditedWrites, Audited!Spec


-----------------------------------------------------------------------------
(* What termination rests on, without fairness.                            *)

\* Whoever holds the named lock is on its way to give it back.
LockRuns ==
    /\ lock \in Operation
          => lock \in alive /\ op[lock].pc \in Inside \cup {"catching", "releasing"}
    /\ lock = Preparation => Preparation \in alive /\ prep \in PrepInside \cup {"releasing"}

LEMMA LockRunsInit == Init => LockRuns
  BY SessionAssumption DEF Init, LockRuns

\* A request's step is its own.
LEMMA OthersStay ==
    ASSUME TypeOK, NEW w \in Operation, WriteStep(w)
    PROVE  \A v \in Operation \ {w} : op'[v] = op[v]
  <1>0. op \in [Operation -> Request]
    BY DEF TypeOK
  <1> QED
    BY <1>0 DEF WriteStep, Begin, Lock, LockBusy, StartTransaction, CheckReady, Write,
       WriteThrows, Commit, CommitFails, Unreachable, Rollback, RollbackFails, Release,
       Step, Throws

LEMMA LockRunsStep == TypeOK /\ LockRuns /\ [Next]_vars => LockRuns'
  <1> SUFFICES ASSUME TypeOK, LockRuns, [Next]_vars PROVE LockRuns'
    OBVIOUS
  <1>0. op \in [Operation -> Request]
    BY DEF TypeOK
  <1>1. ASSUME NEW w \in Operation, WriteStep(w) PROVE LockRuns'
    <2>1. \A v \in Operation \ {w} : op'[v] = op[v]
      BY <1>1, OthersStay
    <2>2. prep' = prep /\ \A x \in Session \ {w} : x \in alive' <=> x \in alive
      BY <1>1, SessionAssumption DEF WriteStep, Begin, Lock, LockBusy, StartTransaction,
             CheckReady, Write, WriteThrows, Commit, CommitFails, Unreachable, Rollback,
             RollbackFails, Release, Session
    <2>3. lock' \in {lock, w, Nobody}
      BY <1>1 DEF WriteStep, Begin, Lock, LockBusy, StartTransaction, CheckReady, Write,
             WriteThrows, Commit, CommitFails, Unreachable, Rollback, RollbackFails, Release,
             Unlocked
    <2>4. lock' = w => w \in alive' /\ op'[w].pc \in Inside \cup {"catching", "releasing"}
      <3>1. CASE Begin(w)
        BY <1>0, <3>1 DEF Begin, LockRuns, Inside
      <3>2. CASE Lock(w)
        BY <1>0, <3>2 DEF Lock, Step, Inside
      <3>3. CASE LockBusy(w)
        BY <1>0, <3>3 DEF LockBusy, LockRuns, Inside
      <3>4. CASE StartTransaction(w) \/ CheckReady(w) \/ Write(w) \/ WriteThrows(w)
                 \/ Commit(w) \/ Unreachable(w) \/ Rollback(w) \/ RollbackFails(w)
        <4>1. lock' = lock /\ alive' = alive
            BY <3>4 DEF StartTransaction, CheckReady, Write, WriteThrows, Commit, Unreachable,
                   Rollback, RollbackFails
        <4>2. lock = w => w \in alive
            BY DEF LockRuns
        <4>3. CASE StartTransaction(w) \/ CheckReady(w)
            BY <1>0, <4>1, <4>2, <4>3 DEF StartTransaction, CheckReady, Inside, Step, Throws, Request
        <4>4. CASE Write(w) \/ WriteThrows(w)
            BY <1>0, <4>1, <4>2, <4>4 DEF Write, WriteThrows, Inside, Throws, Request
        <4>5. CASE Commit(w) \/ Unreachable(w)
            BY <1>0, <4>1, <4>2, <4>5 DEF Commit, Unreachable, Inside, Step, Throws, Request
        <4>6. CASE Rollback(w) \/ RollbackFails(w)
            BY <1>0, <4>1, <4>2, <4>6 DEF Rollback, RollbackFails, Inside, Step, Request
        <4> QED BY <3>4, <4>3, <4>4, <4>5, <4>6
      <3>5. CASE CommitFails(w)
        BY <1>0, <3>5, SessionAssumption DEF CommitFails, Throws, LockRuns, Inside
      <3>6. CASE Release(w)
        BY <3>6, SessionAssumption DEF Release, Unlocked
      <3> QED BY <1>1, <3>1, <3>2, <3>3, <3>4, <3>5, <3>6 DEF WriteStep
    <2> QED BY <2>1, <2>2, <2>3, <2>4, SessionAssumption DEF LockRuns, Session
  <1>2. CASE PrepareBegin
    BY <1>2, SessionAssumption DEF PrepareBegin, LockRuns, PrepInside
  <1>3. CASE PrepareStep
    <2>1. UNCHANGED op /\ \A w \in Operation : w \in alive' <=> w \in alive
      BY <1>3, SessionAssumption DEF PrepareStep, PrepareLocks, PrepareBusy, PrepareReads,
             PrepareTables, PrepareFinishes, PrepareThrows, PrepareFails, PrepareGivesUp,
             PrepareReleases
    <2>2. lock' \in {lock, Preparation, Nobody}
      BY <1>3 DEF PrepareStep, PrepareLocks, PrepareBusy, PrepareReads, PrepareTables,
             PrepareFinishes, PrepareThrows, PrepareFails, PrepareGivesUp, PrepareReleases,
             Unlocked
    <2>3. lock' = Preparation
             => Preparation \in alive' /\ prep' \in PrepInside \cup {"releasing"}
      BY <1>3, SessionAssumption DEF PrepareStep, PrepareLocks, PrepareBusy, PrepareReads,
             ReadRow, PrepareTables, PrepareFinishes, PrepareThrows, PrepareFails,
             PrepareGivesUp, PrepareReleases, Unlocked, LockRuns, PrepInside
    <2> QED BY <2>1, <2>2, <2>3, SessionAssumption DEF LockRuns
  <1>4. ASSUME NEW x \in Session, Disconnect(x) PROVE LockRuns'
    BY <1>4, SessionAssumption DEF Disconnect, Unlocked, LockRuns, Session
  <1>5. CASE UNCHANGED vars
    BY <1>5 DEF vars, LockRuns
  <1> QED BY <1>1, <1>2, <1>3, <1>4, <1>5 DEF Next

\* The lock is never left with a session that is gone or done with it: it always
\* belongs to one that still runs and will pass its RELEASE_LOCK (the finally of
\* withApplicationWrite and of prepare).
THEOREM LockIsNeverLeft == Spec => []LockRuns
  <1>1. IInv => TypeOK
    BY DEF IInv
  <1> QED BY <1>1, LockRunsInit, LockRunsStep, WriteInvariant, PTL DEF Spec

\* The steps that a request has left, at most.
StepsLeft(pc) ==
    CASE pc = "idle" -> 8 [] pc = "locking" -> 7 [] pc = "starting" -> 6
      [] pc = "checking" -> 5 [] pc = "writing" -> 4 [] pc = "committing" -> 3
      [] pc = "catching" -> 2 [] pc = "releasing" -> 1 [] OTHER -> 0

Remaining(request) == StepsLeft(request.pc) + (IF request.phase = "write" THEN 8 ELSE 0)

\* A request only ever goes forward: whatever fails, it never tries anything twice, and
\* its failure audit, which is tried once, is the only thing that can follow its end.
RequestsAdvance ==
    [][\A w \in Operation : op'[w] # op[w] => Remaining(op'[w]) < Remaining(op[w])]_vars

LEMMA Advances ==
    ASSUME TypeOK, NEW w \in Operation, WriteStep(w)
    PROVE  Remaining(op'[w]) < Remaining(op[w])
  <1>0. op \in [Operation -> Request] /\ op[w] \in Request
    BY DEF TypeOK
  <1>1. CASE Begin(w)
    BY <1>0, <1>1 DEF Begin, Remaining, StepsLeft, Request
  <1>2. CASE Lock(w) \/ LockBusy(w)
    BY <1>0, <1>2 DEF Lock, LockBusy, Step, Throws, Remaining, StepsLeft, Request
  <1>3. CASE StartTransaction(w) \/ CheckReady(w)
    BY <1>0, <1>3 DEF StartTransaction, CheckReady, Step, Throws, Remaining, StepsLeft, Request
  <1>4. CASE Write(w) \/ WriteThrows(w)
    BY <1>0, <1>4 DEF Write, WriteThrows, Throws, Remaining, StepsLeft, Request
  <1>5. CASE Commit(w) \/ CommitFails(w)
    BY <1>0, <1>5 DEF Commit, CommitFails, Step, Throws, Remaining, StepsLeft, Request
  <1>6. CASE Unreachable(w)
    BY <1>0, <1>6 DEF Unreachable, Throws, Remaining, StepsLeft, Request
  <1>7. CASE Rollback(w) \/ RollbackFails(w)
    BY <1>0, <1>7 DEF Rollback, RollbackFails, Step, Remaining, StepsLeft, Request
  <1>8. CASE Release(w)
    <2>1. op[w].pc = "releasing" /\ StepsLeft(op[w].pc) = 1
      BY <1>8 DEF Release, StepsLeft
    <2>2. CASE op'[w].pc \in {"ok", "error"} /\ op'[w].phase = op[w].phase
      <3>1. StepsLeft(op'[w].pc) = 0
        BY <2>2 DEF StepsLeft
      <3> QED BY <2>1, <2>2, <3>1 DEF Remaining
    <2>3. CASE op[w].phase = "write" /\ op'[w].phase = "audit" /\ op'[w].pc = "locking"
      BY <2>1, <2>3 DEF Remaining, StepsLeft
    <2> QED BY <1>0, <1>8, <2>2, <2>3 DEF Release, AuditsFailure, NewRequest, Request
  <1> QED BY <1>1, <1>2, <1>3, <1>4, <1>5, <1>6, <1>7, <1>8 DEF WriteStep

\* With LockIsNeverLeft, what NobodyIsStuck needs besides fairness: no request takes more
\* than sixteen steps, so one that is not kept waiting is answered (the single attempt at
\* each statement of withAuditedApplicationWrite).
THEOREM Progress == Spec => RequestsAdvance
  <1>1. ASSUME TypeOK, [Next]_vars
        PROVE  \A w \in Operation : op'[w] # op[w] => Remaining(op'[w]) < Remaining(op[w])
    <2> SUFFICES ASSUME NEW w \in Operation, op'[w] # op[w]
                 PROVE  Remaining(op'[w]) < Remaining(op[w])
      OBVIOUS
    <2>1. ASSUME NEW v \in Operation, WriteStep(v) PROVE v = w
      BY <1>1, <2>1, OthersStay
    <2>2. \E v \in Operation : WriteStep(v)
      BY <1>1 DEF Next, vars, PrepareBegin, PrepareStep, PrepareLocks, PrepareBusy, PrepareReads,
             PrepareTables, PrepareFinishes, PrepareThrows, PrepareFails, PrepareGivesUp,
             PrepareReleases, Disconnect
    <2> QED BY <1>1, <2>1, <2>2, Advances
  <1>2. IInv => TypeOK
    BY DEF IInv
  <1>3. IInv /\ [Next]_vars
        => [\A w \in Operation : op'[w] # op[w] => Remaining(op'[w]) < Remaining(op[w])]_vars
    BY <1>1, <1>2
  <1> QED BY <1>3, WriteInvariant, PTL DEF Spec, RequestsAdvance

=============================================================================
