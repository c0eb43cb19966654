----------------------------- MODULE Telemetry ------------------------------
(***************************************************************************)
(* The reports of the clients of one application: a failure report, which  *)
(* may carry a reportId against retries and may name a stored record to    *)
(* update, and an application error, which is counted in the row of its    *)
(* group.  A write is served by a session of the connection pool: the      *)
(* advisory lock of the key, a READ COMMITTED transaction that first locks *)
(* the application's row, one locking read, one insert or update, COMMIT,  *)
(* and the release of the lock.  A client that got no answer sends its     *)
(* report again, so equal requests may be under way at once.               *)
(*                                                                         *)
(* A target is what a lock name is the digest of, in the table it belongs  *)
(* to: a reportId or an error group.  Success reports take the path of the *)
(* failure reports that name no record.                                    *)
(***************************************************************************)
EXTENDS Naturals, FiniteSets

CONSTANTS
    Session,            \* connections of the pool, one write at a time each
    Nobody,             \* an advisory lock is free
    ReportId,           \* idempotency keys
    NoReportId,         \* the report carries none
    Group,              \* application errors told apart by their fingerprint
    Release,            \* sequences of the application's releases
    Absent,             \* the sequence of no release
    Body,               \* everything else that sameStatusContent compares
    Record,             \* ids that a failure report may name, 0 for none
    MaxRequests,        \* bound: requests sent
    MaxFaults           \* bound: failed statements, lost connections, failed preparations

ASSUME TargetAssumption ==
    /\ NoReportId \notin ReportId \cup Group
    /\ ReportId \cap Group = {}
    /\ Nobody \notin Session
    /\ Absent \notin Release
    /\ Body # {}
    /\ Record \subseteq Nat /\ 0 \in Record
    /\ MaxRequests \in Nat

VARIABLES
    ready,              \* the ota_applications row is ready
    reports,            \* committed rows of the report tables
    named,              \* holder of the advisory lock of each target
    pc,                 \* step of the write of each session
    request,            \* its input
    number,             \* the how manieth request it is
    row,                \* the row it has read, or is about to store
    cut,                \* sessions whose client has lost the connection
    lastId,             \* AUTO_INCREMENT
    sent,               \* requests sent so far
    told,               \* answers given: request, its number and the id of the row
    faults              \* faults so far

session == <<pc, request, number, row>>
vars == <<ready, reports, named, session, cut, lastId, sent, told, faults>>

-----------------------------------------------------------------------------
Target == ReportId \cup Group
Request == [target : Target \cup {NoReportId}, release : Release \cup {Absent}, body : Body,
            record : Record]

\* of: the requests the row counts (history).
Row == [id : Nat, target : Target \cup {NoReportId}, release : Release \cup {Absent},
        body : Body, count : Nat, of : SUBSET Nat]

Pc == {"idle", "lock", "read", "write", "commit", "stored", "failed", "clashed"}

AnyBody == CHOOSE b \in Body : TRUE

\* The requests that make a difference: an application error has no release and names
\* no record, its details are left out; nor does the body of a report matter whose
\* release does not exist.
Sendable == {q \in Request :
    /\ q.target \in Group => q.release = Absent /\ q.record = 0
    /\ q.release = Absent => q.body = AnyBody}

NewRow(q, n) == [id |-> 0, target |-> q.target, release |-> q.release, body |-> q.body,
                 count |-> 1, of |-> {n}]

\* What an idle session holds.
NoRequest == CHOOSE q \in Sendable : TRUE

\* The transaction of s is open, and shares the lock of the application's row.
InTransaction(s) == pc[s] \in {"read", "write", "commit"}

\* Rows that s keeps locked: the one it has read and the one it has inserted.  What a
\* failed operation has locked is free at once, a little before its rollback.
Locks(s) == pc[s] \in {"write", "commit"} /\ row[s].id # 0

Init ==
    /\ ready = TRUE
    /\ reports = {}
    /\ named = [t \in Target |-> Nobody]
    /\ pc = [s \in Session |-> "idle"]
    /\ request = [s \in Session |-> NoRequest]
    /\ number = [s \in Session |-> 0]
    /\ row = [s \in Session |-> NewRow(NoRequest, 0)]
    /\ cut = {}
    /\ lastId = 0
    /\ sent = 0
    /\ told = {}
    /\ faults = 0

Goto(s, step) == pc' = [pc EXCEPT ![s] = step]

\* Mutant: RELEASE_LOCK only follows a commit.
UnlockedIfStored(s) == [t \in Target |-> IF named[t] = s /\ pc[s] = "stored" THEN Nobody
                                         ELSE named[t]]

\* RELEASE_LOCK, or the end of the session.
Unlocked(s) == [t \in Target |-> IF named[t] = s THEN Nobody ELSE named[t]]

\* The session is back in the pool, with its lock given back.
BackInPool(s) ==
    /\ named' = Unlocked(s)
    /\ Goto(s, "idle")
    /\ request' = [request EXCEPT ![s] = NoRequest]
    /\ number' = [number EXCEPT ![s] = 0]
    /\ row' = [row EXCEPT ![s] = NewRow(NoRequest, 0)]

-----------------------------------------------------------------------------
(* write.                                                                  *)

\* A request arrives: resolveSnapshot, which refuses an application that is not ready.
Send(s, q) ==
    /\ pc[s] = "idle" /\ sent < MaxRequests
    /\ sent' = sent + 1
    /\ Goto(s, IF ready THEN "lock" ELSE "failed")
    /\ request' = [request EXCEPT ![s] = q]
    /\ number' = [number EXCEPT ![s] = sent + 1]
    /\ row' = [row EXCEPT ![s] = NewRow(q, sent + 1)]
    /\ UNCHANGED <<ready, reports, named, cut, lastId, told, faults>>

\* The advisory lock is taken, the transaction starts and locks the application's row
\* FOR SHARE: it must be ready still.
Starts(s) ==
    /\ Goto(s, IF ready THEN "read" ELSE "failed")
    /\ UNCHANGED <<ready, reports, request, number, row, cut, lastId, sent, told, faults>>

\* Mutant: the lock is given back before the transaction.
StartUnlocked(s) ==
    /\ pc[s] = "lock" /\ s \notin cut
    /\ request[s].target # NoReportId => named[request[s].target] = Nobody
    /\ named' = named
    /\ Starts(s)

\* GET_LOCK, for a request with a key or a group.
Start(s) ==
    /\ pc[s] = "lock" /\ s \notin cut
    /\ request[s].target # NoReportId => named[request[s].target] = Nobody
    /\ named' = [t \in Target |-> IF t = request[s].target THEN s ELSE named[t]]
    /\ Starts(s)

\* GET_LOCK gives up after 10 s.
Busy(s) ==
    /\ pc[s] = "lock" /\ s \notin cut
    /\ request[s].target # NoReportId /\ named[request[s].target] # Nobody
    /\ Goto(s, "failed")
    /\ UNCHANGED <<ready, reports, named, request, number, row, cut, lastId, sent, told, faults>>

\* The operation has thrown.
Refuse(s) ==
    /\ Goto(s, "failed")
    /\ UNCHANGED <<ready, reports, named, request, number, row, cut, lastId, sent, told, faults>>

\* The locking read has found the row x, from which the write goes on.
Found(s, x, step) ==
    /\ row' = [row EXCEPT ![s] = x]
    /\ Goto(s, step)
    /\ UNCHANGED <<ready, reports, named, request, number, cut, lastId, sent, told, faults>>

SameStatusContent(x, q) == x.release = q.release /\ x.body = q.body

-----------------------------------------------------------------------------
(* status.                                                                 *)

Reading(s) == pc[s] = "read" /\ s \notin cut

IsStatus(q) == q.target \notin Group

\* requireRelease.
RefuseRelease(s) ==
    /\ Reading(s) /\ IsStatus(request[s]) /\ request[s].release = Absent
    /\ Refuse(s)

\* SELECT ... FOR UPDATE of the record that the request names.
NamesRecord(s) == Reading(s) /\ IsStatus(request[s]) /\ request[s].release # Absent
                    /\ request[s].record > 0

RecordLocked(s) ==
    \E other \in Session \ {s} : Locks(other) /\ row[other].id = request[s].record

RefuseRecord(s) ==
    /\ NamesRecord(s) /\ ~RecordLocked(s)
    /\ ~\E x \in reports : x.id = request[s].record /\ x.target \notin Group
    /\ Refuse(s)

\* A record with a key is final: it is returned to the report it holds, and
\* refuses any other.
ReadKeyedRecord(s) ==
    /\ NamesRecord(s) /\ ~RecordLocked(s)
    /\ \E x \in reports :
        /\ x.id = request[s].record /\ x.target \in ReportId
        /\ IF request[s].target \in {x.target, NoReportId} /\ SameStatusContent(x, request[s])
           THEN Found(s, x, "commit")
           ELSE Refuse(s)

\* The row as the request changes it; it stays the record of its first report.
Changed(x, q) == [x EXCEPT !.body = q.body]

\* Mutant: a record with a key is updated like any other.
UpdateAnyRecord(s) ==
    /\ NamesRecord(s) /\ ~RecordLocked(s)
    /\ \E x \in reports :
        /\ x.id = request[s].record /\ x.target \notin Group
        /\ IF x.release = request[s].release /\ request[s].target = NoReportId
           THEN Found(s, Changed(x, request[s]), "write")
           ELSE Refuse(s)

\* A record without a key is updated, unless the request would give it one.
UpdateRecord(s) ==
    /\ NamesRecord(s) /\ ~RecordLocked(s)
    /\ \E x \in reports :
        /\ x.id = request[s].record /\ x.target = NoReportId
        /\ IF x.release = request[s].release /\ request[s].target = NoReportId
           THEN Found(s, Changed(x, request[s]), "write")
           ELSE Refuse(s)

\* SELECT ... WHERE LOWER(report_id) = ? FOR UPDATE: no index serves it, so it waits
\* for every row that another transaction has locked.
NamesKey(s) == Reading(s) /\ IsStatus(request[s]) /\ request[s].release # Absent
                 /\ request[s].record = 0 /\ request[s].target \in ReportId

TableLocked(s) == \E other \in Session \ {s} : Locks(other) /\ row[other].target \notin Group

\* Mutant: the stored report is returned, whatever the request says.
ReadKeyOnly(s) ==
    /\ NamesKey(s) /\ ~TableLocked(s)
    /\ \E x \in reports : x.target = request[s].target /\ Found(s, x, "commit")

\* The report is stored already: it is returned, or conflicts.
ReadKey(s) ==
    /\ NamesKey(s) /\ ~TableLocked(s)
    /\ \E x \in reports :
        /\ x.target = request[s].target
        /\ IF SameStatusContent(x, request[s]) THEN Found(s, x, "commit") ELSE Refuse(s)

\* No row has the key, or there is none: the report is inserted.
MissKey(s) ==
    /\ NamesKey(s) /\ ~TableLocked(s)
    /\ ~\E x \in reports : x.target = request[s].target
    /\ Found(s, NewRow(request[s], number[s]), "write")

NoKey(s) ==
    /\ Reading(s) /\ IsStatus(request[s]) /\ request[s].release # Absent
    /\ request[s].record = 0 /\ request[s].target = NoReportId
    /\ Found(s, NewRow(request[s], number[s]), "write")

-----------------------------------------------------------------------------
(* applicationError.                                                       *)

\* SELECT ... WHERE error_hash = ? FOR UPDATE, by its unique index.
NamesGroup(s) == Reading(s) /\ request[s].target \in Group

GroupLocked(s) ==
    \E other \in Session \ {s} : Locks(other) /\ row[other].target = request[s].target

\* Mutant: the details of the report are taken and it is not counted.
DetailsTaken(x, n) == [x EXCEPT !.of = @ \cup {n}]

\* The group counts the report.
Counted(x, n) == [x EXCEPT !.count = @ + 1, !.of = @ \cup {n}]

CountGroup(s) ==
    /\ NamesGroup(s) /\ ~GroupLocked(s)
    /\ \E x \in reports :
        /\ x.target = request[s].target
        /\ Found(s, Counted(x, number[s]), "write")

NewGroup(s) ==
    /\ NamesGroup(s) /\ ~GroupLocked(s)
    /\ ~\E x \in reports : x.target = request[s].target
    /\ Found(s, NewRow(request[s], number[s]), "write")

-----------------------------------------------------------------------------
(* The insert or update, COMMIT and the finally of write.                  *)

\* The unique key waits for a row that another transaction inserts with the same target.
Inserting(s) == \E other \in Session \ {s} :
    pc[other] = "commit" /\ row[other].target = row[s].target /\ row[s].target # NoReportId

\* report_id and error_hash are unique.
Clashes(s) == \E x \in reports : x.target = row[s].target /\ x.target # NoReportId

Write(s) ==
    /\ pc[s] = "write" /\ s \notin cut
    /\ \/ /\ row[s].id # 0
          /\ Goto(s, "commit")
          /\ UNCHANGED <<row, lastId>>
       \/ /\ row[s].id = 0 /\ ~Inserting(s) /\ Clashes(s)
          /\ Goto(s, "clashed")
          /\ UNCHANGED <<row, lastId>>
       \/ /\ row[s].id = 0 /\ ~Inserting(s) /\ ~Clashes(s)
          /\ lastId' = lastId + 1
          /\ row' = [row EXCEPT ![s].id = lastId + 1]
          /\ Goto(s, "commit")
    /\ UNCHANGED <<ready, reports, named, request, number, cut, sent, told, faults>>

\* innodb_lock_wait_timeout ends a statement that waits for a row.
Waiting(s) == \/ NamesRecord(s) /\ RecordLocked(s)
              \/ NamesKey(s) /\ TableLocked(s)
              \/ NamesGroup(s) /\ GroupLocked(s)
              \/ pc[s] = "write" /\ row[s].id = 0 /\ Inserting(s)

WaitTimesOut(s) == s \notin cut /\ Waiting(s) /\ Refuse(s)

Stored(s) == {x \in reports : x.id # row[s].id} \cup {row[s]}

\* The server commits; also when the client has lost the connection meanwhile.
Commit(s) ==
    /\ pc[s] = "commit"
    /\ reports' = Stored(s)
    /\ Goto(s, "stored")
    /\ UNCHANGED <<ready, named, request, number, row, cut, lastId, sent, told, faults>>

\* finally: ROLLBACK if the transaction is open, RELEASE_LOCK; the client is answered.
Finish(s) ==
    /\ pc[s] \in {"stored", "failed", "clashed"} /\ s \notin cut
    /\ told' = IF pc[s] = "stored"
               THEN told \cup {[request |-> request[s], number |-> number[s], id |-> row[s].id]}
               ELSE told
    /\ BackInPool(s)
    /\ UNCHANGED <<ready, reports, cut, lastId, sent, faults>>

-----------------------------------------------------------------------------
(* Faults, and the application's preparation.                              *)

Fault == faults < MaxFaults /\ faults' = faults + 1

\* A statement fails, COMMIT excepted: its outcome is the server's.
Fails(s) ==
    /\ InTransaction(s) /\ pc[s] # "commit" /\ s \notin cut
    /\ Fault
    /\ Goto(s, "failed")
    /\ UNCHANGED <<ready, reports, named, request, number, row, cut, lastId, sent, told>>

\* The connection is lost while a statement is on its way, and the client is given an
\* error.  After COMMIT only RELEASE_LOCK is left, which follows if the lock was taken.
Cut(s) ==
    /\ pc[s] # "idle" /\ s \notin cut
    /\ pc[s] = "stored" => request[s].target # NoReportId
    /\ Fault
    /\ cut' = cut \cup {s}
    /\ UNCHANGED <<ready, reports, named, session, lastId, sent, told>>

\* The server ends the session: the transaction is rolled back, the lock is free, and
\* the pool connects anew.
Drop(s) ==
    /\ s \in cut
    /\ cut' = cut \ {s}
    /\ BackInPool(s)
    /\ UNCHANGED <<ready, reports, lastId, sent, told, faults>>

\* A preparation fails and marks the application failed, or makes it ready again; its
\* update waits for the sessions that share the row.
Prepare ==
    /\ ~\E s \in Session : InTransaction(s)
    /\ IF ready THEN Fault ELSE UNCHANGED faults
    /\ ready' = ~ready
    /\ UNCHANGED <<reports, named, session, cut, lastId, sent, told>>

-----------------------------------------------------------------------------
Read(s) == \/ RefuseRelease(s) \/ RefuseRecord(s) \/ ReadKeyedRecord(s) \/ UpdateRecord(s)
           \/ ReadKey(s) \/ MissKey(s) \/ NoKey(s) \/ CountGroup(s) \/ NewGroup(s)

Step(s) == Start(s) \/ Busy(s) \/ Read(s) \/ Write(s) \/ WaitTimesOut(s)
             \/ Commit(s) \/ Finish(s) \/ Drop(s)

Next == \/ \E s \in Session : Step(s) \/ Fails(s) \/ Cut(s) \/ \E q \in Sendable : Send(s, q)
        \/ Prepare

Spec == Init /\ [][Next]_vars

\* The server and the process go on, and every wait of a statement ends.
FairSpec == Spec /\ \A s \in Session : WF_vars(Step(s))

-----------------------------------------------------------------------------
(* Properties.                                                             *)

TypeOK ==
    /\ ready \in BOOLEAN
    /\ reports \subseteq Row
    /\ named \in [Target -> Session \cup {Nobody}]
    /\ pc \in [Session -> Pc]
    /\ request \in [Session -> Sendable]
    /\ number \in [Session -> 0..MaxRequests]
    /\ row \in [Session -> Row]
    /\ cut \subseteq Session
    /\ lastId \in Nat
    /\ sent \in 0..MaxRequests
    /\ told \subseteq [request : Sendable, number : 1..MaxRequests, id : Nat]
    /\ faults \in Nat

\* A reportId or an error group has one row, and every client that was answered for a
\* reportId was answered with that row and has sent what it holds, however often and
\* from however many connections it was sent (the locked read before each insert).
OneReportPerKey ==
    /\ \A x, y \in reports : x.target = y.target /\ x.target # NoReportId => x = y
    /\ \A a \in told : a.request.target \in ReportId =>
         \E x \in reports : /\ x.id = a.id /\ x.target = a.request.target
                           /\ SameStatusContent(x, a.request)

\* A row counts the reports it stands for, no report is counted in two rows, and one
\* that was answered is counted: in its group, or as a row of its own if it has no key
\* (report_count + 1 in the transaction that is answered after its COMMIT).
AnsweredReportsCount ==
    /\ \A x \in reports : x.count = Cardinality(x.of)
    /\ \A x, y \in reports : x.of \cap y.of # {} => x = y
    /\ \A a \in told : a.request.target \notin ReportId /\ a.request.record = 0 =>
         \E x \in reports : x.id = a.id /\ a.number \in x.of

\* The unique keys behind the advisory locks never come into play: no client is given
\* the driver's duplicate-key error for a retry (GET_LOCK before the transaction).
KeysNeverClash == \A s \in Session : pc[s] # "clashed"

\* A report stored with a reportId is never changed or removed (the refusal to update
\* a record that has one).
KeyedIsFinal ==
    [][\A x \in reports : x.target \in ReportId => x \in reports']_vars

Store == INSTANCE ReportStore

\* The sessions with their locks and transactions implement the report store that
\* clients see, whatever is retried, cut off or timed out: one row per key, which is
\* final, one count per report of a group, and answers that the rows bear out.
ImplementsReportStore == Store!Spec

\* Whatever fails, a request is answered and its session is back in the pool, with no
\* lock left behind (the nested finally of write).
EveryReportAnswered ==
    \A s \in Session : pc[s] # "idle" ~> pc[s] = "idle" /\ \A t \in Target : named[t] # s

=============================================================================
