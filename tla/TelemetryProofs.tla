-------------------------- MODULE TelemetryProofs ---------------------------
(***************************************************************************)
(* What Telemetry promises, for any number of sessions, keys and requests. *)
(*                                                                         *)
(* The unique targets of the stored rows are not inductive: what carries   *)
(* them is that the session which has found no row for its target holds    *)
(* the advisory lock of the target until it has committed, and that no two *)
(* sessions keep one row locked.                                           *)
(***************************************************************************)
EXTENDS Telemetry, FiniteSetTheorems, TLAPS

\* The row x answers the request of s: it has its key and its content, or counts it.
Answers(s, x) ==
    /\ request[s].target \in ReportId =>
         x.target = request[s].target /\ SameStatusContent(x, request[s])
    /\ request[s].target \notin ReportId /\ request[s].record = 0 => number[s] \in x.of

\* The row that s is about to store: a new one, whose target nobody has, ...
Inserts(s) ==
    /\ row[s].target = request[s].target /\ row[s].release = request[s].release
    /\ row[s].body = request[s].body /\ row[s].count = 1 /\ row[s].of = {number[s]}
    /\ \A x \in reports : x.id # row[s].id
    /\ row[s].target # NoReportId => \A x \in reports : x.target # row[s].target
    /\ IF pc[s] = "write" THEN row[s].id = 0 ELSE row[s].id \in 1..lastId

\* ... or one that is there, as it is, without a key, or with the request counted.
Updates(s) ==
    \E x \in reports :
        /\ x.id = row[s].id
        /\ \/ row[s] = x
           \/ x.target = NoReportId /\ row[s] = Changed(x, request[s])
           \/ x.target \in Group /\ x.target = request[s].target /\ row[s] = Counted(x, number[s])

Holds(s) == /\ pc[s] \in {"read", "write", "commit", "stored"}
            /\ request[s].target # NoReportId

SessionInv(s) ==
    /\ pc[s] # "idle" => number[s] \in 1..sent
    /\ pc[s] \notin {"idle", "stored"} => \A x \in reports : number[s] \notin x.of
    /\ Holds(s) => named[request[s].target] = s
    /\ pc[s] \in {"lock", "read"} => row[s] = NewRow(request[s], number[s])
    /\ pc[s] \in {"write", "commit"} => (Inserts(s) \/ Updates(s)) /\ Answers(s, row[s])
    /\ pc[s] = "stored" => \E x \in reports : x.id = row[s].id /\ Answers(s, x)
    /\ pc[s] # "clashed"

Apart(s, o) ==
    /\ pc[s] # "idle" /\ pc[o] # "idle" => number[s] # number[o]
    /\ Locks(s) /\ Locks(o) => row[s].id # row[o].id

ReportsInv ==
    /\ \A x \in reports : /\ x.id \in 1..lastId
                          /\ x.of \subseteq 1..sent /\ IsFiniteSet(x.of)
                          /\ x.count = Cardinality(x.of)
    /\ \A x, y \in reports : \/ x = y
                             \/ /\ x.id # y.id
                                /\ x.target = y.target => x.target = NoReportId
                                /\ x.of \cap y.of = {}

ToldInv ==
    \A a \in told : \E x \in reports :
        /\ x.id = a.id
        /\ a.request.target \in ReportId =>
             x.target = a.request.target /\ SameStatusContent(x, a.request)
        /\ a.request.target \notin ReportId /\ a.request.record = 0 => a.number \in x.of

IInv ==
    /\ TypeOK
    /\ \A s \in Session : SessionInv(s)
    /\ \A s, o \in Session : s # o => Apart(s, o)
    /\ ReportsInv
    /\ ToldInv

-----------------------------------------------------------------------------
\* A request can be sent, so that what idle sessions hold is one.
LEMMA SomeRequest == NoRequest \in Sendable
<1>1. AnyBody \in Body
    BY TargetAssumption DEF AnyBody
<1>2. [target |-> NoReportId, release |-> Absent, body |-> AnyBody, record |-> 0] \in Sendable
    BY <1>1, TargetAssumption DEF Sendable, Request
<1> QED
    BY <1>2 DEF NoRequest

LEMMA NewRowType ==
    ASSUME NEW q \in Sendable, NEW n \in Nat
    PROVE  NewRow(q, n) \in Row
BY DEF NewRow, Row, Sendable, Request

\* The invariant implies what the runs check.
LEMMA InvImplies ==
    ASSUME IInv
    PROVE  OneReportPerKey /\ AnsweredReportsCount /\ KeysNeverClash
<1>1. OneReportPerKey
    BY DEF IInv, ReportsInv, ToldInv, OneReportPerKey
<1>2. AnsweredReportsCount
    BY DEF IInv, ReportsInv, ToldInv, AnsweredReportsCount
<1>3. KeysNeverClash
    BY DEF IInv, SessionInv, KeysNeverClash
<1> QED
    BY <1>1, <1>2, <1>3

\* Before the first request.
LEMMA InitInv ==
    ASSUME Init
    PROVE  IInv
<1>1. TypeOK
    BY SomeRequest, NewRowType, TargetAssumption DEF Init, TypeOK, Pc
<1>2. \A s \in Session : SessionInv(s)
    BY DEF Init, SessionInv, Holds
<1>3. \A s, o \in Session : s # o => Apart(s, o)
    BY DEF Init, Apart, Locks
<1>4. ReportsInv /\ ToldInv
    BY DEF Init, ReportsInv, ToldInv
<1> QED
    BY <1>1, <1>2, <1>3, <1>4 DEF IInv

-----------------------------------------------------------------------------
(* Steps that move one session and leave the stored rows alone.            *)

\* The other sessions do not notice a step of s which takes no lock of theirs.
LEMMA QuietStep ==
    ASSUME IInv, TypeOK', NEW s \in Session,
           reports' = reports, lastId' \in Nat, lastId <= lastId', sent' \in Nat, sent <= sent',
           \A o \in Session \ {s} : /\ pc'[o] = pc[o] /\ request'[o] = request[o]
                                    /\ number'[o] = number[o] /\ row'[o] = row[o]
                                    /\ Holds(o) => named'[request[o].target] = o,
           SessionInv(s)',
           \A o \in Session \ {s} : Apart(s, o)',
           ToldInv'
    PROVE  IInv'
<1>1. \A o \in Session : SessionInv(o)'
    <2> SUFFICES ASSUME NEW o \in Session \ {s} PROVE SessionInv(o)'
        OBVIOUS
    <2>1. SessionInv(o)
        BY DEF IInv
    <2>2. number[o] \in Nat
        BY DEF IInv, TypeOK
    <2>3. pc'[o] # "idle" => number'[o] \in 1..sent'
        BY <2>1, <2>2 DEF SessionInv, IInv, TypeOK
    <2>4. Holds(o)' => named'[request'[o].target] = o
        BY DEF Holds
    <2>5. Inserts(o) /\ pc[o] \in {"write", "commit"} => Inserts(o)'
        BY DEF Inserts, IInv, TypeOK, NewRow
    <2>6. Updates(o) => Updates(o)'
        BY DEF Updates, Changed, Counted
    <2>7. \A x : Answers(o, x) => Answers(o, x)'
        BY DEF Answers, SameStatusContent
    <2>8. pc'[o] \in {"write", "commit"} => (Inserts(o)' \/ Updates(o)') /\ Answers(o, row[o])'
        BY <2>1, <2>5, <2>6, <2>7 DEF SessionInv
    <2>9. pc'[o] = "stored" => \E x \in reports' : x.id = row'[o].id /\ Answers(o, x)'
        BY <2>1, <2>7 DEF SessionInv
    <2> QED
        BY <2>1, <2>3, <2>4, <2>8, <2>9 DEF SessionInv, NewRow, Answers, SameStatusContent
<1>2. \A r, o \in Session : r # o => Apart(r, o)'
    <2> SUFFICES ASSUME NEW r \in Session, NEW o \in Session, r # o PROVE Apart(r, o)'
        OBVIOUS
    <2>1. CASE r = s
        BY <2>1
    <2>2. CASE o = s
        BY <2>2 DEF Apart
    <2>3. CASE r # s /\ o # s
        BY <2>3 DEF IInv, Apart, Locks
    <2> QED
        BY <2>1, <2>2, <2>3
<1>3. ReportsInv'
    <2>1. \A x \in reports : x \in Row /\ x.id \in 1..lastId' /\ x.of \subseteq 1..sent'
        BY DEF IInv, ReportsInv, TypeOK, Row
    <2> QED
        BY <2>1 DEF IInv, ReportsInv
<1> QED
    BY <1>1, <1>2, <1>3 DEF IInv

\* A step of s within its request: its row is not locked by it, or by no other session.
LEMMA SessionStep ==
    ASSUME IInv, TypeOK', NEW s \in Session, pc[s] # "idle",
           reports' = reports, lastId' = lastId, sent' = sent, told' = told,
           request' = request, number' = number,
           \A o \in Session \ {s} : pc'[o] = pc[o] /\ row'[o] = row[o],
           \A t \in Target : named'[t] = named[t] \/ named[t] \notin Session \ {s},
           SessionInv(s)',
           \A o \in Session \ {s} : Locks(s)' /\ Locks(o) => row'[s].id # row[o].id
    PROVE  IInv'
<1>1. \A o \in Session \ {s} : Holds(o) => named'[request[o].target] = o
    <2> SUFFICES ASSUME NEW o \in Session \ {s}, Holds(o) PROVE named'[request[o].target] = o
        OBVIOUS
    <2>1. request[o].target \in Target
        BY DEF Holds, IInv, TypeOK, Sendable, Request
    <2>2. named[request[o].target] = o
        BY DEF IInv, SessionInv
    <2> QED
        BY <2>1, <2>2
<1>2. \A o \in Session \ {s} : Apart(s, o)'
    <2> SUFFICES ASSUME NEW o \in Session \ {s} PROVE Apart(s, o)'
        OBVIOUS
    <2>1. Apart(s, o)
        BY DEF IInv
    <2>2. Locks(o)' => Locks(o)
        BY DEF Locks
    <2> QED
        BY <2>1, <2>2 DEF Apart
<1>3. ToldInv'
    BY DEF IInv, ToldInv, SameStatusContent
<1>4. lastId \in Nat /\ sent \in Nat
    BY TargetAssumption DEF IInv, TypeOK
<1> QED
    BY <1>1, <1>2, <1>3, <1>4, QuietStep

\* The operation throws, or the request is not served: nothing is left to keep.
LEMMA FailedStep ==
    ASSUME IInv, TypeOK', NEW s \in Session, pc[s] \notin {"idle", "stored"},
           Goto(s, "failed"),
           reports' = reports, lastId' = lastId, sent' = sent, told' = told,
           request' = request, number' = number, row' = row, named' = named
    PROVE  IInv'
<1>1. pc' = [pc EXCEPT ![s] = "failed"] /\ pc \in [Session -> Pc]
    BY DEF Goto, IInv, TypeOK
<1>2. SessionInv(s)'
    BY <1>1 DEF IInv, SessionInv, Holds
<1>3. ~Locks(s)'
    BY <1>1 DEF Locks
<1> QED
    BY <1>1, <1>2, <1>3, SessionStep

-----------------------------------------------------------------------------
(* The actions of the sessions.                                            *)

LEMMA StartInv ==
    ASSUME IInv, TypeOK', NEW s \in Session, Start(s)
    PROVE  IInv'
<1>1. pc' = [pc EXCEPT ![s] = IF ready THEN "read" ELSE "failed"] /\ pc \in [Session -> Pc]
    BY DEF Start, Starts, Goto, IInv, TypeOK
<1>2. pc[s] = "lock" /\ UNCHANGED <<reports, request, number, row, lastId, sent, told>>
    BY DEF Start, Starts
<1>3. \A t \in Target : named'[t] = named[t] \/ named[t] \notin Session \ {s}
    BY TargetAssumption DEF Start, Target
<1>4. Holds(s)' => named'[request'[s].target] = s
    BY <1>2 DEF Holds, Start, IInv, TypeOK, Sendable, Request
<1>5. SessionInv(s)'
    BY <1>1, <1>2, <1>4 DEF IInv, SessionInv, NewRow
<1>6. ~Locks(s)'
    BY <1>1 DEF Locks
<1> QED
    BY <1>1, <1>2, <1>3, <1>5, <1>6, SessionStep

\* The locking reads that find nothing: a row of the request itself is inserted.
LEMMA InsertInv ==
    ASSUME IInv, TypeOK', NEW s \in Session, MissKey(s) \/ NoKey(s) \/ NewGroup(s)
    PROVE  IInv'
<1>1. pc' = [pc EXCEPT ![s] = "write"] /\ row' = [row EXCEPT ![s] = NewRow(request[s], number[s])]
    BY DEF MissKey, NoKey, NewGroup, Found, Goto
<1>2. pc \in [Session -> Pc] /\ row \in [Session -> Row] /\ pc[s] = "read"
    BY DEF IInv, TypeOK, MissKey, NoKey, NewGroup, NamesKey, NamesGroup, Reading
<1>3. UNCHANGED <<reports, request, number, named, lastId, sent, told>>
    BY DEF MissKey, NoKey, NewGroup, Found
<1>4. request[s].target # NoReportId => \A x \in reports : x.target # request[s].target
    BY DEF MissKey, NoKey, NewGroup
<1>5. Inserts(s)'
    <2>1. \A x \in reports : x.id # 0
        BY DEF IInv, ReportsInv, TypeOK
    <2> QED
        BY <1>1, <1>2, <1>3, <1>4, <2>1 DEF Inserts, NewRow
<1>6. Answers(s, row[s])'
    BY <1>1, <1>2, <1>3 DEF Answers, NewRow, SameStatusContent
<1>7. SessionInv(s)'
    BY <1>1, <1>2, <1>3, <1>5, <1>6 DEF IInv, SessionInv, Holds
<1>8. ~Locks(s)'
    BY <1>1, <1>2 DEF Locks, NewRow
<1> QED
    BY <1>1, <1>2, <1>3, <1>7, <1>8, SessionStep

\* The row that a session keeps locked has an id, and the target of the stored row.
LEMMA LockedRow ==
    ASSUME IInv, NEW o \in Session, Locks(o)
    PROVE  /\ row[o].id \in 1..lastId
           /\ \A x \in reports : x.id = row[o].id => x.target = row[o].target
<1>1. pc[o] \in {"write", "commit"} /\ row[o].id # 0 /\ (Inserts(o) \/ Updates(o))
    BY DEF IInv, SessionInv, Locks
<1>2. CASE Inserts(o)
    BY <1>1, <1>2 DEF Inserts
<1>3. CASE Updates(o)
    <2>1. PICK x \in reports : /\ x.id = row[o].id
                              /\ \/ row[o] = x
                                 \/ x.target = NoReportId /\ row[o] = Changed(x, request[o])
                                 \/ /\ x.target \in Group /\ x.target = request[o].target
                                    /\ row[o] = Counted(x, number[o])
        BY <1>3 DEF Updates
    <2>2. x \in Row
        BY DEF IInv, TypeOK
    <2>3. Changed(x, request[o]).target = x.target /\ Counted(x, number[o]).target = x.target
        BY <2>2 DEF Changed, Counted, Row
    <2>4. row[o].target = x.target
        BY <2>1, <2>3
    <2>5. \A y \in reports : y.id = x.id => y = x
        BY DEF IInv, ReportsInv
    <2>6. x.id \in 1..lastId
        BY DEF IInv, ReportsInv
    <2> QED
        BY <2>1, <2>4, <2>5, <2>6
<1> QED
    BY <1>1, <1>2, <1>3

\* The locking reads that find a row which no other session keeps locked.
LEMMA FoundInv ==
    ASSUME IInv, TypeOK', NEW s \in Session, Reading(s), NEW x \in reports, NEW r, NEW step,
           Found(s, r, step), step \in {"write", "commit"}, r.id = x.id,
           \/ r = x
           \/ x.target = NoReportId /\ r = Changed(x, request[s])
           \/ x.target \in Group /\ x.target = request[s].target /\ r = Counted(x, number[s]),
           request[s].target \in ReportId =>
             r.target = request[s].target /\ SameStatusContent(r, request[s]),
           request[s].target \notin ReportId /\ request[s].record = 0 => number[s] \in r.of,
           \A o \in Session \ {s} : Locks(o) => row[o].id # x.id
    PROVE  IInv'
<1>1. pc' = [pc EXCEPT ![s] = step] /\ row' = [row EXCEPT ![s] = r]
    BY DEF Found, Goto
<1>2. pc \in [Session -> Pc] /\ row \in [Session -> Row] /\ pc[s] = "read"
    BY DEF IInv, TypeOK, Reading
<1>3. UNCHANGED <<reports, request, number, named, lastId, sent, told>>
    BY DEF Found
<1>4. Updates(s)'
    <2>1. row'[s] = r
        BY <1>1, <1>2
    <2> QED
        BY <1>3, <2>1 DEF Updates, Changed, Counted
<1>5. Answers(s, row[s])'
    BY <1>1, <1>2, <1>3 DEF Answers, SameStatusContent
<1>6. SessionInv(s)'
    BY <1>1, <1>2, <1>3, <1>4, <1>5 DEF IInv, SessionInv, Holds
<1>7. \A o \in Session \ {s} : Locks(s)' /\ Locks(o) => row'[s].id # row[o].id
    BY <1>1, <1>2
<1> QED
    BY <1>1, <1>2, <1>3, <1>6, <1>7, SessionStep

LEMMA ReadInv ==
    ASSUME IInv, TypeOK', NEW s \in Session, Read(s)
    PROVE  IInv'
<1>0. \A x \in reports : x \in Row
    BY DEF IInv, TypeOK
<1> DEFINE Idle(x) == \A o \in Session \ {s} : Locks(o) => row[o].id # x.id
<1>1. CASE RefuseRelease(s) \/ RefuseRecord(s)
    BY <1>1, FailedStep DEF RefuseRelease, RefuseRecord, NamesRecord, Reading, Refuse
<1>2. CASE ReadKeyedRecord(s)
    <2>1. Reading(s) /\ request[s].record > 0 /\ ~RecordLocked(s)
        BY <1>2 DEF ReadKeyedRecord, NamesRecord
    <2>2. PICK x \in reports :
            /\ x.id = request[s].record /\ x.target \in ReportId
            /\ IF request[s].target \in {x.target, NoReportId} /\ SameStatusContent(x, request[s])
               THEN Found(s, x, "commit")
               ELSE Refuse(s)
        BY <1>2 DEF ReadKeyedRecord
    <2>3. CASE Refuse(s)
        BY <2>1, <2>3, FailedStep DEF Reading, Refuse
    <2>4. CASE Found(s, x, "commit") /\ request[s].target \in {x.target, NoReportId}
                 /\ SameStatusContent(x, request[s])
        <3>1. Idle(x)
            BY <2>1, <2>2 DEF RecordLocked
        <3>2. request[s].target \in ReportId => x.target = request[s].target
            BY <2>4, TargetAssumption
        <3>3. request[s].record # 0
            BY <2>1, TargetAssumption DEF IInv, TypeOK, Sendable, Request
        <3> QED
            BY <2>1, <2>4, <3>1, <3>2, <3>3, FoundInv
    <2> QED
        BY <2>2, <2>3, <2>4
<1>3. CASE UpdateRecord(s)
    <2>1. Reading(s) /\ request[s].record > 0 /\ ~RecordLocked(s)
        BY <1>3 DEF UpdateRecord, NamesRecord
    <2>2. PICK x \in reports :
            /\ x.id = request[s].record /\ x.target = NoReportId
            /\ IF x.release = request[s].release /\ request[s].target = NoReportId
               THEN Found(s, Changed(x, request[s]), "write")
               ELSE Refuse(s)
        BY <1>3 DEF UpdateRecord
    <2>3. CASE Refuse(s)
        BY <2>1, <2>3, FailedStep DEF Reading, Refuse
    <2>4. CASE Found(s, Changed(x, request[s]), "write") /\ request[s].target = NoReportId
        <3>1. Idle(x)
            BY <2>1, <2>2 DEF RecordLocked
        <3>2. request[s].target \notin ReportId
            BY <2>4, TargetAssumption
        <3>3. request[s].record # 0
            BY <2>1, TargetAssumption DEF IInv, TypeOK, Sendable, Request
        <3>4. Changed(x, request[s]).id = x.id
            BY <1>0 DEF Changed, Row
        <3> QED
            BY <2>1, <2>2, <2>4, <3>1, <3>2, <3>3, <3>4, FoundInv
    <2> QED
        BY <2>2, <2>3, <2>4
<1>4. CASE ReadKey(s)
    <2>1. Reading(s) /\ request[s].target \in ReportId /\ ~TableLocked(s)
        BY <1>4 DEF ReadKey, NamesKey
    <2>2. PICK x \in reports :
            /\ x.target = request[s].target
            /\ IF SameStatusContent(x, request[s]) THEN Found(s, x, "commit") ELSE Refuse(s)
        BY <1>4 DEF ReadKey
    <2>3. CASE Refuse(s)
        BY <2>1, <2>3, FailedStep DEF Reading, Refuse
    <2>4. CASE Found(s, x, "commit") /\ SameStatusContent(x, request[s])
        <3>1. Idle(x)
            BY <2>1, <2>2, LockedRow, TargetAssumption DEF TableLocked
        <3> QED
            BY <2>1, <2>2, <2>4, <3>1, FoundInv
    <2> QED
        BY <2>2, <2>3, <2>4
<1>5. CASE MissKey(s) \/ NoKey(s) \/ NewGroup(s)
    BY <1>5, InsertInv
<1>6. CASE CountGroup(s)
    <2>1. Reading(s) /\ request[s].target \in Group /\ ~GroupLocked(s)
        BY <1>6 DEF CountGroup, NamesGroup
    <2>2. PICK x \in reports :
            /\ x.target = request[s].target
            /\ Found(s, Counted(x, number[s]), "write")
        BY <1>6 DEF CountGroup
    <2>3. Idle(x)
        BY <2>1, <2>2, LockedRow DEF GroupLocked
    <2>4. Counted(x, number[s]).id = x.id /\ number[s] \in Counted(x, number[s]).of
        BY <1>0 DEF Counted, Row
    <2>5. request[s].target \notin ReportId
        BY <2>1, TargetAssumption
    <2> QED
        BY <2>1, <2>2, <2>3, <2>4, <2>5, FoundInv
<1> QED
    BY <1>1, <1>2, <1>3, <1>4, <1>5, <1>6 DEF Read

\* The insert or update: it never meets a row with its key.
LEMMA WriteInv ==
    ASSUME IInv, TypeOK', NEW s \in Session, Write(s)
    PROVE  IInv'
<1>0. /\ pc \in [Session -> Pc] /\ row \in [Session -> Row] /\ pc[s] = "write"
      /\ lastId \in Nat /\ sent \in Nat
    BY TargetAssumption DEF IInv, TypeOK, Write
<1>1. (Inserts(s) \/ Updates(s)) /\ Answers(s, row[s])
    BY <1>0 DEF IInv, SessionInv
<1>2. \A x \in reports : x.id # 0
    BY DEF IInv, ReportsInv, TypeOK
<1>3. UNCHANGED <<reports, request, number, named, sent, told>>
    BY DEF Write
<1>4. CASE row[s].id # 0 /\ Goto(s, "commit") /\ UNCHANGED <<row, lastId>>
    <2>1. pc' = [pc EXCEPT ![s] = "commit"]
        BY <1>4 DEF Goto
    <2>2. Updates(s)
        BY <1>0, <1>1, <1>4 DEF Inserts
    <2>3. Updates(s)' /\ Answers(s, row[s])'
        BY <1>1, <1>3, <1>4, <2>2 DEF Updates, Changed, Counted, Answers, SameStatusContent
    <2>4. SessionInv(s)'
        BY <1>0, <1>3, <1>4, <2>1, <2>3 DEF IInv, SessionInv, Holds
    <2>5. \A o \in Session \ {s} : Locks(s)' /\ Locks(o) => row'[s].id # row[o].id
        BY <1>0, <1>4 DEF IInv, Apart, Locks
    <2> QED
        BY <1>0, <1>3, <1>4, <2>1, <2>4, <2>5, SessionStep
<1>5. CASE row[s].id = 0 /\ Clashes(s)
    <2>1. Inserts(s)
        BY <1>1, <1>2, <1>5 DEF Updates
    <2> QED
        BY <1>5, <2>1 DEF Inserts, Clashes
<1>6. CASE /\ row[s].id = 0
           /\ lastId' = lastId + 1
           /\ row' = [row EXCEPT ![s].id = lastId + 1]
           /\ Goto(s, "commit")
    <2>1. pc' = [pc EXCEPT ![s] = "commit"]
        BY <1>6 DEF Goto
    <2>2. Inserts(s)
        BY <1>1, <1>2, <1>6 DEF Updates
    <2>3. /\ row'[s].id = lastId + 1 /\ row'[s].target = row[s].target
          /\ row'[s].release = row[s].release /\ row'[s].body = row[s].body
          /\ row'[s].count = row[s].count /\ row'[s].of = row[s].of
        BY <1>0, <1>6 DEF Row
    <2>4. \A x \in reports : x.id # lastId + 1
        BY <1>0 DEF IInv, ReportsInv
    <2>5. Inserts(s)'
        BY <1>0, <1>3, <1>6, <2>1, <2>2, <2>3, <2>4 DEF Inserts
    <2>6. Answers(s, row[s])'
        BY <1>1, <1>3, <2>3 DEF Answers, SameStatusContent
    <2>7. SessionInv(s)'
        BY <1>0, <1>3, <2>1, <2>5, <2>6 DEF IInv, SessionInv, Holds
    <2>8. \A o \in Session \ {s} : Apart(s, o)'
        <3> SUFFICES ASSUME NEW o \in Session \ {s} PROVE Apart(s, o)'
            OBVIOUS
        <3>1. Apart(s, o)
            BY DEF IInv
        <3>2. Locks(o)' => Locks(o) /\ row'[o] = row[o]
            BY <1>0, <1>6, <2>1 DEF Locks
        <3>3. Locks(o) => row[o].id \in 1..lastId
            BY LockedRow
        <3>4. Locks(o)' => row'[s].id # row'[o].id
            BY <1>0, <2>3, <3>2, <3>3
        <3> QED
            BY <1>0, <1>3, <2>1, <3>1, <3>4 DEF Apart
    <2>9. \A o \in Session \ {s} : /\ pc'[o] = pc[o] /\ request'[o] = request[o]
                                   /\ number'[o] = number[o] /\ row'[o] = row[o]
                                   /\ Holds(o) => named'[request[o].target] = o
        BY <1>0, <1>3, <1>6, <2>1 DEF IInv, SessionInv
    <2>10. ToldInv'
        BY <1>3 DEF IInv, ToldInv, SameStatusContent
    <2> QED
        BY <1>0, <1>3, <1>6, <2>7, <2>8, <2>9, <2>10, QuietStep
<1> QED
    BY <1>4, <1>5, <1>6 DEF Write

\* A request arrives with a number of its own.
LEMMA SendInv ==
    ASSUME IInv, TypeOK', NEW s \in Session, NEW q \in Sendable, Send(s, q)
    PROVE  IInv'
<1>1. /\ pc \in [Session -> Pc] /\ row \in [Session -> Row] /\ pc[s] = "idle"
      /\ lastId \in Nat /\ sent \in Nat /\ number \in [Session -> 0..MaxRequests]
      /\ request \in [Session -> Sendable]
    BY TargetAssumption DEF IInv, TypeOK, Send
<1>2. pc' = [pc EXCEPT ![s] = IF ready THEN "lock" ELSE "failed"]
    BY DEF Send, Goto
<1>3. /\ request' = [request EXCEPT ![s] = q] /\ number' = [number EXCEPT ![s] = sent + 1]
      /\ row' = [row EXCEPT ![s] = NewRow(q, sent + 1)] /\ sent' = sent + 1
      /\ UNCHANGED <<reports, named, lastId, told>>
    BY DEF Send
<1>4. \A x \in reports : sent + 1 \notin x.of
    BY <1>1 DEF IInv, ReportsInv
<1>5. SessionInv(s)'
    BY <1>1, <1>2, <1>3, <1>4 DEF SessionInv, Holds, NewRow
<1>6. \A o \in Session \ {s} : Apart(s, o)'
    <2> SUFFICES ASSUME NEW o \in Session \ {s} PROVE Apart(s, o)'
        OBVIOUS
    <2>1. pc[o] # "idle" => number[o] \in 1..sent
        BY DEF IInv, SessionInv
    <2>2. ~Locks(s)'
        BY <1>1, <1>2 DEF Locks
    <2> QED
        BY <1>1, <1>2, <1>3, <2>1, <2>2 DEF Apart
<1>7. \A o \in Session \ {s} : /\ pc'[o] = pc[o] /\ request'[o] = request[o]
                               /\ number'[o] = number[o] /\ row'[o] = row[o]
                               /\ Holds(o) => named'[request[o].target] = o
    BY <1>1, <1>2, <1>3 DEF IInv, SessionInv
<1>8. ToldInv'
    BY <1>3 DEF IInv, ToldInv, SameStatusContent
<1> QED
    BY <1>1, <1>3, <1>5, <1>6, <1>7, <1>8, QuietStep

\* The end of a request, answered or not.
LEMMA BackInPoolInv ==
    ASSUME IInv, TypeOK', NEW s \in Session, BackInPool(s),
           UNCHANGED <<reports, lastId, sent>>, ToldInv'
    PROVE  IInv'
<1>1. /\ pc \in [Session -> Pc] /\ row \in [Session -> Row]
      /\ lastId \in Nat /\ sent \in Nat /\ number \in [Session -> 0..MaxRequests]
      /\ request \in [Session -> Sendable]
    BY TargetAssumption DEF IInv, TypeOK
<1>2. /\ pc' = [pc EXCEPT ![s] = "idle"] /\ request' = [request EXCEPT ![s] = NoRequest]
      /\ number' = [number EXCEPT ![s] = 0] /\ named' = Unlocked(s)
      /\ row' = [row EXCEPT ![s] = NewRow(NoRequest, 0)]
    BY DEF BackInPool, Goto
<1>3. SessionInv(s)'
    BY <1>1, <1>2 DEF SessionInv, Holds
<1>4. \A o \in Session \ {s} : Apart(s, o)'
    BY <1>1, <1>2 DEF Apart, Locks
<1>5. \A o \in Session \ {s} : Holds(o) => named'[request[o].target] = o
    <2> SUFFICES ASSUME NEW o \in Session \ {s}, Holds(o) PROVE named'[request[o].target] = o
        OBVIOUS
    <2>1. request[o].target \in Target /\ named[request[o].target] = o
        BY DEF Holds, IInv, TypeOK, Sendable, Request, SessionInv
    <2> QED
        BY <1>2, <2>1 DEF Unlocked
<1>6. \A o \in Session \ {s} : /\ pc'[o] = pc[o] /\ request'[o] = request[o]
                               /\ number'[o] = number[o] /\ row'[o] = row[o]
    BY <1>1, <1>2
<1> QED
    BY <1>1, <1>3, <1>4, <1>5, <1>6, QuietStep

LEMMA FinishInv ==
    ASSUME IInv, TypeOK', NEW s \in Session, Finish(s)
    PROVE  IInv'
<1>1. BackInPool(s) /\ UNCHANGED <<reports, lastId, sent>>
    BY DEF Finish
<1>2. ToldInv'
    <2> SUFFICES ASSUME NEW a \in told'
                 PROVE  \E x \in reports :
                            /\ x.id = a.id
                            /\ a.request.target \in ReportId =>
                                 x.target = a.request.target /\ SameStatusContent(x, a.request)
                            /\ a.request.target \notin ReportId /\ a.request.record = 0 =>
                                 a.number \in x.of
        BY <1>1 DEF ToldInv, SameStatusContent
    <2>1. CASE a \in told
        BY <2>1 DEF IInv, ToldInv
    <2>2. CASE pc[s] = "stored"
                 /\ a = [request |-> request[s], number |-> number[s], id |-> row[s].id]
        <3>1. PICK x \in reports : x.id = row[s].id /\ Answers(s, x)
            BY <2>2 DEF IInv, SessionInv
        <3> QED
            BY <2>2, <3>1 DEF Answers
    <2> QED
        BY <2>1, <2>2 DEF Finish
<1> QED
    BY <1>1, <1>2, BackInPoolInv

LEMMA DropInv ==
    ASSUME IInv, TypeOK', NEW s \in Session, Drop(s)
    PROVE  IInv'
<1>1. ToldInv'
    BY DEF Drop, IInv, ToldInv, SameStatusContent
<1> QED
    BY <1>1, BackInPoolInv DEF Drop

-----------------------------------------------------------------------------
(* COMMIT.                                                                 *)

\* What a commit stores, against the rows it finds.
LEMMA StoredRow ==
    ASSUME IInv, NEW s \in Session, pc[s] = "commit"
    PROVE  /\ row[s].id \in 1..lastId
           /\ row[s].of \subseteq 1..sent /\ IsFiniteSet(row[s].of)
           /\ row[s].count = Cardinality(row[s].of)
           /\ \A x \in reports : x.id # row[s].id =>
                /\ x.of \cap row[s].of = {}
                /\ x.target = row[s].target => x.target = NoReportId
           /\ \A x \in reports : x.id = row[s].id =>
                /\ x.of \subseteq row[s].of /\ x.target = row[s].target
                /\ x.target \in ReportId => x = row[s]
           /\ \A n \in row[s].of : n = number[s] \/ \E x \in reports : n \in x.of
           /\ \/ Inserts(s)
              \/ \E x \in reports : x.id = row[s].id
<1>0. /\ (Inserts(s) \/ Updates(s)) /\ number[s] \in 1..sent
      /\ \A x \in reports : number[s] \notin x.of
    BY DEF IInv, SessionInv
<1>1. CASE Inserts(s)
    <2>1. row[s].of = {number[s]} /\ row[s].count = 1
        BY <1>1 DEF Inserts
    <2>2. IsFiniteSet({number[s]}) /\ Cardinality({number[s]}) = 1
        BY FS_Singleton
    <2> QED
        BY <1>0, <1>1, <2>1, <2>2 DEF Inserts
<1>2. CASE Updates(s)
    <2>1. PICK x \in reports : /\ x.id = row[s].id
                              /\ \/ row[s] = x
                                 \/ x.target = NoReportId /\ row[s] = Changed(x, request[s])
                                 \/ /\ x.target \in Group /\ x.target = request[s].target
                                    /\ row[s] = Counted(x, number[s])
        BY <1>2 DEF Updates
    <2>2. /\ x \in Row /\ x.id \in 1..lastId /\ x.of \subseteq 1..sent /\ IsFiniteSet(x.of)
          /\ x.count = Cardinality(x.of)
          /\ \A y \in reports : \/ y = x
                               \/ /\ x.id # y.id
                                  /\ x.target = y.target => x.target = NoReportId
                                  /\ x.of \cap y.of = {}
        BY DEF IInv, TypeOK, ReportsInv
    <2>3. CASE row[s] = x
        BY <2>1, <2>2, <2>3
    <2>4. CASE x.target = NoReportId /\ row[s] = Changed(x, request[s])
        <3>1. /\ row[s].of = x.of /\ row[s].count = x.count /\ row[s].target = x.target
              /\ x.target \notin ReportId
            BY <2>2, <2>4, TargetAssumption DEF Changed, Row
        <3> QED
            BY <2>1, <2>2, <2>4, <3>1
    <2>5. CASE x.target \in Group /\ row[s] = Counted(x, number[s])
        <3>1. /\ row[s].of = x.of \cup {number[s]} /\ row[s].count = x.count + 1
              /\ row[s].target = x.target /\ x.target \notin ReportId
            BY <2>2, <2>5, TargetAssumption DEF Counted, Row
        <3>2. /\ IsFiniteSet(x.of \cup {number[s]})
              /\ Cardinality(x.of \cup {number[s]}) = Cardinality(x.of) + 1
            BY <1>0, <2>2, FS_AddElement
        <3>3. \A y \in reports : y.id # row[s].id => y.of \cap row[s].of = {}
            BY <1>0, <2>1, <2>2, <3>1
        <3>4. row[s].of \subseteq 1..sent
            BY <1>0, <2>2, <3>1
        <3>5. \A y \in reports : y.id = row[s].id => y = x
            BY <2>1, <2>2
        <3> QED
            BY <2>1, <2>2, <3>1, <3>2, <3>3, <3>4, <3>5
    <2> QED
        BY <2>1, <2>3, <2>4, <2>5
<1> QED
    BY <1>0, <1>1, <1>2

LEMMA CommitInv ==
    ASSUME IInv, TypeOK', NEW s \in Session, Commit(s)
    PROVE  IInv'
<1>0. /\ pc \in [Session -> Pc] /\ row \in [Session -> Row] /\ pc[s] = "commit"
      /\ pc' = [pc EXCEPT ![s] = "stored"] /\ reports' = Stored(s)
      /\ UNCHANGED <<request, number, row, named, lastId, sent, told>>
    BY DEF Commit, Goto, IInv, TypeOK
<1> DEFINE r == row[s]
<1>1. /\ r.id \in 1..lastId
      /\ r.of \subseteq 1..sent /\ IsFiniteSet(r.of)
      /\ r.count = Cardinality(r.of)
      /\ \A x \in reports : x.id # r.id =>
           /\ x.of \cap r.of = {}
           /\ x.target = r.target => x.target = NoReportId
      /\ \A x \in reports : x.id = r.id =>
           /\ x.of \subseteq r.of /\ x.target = r.target
           /\ x.target \in ReportId => x = r
      /\ \A n \in r.of : n = number[s] \/ \E x \in reports : n \in x.of
      /\ \/ Inserts(s)
         \/ \E x \in reports : x.id = r.id
    BY <1>0, StoredRow
<1>2. /\ r \in reports'
      /\ \A x \in reports : x.id # r.id => x \in reports'
      /\ \A x \in reports' : x = r \/ (x \in reports /\ x.id # r.id)
    BY <1>0 DEF Stored
<1> HIDE DEF r
\* What a row has answered, the stored rows answer still.
<1>3. \A x \in reports : \E y \in reports' :
          y.id = x.id /\ x.of \subseteq y.of /\ y.target = x.target /\ (x.target \in ReportId => y = x)
    BY <1>1, <1>2
<1>4. ReportsInv'
    <2>1. \A x \in reports' : /\ x.id \in 1..lastId
                             /\ x.of \subseteq 1..sent /\ IsFiniteSet(x.of)
                             /\ x.count = Cardinality(x.of)
        BY <1>1, <1>2 DEF IInv, ReportsInv
    <2>2. \A x, y \in reports' : \/ x = y
                                \/ /\ x.id # y.id
                                   /\ x.target = y.target => x.target = NoReportId
                                   /\ x.of \cap y.of = {}
        BY <1>1, <1>2 DEF IInv, ReportsInv
    <2> QED
        BY <1>0, <2>1, <2>2 DEF ReportsInv
<1>5. ToldInv'
    <2> SUFFICES ASSUME NEW a \in told
                 PROVE  \E x \in reports' :
                            /\ x.id = a.id
                            /\ a.request.target \in ReportId =>
                                 x.target = a.request.target /\ SameStatusContent(x, a.request)
                            /\ a.request.target \notin ReportId /\ a.request.record = 0 =>
                                 a.number \in x.of
        BY <1>0 DEF ToldInv, SameStatusContent
    <2>1. PICK x \in reports :
            /\ x.id = a.id
            /\ a.request.target \in ReportId =>
                 x.target = a.request.target /\ SameStatusContent(x, a.request)
            /\ a.request.target \notin ReportId /\ a.request.record = 0 => a.number \in x.of
        BY DEF IInv, ToldInv
    <2>2. PICK y \in reports' : /\ y.id = x.id /\ x.of \subseteq y.of /\ y.target = x.target
                                /\ x.target \in ReportId => y = x
        BY <1>3
    <2>3. a.request.target \in ReportId => y.target = a.request.target /\ SameStatusContent(y, a.request)
        BY <2>1, <2>2 DEF SameStatusContent
    <2>4. a.request.target \notin ReportId /\ a.request.record = 0 => a.number \in y.of
        BY <2>1, <2>2
    <2> QED
        BY <2>1, <2>2, <2>3, <2>4
<1>6. SessionInv(s)'
    <2>1. /\ number[s] \in 1..sent /\ Answers(s, row[s])
          /\ Holds(s) => named[request[s].target] = s
        BY <1>0 DEF IInv, SessionInv
    <2>2. Answers(s, row[s])' /\ row'[s] \in reports'
        BY <1>0, <1>2, <2>1 DEF Answers, SameStatusContent, r
    <2>3. \E x \in reports' : x.id = row'[s].id /\ Answers(s, x)'
        BY <2>2 DEF Answers
    <2> QED
        BY <1>0, <2>1, <2>3 DEF SessionInv, Holds, Answers, SameStatusContent
<1>7. \A o \in Session \ {s} : SessionInv(o)'
    <2> SUFFICES ASSUME NEW o \in Session \ {s} PROVE SessionInv(o)'
        OBVIOUS
    <2>1. SessionInv(o) /\ Apart(s, o)
        BY DEF IInv
    <2>2. /\ pc'[o] = pc[o] /\ row'[o] = row[o] /\ request'[o] = request[o]
          /\ number'[o] = number[o] /\ (Holds(o)' => Holds(o))
        BY <1>0 DEF Holds
    <2>3. pc[o] \notin {"idle", "stored"} => \A x \in reports' : number[o] \notin x.of
        BY <1>0, <1>1, <1>2, <2>1 DEF SessionInv, Apart
    <2>4. pc[o] \in {"write", "commit"} /\ Inserts(o) => Inserts(o)'
        <3> SUFFICES ASSUME pc[o] \in {"write", "commit"}, Inserts(o) PROVE Inserts(o)'
            OBVIOUS
        <3>1. row[o].id # r.id
            BY <1>0, <1>1, <2>1 DEF Inserts, Apart, Locks, r, IInv, TypeOK
        <3>2. row[o].target # NoReportId => r.target # row[o].target
            <4> SUFFICES ASSUME row[o].target # NoReportId, r.target = row[o].target PROVE FALSE
                OBVIOUS
            <4>1. request[o].target = row[o].target /\ named[request[o].target] = o
                BY <2>1 DEF Inserts, SessionInv, Holds
            <4>2. CASE Inserts(s)
                <5>1. request[s].target = r.target /\ named[request[s].target] = s
                    BY <1>0, <4>1, <4>2 DEF Inserts, IInv, SessionInv, Holds, r
                <5> QED
                    BY <4>1, <5>1
            <4>3. CASE \E x \in reports : x.id = r.id
                BY <1>1, <4>3 DEF Inserts
            <4> QED
                BY <1>1, <4>2, <4>3
        <3>3. \A x \in reports' : x.id # row[o].id
            BY <1>2, <3>1 DEF Inserts
        <3>4. row[o].target # NoReportId => \A x \in reports' : x.target # row[o].target
            BY <1>2, <3>2 DEF Inserts
        <3> QED
            BY <1>0, <2>2, <3>3, <3>4 DEF Inserts
    <2>5. pc[o] \in {"write", "commit"} /\ Updates(o) => Updates(o)'
        <3> SUFFICES ASSUME pc[o] \in {"write", "commit"}, Updates(o) PROVE Updates(o)'
            OBVIOUS
        <3>1. PICK x \in reports : /\ x.id = row[o].id
                                  /\ \/ row[o] = x
                                     \/ x.target = NoReportId /\ row[o] = Changed(x, request[o])
                                     \/ /\ x.target \in Group /\ x.target = request[o].target
                                        /\ row[o] = Counted(x, number[o])
            BY DEF Updates
        <3>2. x.id # 0
            BY DEF IInv, ReportsInv, TypeOK
        <3>3. x.id # r.id
            BY <1>0, <1>1, <2>1, <3>1, <3>2 DEF Apart, Locks, r, IInv, TypeOK
        <3>4. x \in reports'
            BY <1>2, <3>3
        <3> QED
            BY <2>2, <3>1, <3>4 DEF Updates, Changed, Counted
    <2>6. Answers(o, row[o]) => Answers(o, row[o])'
        BY <2>2 DEF Answers, SameStatusContent
    <2>7. pc[o] = "stored" => \E y \in reports' : y.id = row[o].id /\ Answers(o, y)'
        <3> SUFFICES ASSUME pc[o] = "stored"
                     PROVE  \E y \in reports' : y.id = row[o].id /\ Answers(o, y)'
            OBVIOUS
        <3>1. PICK x \in reports : x.id = row[o].id /\ Answers(o, x)
            BY <2>1 DEF SessionInv
        <3>2. PICK y \in reports' : /\ y.id = x.id /\ x.of \subseteq y.of /\ y.target = x.target
                                    /\ x.target \in ReportId => y = x
            BY <1>3
        <3>3. request[o].target \in ReportId =>
                y.target = request[o].target /\ SameStatusContent(y, request[o])
            BY <3>1, <3>2 DEF Answers
        <3>4. request[o].target \notin ReportId /\ request[o].record = 0 => number[o] \in y.of
            BY <3>1, <3>2 DEF Answers
        <3>5. Answers(o, y)'
            BY <2>2, <3>3, <3>4 DEF Answers, SameStatusContent
        <3> QED
            BY <3>1, <3>2, <3>5
    <2>8. pc'[o] \in {"lock", "read"} => row'[o] = NewRow(request[o], number[o])'
        BY <2>1, <2>2 DEF SessionInv, NewRow
    <2>9. pc'[o] \in {"write", "commit"} => (Inserts(o)' \/ Updates(o)') /\ Answers(o, row[o])'
        BY <2>1, <2>2, <2>4, <2>5, <2>6 DEF SessionInv
    <2> QED
        BY <1>0, <2>1, <2>2, <2>3, <2>7, <2>8, <2>9 DEF SessionInv, Answers, SameStatusContent
<1>8. \A q, o \in Session : q # o => Apart(q, o)'
    <2> SUFFICES ASSUME NEW q \in Session, NEW o \in Session, q # o PROVE Apart(q, o)'
        OBVIOUS
    <2>1. Apart(q, o)
        BY DEF IInv
    <2>2. (Locks(q)' => Locks(q)) /\ (Locks(o)' => Locks(o))
        BY <1>0 DEF Locks
    <2> QED
        BY <1>0, <2>1, <2>2 DEF Apart
<1>9. \A o \in Session : SessionInv(o)'
    BY <1>6, <1>7
<1> QED
    BY <1>4, <1>5, <1>8, <1>9 DEF IInv

-----------------------------------------------------------------------------
(* The specification.                                                      *)

\* What the state variables hold.
LEMMA TypeStep ==
    ASSUME IInv, [Next]_vars
    PROVE  TypeOK'
<1> USE TargetAssumption, SomeRequest, NewRowType
<1>0. TypeOK
    BY DEF IInv
<1>1. ASSUME NEW s \in Session, NEW q \in Sendable, Send(s, q)
      PROVE  TypeOK'
    <2>1. sent + 1 \in Nat /\ sent + 1 \in 0..MaxRequests
        BY <1>0, <1>1 DEF TypeOK, Send
    <2> QED
        BY <1>0, <1>1, <2>1 DEF TypeOK, Send, Goto, Pc
<1>2. ASSUME NEW s \in Session, Start(s) \/ Busy(s)
      PROVE  TypeOK'
    BY <1>0, <1>2 DEF TypeOK, Start, Starts, Busy, Goto, Pc
<1>3. ASSUME NEW s \in Session, Refuse(s) \/ Fails(s)
      PROVE  TypeOK'
    BY <1>0, <1>3 DEF TypeOK, Refuse, Fails, Fault, Goto, Pc
<1>4. ASSUME NEW s \in Session, NEW x \in Row, NEW step \in Pc, Found(s, x, step)
      PROVE  TypeOK'
    BY <1>0, <1>4 DEF TypeOK, Found, Goto
<1>5. ASSUME NEW s \in Session, Read(s)
      PROVE  TypeOK'
    <2>1. /\ NewRow(request[s], number[s]) \in Row
          /\ \A x \in reports : Changed(x, request[s]) \in Row /\ Counted(x, number[s]) \in Row
        <3>1. request[s] \in Sendable /\ number[s] \in Nat /\ reports \subseteq Row
            BY <1>0 DEF TypeOK
        <3>2. \A x \in reports : Changed(x, request[s]) \in Row
            BY <3>1 DEF Changed, Row, Sendable, Request
        <3>3. \A x \in reports : Counted(x, number[s]) \in Row
            <4> SUFFICES ASSUME NEW x \in reports PROVE Counted(x, number[s]) \in Row
                OBVIOUS
            <4>1. x \in Row /\ x.of \subseteq Nat /\ x.count \in Nat
                BY <3>1 DEF Row
            <4>2. x.of \cup {number[s]} \in SUBSET Nat
                BY <3>1, <4>1
            <4>3. x.count + 1 \in Nat
                BY <4>1
            <4> QED
                BY <4>1, <4>2, <4>3 DEF Counted, Row
        <3> QED
            BY <3>1, <3>2, <3>3
    <2>2. reports \subseteq Row /\ "write" \in Pc /\ "commit" \in Pc
        BY <1>0 DEF TypeOK, Pc
    <2> QED
        BY <1>3, <1>4, <1>5, <2>1, <2>2 DEF Read, RefuseRelease, RefuseRecord, ReadKeyedRecord,
           UpdateRecord, ReadKey, MissKey, NoKey, CountGroup, NewGroup
<1>6. ASSUME NEW s \in Session, Write(s)
      PROVE  TypeOK'
    <2>1. row[s] \in Row /\ lastId + 1 \in Nat
        BY <1>0 DEF TypeOK
    <2>2. [row[s] EXCEPT !.id = lastId + 1] \in Row
        BY <2>1 DEF Row
    <2> QED
        BY <1>0, <1>6, <2>1, <2>2 DEF TypeOK, Write, Goto, Pc
<1>7. ASSUME NEW s \in Session, Commit(s)
      PROVE  TypeOK'
    BY <1>0, <1>7 DEF TypeOK, Commit, Stored, Goto, Pc
<1>8. ASSUME NEW s \in Session, BackInPool(s), UNCHANGED <<ready, reports, lastId, sent>>,
             cut' \subseteq Session, faults' = faults,
             told' \subseteq [request : Sendable, number : 1..MaxRequests, id : Nat]
      PROVE  TypeOK'
    BY <1>0, <1>8 DEF TypeOK, BackInPool, Unlocked, Goto, Pc
<1>9. ASSUME NEW s \in Session, Finish(s)
      PROVE  TypeOK'
    <2>1. pc[s] = "stored" => number[s] \in 1..MaxRequests /\ row[s].id \in Nat
        BY <1>0 DEF IInv, SessionInv, TypeOK, Row
    <2>2. told' \subseteq [request : Sendable, number : 1..MaxRequests, id : Nat]
        BY <1>0, <1>9, <2>1 DEF Finish, TypeOK
    <2> QED
        BY <1>0, <1>8, <1>9, <2>2 DEF Finish, TypeOK
<1>10. ASSUME NEW s \in Session, Drop(s)
       PROVE  TypeOK'
    BY <1>0, <1>8, <1>10 DEF Drop, TypeOK
<1>11. ASSUME NEW s \in Session, Cut(s)
       PROVE  TypeOK'
    BY <1>0, <1>11 DEF TypeOK, Cut, Fault, session
<1>12. ASSUME Prepare
       PROVE  TypeOK'
    BY <1>0, <1>12 DEF TypeOK, Prepare, Fault, session
<1>13. ASSUME UNCHANGED vars
       PROVE  TypeOK'
    BY <1>0, <1>13 DEF TypeOK, vars, session
<1> QED
    BY <1>1, <1>2, <1>3, <1>5, <1>6, <1>7, <1>9, <1>10, <1>11, <1>12, <1>13
       DEF Next, Step, WaitTimesOut

\* Steps that touch nothing of the invariant but the types.
LEMMA OtherStep ==
    ASSUME IInv, TypeOK', UNCHANGED <<reports, named, session, lastId, sent, told>>
    PROVE  IInv'
<1>1. \A s \in Session : SessionInv(s)'
    <2> SUFFICES ASSUME NEW s \in Session PROVE SessionInv(s)'
        OBVIOUS
    <2>1. SessionInv(s)
        BY DEF IInv
    <2>2. UNCHANGED <<reports, pc, request, number, row, named, lastId, sent>>
        BY DEF session
    <2>3. (Inserts(s) => Inserts(s)') /\ (Updates(s) => Updates(s)')
        BY <2>2 DEF Inserts, Updates, Changed, Counted
    <2>4. \A x : Answers(s, x) => Answers(s, x)'
        BY <2>2 DEF Answers, SameStatusContent
    <2>5. pc[s] \in {"write", "commit"} => (Inserts(s)' \/ Updates(s)') /\ Answers(s, row[s])'
        BY <2>1, <2>2, <2>3, <2>4 DEF SessionInv
    <2>6. pc[s] = "stored" => \E x \in reports' : x.id = row'[s].id /\ Answers(s, x)'
        BY <2>1, <2>2, <2>4 DEF SessionInv
    <2> QED
        BY <2>1, <2>2, <2>5, <2>6 DEF SessionInv, Holds, NewRow, Answers, SameStatusContent
<1>2. \A s, o \in Session : s # o => Apart(s, o)'
    BY DEF IInv, Apart, Locks, session
<1>3. ReportsInv' /\ ToldInv'
    BY DEF IInv, ReportsInv, ToldInv, SameStatusContent
<1> QED
    BY <1>1, <1>2, <1>3 DEF IInv

\* Every step preserves the invariant.
LEMMA NextInv ==
    ASSUME IInv, [Next]_vars
    PROVE  IInv'
<1>0. TypeOK'
    BY TypeStep
<1>1. ASSUME NEW s \in Session, Step(s)
      PROVE  IInv'
    <2>1. CASE Start(s)
        BY <1>0, <2>1, StartInv
    <2>2. CASE Busy(s)
        BY <1>0, <2>2, FailedStep DEF Busy
    <2>3. CASE Read(s)
        BY <1>0, <2>3, ReadInv
    <2>4. CASE Write(s)
        BY <1>0, <2>4, WriteInv
    <2>5. CASE WaitTimesOut(s)
        BY <1>0, <2>5, FailedStep
           DEF WaitTimesOut, Waiting, Refuse, NamesRecord, NamesKey, NamesGroup, Reading
    <2>6. CASE Commit(s)
        BY <1>0, <2>6, CommitInv
    <2>7. CASE Finish(s)
        BY <1>0, <2>7, FinishInv
    <2>8. CASE Drop(s)
        BY <1>0, <2>8, DropInv
    <2> QED
        BY <1>1, <2>1, <2>2, <2>3, <2>4, <2>5, <2>6, <2>7, <2>8 DEF Step
<1>2. ASSUME NEW s \in Session, Fails(s)
      PROVE  IInv'
    BY <1>0, <1>2, FailedStep DEF Fails, InTransaction
<1>3. ASSUME NEW s \in Session, Cut(s)
      PROVE  IInv'
    BY <1>0, <1>3, OtherStep DEF Cut
<1>4. ASSUME NEW s \in Session, NEW q \in Sendable, Send(s, q)
      PROVE  IInv'
    BY <1>0, <1>4, SendInv
<1>5. CASE Prepare \/ UNCHANGED vars
    BY <1>0, <1>5, OtherStep DEF Prepare, vars
<1> QED
    BY <1>1, <1>2, <1>3, <1>4, <1>5 DEF Next

\* The inductive invariant of the telemetry writes holds in every state.
THEOREM TelemetryInvariant == Spec => []IInv
<1>1. Init => IInv
    BY InitInv
<1>2. IInv /\ [Next]_vars => IInv'
    BY NextInv
<1> QED
    BY <1>1, <1>2, PTL DEF Spec

\* However many clients, sessions and retries: one row for each reportId and error
\* group, and one answer for each reportId (status and applicationError).
THEOREM OneReport == Spec => []OneReportPerKey
<1>1. IInv => OneReportPerKey
    BY InvImplies
<1> QED
    BY <1>1, TelemetryInvariant, PTL

\* The count of a group is the number of its reports that were committed, and every
\* report that was answered is one of them.
THEOREM CountedReports == Spec => []AnsweredReportsCount
<1>1. IInv => AnsweredReportsCount
    BY InvImplies
<1> QED
    BY <1>1, TelemetryInvariant, PTL

\* The unique keys of the report tables are never hit.
THEOREM NoClash == Spec => []KeysNeverClash
<1>1. IInv => KeysNeverClash
    BY InvImplies
<1> QED
    BY <1>1, TelemetryInvariant, PTL

\* No step changes or removes a report that has a reportId.
THEOREM FinalKeyed == Spec => KeyedIsFinal
<1>1. ASSUME IInv, [Next]_vars
      PROVE  [\A x \in reports : x.target \in ReportId => x \in reports']_vars
    <2>1. ASSUME NEW s \in Session, Commit(s), NEW x \in reports, x.target \in ReportId
          PROVE  x \in reports'
        <3>1. pc[s] = "commit" /\ reports' = Stored(s)
            BY <2>1 DEF Commit
        <3>2. x.id = row[s].id => x = row[s]
            BY <1>1, <2>1, <3>1, StoredRow
        <3> QED
            BY <3>1, <3>2 DEF Stored
    <2>2. (\E s \in Session : Commit(s)) \/ reports' = reports
        BY <1>1 DEF Next, Step, Start, Starts, Busy, Read, RefuseRelease, RefuseRecord,
           ReadKeyedRecord, UpdateRecord, ReadKey, MissKey, NoKey, CountGroup, NewGroup, Refuse,
           Found, Write, WaitTimesOut, Finish, Drop, Fails, Cut, Send, Prepare, vars
    <2> QED
        BY <2>1, <2>2
<1> QED
    BY <1>1, TelemetryInvariant, PTL DEF Spec, KeyedIsFinal

-----------------------------------------------------------------------------
(* The report store.                                                       *)

\* The row x is the one that the request of s names.
Named(s, x) ==
    request[s].record > 0 =>
        /\ x.id = request[s].record /\ x.release = request[s].release
        /\ x.target \in ReportId => x.body = request[s].body

\* What s is about to store is new because its request names no record, or what has
\* become of the row it has read.
Origin(s) ==
    /\ (\A x \in reports : x.id # row[s].id) =>
         request[s].record = 0 /\ (request[s].target \in Group \/ request[s].release # Absent)
    /\ \A x \in reports : x.id = row[s].id =>
         \/ row[s] = x \/ x.target \in Group
         \/ /\ request[s].target = NoReportId /\ request[s].record = x.id
            /\ request[s].release = x.release

Traced(s) ==
    /\ pc[s] \in {"write", "commit"} => Origin(s) /\ Named(s, row[s])
    /\ pc[s] = "stored" => \A x \in reports : x.id = row[s].id => Named(s, x)
    /\ pc[s] # "idle" => \A a \in told : a.number # number[s]

StoreInv == /\ \A s \in Session : Traced(s)
            /\ \A a \in told : a.number \in 1..sent

\* A session that does not move does not notice a step that stores and answers nothing.
LEMMA TracedStays ==
    ASSUME NEW s \in Session, Traced(s), UNCHANGED <<reports, told>>,
           pc'[s] = pc[s], request'[s] = request[s], number'[s] = number[s], row'[s] = row[s]
    PROVE  Traced(s)'
BY DEF Traced, Origin, Named

\* A step of s alone which stores and answers nothing.
LEMMA TracedStep ==
    ASSUME IInv, StoreInv, NEW s \in Session, UNCHANGED <<reports, told>>,
           sent' \in Nat, sent <= sent',
           \A o \in Session \ {s} : /\ pc'[o] = pc[o] /\ request'[o] = request[o]
                                    /\ number'[o] = number[o] /\ row'[o] = row[o],
           Traced(s)'
    PROVE  StoreInv'
<1>1. \A o \in Session : Traced(o)'
    BY TracedStays DEF StoreInv
<1>2. \A a \in told : a.number \in 1..sent'
    BY TargetAssumption DEF StoreInv, IInv, TypeOK
<1> QED
    BY <1>1, <1>2 DEF StoreInv

\* The operation has thrown.
LEMMA TracedRefusal ==
    ASSUME IInv, StoreInv, NEW s \in Session, pc[s] # "idle", Goto(s, "failed"),
           UNCHANGED <<reports, told, sent, request, number, row>>
    PROVE  StoreInv'
<1>1. pc' = [pc EXCEPT ![s] = "failed"] /\ pc \in [Session -> Pc] /\ sent \in Nat
    BY TargetAssumption DEF Goto, IInv, TypeOK
<1>2. Traced(s)'
    BY <1>1 DEF StoreInv, Traced
<1> QED
    BY <1>1, <1>2, TracedStep

\* The locking read has given s the row r to store or to return.
LEMMA TracedFound ==
    ASSUME IInv, StoreInv, NEW s \in Session, pc[s] = "read", NEW r, NEW step,
           Found(s, r, step), step \in {"write", "commit"}, Origin(s)', Named(s, row[s])'
    PROVE  StoreInv'
<1>1. pc' = [pc EXCEPT ![s] = step] /\ pc \in [Session -> Pc] /\ sent \in Nat
    BY TargetAssumption DEF Found, Goto, IInv, TypeOK
<1>2. row' = [row EXCEPT ![s] = r] /\ row \in [Session -> Row]
    BY DEF Found, IInv, TypeOK
<1>3. UNCHANGED <<reports, told, sent, request, number>>
    BY DEF Found
<1>4. Traced(s)'
    BY <1>1, <1>3 DEF StoreInv, Traced
<1> QED
    BY <1>1, <1>2, <1>3, <1>4, TracedStep

LEMMA TracedRead ==
    ASSUME IInv, StoreInv, NEW s \in Session, Read(s)
    PROVE  StoreInv'
<1>0. /\ \A x \in reports : x \in Row /\ x.id # 0
      /\ \A x, y \in reports : x.id = y.id => x = y
      /\ row \in [Session -> Row] /\ request[s] \in Sendable
    BY DEF IInv, TypeOK, ReportsInv
<1>1. CASE RefuseRelease(s) \/ RefuseRecord(s)
    BY <1>1, TracedRefusal DEF RefuseRelease, RefuseRecord, NamesRecord, Reading, Refuse
<1>2. ASSUME NEW r, NEW step, Found(s, r, step)
      PROVE  row'[s] = r /\ UNCHANGED <<reports, request>>
    BY <1>0, <1>2 DEF Found
<1>3. CASE ReadKeyedRecord(s)
    <2>1. pc[s] = "read"
        BY <1>3 DEF ReadKeyedRecord, NamesRecord, Reading
    <2>2. PICK x \in reports :
            /\ x.id = request[s].record
            /\ \/ Found(s, x, "commit") /\ SameStatusContent(x, request[s])
               \/ Refuse(s)
        BY <1>3 DEF ReadKeyedRecord
    <2>3. CASE Refuse(s)
        BY <2>1, <2>3, TracedRefusal DEF Refuse
    <2>4. CASE Found(s, x, "commit") /\ SameStatusContent(x, request[s])
        <3>1. Origin(s)'
            BY <1>0, <1>2, <2>4 DEF Origin
        <3>2. Named(s, row[s])'
            BY <1>2, <2>2, <2>4 DEF Named, SameStatusContent
        <3> QED
            BY <2>1, <2>4, <3>1, <3>2, TracedFound
    <2> QED
        BY <2>2, <2>3, <2>4
<1>4. CASE UpdateRecord(s)
    <2>1. pc[s] = "read"
        BY <1>4 DEF UpdateRecord, NamesRecord, Reading
    <2>2. PICK x \in reports :
            /\ x.id = request[s].record /\ x.target = NoReportId
            /\ \/ /\ Found(s, Changed(x, request[s]), "write")
                  /\ x.release = request[s].release /\ request[s].target = NoReportId
               \/ Refuse(s)
        BY <1>4 DEF UpdateRecord
    <2>3. CASE Refuse(s)
        BY <2>1, <2>3, TracedRefusal DEF Refuse
    <2>4. CASE /\ Found(s, Changed(x, request[s]), "write")
               /\ x.release = request[s].release /\ request[s].target = NoReportId
        <3>1. /\ Changed(x, request[s]).id = x.id /\ Changed(x, request[s]).release = x.release
              /\ Changed(x, request[s]).target = NoReportId
            BY <1>0, <2>2 DEF Changed, Row
        <3>2. Origin(s)'
            BY <1>0, <1>2, <2>2, <2>4, <3>1 DEF Origin
        <3>3. Named(s, row[s])'
            BY <1>2, <2>2, <2>4, <3>1, TargetAssumption DEF Named
        <3> QED
            BY <2>1, <2>4, <3>2, <3>3, TracedFound
    <2> QED
        BY <2>2, <2>3, <2>4
<1>5. ASSUME Found(s, NewRow(request[s], number[s]), "write"), pc[s] = "read",
             request[s].record = 0, request[s].target \in Group \/ request[s].release # Absent
      PROVE  StoreInv'
    <2>1. Origin(s)'
        BY <1>0, <1>2, <1>5 DEF Origin, NewRow
    <2>2. Named(s, row[s])'
        BY <1>2, <1>5 DEF Named
    <2> QED
        BY <1>5, <2>1, <2>2, TracedFound
<1>6. request[s].target \in Group => request[s].record = 0
    BY DEF IInv, TypeOK, Sendable
<1>7. CASE MissKey(s) \/ NoKey(s) \/ NewGroup(s)
    BY <1>5, <1>6, <1>7 DEF MissKey, NoKey, NewGroup, NamesKey, NamesGroup, Reading
<1>8. CASE ReadKey(s)
    <2>1. pc[s] = "read" /\ request[s].record = 0
        BY <1>8 DEF ReadKey, NamesKey, Reading
    <2>2. PICK x \in reports : Found(s, x, "commit") \/ Refuse(s)
        BY <1>8 DEF ReadKey
    <2>3. CASE Refuse(s)
        BY <2>1, <2>3, TracedRefusal DEF Refuse
    <2>4. CASE Found(s, x, "commit")
        <3>1. Origin(s)' /\ Named(s, row[s])'
            BY <1>0, <1>2, <2>1, <2>4 DEF Origin, Named
        <3> QED
            BY <2>1, <2>4, <3>1, TracedFound
    <2> QED
        BY <2>2, <2>3, <2>4
<1>9. CASE CountGroup(s)
    <2>1. pc[s] = "read" /\ request[s].target \in Group /\ request[s].record = 0
        BY <1>6, <1>9 DEF CountGroup, NamesGroup, Reading
    <2>2. PICK x \in reports :
            x.target = request[s].target /\ Found(s, Counted(x, number[s]), "write")
        BY <1>9 DEF CountGroup
    <2>3. Counted(x, number[s]).id = x.id
        BY <1>0 DEF Counted, Row
    <2>4. Origin(s)'
        BY <1>0, <1>2, <2>1, <2>2, <2>3 DEF Origin
    <2>5. Named(s, row[s])'
        BY <1>2, <2>1, <2>2 DEF Named
    <2> QED
        BY <2>1, <2>2, <2>4, <2>5, TracedFound
<1> QED
    BY <1>1, <1>3, <1>4, <1>7, <1>8, <1>9 DEF Read


\* The insert or update.
LEMMA TracedWrite ==
    ASSUME IInv, StoreInv, NEW s \in Session, Write(s)
    PROVE  StoreInv'
<1>0. /\ pc \in [Session -> Pc] /\ row \in [Session -> Row] /\ pc[s] = "write" /\ lastId \in Nat
      /\ sent \in Nat /\ \A x \in reports : x.id \in 1..lastId
    BY TargetAssumption DEF IInv, TypeOK, ReportsInv, Write
<1>1. Origin(s) /\ Named(s, row[s]) /\ \A a \in told : a.number # number[s]
    BY <1>0 DEF StoreInv, Traced
<1>2. UNCHANGED <<reports, request, number, sent, told>>
    BY DEF Write
<1>3. CASE row[s].id # 0 /\ Goto(s, "commit") /\ UNCHANGED row
    <2>1. pc' = [pc EXCEPT ![s] = "commit"]
        BY <1>3 DEF Goto
    <2>2. Traced(s)'
        BY <1>0, <1>1, <1>2, <1>3, <2>1 DEF Traced, Origin, Named
    <2> QED
        BY <1>0, <1>2, <1>3, <2>1, <2>2, TracedStep
<1>4. CASE row[s].id = 0 /\ Clashes(s) /\ Goto(s, "clashed") /\ UNCHANGED row
    <2>1. pc' = [pc EXCEPT ![s] = "clashed"]
        BY <1>4 DEF Goto
    <2>2. Traced(s)'
        BY <1>0, <1>1, <1>2, <2>1 DEF Traced
    <2> QED
        BY <1>0, <1>2, <1>4, <2>1, <2>2, TracedStep
<1>5. CASE /\ row[s].id = 0 /\ lastId' = lastId + 1
           /\ row' = [row EXCEPT ![s].id = lastId + 1]
           /\ Goto(s, "commit")
    <2>1. pc' = [pc EXCEPT ![s] = "commit"]
        BY <1>5 DEF Goto
    <2>2. row'[s].id = lastId + 1
        BY <1>0, <1>5 DEF Row
    <2>3. \A x \in reports : x.id # 0 /\ x.id # lastId + 1
        BY <1>0
    <2>4. request[s].record = 0 /\ (request[s].target \in Group \/ request[s].release # Absent)
        BY <1>1, <1>5, <2>3 DEF Origin
    <2>5. Origin(s)' /\ Named(s, row[s])'
        BY <1>2, <2>2, <2>3, <2>4 DEF Origin, Named
    <2>6. Traced(s)'
        BY <1>0, <1>1, <1>2, <2>1, <2>5 DEF Traced
    <2>7. \A o \in Session \ {s} : pc'[o] = pc[o] /\ row'[o] = row[o]
        BY <1>0, <1>5, <2>1
    <2> QED
        BY <1>0, <1>2, <2>6, <2>7, TracedStep
<1> QED
    BY <1>3, <1>4, <1>5 DEF Write

\* What a commit changes of a row that was stored already.
LEMMA ReplacedRow ==
    ASSUME IInv, StoreInv, NEW s \in Session, pc[s] = "commit",
           NEW x \in reports, x.id = row[s].id
    PROVE  \/ row[s] = x
           \/ /\ x.target = NoReportId /\ row[s] = Changed(x, request[s])
              /\ request[s].target = NoReportId /\ request[s].record = x.id
              /\ request[s].release = x.release
           \/ /\ x.target \in Group /\ request[s].target = x.target
              /\ row[s] = Counted(x, number[s])
<1>1. /\ Inserts(s) \/ Updates(s)
      /\ Origin(s)
      /\ \A y \in reports : y.id = row[s].id => y = x
    BY DEF IInv, SessionInv, StoreInv, Traced, ReportsInv
<1>2. Updates(s)
    BY <1>1 DEF Inserts
<1>3. \/ row[s] = x
      \/ x.target = NoReportId /\ row[s] = Changed(x, request[s])
      \/ x.target \in Group /\ x.target = request[s].target /\ row[s] = Counted(x, number[s])
    BY <1>1, <1>2 DEF Updates
<1>4. \/ row[s] = x \/ x.target \in Group
      \/ /\ request[s].target = NoReportId /\ request[s].record = x.id
         /\ request[s].release = x.release
    BY <1>1 DEF Origin
<1> QED
    BY <1>3, <1>4, TargetAssumption

\* It has its id, release and target still.
LEMMA ReplacedIsLike ==
    ASSUME IInv, StoreInv, NEW s \in Session, pc[s] = "commit",
           NEW x \in reports, x.id = row[s].id
    PROVE  /\ row[s].release = x.release /\ row[s].target = x.target
           /\ x.target \in ReportId => row[s] = x
<1>1. x \in Row
    BY DEF IInv, TypeOK
<1>2. /\ Changed(x, request[s]).release = x.release /\ Changed(x, request[s]).target = x.target
      /\ Counted(x, number[s]).release = x.release /\ Counted(x, number[s]).target = x.target
    BY <1>1 DEF Changed, Counted, Row
<1> QED
    BY <1>2, ReplacedRow, TargetAssumption

LEMMA TracedCommit ==
    ASSUME IInv, StoreInv, NEW s \in Session, Commit(s)
    PROVE  StoreInv'
<1>0. /\ pc \in [Session -> Pc] /\ pc[s] = "commit" /\ pc' = [pc EXCEPT ![s] = "stored"]
      /\ reports' = Stored(s)
      /\ UNCHANGED <<request, number, row, sent, told>>
    BY DEF Commit, Goto, IInv, TypeOK
<1>1. /\ row[s] \in reports'
      /\ \A x \in reports : x.id # row[s].id => x \in reports'
      /\ \A x \in reports' : x = row[s] \/ (x \in reports /\ x.id # row[s].id)
    BY <1>0 DEF Stored
<1>2. Traced(s)'
    <2>1. Named(s, row[s]) /\ \A a \in told : a.number # number[s]
        BY <1>0 DEF StoreInv, Traced
    <2>2. \A x \in reports' : x.id = row[s].id => x = row[s]
        BY <1>1
    <2>3. \A x \in reports' : x.id = row'[s].id => Named(s, x)'
        BY <1>0, <2>1, <2>2 DEF Named
    <2> QED
        BY <1>0, <2>1, <2>3 DEF Traced
<1>3. ASSUME NEW o \in Session \ {s}
      PROVE  Traced(o)'
    <2>0. /\ Traced(o)
          /\ Locks(o) => row[o].id # row[s].id
          /\ row[s].id # 0 /\ \A x \in reports : x.id # 0
        BY <1>0, StoredRow DEF StoreInv, IInv, ReportsInv, TypeOK, Apart, Locks
    <2>1. pc'[o] = pc[o] /\ UNCHANGED <<request, number, row, told>>
        BY <1>0
    <2>2. ASSUME pc[o] \in {"write", "commit"}
          PROVE  Origin(o)' /\ Named(o, row[o])'
        <3>1. row[o].id # row[s].id
            BY <2>0, <2>2 DEF Locks
        <3>2. Origin(o) /\ Named(o, row[o])
            BY <2>0, <2>2 DEF Traced
        <3>3. \A x \in reports' : x.id = row[o].id => x \in reports
            BY <1>1, <3>1
        <3>4. (\A x \in reports' : x.id # row[o].id) => \A x \in reports : x.id # row[o].id
            BY <1>1, <3>1
        <3> QED
            BY <2>1, <3>2, <3>3, <3>4 DEF Origin, Named
    <2>3. ASSUME pc[o] = "stored", NEW y \in reports', y.id = row[o].id
          PROVE  Named(o, y)'
        <3>1. PICK x \in reports : x.id = row[o].id
            BY <2>3 DEF IInv, SessionInv
        <3>2. Named(o, x)
            BY <2>0, <2>3, <3>1 DEF Traced
        <3>3. CASE y \in reports
            BY <2>0, <2>1, <2>3, <3>3 DEF Traced, Named
        <3>4. CASE y = row[s]
            <4>1. x.id = row[s].id
                BY <2>3, <3>1, <3>4
            <4>2. y.release = x.release /\ y.target = x.target /\ (x.target \in ReportId => y = x)
                BY <1>0, <3>4, <4>1, ReplacedIsLike
            <4> QED
                BY <2>1, <2>3, <3>1, <3>2, <4>2 DEF Named
        <3> QED
            BY <1>1, <3>3, <3>4
    <2> QED
        BY <2>0, <2>1, <2>2, <2>3 DEF Traced
<1>4. \A o \in Session : Traced(o)'
    BY <1>2, <1>3
<1> QED
    BY <1>0, <1>4 DEF StoreInv

\* The request of s is over.
LEMMA TracedEnd ==
    ASSUME IInv, StoreInv, NEW s \in Session, BackInPool(s), UNCHANGED <<reports, sent>>,
           \/ UNCHANGED told
           \/ pc[s] # "idle" /\ \E a : a.number = number[s] /\ told' = told \cup {a}
    PROVE  StoreInv'
<1>1. pc' = [pc EXCEPT ![s] = "idle"] /\ pc \in [Session -> Pc]
    BY DEF BackInPool, Goto, IInv, TypeOK
<1>2. \A o \in Session \ {s} : /\ pc'[o] = pc[o] /\ request'[o] = request[o]
                               /\ number'[o] = number[o] /\ row'[o] = row[o]
    BY <1>1 DEF BackInPool, IInv, TypeOK
<1>3. \A a \in told' : a \in told \/ (pc[s] # "idle" /\ a.number = number[s])
    OBVIOUS
<1>4. Traced(s)'
    BY <1>1 DEF Traced
<1>5. ASSUME NEW o \in Session \ {s}
      PROVE  Traced(o)'
    <2>1. Traced(o) /\ (pc[s] # "idle" /\ pc[o] # "idle" => number[s] # number[o])
        BY DEF StoreInv, IInv, Apart
    <2>2. pc'[o] # "idle" => \A a \in told' : a.number # number'[o]
        BY <1>2, <1>3, <2>1 DEF Traced
    <2> QED
        BY <1>2, <2>1, <2>2 DEF Traced, Origin, Named
<1>6. \A a \in told' : a.number \in 1..sent'
    BY <1>3 DEF StoreInv, IInv, SessionInv
<1> QED
    BY <1>4, <1>5, <1>6 DEF StoreInv

\* A request has a number that no answer has.
LEMMA TracedSend ==
    ASSUME IInv, StoreInv, NEW s \in Session, NEW q \in Sendable, Send(s, q)
    PROVE  StoreInv'
<1>1. /\ pc \in [Session -> Pc] /\ number \in [Session -> 0..MaxRequests] /\ sent \in Nat
      /\ request \in [Session -> Sendable] /\ row \in [Session -> Row]
    BY TargetAssumption DEF IInv, TypeOK
<1>2. /\ pc' = [pc EXCEPT ![s] = IF ready THEN "lock" ELSE "failed"]
      /\ number' = [number EXCEPT ![s] = sent + 1] /\ sent' = sent + 1
      /\ request' = [request EXCEPT ![s] = q] /\ row' = [row EXCEPT ![s] = NewRow(q, sent + 1)]
      /\ UNCHANGED <<reports, told>>
    BY DEF Send, Goto
<1>3. \A a \in told : a.number # sent + 1
    BY <1>1 DEF StoreInv
<1>4. Traced(s)'
    BY <1>1, <1>2, <1>3 DEF Traced
<1> QED
    BY <1>1, <1>2, <1>4, TracedStep

LEMMA StoreInvNext ==
    ASSUME IInv, StoreInv, [Next]_vars
    PROVE  StoreInv'
<1>1. ASSUME NEW s \in Session, Start(s)
      PROVE  StoreInv'
    <2>1. /\ pc' = [pc EXCEPT ![s] = IF ready THEN "read" ELSE "failed"] /\ pc \in [Session -> Pc]
          /\ pc[s] = "lock" /\ UNCHANGED <<reports, told, sent, request, number, row>>
          /\ sent \in Nat
        BY <1>1, TargetAssumption DEF Start, Starts, Goto, IInv, TypeOK
    <2>2. Traced(s)'
        BY <2>1 DEF StoreInv, Traced
    <2> QED
        BY <2>1, <2>2, TracedStep
<1>2. ASSUME NEW s \in Session, Busy(s) \/ WaitTimesOut(s) \/ Fails(s)
      PROVE  StoreInv'
    BY <1>2, TracedRefusal DEF Busy, WaitTimesOut, Waiting, Refuse, NamesRecord, NamesKey,
       NamesGroup, Reading, Fails, InTransaction
<1>3. ASSUME NEW s \in Session, Finish(s)
      PROVE  StoreInv'
    <2>1. BackInPool(s) /\ UNCHANGED <<reports, sent>> /\ pc[s] # "idle"
        BY <1>3 DEF Finish
    <2>2. \/ UNCHANGED told
          \/ told' = told \cup {[request |-> request[s], number |-> number[s], id |-> row[s].id]}
        BY <1>3 DEF Finish
    <2> QED
        BY <2>1, <2>2, TracedEnd
<1>4. ASSUME NEW s \in Session, Drop(s)
      PROVE  StoreInv'
    BY <1>4, TracedEnd DEF Drop
<1>5. CASE \/ \E s \in Session : Cut(s)
           \/ Prepare \/ UNCHANGED vars
    <2>1. UNCHANGED <<reports, told, sent, pc, request, number, row>>
        BY <1>5 DEF Cut, Prepare, vars, session
    <2> QED
        BY <2>1, TracedStays DEF StoreInv
<1> QED
    BY <1>1, <1>2, <1>3, <1>4, <1>5, TracedRead, TracedWrite, TracedCommit, TracedSend
       DEF Next, Step

LEMMA StoreInvInit ==
    ASSUME Init
    PROVE  StoreInv
BY DEF Init, StoreInv, Traced


\* A commit is a step of the store, or changes nothing.
LEMMA CommitStores ==
    ASSUME IInv, StoreInv, NEW s \in Session, Commit(s)
    PROVE  [Store!Next]_(Store!storeVars)
<1> DEFINE q == request[s]
           n == number[s]
           r == row[s]
<1>0. /\ pc[s] = "commit" /\ reports' = Stored(s) /\ told' = told
    BY DEF Commit
<1>1. q \in Sendable /\ n \in 1..MaxRequests /\ r \in Row
    BY <1>0 DEF IInv, SessionInv, TypeOK
<1>2. /\ \A x \in reports : n \notin x.of
      /\ \A x, y \in reports : x.id = y.id => x = y
      /\ Inserts(s) \/ Updates(s)
      /\ Origin(s)
    BY <1>0 DEF IInv, SessionInv, ReportsInv, StoreInv, Traced
<1>3. CASE \A x \in reports : x.id # r.id
    <2>1. Inserts(s)
        BY <1>2, <1>3 DEF Updates
    <2>2. /\ r.target = q.target /\ r.release = q.release /\ r.body = q.body
          /\ r.count = 1 /\ r.of = {n}
          /\ q.target # NoReportId => \A x \in reports : x.target # q.target
        BY <2>1 DEF Inserts
    <2>3. r = [id |-> r.id, target |-> q.target, release |-> q.release, body |-> q.body,
               count |-> 1, of |-> {n}]
        BY <1>1, <2>2 DEF Row
    <2>4. q.record = 0 /\ (q.target \in Group \/ q.release # Absent)
        BY <1>2, <1>3 DEF Origin
    <2>5. reports' = reports \cup {r} /\ r \in reports' \ reports
        BY <1>0, <1>3 DEF Stored
    <2>6. Store!Accept(q, n, r)
        BY <1>0, <1>2, <1>3, <2>2, <2>3, <2>4, <2>5 DEF Store!Accept, Store!Uncounted
    <2> QED
        BY <1>1, <2>5, <2>6 DEF Store!Next
<1>4. ASSUME NEW x \in reports, x.id = r.id
      PROVE  [Store!Next]_(Store!storeVars)
    <2>1. reports' = (reports \ {x}) \cup {r}
        BY <1>0, <1>2, <1>4 DEF Stored
    <2>2. r = x \/ r \in reports' \ reports
        BY <1>2, <1>4, <2>1
    <2>3. CASE r = x
        BY <1>0, <2>1, <2>3 DEF Store!storeVars
    <2>4. CASE /\ x.target = NoReportId /\ r = Changed(x, q)
               /\ q.target = NoReportId /\ q.record = x.id /\ q.release = x.release
        <3>1. Store!Amend(q, x)
            BY <1>0, <2>1, <2>4 DEF Store!Amend, Store!Replace, Changed
        <3> QED
            BY <1>1, <2>2, <2>3, <3>1 DEF Store!Next
    <2>5. CASE x.target \in Group /\ q.target = x.target /\ r = Counted(x, n)
        <3>1. Store!Count(q, n, x)
            BY <1>0, <1>2, <2>1, <2>5 DEF Store!Count, Store!Replace, Store!Uncounted, Counted
        <3> QED
            BY <1>1, <2>2, <2>3, <3>1 DEF Store!Next
    <2> QED
        BY <1>0, <1>4, <2>3, <2>4, <2>5, ReplacedRow
<1> QED
    BY <1>3, <1>4

\* An answer is one that a stored row bears out, and the first to its request.
LEMMA FinishAnswers ==
    ASSUME IInv, StoreInv, NEW s \in Session, Finish(s)
    PROVE  [Store!Next]_(Store!storeVars)
<1> DEFINE a == [request |-> request[s], number |-> number[s], id |-> row[s].id]
<1>0. reports' = reports /\ told' = IF pc[s] = "stored" THEN told \cup {a} ELSE told
    BY DEF Finish
<1>1. CASE pc[s] = "stored"
    <2>1. PICK x \in reports : x.id = row[s].id /\ Answers(s, x)
        BY <1>1 DEF IInv, SessionInv
    <2>2. Named(s, x)
        BY <1>1, <2>1 DEF StoreInv, Traced
    <2>3. Store!Answers(a.request, a.number, x)
        BY <2>1, <2>2 DEF Store!Answers, Store!SameContent, Answers, Named, SameStatusContent
    <2>4. \A b \in told : b.number # a.number
        BY <1>1 DEF StoreInv, Traced
    <2>5. x.id = a.id /\ told' = told \cup {a} /\ a \in told' \ told
        BY <1>0, <1>1, <2>1, <2>4
    <2>6. Store!Answer(a)
        BY <1>0, <2>3, <2>4, <2>5 DEF Store!Answer
    <2> QED
        BY <2>5, <2>6 DEF Store!Next
<1>2. CASE pc[s] # "stored"
    BY <1>0, <1>2 DEF Store!storeVars
<1> QED
    BY <1>1, <1>2

LEMMA StepStore ==
    ASSUME IInv, StoreInv, [Next]_vars
    PROVE  [Store!Next]_(Store!storeVars)
<1>1. \/ \E s \in Session : Commit(s) \/ Finish(s)
      \/ UNCHANGED <<reports, told>>
    BY DEF Next, Step, Start, Starts, Busy, Read, RefuseRelease, RefuseRecord,
       ReadKeyedRecord, UpdateRecord, ReadKey, MissKey, NoKey, CountGroup, NewGroup, Refuse,
       Found, Write, WaitTimesOut, Drop, Fails, Cut, Send, Prepare, vars
<1>2. CASE UNCHANGED <<reports, told>>
    BY <1>2 DEF Store!storeVars
<1> QED
    BY <1>1, <1>2, CommitStores, FinishAnswers

\* Whatever the sessions, their locks, retries, timeouts and lost connections come to is
\* a behaviour of the report store: one row per key, which is final, one count per report
\* of a group, and one answer per request, which a stored row bears out.
THEOREM StoreRefinement == Spec => ImplementsReportStore
<1>1. Init => StoreInv /\ Store!Init
    BY StoreInvInit DEF Init, Store!Init
<1>2. IInv /\ StoreInv /\ [Next]_vars => StoreInv'
    BY StoreInvNext
<1>3. IInv /\ StoreInv /\ [Next]_vars => [Store!Next]_(Store!storeVars)
    BY StepStore
<1> QED
    BY <1>1, <1>2, <1>3, TelemetryInvariant, PTL DEF Spec, ImplementsReportStore, Store!Spec

-----------------------------------------------------------------------------
(* What termination rests on, without fairness.                            *)

\* The steps that a write has left, at most.
StepsLeft(step) ==
    CASE step = "lock" -> 5 [] step = "read" -> 4 [] step = "write" -> 3
      [] step = "commit" -> 2 [] step \in {"stored", "failed", "clashed"} -> 1
      [] OTHER -> 0

\* A write takes each of its steps once, whatever fails.
WritesAdvance ==
    [][\A s \in Session : pc'[s] # pc[s] =>
          pc[s] = "idle" \/ StepsLeft(pc'[s]) < StepsLeft(pc[s])]_vars

\* An advisory lock belongs to a session that has taken it and not given it back.
LockOfRunner ==
    \A t \in Target, s \in Session :
        named[t] = s => pc[s] \notin {"idle", "lock"} /\ request[s].target = t

\* s cannot go on before o does: at GET_LOCK, at its locking read, or at the unique key.
Delays(o, s) ==
    \/ pc[s] = "lock" /\ request[s].target \in Target /\ named[request[s].target] = o
    \/ /\ o # s /\ Locks(o)
       /\ \/ NamesRecord(s) /\ row[o].id = request[s].record
          \/ NamesKey(s) /\ row[o].target \notin Group
          \/ NamesGroup(s) /\ row[o].target = request[s].target
    \/ o # s /\ pc[s] = "write" /\ row[s].id = 0 /\ pc[o] = "commit"

\* A session only waits for sessions that are nearer to their end than it is.
WaitsForward ==
    \A s, o \in Session :
        Delays(o, s) => pc[o] # "idle" /\ StepsLeft(pc[o]) < StepsLeft(pc[s])

LEMMA ReadMoves ==
    ASSUME NEW s \in Session, Read(s)
    PROVE  /\ pc[s] = "read" /\ UNCHANGED <<named, request>>
           /\ \E step \in {"write", "commit", "failed"} : Goto(s, step)
<1>1. pc[s] = "read"
    BY DEF Read, RefuseRelease, RefuseRecord, ReadKeyedRecord, UpdateRecord, ReadKey, MissKey,
           NoKey, CountGroup, NewGroup, NamesRecord, NamesKey, NamesGroup, Reading
<1>2. \/ Refuse(s)
      \/ \E x : Found(s, x, "write") \/ Found(s, x, "commit")
    BY DEF Read, RefuseRelease, RefuseRecord, ReadKeyedRecord, UpdateRecord, ReadKey, MissKey,
           NoKey, CountGroup, NewGroup
<1> QED
    BY <1>1, <1>2 DEF Refuse, Found

\* What a step of s does to its place and to the locks.
LEMMA StepMoves ==
    ASSUME TypeOK, NEW s \in Session, Step(s) \/ Fails(s)
    PROVE  /\ \E step \in Pc :
                 Goto(s, step) /\ (pc[s] # "idle" => StepsLeft(step) < StepsLeft(pc[s]))
           /\ \A o \in Session \ {s} : request'[o] = request[o]
           /\ \/ request' = request /\ pc'[s] \notin {"idle", "lock"}
                 /\ \A t \in Target : named'[t] # named[t] => named'[t] = s /\ t = request[s].target
              \/ \A t \in Target : named'[t] = IF named[t] = s THEN Nobody ELSE named[t]
<1>0. /\ pc \in [Session -> Pc] /\ request \in [Session -> Sendable]
      /\ named \in [Target -> Session \cup {Nobody}]
    BY DEF TypeOK
<1>1. CASE Read(s)
    BY <1>0, <1>1, ReadMoves DEF Goto, StepsLeft, Pc
<1>2. CASE Start(s)
  <2>1. PICK step \in {"read", "failed"} : Goto(s, step)
    BY <1>2 DEF Start, Starts
  <2>2. pc[s] = "lock" /\ StepsLeft(pc[s]) = 5 /\ StepsLeft(step) < 5 /\ step \in Pc
    BY <1>2 DEF Start, StepsLeft, Pc
  <2>3. pc'[s] = step
    BY <1>0, <2>1 DEF Goto
  <2>4. request' = request
    BY <1>2 DEF Start, Starts
  <2>5. \A t \in Target : named'[t] # named[t] => named'[t] = s /\ t = request[s].target
    BY <1>2 DEF Start
  <2> QED
    BY <2>1, <2>2, <2>3, <2>4, <2>5
<1>3. CASE Busy(s)
    BY <1>0, <1>3 DEF Busy, Goto, StepsLeft, Pc
<1>4. CASE Write(s)
    BY <1>0, <1>4 DEF Write, Goto, StepsLeft, Pc
<1>5. CASE WaitTimesOut(s)
  <2>1. pc[s] \in {"read", "write"}
    BY <1>5 DEF WaitTimesOut, Waiting, NamesRecord, NamesKey, NamesGroup, Reading
  <2> QED
    BY <1>0, <1>5, <2>1 DEF WaitTimesOut, Refuse, Goto, StepsLeft, Pc
<1>6. CASE Commit(s)
    BY <1>0, <1>6 DEF Commit, Goto, StepsLeft, Pc
<1>7. CASE Fails(s)
    BY <1>0, <1>7 DEF Fails, InTransaction, Goto, StepsLeft, Pc
<1>8. CASE Finish(s)
    BY <1>0, <1>8 DEF Finish, BackInPool, Unlocked, Goto, StepsLeft, Pc
<1>9. CASE Drop(s)
    BY <1>0, <1>9 DEF Drop, BackInPool, Unlocked, Goto, StepsLeft, Pc
<1> QED
    BY <1>1, <1>2, <1>3, <1>4, <1>5, <1>6, <1>7, <1>8, <1>9 DEF Step

LEMMA OtherMoves ==
    ASSUME TypeOK, [Next]_vars, \A s \in Session : ~(Step(s) \/ Fails(s))
    PROVE  /\ named' = named
           /\ \/ pc' = pc /\ request' = request
              \/ \E s \in Session :
                    /\ pc[s] = "idle"
                    /\ \A o \in Session \ {s} : pc'[o] = pc[o] /\ request'[o] = request[o]
<1>1. ASSUME NEW s \in Session, NEW q \in Sendable, Send(s, q)
      PROVE  /\ named' = named /\ pc[s] = "idle"
             /\ \A o \in Session \ {s} : pc'[o] = pc[o] /\ request'[o] = request[o]
    BY <1>1 DEF Send, Goto, TypeOK
<1>2. (\E s \in Session : Cut(s)) \/ Prepare \/ UNCHANGED vars
        => UNCHANGED <<named, pc, request>>
    BY DEF Cut, Prepare, session, vars
<1> QED
    BY <1>1, <1>2 DEF Next

\* No write repeats a step: after at most five the client is answered, or its session
\* has ended (the one pass through write, with its finally).
THEOREM Progress == Spec => WritesAdvance
<1>1. ASSUME TypeOK, [Next]_vars, NEW s \in Session, pc'[s] # pc[s], pc[s] # "idle"
      PROVE  StepsLeft(pc'[s]) < StepsLeft(pc[s])
  <2>1. PICK o \in Session : Step(o) \/ Fails(o)
    BY <1>1, OtherMoves
  <2>2. PICK step \in Pc :
            Goto(o, step) /\ (pc[o] # "idle" => StepsLeft(step) < StepsLeft(pc[o]))
    BY <1>1, <2>1, StepMoves
  <2> QED
    BY <1>1, <2>2 DEF Goto, TypeOK
<1>2. IInv => TypeOK
    BY DEF IInv
<1>3. IInv /\ [Next]_vars
        => [\A s \in Session : pc'[s] # pc[s] =>
               pc[s] = "idle" \/ StepsLeft(pc'[s]) < StepsLeft(pc[s])]_vars
    BY <1>1, <1>2
<1> QED
    BY <1>3, TelemetryInvariant, PTL DEF Spec, WritesAdvance

LEMMA LockOfRunnerStep == TypeOK /\ LockOfRunner /\ [Next]_vars => LockOfRunner'
<1> SUFFICES ASSUME TypeOK, LockOfRunner, [Next]_vars,
                    NEW t \in Target, NEW s \in Session, named'[t] = s
             PROVE  pc'[s] \notin {"idle", "lock"} /\ request'[s].target = t
    BY DEF LockOfRunner
<1>1. CASE \A o \in Session : ~(Step(o) \/ Fails(o))
    BY <1>1, OtherMoves DEF LockOfRunner
<1>2. ASSUME NEW o \in Session, Step(o) \/ Fails(o)
      PROVE  pc'[s] \notin {"idle", "lock"} /\ request'[s].target = t
  <2>1. PICK step \in Pc : Goto(o, step)
    BY <1>2, StepMoves
  <2>2. CASE s # o
    <3>1. named[t] = s
        BY <1>2, <2>2, StepMoves, TargetAssumption
    <3> QED
        BY <1>2, <2>1, <2>2, <3>1, StepMoves DEF LockOfRunner, Goto, TypeOK
  <2>3. CASE s = o
    BY <1>2, <2>3, StepMoves, TargetAssumption DEF LockOfRunner
  <2> QED
    BY <2>2, <2>3
<1> QED
    BY <1>1, <1>2

\* There is no deadlock: GET_LOCK, the locking reads and the unique keys are waited for in
\* one order, so no chain of waiting sessions ever closes, and its end can go on (the
\* order of the locks in write, status and applicationError).
THEOREM NoCircularWait == Spec => []WaitsForward
<1>1. Init => LockOfRunner
    BY TargetAssumption DEF Init, LockOfRunner
<1>2. TypeOK /\ LockOfRunner => WaitsForward
  <2> SUFFICES ASSUME TypeOK, LockOfRunner, NEW s \in Session, NEW o \in Session, Delays(o, s)
               PROVE  pc[o] # "idle" /\ StepsLeft(pc[o]) < StepsLeft(pc[s])
    BY DEF WaitsForward
  <2>1. CASE pc[s] = "lock" /\ request[s].target \in Target /\ named[request[s].target] = o
    BY <2>1 DEF LockOfRunner, StepsLeft, TypeOK, Pc
  <2>2. CASE Locks(o) /\ pc[s] = "read"
    BY <2>2 DEF Locks, StepsLeft
  <2>3. CASE pc[s] = "write" /\ pc[o] = "commit"
    BY <2>3 DEF StepsLeft
  <2> QED
    BY <2>1, <2>2, <2>3 DEF Delays, NamesRecord, NamesKey, NamesGroup, Reading
<1>3. IInv => TypeOK
    BY DEF IInv
<1> QED
    BY <1>1, <1>2, <1>3, LockOfRunnerStep, TelemetryInvariant, PTL DEF Spec

=============================================================================
