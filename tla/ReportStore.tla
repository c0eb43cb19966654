---------------------------- MODULE ReportStore -----------------------------
(***************************************************************************)
(* What the reports of an application's clients come to, with no session,  *)
(* lock or transaction in sight: a report is stored once, a report that    *)
(* repeats a key adds nothing, a stored report with a key never changes,   *)
(* an error group counts each of its reports once, and a client is only    *)
(* told of a row that answers what it has sent.                            *)
(***************************************************************************)
EXTENDS Naturals

CONSTANTS
    ReportId,           \* idempotency keys
    NoReportId,         \* the report carries none
    Group,              \* application errors told apart
    Absent,             \* the sequence of no release
    Sendable,           \* requests
    MaxRequests         \* bound: requests sent

VARIABLES
    reports,            \* stored rows
    told                \* answers given

storeVars == <<reports, told>>

Init == reports = {} /\ told = {}

SameContent(x, q) == x.release = q.release /\ x.body = q.body

\* The report of request n is in no row yet.
Uncounted(n) == \A x \in reports : n \notin x.of

\* The stored row y becomes x.
Replace(y, x) == reports' = (reports \ {y}) \cup {x} /\ UNCHANGED told

\* The first report of a key or a group, or one without a key; x is its row.
Accept(q, n, x) ==
    /\ q.record = 0 /\ (q.target \in Group \/ q.release # Absent)
    /\ Uncounted(n)
    /\ \A y \in reports : y.id # x.id /\ (y.target = q.target => q.target = NoReportId)
    /\ x = [id |-> x.id, target |-> q.target, release |-> q.release, body |-> q.body,
            count |-> 1, of |-> {n}]
    /\ reports' = reports \cup {x}
    /\ UNCHANGED told

\* One more report of an error group.
Count(q, n, y) ==
    /\ q.target \in Group /\ y.target = q.target
    /\ Uncounted(n)
    /\ Replace(y, [y EXCEPT !.count = @ + 1, !.of = @ \cup {n}])

\* A request without a key amends the row it names, which has none either.
Amend(q, y) ==
    /\ q.target = NoReportId /\ y.target = NoReportId
    /\ q.record = y.id /\ q.release = y.release
    /\ Replace(y, [y EXCEPT !.body = q.body])

\* The row x is the one of the request's key, that it names, or that counts it.
Answers(q, n, x) ==
    /\ q.target \in ReportId => x.target = q.target /\ SameContent(x, q)
    /\ q.target \notin ReportId /\ q.record = 0 => n \in x.of
    /\ q.record > 0 => /\ x.id = q.record /\ x.release = q.release
                       /\ x.target \in ReportId => x.body = q.body

\* A request is answered once.
Answer(a) ==
    /\ \E x \in reports : x.id = a.id /\ Answers(a.request, a.number, x)
    /\ \A b \in told : b.number # a.number
    /\ told' = told \cup {a}
    /\ UNCHANGED reports

Next ==
    \/ \E x \in reports' \ reports, q \in Sendable, n \in 1..MaxRequests :
          Accept(q, n, x) \/ \E y \in reports : Count(q, n, y) \/ Amend(q, y)
    \/ \E a \in told' \ told : Answer(a)

Spec == Init /\ [][Next]_storeVars
=============================================================================
