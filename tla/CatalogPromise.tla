--------------------------- MODULE CatalogPromise ---------------------------
(***************************************************************************)
(* What a caller of loadCatalog may rely on, with no cache, load or promise *)
(* chain in sight: a catalog is never older than the last invalidation, and *)
(* never older than one that was handed out before.                         *)
(***************************************************************************)
EXTENDS Naturals

CONSTANT MaxRevision    \* bound: catalog_revision

ASSUME RevisionAssumption == MaxRevision \in Nat

VARIABLES
    revision,           \* catalog_revision, as committed
    floor,              \* revision at the last invalidation
    answered            \* revision of the last catalog handed out

promiseVars == <<revision, floor, answered>>

Init == revision = 0 /\ floor = 0 /\ answered = 0

\* A release transaction commits.
Commit ==
    /\ revision < MaxRevision
    /\ revision' = revision + 1
    /\ UNCHANGED <<floor, answered>>

Invalidate ==
    /\ floor' = revision
    /\ UNCHANGED <<revision, answered>>

\* The catalogs loadCatalog may return now.
Answers == {r \in 0..revision : r >= floor /\ r >= answered}

Answer(r) ==
    /\ r \in Answers
    /\ answered' = r
    /\ UNCHANGED <<revision, floor>>

Next == Commit \/ Invalidate \/ \E r \in 0..MaxRevision : Answer(r)

Spec == Init /\ [][Next]_promiseVars
=============================================================================
