--------------------------- MODULE AudienceChange ---------------------------
(***************************************************************************)
(* The audit detail of an audience change: the users added, then those     *)
(* removed, cut into parts of a bounded size, one audit row for each.      *)
(* The users are sorted in the code; here they come in some order.         *)
(***************************************************************************)
EXTENDS SequencesExt

CONSTANT PartSize       \* AUDIENCE_AUDIT_PART_SIZE

ASSUME PartSizeAssumption == PartSize \in Nat \ {0}

Entries(users, added) ==
    [i \in 1..Cardinality(users) |-> [user |-> SetToSeq(users)[i], added |-> added]]

Differences(previous, next) == Entries(next \ previous, TRUE) \o Entries(previous \ next, FALSE)

\* Mutant: the end of a slice counts as part of it.
PositionsOverlap(p, length) == {i \in 1..length : (p - 1) * PartSize < i /\ i <= p * PartSize + 1}

\* The index range of part p: offset .. offset + PartSize - 1, counted from 1.
Positions(p, length) == {i \in 1..length : (p - 1) * PartSize < i /\ i <= p * PartSize}

\* How often the loop over the offsets runs.
PartCount(length) == (length + PartSize - 1) \div PartSize

NoChange == [added |-> {}, removed |-> {}]

Part(changes, p) ==
    LET chunk == {changes[i] : i \in Positions(p, Len(changes))} IN
    [added |-> {c.user : c \in {d \in chunk : d.added}},
     removed |-> {c.user : c \in {d \in chunk : ~d.added}}]

\* planAudienceChange: without a difference there is one empty part.
Parts(previous, next) ==
    LET changes == Differences(previous, next) IN
    IF changes = <<>> THEN <<NoChange>>
    ELSE [p \in 1..PartCount(Len(changes)) |-> Part(changes, p)]

-----------------------------------------------------------------------------
(* What the parts promise.                                                 *)

\* They lead from the users before to the users after, name no user twice and
\* nobody without a change, and keep to their size; only when nothing changes
\* is a part empty.
PartsComplete(previous, next) ==
    LET parts == Parts(previous, next)
        Added == UNION {parts[p].added : p \in DOMAIN parts}
        Removed == UNION {parts[p].removed : p \in DOMAIN parts}
    IN
    /\ Added = next \ previous /\ Removed = previous \ next
    /\ \A p, q \in DOMAIN parts : p # q =>
          parts[p].added \cap parts[q].added = {} /\ parts[p].removed \cap parts[q].removed = {}
    /\ \A p \in DOMAIN parts :
          /\ Cardinality(parts[p].added) + Cardinality(parts[p].removed) <= PartSize
          /\ parts[p] = NoChange => previous = next
    /\ parts # <<>>
=============================================================================
