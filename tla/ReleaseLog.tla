----------------------------- MODULE ReleaseLog -----------------------------
(***************************************************************************)
(* What published releases come to, for whoever follows the catalog: a log *)
(* to which every change appends one entry.  A release is published by its *)
(* first entry, with a number above those of all others, its policy counts *)
(* its entries, and an entry says what has changed: nothing else has.      *)
(***************************************************************************)
EXTENDS Naturals, Sequences

CONSTANTS
    Release,
    NoRelease,          \* the row of a release that is not published
    Audience

VARIABLES
    log,                \* an entry names a release and an action
    release             \* rows: policy, sequence, enabled and audience

logVars == <<log, release>>

Init ==
    /\ log = <<>>
    /\ release = [r \in Release |-> NoRelease]

Write(r, action, row) ==
    /\ release' = [release EXCEPT ![r] = row]
    /\ log' = Append(log, [release |-> r, action |-> action])

Publish(r, row) ==
    /\ release[r].policy = 0 /\ row.policy = 1
    /\ \A q \in Release : release[q].sequence < row.sequence
    /\ row.audience \in Audience
    /\ Write(r, "publish", row)

\* An entry of a published release, whose row is changed to this row.
Revise(r, action, row) ==
    /\ release[r].policy > 0
    /\ Write(r, action, [row EXCEPT !.policy = release[r].policy + 1])

Switch(r) ==
    \/ Revise(r, "enable", [release[r] EXCEPT !.enabled = TRUE])
    \/ Revise(r, "disable", [release[r] EXCEPT !.enabled = FALSE])

ChangeAudience(r, audience) ==
    /\ audience \in Audience
    /\ Revise(r, "audience_changed", [release[r] EXCEPT !.audience = audience])

Redispatch(r) == Revise(r, "redispatch", release[r])

Next ==
    \E r \in Release :
        /\ release'[r] # release[r]
        /\ \/ Publish(r, release'[r]) \/ Switch(r)
           \/ ChangeAudience(r, release'[r].audience) \/ Redispatch(r)

Spec == Init /\ [][Next]_logVars
=============================================================================
