------------------------- MODULE MCRealtimeDispatch -------------------------
(* Small instances of RealtimeDispatch for TLC: the decisions are those of     *)
(* UpdateDecision for small catalogs, one for each revision.                   *)
EXTENDS RealtimeDispatch, UpdateDecision, TLC

Symmetry == Permutations(Socket) \cup Permutations(Task)

\* 1.9.0, which "old" clients have installed, and what they are updated to.
Minor(numeral) == <<<<1>>, numeral, <<0>>>>
Installed == Minor(<<9>>)
Next10 == Minor(<<1, 0>>)
Next11 == Minor(<<1, 1>>)

Full(n, version, users, mandatory) ==
    [sequence |-> n, targetVersion |-> version, platforms |-> {"ios"}, architectures |-> {},
     channel |-> {}, updateType |-> "full", scope |-> IF users = {} THEN "public" ELSE "allowlist",
     users |-> users, enabled |-> TRUE, mandatory |-> mandatory, showUpdateDialog |-> TRUE]

ClientOf(profile, bound) ==
    [platform |-> "ios", architecture |-> {}, channel |-> {},
     currentVersion |-> IF profile = "new" THEN Next11 ELSE Installed,
     installedSequence |-> 0, userIds |-> IF bound THEN {"u"} ELSE {}]

OfferOf(client, releases) ==
    LET offered == Offered(client, releases)
    IN  IF offered = {} THEN NoOffer
        ELSE [release |-> (CHOOSE x \in offered : TRUE).sequence,
              mandatory |-> Mandatory(client, releases)]

\* The decisions of the catalogs[r], for every profile and with and without a user,
\* first as a set that TLC evaluates once.
Decided(catalogs, profiles) ==
    {[at |-> <<r, p, b>>, offer |-> OfferOf(ClientOf(p, b), catalogs[r])] :
        r \in DOMAIN catalogs, p \in profiles, b \in BOOLEAN}

Table(decided, profiles) ==
    [r \in 0..2 |-> [p \in profiles |-> [b \in BOOLEAN |->
        (CHOOSE d \in decided : d.at = <<r, p, b>>).offer]]]

\* Revision 1 offers release 1 to all and release 2 to bound users, revision 2
\* withdraws release 1; a client already updated is offered nothing.
RolloutDecided ==
    LET forUsers == Full(2, Next11, {"u"}, FALSE)
        forAll(on) == [Full(1, Next10, {}, FALSE) EXCEPT !.enabled = on]
    IN  Decided([r \in 0..2 |-> IF r = 0 THEN {} ELSE {forAll(r = 1), forUsers}],
                {"old", "new"})
Rollout == Table(RolloutDecided, {"old", "new"})

\* Every revision replaces what the one before offers to all; bound users have
\* a release of their own.
ReplacementDecided ==
    LET forUsers == Full(3, Next11, {"u"}, FALSE)
        forAll(r) == Full(r, Next10, {}, FALSE)
    IN  Decided([r \in 0..2 |-> {forAll(n) : n \in 1..r} \cup {x \in {forUsers} : r > 0}],
                {"old"})
Replacement == Table(ReplacementDecided, {"old"})

\* Release 2 is for everyone; an older mandatory release only for bound users,
\* who are therefore told that release 2 is mandatory.
MandatoryDecided ==
    Decided([r \in 0..2 |-> {x \in {Full(1, Next10, {"u"}, TRUE), Full(2, Next11, {}, FALSE)} :
                                 r > 0}],
            {"old"})
MandatoryForUsers == Table(MandatoryDecided, {"old"})
=============================================================================
