------------------------- MODULE MCReleaseLifecycle -------------------------
(* Small instances of ReleaseLifecycle for TLC.                            *)
EXTENDS ReleaseLifecycle, TLC

CONSTANTS r1, r2, u1, u2, a1, m1

Bodies == {
    [artifact |-> a1, enabled |-> TRUE, scope |-> "public", users |-> {}],
    [artifact |-> NoArtifact, enabled |-> FALSE, scope |-> "allowlist", users |-> User]}

\* A PATCH may name the audience or leave it as it is.
Patches == {{"artifact", "enabled"}, {"scope", "users"}}

Symmetry == Permutations(Release) \cup Permutations(User)
=============================================================================
