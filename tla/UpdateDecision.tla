--------------------------- MODULE UpdateDecision ---------------------------
(***************************************************************************)
(* The update a client is offered: resolveUpdate and what it rests on.      *)
(*                                                                          *)
(* A catalog is the set of the releases of one application, each with the   *)
(* users of its audience; a release is known by its sequence.  An optional  *)
(* value is a set of at most one element.                                   *)
(***************************************************************************)
EXTENDS Integers, Sequences

-----------------------------------------------------------------------------
(* Versions: three numerals, compared as the strings they are.              *)

\* A decimal numeral without leading zeros, as APP_VERSION_PATTERN demands.
Numeral == {n \in Seq(0..9) : Len(n) > 0 /\ (n[1] = 0 => Len(n) = 1)}
Version == Numeral \X Numeral \X Numeral

\* Sequences of one length in lexical order.
After(a, b) ==
    \E i \in 1..Len(a) : a[i] > b[i] /\ \A j \in 1..(i - 1) : a[j] = b[j]

\* The longer numeral is the greater one; of one length, the lexical order.
Greater(a, b) == Len(a) > Len(b) \/ (Len(a) = Len(b) /\ After(a, b))

\* compareVersions(v, w) > 0: decided by the first part that differs.
Newer(v, w) ==
    \/ Greater(v[1], w[1])
    \/ v[1] = w[1] /\ Greater(v[2], w[2])
    \/ v[1] = w[1] /\ v[2] = w[2] /\ Greater(v[3], w[3])

-----------------------------------------------------------------------------
(* Releases and clients.                                                    *)

CatalogRelease ==
    [sequence : Nat \ {0}, targetVersion : Version, platforms : SUBSET STRING,
     architectures : SUBSET STRING, channel : SUBSET STRING, updateType : {"full", "hot"},
     scope : {"public", "allowlist"}, users : SUBSET STRING, enabled : BOOLEAN,
     mandatory : BOOLEAN, showUpdateDialog : BOOLEAN]

ClientUpdateContext ==
    [platform : STRING, architecture : SUBSET STRING, channel : SUBSET STRING,
     currentVersion : Version, installedSequence : Nat, userIds : SUBSET STRING]

\* Sequences are allocated once per application.
Catalog == {C \in SUBSET CatalogRelease : \A x, y \in C : x.sequence = y.sequence => x = y}

\* A universal macOS build runs on both of these.
macosUniversalArchitectures == {"arm64", "x64"}

matchesAudience(release, client) ==
    release.scope = "public" \/ release.users \cap client.userIds # {}

matchesArchitecture(release, client) ==
    \/ release.architectures = {}
    \/ \E a \in client.architecture :
        \/ a \in release.architectures
        \/ /\ client.platform = "macos"
           /\ "universal" \in release.architectures
           /\ a \in macosUniversalArchitectures

matchesChannel(release, client) ==
    release.channel = {} \/ release.channel = client.channel

Eligible(client, releases) ==
    {release \in releases :
        /\ release.enabled
        /\ client.platform \in release.platforms
        /\ matchesArchitecture(release, client)
        /\ matchesChannel(release, client)
        /\ matchesAudience(release, client)}

-----------------------------------------------------------------------------
(* resolveUpdate.                                                           *)

FullCandidates(client, releases) ==
    {release \in Eligible(client, releases) :
        release.updateType = "full" /\ Newer(release.targetVersion, client.currentVersion)}

HotCandidates(client, releases) ==
    {release \in Eligible(client, releases) :
        /\ release.updateType = "hot"
        /\ release.targetVersion = client.currentVersion
        /\ release.sequence > client.installedSequence}

\* A hot release is considered only when no full one applies.
Candidates(client, releases) ==
    IF FullCandidates(client, releases) # {}
    THEN FullCandidates(client, releases)
    ELSE HotCandidates(client, releases)

\* x comes before y where the candidates are sorted; the versions of two hot
\* candidates are the same.
Preferred(x, y) ==
    \/ Newer(x.targetVersion, y.targetVersion)
    \/ x.targetVersion = y.targetVersion /\ x.sequence > y.sequence

\* The releases of the decision: the first of the sorted candidates, if any.
Offered(client, releases) ==
    {x \in Candidates(client, releases) :
        \A y \in Candidates(client, releases) \ {x} : Preferred(x, y)}

\* One mandatory candidate makes the offered one mandatory.
Mandatory(client, releases) ==
    \E release \in Candidates(client, releases) : release.mandatory
=============================================================================
