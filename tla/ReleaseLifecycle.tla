-------------------------- MODULE ReleaseLifecycle --------------------------
(***************************************************************************)
(* The releases of one application: drafts edited until they are          *)
(* published, the policy of a published release (audience, enabled) under  *)
(* a revision that clients may demand, and the artifact, catalog revision, *)
(* task and audit rows written with each change.                           *)
(*                                                                         *)
(* A write transaction holds the named lock and the application row (see   *)
(* ApplicationWrite), so it is one action; one that is refused changes     *)
(* nothing and is no action.  An audience request is two transactions, but *)
(* what the first finds, that the draft is published, stays so.  A client  *)
(* reads a release in two requests: others come in between.  A request     *)
(* repeated after a lost answer is one more request.                       *)
(***************************************************************************)
EXTENDS AudienceChange

CONSTANTS
    Release,        \* release ids, drawn when a draft is created
    NoId,           \* the release of a manager that has read none
    User,           \* user ids an audience may name
    Artifact,       \* artifact ids
    NoArtifact,     \* a draft that names a URL
    Manager,        \* clients that read a release before they change it
    Body,           \* drafts that clients submit, valid or not
    Patch,          \* sets of fields that a PATCH names
    MaxRevision,    \* bound: catalog_revision
    MaxSequence     \* bound: AUTO_INCREMENT of release_sequence

ASSUME MissingAssumption == NoId \notin Release /\ NoArtifact \notin Artifact
ASSUME UserAssumption == IsFiniteSet(User)
ASSUME BoundAssumption == MaxRevision \in Nat /\ MaxSequence \in Nat

VARIABLES
    draft,          \* release_draft rows
    release,        \* release rows with their release_user rows
    artifact,       \* status of the artifact rows
    sequence,       \* last release_sequence allocated
    revision,       \* catalog_revision of the application row
    tasks,          \* publish_task rows inserted
    policyAudit,    \* success audit rows with a revision
    audienceAudit,  \* the last success audit of each release with an audience
    manager         \* what clients have read of a release

releaseRows == <<release, sequence, revision, tasks, policyAudit>>
vars == <<draft, releaseRows, artifact, audienceAudit, manager>>

-----------------------------------------------------------------------------
Scope == {"public", "allowlist"}
Audience == [scope : Scope, users : SUBSET User]
NoAudience == [scope |-> "none", users |-> {}]      \* scopeBefore = null
Audiences == Audience \cup {NoAudience}
Payload == [artifact : Artifact \cup {NoArtifact}, enabled : BOOLEAN,
            scope : Scope, users : SUBSET User]
Action == {"publish", "enable", "disable", "audience_changed", "redispatch"}

NoPayload == [artifact |-> NoArtifact, enabled |-> TRUE, scope |-> "public", users |-> {}]

ASSUME BodyAssumption == Body \subseteq Payload /\ Patch \subseteq SUBSET DOMAIN NoPayload

NoDraft == [status |-> "absent", payload |-> NoPayload, sequence |-> 0]
NoRelease == [policy |-> 0, sequence |-> 0, enabled |-> FALSE, audience |-> NoAudience]

\* policy: policy_revision, 0 when there is no row.
DraftRow == [status : {"absent", "draft", "published"},
             payload : {p \in Payload : p.scope = "allowlist" \/ p.users = {}}, sequence : Nat]
ReleaseRow == [policy : Nat, sequence : Nat, enabled : BOOLEAN, audience : Audiences]
Task == [release : Release, action : Action, requested : Nat]
\* task: the requested_revision of the task of the same operation.
PolicyAudit == [release : Release, action : Action, before : Nat, after : Nat, task : Nat]
AudienceAudit == [before : Audiences, after : Audiences]

Change == [kind : {"users"}, users : SUBSET User, scope : {"public"}]
          \cup [kind : {"scope"}, users : {{}}, scope : Scope]
\* expected: the revision read, sent as expectedRevision; seen: the audience.
View == [pc : {"none", "detail", "users"}, release : Release \cup {NoId},
            expected : Nat, seen : Audiences]

NoView == [pc |-> "none", release |-> NoId, expected |-> 0, seen |-> NoAudience]

Init ==
    /\ draft = [r \in Release |-> NoDraft]
    /\ release = [r \in Release |-> NoRelease]
    /\ artifact = [a \in Artifact |-> "absent"]
    /\ sequence = 0
    /\ revision = 0
    /\ tasks = {}
    /\ policyAudit = {}
    /\ audienceAudit = [r \in Release |-> [before |-> NoAudience, after |-> NoAudience]]
    /\ manager = [m \in Manager |-> NoView]

-----------------------------------------------------------------------------
\* normalizeReleaseAudience refuses a public release with users.
Valid(audience) == audience.scope = "public" => audience.users = {}

AudienceOf(payload) == [scope |-> payload.scope, users |-> payload.users]

Audited(r, before, after) ==
    audienceAudit' = [audienceAudit EXCEPT ![r] = [before |-> before, after |-> after]]

-----------------------------------------------------------------------------
(* Drafts and artifacts.                                                   *)

\* uploadArtifact, once the object is stored.
UploadArtifact(a) ==
    /\ artifact[a] = "absent"
    /\ artifact' = [artifact EXCEPT ![a] = "pending"]
    /\ UNCHANGED <<draft, releaseRows, audienceAudit, manager>>

\* A request repeated with its idempotency key is answered with the draft it
\* made, or refused.
CreateDraft(r, payload) ==
    /\ draft[r].status = "absent"
    /\ Valid(AudienceOf(payload))
    /\ draft' = [draft EXCEPT ![r] = [status |-> "draft", payload |-> payload, sequence |-> 0]]
    /\ Audited(r, NoAudience, AudienceOf(payload))
    /\ UNCHANGED <<releaseRows, artifact, manager>>

\* What PATCH makes of a payload: the fields it names are replaced.
Merged(current, fields, body) ==
    [f \in DOMAIN current |-> IF f \in fields THEN body[f] ELSE current[f]]

\* Mutant: a published draft can be edited.
EditableAlways(r) == draft[r].status # "absent"

Editable(r) == draft[r].status = "draft"

\* updateDraft, and the draft half of replaceUsers and changeScope.
EditDraft(r, payload) ==
    /\ Editable(r)
    /\ Valid(AudienceOf(payload))
    /\ draft' = [draft EXCEPT ![r].payload = payload]
    /\ Audited(r, AudienceOf(draft[r].payload), AudienceOf(payload))

UpdateDraft(r, fields, body) ==
    /\ EditDraft(r, Merged(draft[r].payload, fields, body))
    /\ UNCHANGED <<releaseRows, artifact, manager>>

-----------------------------------------------------------------------------
(* What publish and mutatePolicy write besides the release.                *)

\* Mutant: the task gets the revision read before the increment.
InsertTaskOfPrevious(r, action, before) ==
    /\ revision' = revision + 1
    /\ tasks' = tasks \cup {[release |-> r, action |-> action, requested |-> revision]}
    /\ policyAudit' = policyAudit \cup
            {[release |-> r, action |-> action, before |-> before, after |-> before + 1,
              task |-> revision]}

\* incrementCatalogRevision, the task and the success audit of the operation.
InsertTask(r, action, before) ==
    /\ revision' = revision + 1
    /\ tasks' = tasks \cup {[release |-> r, action |-> action, requested |-> revision + 1]}
    /\ policyAudit' = policyAudit \cup
            {[release |-> r, action |-> action, before |-> before, after |-> before + 1,
              task |-> revision + 1]}

\* lockArtifact: a draft that names an artifact needs its row.
ArtifactAvailable(payload) ==
    payload.artifact \in Artifact => artifact[payload.artifact] \in {"pending", "published"}

\* Mutant: a published draft is published once more.
PublishableAgain(r) == draft[r].status \in {"draft", "published"}

\* A published draft is answered with its sequence.
Publishable(r) == draft[r].status = "draft"

Publish(r) ==
    LET payload == draft[r].payload IN
    /\ Publishable(r)
    /\ ArtifactAvailable(payload)
    /\ sequence < MaxSequence /\ revision < MaxRevision
    /\ sequence' = sequence + 1
    /\ release' = [release EXCEPT ![r] =
            [policy |-> 1, sequence |-> sequence + 1, enabled |-> payload.enabled,
             audience |-> AudienceOf(payload)]]
    /\ artifact' = [a \in Artifact |-> IF a = payload.artifact THEN "published" ELSE artifact[a]]
    /\ draft' = [draft EXCEPT ![r].status = "published", ![r].sequence = sequence + 1]
    /\ InsertTask(r, "publish", 0)
    /\ Audited(r, NoAudience, AudienceOf(payload))
    /\ UNCHANGED manager

\* It rolls back after the insert: the sequence number is lost.
PublishRollsBack(r) ==
    /\ Publishable(r)
    /\ ArtifactAvailable(draft[r].payload)
    /\ sequence < MaxSequence
    /\ sequence' = sequence + 1
    /\ UNCHANGED <<draft, release, artifact, revision, tasks, policyAudit, audienceAudit, manager>>

-----------------------------------------------------------------------------
(* Policy changes of a published release.                                  *)

\* Mutant: policy_revision stays.
MutatePolicyInPlace(r, action, row) ==
    /\ release[r].policy > 0
    /\ revision < MaxRevision
    /\ release' = [release EXCEPT ![r] = row]
    /\ InsertTask(r, action, release[r].policy)
    /\ UNCHANGED <<draft, artifact, sequence>>

\* mutatePolicy: row is the release with what the mutation changes in it.
MutatePolicy(r, action, row) ==
    /\ release[r].policy > 0
    /\ revision < MaxRevision
    /\ release' = [release EXCEPT ![r] = [row EXCEPT !.policy = release[r].policy + 1]]
    /\ InsertTask(r, action, release[r].policy)
    /\ UNCHANGED <<draft, artifact, sequence>>

SetEnabled(r, enabled) ==
    /\ MutatePolicy(r, IF enabled THEN "enable" ELSE "disable",
                    [release[r] EXCEPT !.enabled = enabled])
    /\ UNCHANGED <<audienceAudit, manager>>

Redispatch(r) ==
    /\ MutatePolicy(r, "redispatch", release[r])
    /\ UNCHANGED <<audienceAudit, manager>>

\* Mutant: the rows of the users survive a change to public.
WrittenScopeOnly(current, change) ==
    IF change.kind = "users" THEN [current EXCEPT !.users = change.users]
                             ELSE [current EXCEPT !.scope = change.scope]

\* What the statements of a change make of the release and release_user rows.
Written(current, change) ==
    IF change.kind = "users" THEN [current EXCEPT !.users = change.users]
    ELSE [scope |-> change.scope,
          users |-> IF change.scope = "public" THEN {} ELSE current.users]

\* What planAudienceChange is told that they make of them, and of a draft.
Planned(current, change) ==
    [scope |-> IF change.kind = "scope" THEN change.scope ELSE current.scope,
     users |-> IF change.kind = "users" THEN change.users
               ELSE IF change.scope = "public" THEN {} ELSE current.users]

\* Mutant: the audience before the change is taken from the draft.
PublishedAudience(r) == AudienceOf(draft[r].payload)

ReadAudience(r) == release[r].audience

-----------------------------------------------------------------------------
(* Audience changes: replaceUsers and changeScope.                         *)

\* A client reads revision and scope of a release, then its users.
ReadDetail(m, r) ==
    /\ manager[m].pc = "none"
    /\ release[r].policy > 0
    /\ manager' = [manager EXCEPT ![m] =
            [pc |-> "detail", release |-> r, expected |-> release[r].policy,
             seen |-> [scope |-> release[r].audience.scope, users |-> {}]]]
    /\ UNCHANGED <<draft, releaseRows, artifact, audienceAudit>>

ReadUsers(m) ==
    /\ manager[m].pc = "detail"
    /\ manager' = [manager EXCEPT ![m].pc = "users",
                                  ![m].seen.users = release[manager[m].release].audience.users]
    /\ UNCHANGED <<draft, releaseRows, artifact, audienceAudit>>

\* mutateDraftAudience finds the draft and edits it.
ChangeDraftAudience(r, change) ==
    LET audience == Planned(AudienceOf(draft[r].payload), change) IN
    /\ EditDraft(r, [draft[r].payload EXCEPT !.scope = audience.scope, !.users = audience.users])
    /\ UNCHANGED <<releaseRows, artifact, manager>>

\* It finds none, and mutatePolicy changes the release.
ChangeAudience(r, change) ==
    LET before == ReadAudience(r) IN
    /\ MutatePolicy(r, "audience_changed", [release[r] EXCEPT !.audience = Written(@, change)])
    /\ Audited(r, before, Planned(before, change))

ChangeAudienceBlindly(r, change) ==
    /\ ChangeAudience(r, change)
    /\ UNCHANGED manager

\* Mutant: expectedRevision is accepted when it was right at some time.
PastRevisionExpected(m) == manager[m].expected <= release[manager[m].release].policy

RevisionExpected(m) == manager[m].expected = release[manager[m].release].policy

ChangeViewedAudience(m, change) ==
    /\ manager[m].pc = "users"
    /\ RevisionExpected(m)
    /\ ChangeAudience(manager[m].release, change)
    /\ manager' = [manager EXCEPT ![m] = NoView]

\* The request is refused (409 among others), or never made.
DropView(m) ==
    /\ manager[m].pc # "none"
    /\ manager' = [manager EXCEPT ![m] = NoView]
    /\ UNCHANGED <<draft, releaseRows, artifact, audienceAudit>>

-----------------------------------------------------------------------------
Next ==
    \/ \E a \in Artifact : UploadArtifact(a)
    \/ \E r \in Release, body \in Body : CreateDraft(r, body)
    \/ \E r \in Release, fields \in Patch, body \in Body : UpdateDraft(r, fields, body)
    \/ \E r \in Release :
          \/ Publish(r) \/ PublishRollsBack(r)
          \/ \E enabled \in BOOLEAN : SetEnabled(r, enabled)
          \/ Redispatch(r)
          \/ \E change \in Change :
                ChangeDraftAudience(r, change) \/ ChangeAudienceBlindly(r, change)
    \/ \E m \in Manager :
          \/ \E r \in Release : ReadDetail(m, r)
          \/ ReadUsers(m)
          \/ \E change \in Change : ChangeViewedAudience(m, change)
          \/ DropView(m)

Spec == Init /\ [][Next]_vars

-----------------------------------------------------------------------------
(* Properties.                                                             *)

TypeOK ==
    /\ draft \in [Release -> DraftRow]
    /\ release \in [Release -> ReleaseRow]
    /\ artifact \in [Artifact -> {"absent", "pending", "published"}]
    /\ sequence \in Nat /\ revision \in Nat
    /\ tasks \subseteq Task
    /\ policyAudit \subseteq PolicyAudit
    /\ audienceAudit \in [Release -> AudienceAudit]
    /\ manager \in [Manager -> View]

\* However often it is asked for, a draft is published once: as one release
\* with a sequence of its own, by one task, which draft and release agree on.
PublishedOnce ==
    \A r \in Release :
        LET publications == {t \in tasks : t.release = r /\ t.action = "publish"} IN
        /\ draft[r].status = "published" <=> release[r].policy > 0
        /\ release[r].sequence = draft[r].sequence
        /\ draft[r].status = "published" => \E t \in tasks : publications = {t}
        /\ draft[r].status # "published" => publications = {}
        /\ \A q \in Release \ {r} :
              release[r].sequence = release[q].sequence => release[r].policy = 0

\* Every catalog revision has the one task that asks for it.
RevisionsMatchTasks ==
    /\ {t.requested : t \in tasks} = 1..revision
    /\ \A s, t \in tasks : s.requested = t.requested => s = t

\* The success audits of a release are its revisions, one after the other, in
\* the order of the tasks they belong to.
AuditsFollowPolicy ==
    /\ {[release |-> a.release, action |-> a.action, requested |-> a.task] : a \in policyAudit} = tasks
    /\ \A r \in Release :
          LET audits == {a \in policyAudit : a.release = r} IN
          /\ {a.after : a \in audits} = 1..release[r].policy
          /\ \A a, b \in audits : a.task < b.task => a.after <= b.before
          /\ \A a \in audits : a.after = a.before + 1

\* Tasks, revisions and audits tell one story.
AuditTrailComplete == RevisionsMatchTasks /\ AuditsFollowPolicy

\* Replaying the audience audits gives the audience in force, of drafts and
\* of releases.
AudienceIsAudited ==
    \A r \in Release :
        audienceAudit[r].after =
            CASE release[r].policy > 0 -> release[r].audience
              [] draft[r].status = "draft" -> AudienceOf(draft[r].payload)
              [] OTHER -> NoAudience

\* The rows that carry the detail of an audience audit lead from the users
\* before to those after: no user is lost, or named twice, where parts meet.
AuditPartsComplete ==
    \A r \in Release :
        PartsComplete(audienceAudit[r].before.users, audienceAudit[r].after.users)

\* Audits connect: each names as its before what the previous one left, or no
\* audience at the publication.
AuditsConnect ==
    [][\A r \in Release :
          audienceAudit'[r] # audienceAudit[r]
          => audienceAudit'[r].before =
                IF release[r].policy = 0 /\ release'[r].policy > 0
                THEN NoAudience ELSE audienceAudit[r].after]_vars

\* An audience change that demands the revision its client has read never
\* overwrites an audience the client has not seen, though revision and users
\* were read in two requests.
NoBlindOverwrite ==
    [][\A m \in Manager :
          \A change \in Change :
              ChangeViewedAudience(m, change)
              => release[manager[m].release].audience = manager[m].seen]_vars

\* An artifact is marked published exactly when a published draft names it: no
\* later edit of a draft makes that untrue.
PublishedArtifactsAreUsed ==
    \A a \in Artifact :
        artifact[a] = "published" <=>
            \E r \in Release : draft[r].status = "published" /\ draft[r].payload.artifact = a

\* The task that asks for a catalog revision.
Asking(i) == CHOOSE t \in tasks : t.requested = i

Log == INSTANCE ReleaseLog WITH
    log <- [i \in 1..revision |-> [release |-> Asking(i).release, action |-> Asking(i).action]]

\* The catalog is a log: the tasks in the order of their revisions tell every change of
\* a published release, one by one, and each says what it has changed (mutatePolicy and
\* publish, with the action they give to the task).
ImplementsReleaseLog == Log!Spec
=============================================================================
