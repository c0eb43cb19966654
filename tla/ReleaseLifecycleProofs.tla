----------------------- MODULE ReleaseLifecycleProofs -----------------------
(***************************************************************************)
(* Proofs about ReleaseLifecycle, for any number of releases, users,       *)
(* artifacts and clients and whatever drafts are submitted.  A lemma       *)
(* reduces the steps of Next to six kinds; each part of the inductive      *)
(* invariant is preserved by each kind.                                    *)
(***************************************************************************)
EXTENDS ReleaseLifecycle, FiniteSetTheorems, SequenceTheorems, TLAPS

\* A published release has an audience: its scope is never "none".
AudienceKnown ==
    \A r \in Release : release[r].policy > 0 => release[r].audience \in Audience

\* Sequence numbers in use have been allocated.
SequencesAllocated ==
    \A r \in Release : /\ release[r].sequence <= sequence
                       /\ release[r].sequence = 0 <=> release[r].policy = 0

\* A view is of a published release, and right if the revision is still that.
ViewsAreDated ==
    \A m \in Manager :
        LET v == manager[m] row == release[v.release] IN
        v.pc # "none" =>
            /\ v.release \in Release /\ v.seen \in Audience
            /\ row.policy > 0 /\ v.expected <= row.policy
            /\ v.expected = row.policy => v.seen.scope = row.audience.scope
            /\ v.expected = row.policy /\ v.pc = "users" => v.seen = row.audience

IInv ==
    /\ TypeOK
    /\ AudienceKnown
    /\ SequencesAllocated
    /\ PublishedOnce
    /\ RevisionsMatchTasks
    /\ AuditsFollowPolicy
    /\ AudienceIsAudited
    /\ PublishedArtifactsAreUsed
    /\ ViewsAreDated

-----------------------------------------------------------------------------
(* The kinds of steps.                                                     *)

StoredPayload == {p \in Payload : p.scope = "allowlist" \/ p.users = {}}
PolicyAction == Action \ {"publish"}

ArtifactStep == \E a \in Artifact : UploadArtifact(a)

CreateStep(r, p) ==
    /\ draft[r].status = "absent"
    /\ draft' = [draft EXCEPT ![r] = [status |-> "draft", payload |-> p, sequence |-> 0]]
    /\ Audited(r, NoAudience, AudienceOf(p))
    /\ UNCHANGED <<releaseRows, artifact, manager>>

EditStep(r, p) ==
    /\ draft[r].status = "draft"
    /\ draft' = [draft EXCEPT ![r].payload = p]
    /\ Audited(r, AudienceOf(draft[r].payload), AudienceOf(p))
    /\ UNCHANGED <<releaseRows, artifact, manager>>

\* What a policy change does to the views: nothing, or one is used up.
ViewsKept == manager' = manager \/ \E m \in Manager : manager' = [manager EXCEPT ![m] = NoView]

PolicyStep(r, action, row) ==
    /\ MutatePolicy(r, action, row)
    /\ row.sequence = release[r].sequence
    /\ \/ row.audience = release[r].audience /\ UNCHANGED audienceAudit
       \/ Audited(r, release[r].audience, row.audience)
    /\ ViewsKept

ViewStep ==
    \E m \in Manager :
        (\E r \in Release : ReadDetail(m, r)) \/ ReadUsers(m) \/ DropView(m)

Step ==
    \/ ArtifactStep
    \/ \E r \in Release, p \in StoredPayload : CreateStep(r, p) \/ EditStep(r, p)
    \/ \E r \in Release : Publish(r) \/ PublishRollsBack(r)
    \/ \E r \in Release, action \in PolicyAction, row \in ReleaseRow :
          row.audience \in Audience /\ PolicyStep(r, action, row)
    \/ ViewStep
    \/ UNCHANGED vars

\* The statements of an audience change do what its audit says.
LEMMA WrittenAsPlanned ==
    ASSUME NEW audience \in Audience, NEW change \in Change
    PROVE  /\ Written(audience, change) = Planned(audience, change)
           /\ Written(audience, change) \in Audience
  <1>1. CASE change.kind = "users"
    BY <1>1 DEF Written, Planned, Audience, Change
  <1>2. CASE change.kind = "scope"
    BY <1>2 DEF Written, Planned, Audience, Change, Scope
  <1> QED
    BY <1>1, <1>2 DEF Change

\* A draft passes normalizeDraft before it is stored.
LEMMA NormalizedDraft ==
    ASSUME NEW p \in Payload, Valid(AudienceOf(p))
    PROVE  p \in StoredPayload
  BY DEF Valid, AudienceOf, StoredPayload, Payload, Scope

LEMMA MergedPayload ==
    ASSUME NEW current \in Payload, NEW body \in Payload, NEW fields
    PROVE  Merged(current, fields, body) \in Payload
  BY DEF Merged, Payload

\* Every step is of one of the kinds.
LEMMA StepKinds ==
    ASSUME TypeOK, AudienceKnown, ViewsAreDated, [Next]_vars
    PROVE  Step
  <1>1. CASE \E a \in Artifact : UploadArtifact(a)
    BY <1>1 DEF Step, ArtifactStep
  <1>2. ASSUME NEW r \in Release, NEW body \in Body, CreateDraft(r, body)
        PROVE  Step
    <2>1. body \in StoredPayload
      BY <1>2, BodyAssumption, NormalizedDraft DEF CreateDraft
    <2>2. CreateStep(r, body)
      BY <1>2 DEF CreateDraft, CreateStep
    <2> QED
      BY <2>1, <2>2 DEF Step
  <1>3. ASSUME NEW r \in Release, NEW p \in Payload, EditDraft(r, p),
               UNCHANGED <<releaseRows, artifact, manager>>
        PROVE  Step
    <2>1. p \in StoredPayload
      BY <1>3, NormalizedDraft DEF EditDraft
    <2>2. EditStep(r, p)
      BY <1>3 DEF EditDraft, EditStep, Editable
    <2> QED
      BY <2>1, <2>2 DEF Step
  <1>4. ASSUME NEW r \in Release
        PROVE  draft[r].payload \in Payload
    BY DEF TypeOK, DraftRow
  <1>5. ASSUME NEW r \in Release, NEW fields \in Patch, NEW body \in Body,
               UpdateDraft(r, fields, body)
        PROVE  Step
    <2>1. Merged(draft[r].payload, fields, body) \in Payload
      BY <1>4, MergedPayload, BodyAssumption
    <2> QED
      BY <1>3, <1>5, <2>1 DEF UpdateDraft
  <1>6. CASE \E r \in Release : Publish(r) \/ PublishRollsBack(r)
    BY <1>6 DEF Step
  <1>7. ASSUME NEW r \in Release, NEW enabled \in BOOLEAN, SetEnabled(r, enabled)
        PROVE  Step
    <2> DEFINE row == [release[r] EXCEPT !.enabled = enabled]
    <2> DEFINE action == IF enabled THEN "enable" ELSE "disable"
    <2>1. row \in ReleaseRow /\ row.audience = release[r].audience
          /\ row.sequence = release[r].sequence
      BY DEF TypeOK, ReleaseRow
    <2>2. action \in PolicyAction
      BY DEF PolicyAction, Action
    <2>3. row.audience \in Audience
      BY <1>7, <2>1 DEF AudienceKnown, SetEnabled, MutatePolicy
    <2>4. PolicyStep(r, action, row)
      BY <1>7, <2>1 DEF SetEnabled, PolicyStep, ViewsKept
    <2> HIDE DEF row, action
    <2> QED
      BY <2>1, <2>2, <2>3, <2>4 DEF Step
  <1>8. ASSUME NEW r \in Release, Redispatch(r)
        PROVE  Step
    <2>1. release[r] \in ReleaseRow /\ release[r].audience \in Audience
      BY <1>8 DEF TypeOK, AudienceKnown, Redispatch, MutatePolicy
    <2>2. PolicyStep(r, "redispatch", release[r])
      BY <1>8 DEF Redispatch, PolicyStep, ViewsKept
    <2> QED
      BY <2>1, <2>2 DEF Step, PolicyAction, Action
  <1>9. ASSUME NEW r \in Release, NEW change \in Change, ChangeDraftAudience(r, change)
        PROVE  Step
    <2> DEFINE current == AudienceOf(draft[r].payload)
    <2> DEFINE p == [draft[r].payload EXCEPT !.scope = Planned(current, change).scope,
                                             !.users = Planned(current, change).users]
    <2>1. current \in Audience
      BY <1>4 DEF AudienceOf, Audience, Payload
    <2>2. Planned(current, change) \in Audience
      BY <2>1, WrittenAsPlanned
    <2>3. p \in Payload
      <3> HIDE DEF current
      <3> QED BY <1>4, <2>2 DEF Payload, Audience
    <2>4. EditDraft(r, p) /\ UNCHANGED <<releaseRows, artifact, manager>>
      BY <1>9 DEF ChangeDraftAudience
    <2> QED
      BY <1>3, <2>3, <2>4
  <1>10. ASSUME NEW r \in Release, NEW change \in Change, ChangeAudience(r, change), ViewsKept
         PROVE  Step
    <2> DEFINE audience == Written(release[r].audience, change)
    <2> DEFINE row == [release[r] EXCEPT !.audience = audience]
    <2>1. release[r] \in ReleaseRow /\ release[r].audience \in Audience
      BY <1>10 DEF TypeOK, AudienceKnown, ChangeAudience, MutatePolicy
    <2>2. audience \in Audience /\ audience = Planned(release[r].audience, change)
      BY <2>1, WrittenAsPlanned
    <2>3. MutatePolicy(r, "audience_changed", row) /\ Audited(r, release[r].audience, audience)
      BY <1>10, <2>1, <2>2 DEF ChangeAudience, ReadAudience, ReleaseRow
    <2> HIDE DEF audience
    <2>4. row \in ReleaseRow /\ row.audience = audience /\ row.sequence = release[r].sequence
      BY <2>1, <2>2 DEF ReleaseRow, Audiences
    <2>5. PolicyStep(r, "audience_changed", row)
      BY <1>10, <2>3, <2>4 DEF PolicyStep
    <2> HIDE DEF row
    <2> QED
      BY <2>2, <2>4, <2>5 DEF Step, PolicyAction, Action
  <1>11. ASSUME NEW r \in Release, NEW change \in Change, ChangeAudienceBlindly(r, change)
         PROVE  Step
    BY <1>10, <1>11 DEF ChangeAudienceBlindly, ViewsKept
  <1>12. ASSUME NEW m \in Manager, NEW change \in Change, ChangeViewedAudience(m, change)
         PROVE  Step
    <2>1. manager[m].release \in Release
      BY <1>12 DEF ChangeViewedAudience, ViewsAreDated
    <2> QED
      BY <1>10, <1>12, <2>1 DEF ChangeViewedAudience, ViewsKept
  <1>13. CASE \E m \in Manager : (\E r \in Release : ReadDetail(m, r)) \/ ReadUsers(m) \/ DropView(m)
    BY <1>13 DEF Step, ViewStep
  <1>14. CASE UNCHANGED vars
    BY <1>14 DEF Step
  <1> QED
    BY <1>1, <1>2, <1>5, <1>6, <1>7, <1>8, <1>9, <1>11, <1>12, <1>13, <1>14 DEF Next

-----------------------------------------------------------------------------
(* The parts of the invariant.                                             *)

\* The rows that InsertTask adds are well formed.
LEMMA InsertTypes ==
    ASSUME TypeOK, NEW r \in Release, NEW action \in Action, NEW before \in Nat,
           InsertTask(r, action, before)
    PROVE  revision' \in Nat /\ tasks' \subseteq Task /\ policyAudit' \subseteq PolicyAudit
  BY DEF TypeOK, InsertTask, Task, PolicyAudit

\* What a policy change makes of the releases.
LEMMA PolicyEffect ==
    ASSUME TypeOK, NEW r \in Release, NEW action \in PolicyAction, NEW row \in ReleaseRow,
           PolicyStep(r, action, row)
    PROVE  /\ release[r].policy \in Nat /\ release[r].policy > 0
           /\ release' \in [Release -> ReleaseRow]
           /\ release'[r].policy = release[r].policy + 1
           /\ release'[r].sequence = release[r].sequence
           /\ release'[r].audience = row.audience
           /\ \A q \in Release \ {r} : release'[q] = release[q]
           /\ InsertTask(r, action, release[r].policy)
           /\ UNCHANGED <<draft, artifact, sequence>>
  <1>1. release \in [Release -> ReleaseRow] /\ release[r] \in ReleaseRow
    BY DEF TypeOK
  <1>2. release' = [release EXCEPT ![r] = [row EXCEPT !.policy = release[r].policy + 1]]
    BY DEF PolicyStep, MutatePolicy
  <1>3. [row EXCEPT !.policy = release[r].policy + 1] \in ReleaseRow
    BY <1>1 DEF ReleaseRow
  <1>4. row.sequence = release[r].sequence
    BY DEF PolicyStep
  <1> QED
    BY <1>1, <1>2, <1>3, <1>4 DEF PolicyStep, MutatePolicy, ReleaseRow

\* What a publication makes of the releases and drafts.
LEMMA PublishEffect ==
    ASSUME TypeOK, NEW r \in Release, Publish(r)
    PROVE  LET p == draft[r].payload IN
           /\ p \in StoredPayload /\ draft[r].status = "draft"
           /\ release' \in [Release -> ReleaseRow]
           /\ release'[r].policy = 1
           /\ release'[r].sequence = sequence + 1
           /\ release'[r].audience = AudienceOf(p)
           /\ AudienceOf(p) \in Audience
           /\ \A q \in Release \ {r} : release'[q] = release[q]
           /\ draft' \in [Release -> DraftRow]
           /\ draft'[r].payload = p
           /\ draft'[r].status = "published"
           /\ draft'[r].sequence = sequence + 1
           /\ \A q \in Release \ {r} : draft'[q] = draft[q]
           /\ sequence' = sequence + 1 /\ sequence \in Nat
           /\ InsertTask(r, "publish", 0)
           /\ Audited(r, NoAudience, AudienceOf(p))
           /\ UNCHANGED manager
  <1> DEFINE p == draft[r].payload
  <1> DEFINE new == [policy |-> 1, sequence |-> sequence + 1, enabled |-> p.enabled,
                     audience |-> AudienceOf(p)]
  <1>1. draft[r] \in DraftRow /\ draft[r].status = "draft" /\ sequence \in Nat
        /\ draft \in [Release -> DraftRow] /\ release \in [Release -> ReleaseRow]
    BY DEF TypeOK, Publish, Publishable
  <1>2. p \in StoredPayload /\ AudienceOf(p) \in Audience /\ p.enabled \in BOOLEAN
    BY <1>1 DEF DraftRow, StoredPayload, AudienceOf, Audience, Payload
  <1>3. new \in ReleaseRow
    BY <1>1, <1>2 DEF ReleaseRow, Audiences
  <1>4. release' = [release EXCEPT ![r] = new]
    BY DEF Publish
  <1>5. release' \in [Release -> ReleaseRow] /\ release'[r] = new
        /\ \A q \in Release \ {r} : release'[q] = release[q]
    BY <1>1, <1>3, <1>4
  <1>6. draft' = [draft EXCEPT ![r] = [draft[r] EXCEPT !.status = "published",
                                                       !.sequence = sequence + 1]]
    <2>1. draft' = [draft EXCEPT ![r].status = "published", ![r].sequence = sequence + 1]
      BY DEF Publish
    <2> QED
      BY <1>1, <2>1 DEF DraftRow
  <1>7. [draft[r] EXCEPT !.status = "published", !.sequence = sequence + 1] \in DraftRow
    <2>1. ASSUME NEW d \in DraftRow, NEW n \in Nat
          PROVE  [d EXCEPT !.status = "published", !.sequence = n] \in DraftRow
      BY <2>1 DEF DraftRow
    <2>2. sequence + 1 \in Nat /\ draft[r] \in DraftRow
      BY <1>1
    <2> HIDE DEF p
    <2> QED
      BY <2>1, <2>2, Zenon
  <1>8. /\ draft' \in [Release -> DraftRow] /\ draft'[r].payload = p
        /\ draft'[r].status = "published" /\ draft'[r].sequence = sequence + 1
        /\ \A q \in Release \ {r} : draft'[q] = draft[q]
    BY <1>1, <1>6, <1>7 DEF DraftRow
  <1> QED
    BY <1>1, <1>2, <1>5, <1>8 DEF Publish

\* What creating and editing make of the drafts.
LEMMA DraftEffect ==
    ASSUME TypeOK, NEW r \in Release, NEW p \in StoredPayload,
           CreateStep(r, p) \/ EditStep(r, p)
    PROVE  /\ draft[r].status # "published"
           /\ draft' \in [Release -> DraftRow]
           /\ draft'[r].status = "draft" /\ draft'[r].payload = p
           /\ draft[r].status = "draft" => draft'[r].sequence = draft[r].sequence
           /\ draft[r].status = "absent" => draft'[r].sequence = 0
           /\ \A q \in Release \ {r} : draft'[q] = draft[q]
           /\ AudienceOf(p) \in Audience
           /\ audienceAudit' \in [Release -> AudienceAudit]
           /\ audienceAudit'[r].after = AudienceOf(p)
           /\ \A q \in Release \ {r} : audienceAudit'[q] = audienceAudit[q]
           /\ UNCHANGED <<releaseRows, artifact, manager>>
  <1>1. draft \in [Release -> DraftRow] /\ draft[r] \in DraftRow
        /\ audienceAudit \in [Release -> AudienceAudit]
    BY DEF TypeOK
  <1>2. AudienceOf(p) \in Audience /\ AudienceOf(draft[r].payload) \in Audience
    BY <1>1 DEF AudienceOf, Audience, StoredPayload, Payload, DraftRow
  <1>3. ASSUME NEW before \in Audiences, Audited(r, before, AudienceOf(p))
        PROVE  /\ audienceAudit' \in [Release -> AudienceAudit]
               /\ audienceAudit'[r].after = AudienceOf(p)
               /\ \A q \in Release \ {r} : audienceAudit'[q] = audienceAudit[q]
    BY <1>1, <1>2, <1>3 DEF Audited, AudienceAudit, Audiences
  <1>4. CASE CreateStep(r, p)
    <2>1. [status |-> "draft", payload |-> p, sequence |-> 0] \in DraftRow
      BY DEF DraftRow, StoredPayload
    <2> QED
      BY <1>1, <1>2, <1>3, <1>4, <2>1 DEF CreateStep, Audiences
  <1>5. CASE EditStep(r, p)
    <2>1. [draft[r] EXCEPT !.payload = p] \in DraftRow
      BY <1>1 DEF DraftRow, StoredPayload
    <2>2. draft' = [draft EXCEPT ![r] = [draft[r] EXCEPT !.payload = p]]
      BY <1>1, <1>5 DEF EditStep
    <2> QED
      BY <1>1, <1>2, <1>3, <1>5, <2>1, <2>2 DEF EditStep, Audiences, DraftRow
  <1> QED
    BY <1>4, <1>5

LEMMA TypesKept ==
    ASSUME TypeOK, AudienceKnown, ViewsAreDated, Step
    PROVE  TypeOK'
  <1> USE DEF TypeOK, releaseRows
  <1>1. CASE ArtifactStep
    BY <1>1 DEF ArtifactStep, UploadArtifact
  <1>2. ASSUME NEW r \in Release, NEW p \in StoredPayload, CreateStep(r, p) \/ EditStep(r, p)
        PROVE  TypeOK'
    BY <1>2, DraftEffect
  <1>3. ASSUME NEW r \in Release, Publish(r)
        PROVE  TypeOK'
    <2>1. artifact' \in [Artifact -> {"absent", "pending", "published"}]
      BY <1>3 DEF Publish
    <2>2. audienceAudit' \in [Release -> AudienceAudit]
      BY <1>3, PublishEffect DEF Audited, AudienceAudit, Audiences
    <2>3. revision' \in Nat /\ tasks' \subseteq Task /\ policyAudit' \subseteq PolicyAudit
      BY <1>3, PublishEffect, InsertTypes DEF Action
    <2> QED
      BY <1>3, <2>1, <2>2, <2>3, PublishEffect
  <1>4. ASSUME NEW r \in Release, PublishRollsBack(r)
        PROVE  TypeOK'
    BY <1>4 DEF PublishRollsBack
  <1>5. ASSUME NEW r \in Release, NEW action \in PolicyAction, NEW row \in ReleaseRow,
               row.audience \in Audience, PolicyStep(r, action, row)
        PROVE  TypeOK'
    <2>1. release[r].audience \in Audience
      BY <1>5, PolicyEffect DEF AudienceKnown
    <2>2. audienceAudit' \in [Release -> AudienceAudit]
      BY <1>5, <2>1 DEF PolicyStep, Audited, AudienceAudit, Audiences
    <2>3. revision' \in Nat /\ tasks' \subseteq Task /\ policyAudit' \subseteq PolicyAudit
      BY <1>5, PolicyEffect, InsertTypes DEF PolicyAction
    <2>4. NoView \in View
      BY DEF NoView, View, Audiences
    <2>5. manager' \in [Manager -> View]
      BY <1>5, <2>4 DEF PolicyStep, ViewsKept
    <2> QED
      BY <1>5, <2>2, <2>3, <2>5, PolicyEffect
  <1>6. CASE ViewStep
    <2>1. NoView \in View
      BY DEF NoView, View, Audiences
    <2>2. ASSUME NEW m \in Manager, NEW r \in Release, ReadDetail(m, r)
          PROVE  manager' \in [Manager -> View]
      <3>1. release[r].policy \in Nat /\ release[r].audience \in Audience
        BY <2>2 DEF ReadDetail, ReleaseRow, AudienceKnown
      <3>2. [scope |-> release[r].audience.scope, users |-> {}] \in Audience
        BY <3>1 DEF Audience
      <3>3. [pc |-> "detail", release |-> r, expected |-> release[r].policy,
             seen |-> [scope |-> release[r].audience.scope, users |-> {}]] \in View
        BY <3>1, <3>2 DEF View, Audiences
      <3>4. manager' = [manager EXCEPT ![m] =
                [pc |-> "detail", release |-> r, expected |-> release[r].policy,
                 seen |-> [scope |-> release[r].audience.scope, users |-> {}]]]
        BY <2>2 DEF ReadDetail
      <3> QED
        BY <3>3, <3>4
    <2>3. ASSUME NEW m \in Manager, ReadUsers(m)
          PROVE  manager' \in [Manager -> View]
      <3> DEFINE v == manager[m]
      <3>1. v \in View /\ v.release \in Release /\ v.pc = "detail"
        BY <2>3 DEF ReadUsers, ViewsAreDated
      <3>2. release[v.release].audience \in Audience
        BY <2>3, <3>1 DEF ViewsAreDated, AudienceKnown
      <3>3. ASSUME v.seen \in Audience
            PROVE  [v EXCEPT !.pc = "users", !.seen.users = release[v.release].audience.users]
                        \in View
        BY <3>1, <3>2, <3>3 DEF View, Audience, Audiences
      <3>4. v.seen \in Audience
        BY <3>1, <2>3 DEF ViewsAreDated
      <3>5. manager' = [manager EXCEPT ![m] =
                [v EXCEPT !.pc = "users", !.seen.users = release[v.release].audience.users]]
        BY <2>3 DEF ReadUsers
      <3> QED
        BY <3>3, <3>4, <3>5
    <2>4. ASSUME NEW m \in Manager, DropView(m)
          PROVE  manager' \in [Manager -> View]
      BY <2>1, <2>4 DEF DropView
    <2> QED
      BY <1>6, <2>2, <2>3, <2>4 DEF ViewStep, ReadDetail, ReadUsers, DropView
  <1>7. CASE UNCHANGED vars
    BY <1>7 DEF vars
  <1> QED
    BY <1>1, <1>2, <1>3, <1>4, <1>5, <1>6, <1>7 DEF Step

\* Steps that leave the releases, drafts and tasks as they are.
Quiet == UNCHANGED <<draft, release, tasks, policyAudit, revision, audienceAudit>>
         /\ sequence' \in Nat /\ sequence' >= sequence

LEMMA QuietSteps ==
    ASSUME TypeOK, ArtifactStep \/ (\E r \in Release : PublishRollsBack(r)) \/ ViewStep
                   \/ UNCHANGED vars
    PROVE  Quiet
  <1> USE DEF Quiet, releaseRows
  <1>0. sequence \in Nat
    BY DEF TypeOK
  <1>1. CASE ArtifactStep
    BY <1>0, <1>1 DEF ArtifactStep, UploadArtifact
  <1>2. CASE \E r \in Release : PublishRollsBack(r)
    BY <1>0, <1>2 DEF PublishRollsBack
  <1>3. CASE ViewStep
    BY <1>0, <1>3 DEF ViewStep, ReadDetail, ReadUsers, DropView
  <1>4. CASE UNCHANGED vars
    BY <1>0, <1>4 DEF vars
  <1> QED
    BY <1>1, <1>2, <1>3, <1>4

LEMMA AudienceKnownKept ==
    ASSUME TypeOK, AudienceKnown, Step
    PROVE  AudienceKnown'
  <1> USE DEF AudienceKnown
  <1>1. CASE Quiet
    BY <1>1 DEF Quiet
  <1>2. ASSUME NEW r \in Release, NEW p \in StoredPayload, CreateStep(r, p) \/ EditStep(r, p)
        PROVE  AudienceKnown'
    BY <1>2, DraftEffect DEF releaseRows
  <1>3. ASSUME NEW r \in Release, Publish(r)
        PROVE  AudienceKnown'
    BY <1>3, PublishEffect
  <1>4. ASSUME NEW r \in Release, NEW action \in PolicyAction, NEW row \in ReleaseRow,
               row.audience \in Audience, PolicyStep(r, action, row)
        PROVE  AudienceKnown'
    BY <1>4, PolicyEffect
  <1> QED
    BY <1>1, <1>2, <1>3, <1>4, QuietSteps DEF Step

\* PublishedOnce in two parts.
Publications(r) == {t \in tasks : t.release = r /\ t.action = "publish"}

OneRelease ==
    \A r \in Release :
        /\ draft[r].status = "published" <=> release[r].policy > 0
        /\ release[r].sequence = draft[r].sequence
        /\ \A q \in Release \ {r} :
              release[r].sequence = release[q].sequence => release[r].policy = 0

OneTask ==
    \A r \in Release :
        /\ draft[r].status = "published" => \E t \in tasks : Publications(r) = {t}
        /\ draft[r].status # "published" => Publications(r) = {}

LEMMA PublishedOnceParts ==
    PublishedOnce <=> OneRelease /\ OneTask
  BY DEF PublishedOnce, OneRelease, OneTask, Publications

LEMMA OneReleaseKept ==
    ASSUME TypeOK, SequencesAllocated, OneRelease, Step
    PROVE  SequencesAllocated' /\ OneRelease'
  <1> USE DEF SequencesAllocated, OneRelease
  <1>0. \A q \in Release : release[q].sequence \in Nat /\ release[q].policy \in Nat
                           /\ sequence \in Nat /\ draft[q].sequence \in Nat
    BY DEF TypeOK, ReleaseRow, DraftRow
  <1>1. CASE Quiet
    BY <1>0, <1>1 DEF Quiet
  <1>2. ASSUME NEW r \in Release, NEW p \in StoredPayload, CreateStep(r, p) \/ EditStep(r, p)
        PROVE  SequencesAllocated' /\ OneRelease'
    <2>1. release' = release /\ sequence' = sequence
      BY <1>2, DraftEffect DEF releaseRows
    <2>2. draft'[r].sequence = release[r].sequence
      <3>1. draft[r].status \in {"draft", "absent"}
        BY <1>2, DraftEffect DEF TypeOK, DraftRow
      <3>2. release[r].sequence = 0
        BY <1>0, <3>1
      <3> QED
        BY <1>2, <3>1, <3>2, DraftEffect
    <2> QED
      BY <1>2, <2>1, <2>2, DraftEffect
  <1>3. ASSUME NEW r \in Release, Publish(r)
        PROVE  SequencesAllocated' /\ OneRelease'
    <2>1. \A q \in Release : release'[q].sequence =
                IF q = r THEN sequence + 1 ELSE release[q].sequence
      BY <1>3, PublishEffect
    <2>2. \A q \in Release : release'[q].policy = IF q = r THEN 1 ELSE release[q].policy
      BY <1>3, PublishEffect
    <2>3. SequencesAllocated'
      BY <1>0, <1>3, <2>1, <2>2, PublishEffect
    <2>4. OneRelease'
      BY <1>0, <1>3, <2>1, <2>2, PublishEffect
    <2> QED
      BY <2>3, <2>4
  <1>4. ASSUME NEW r \in Release, NEW action \in PolicyAction, NEW row \in ReleaseRow,
               row.audience \in Audience, PolicyStep(r, action, row)
        PROVE  SequencesAllocated' /\ OneRelease'
    <2>1. \A q \in Release : release'[q].sequence = release[q].sequence
      BY <1>4, PolicyEffect
    <2>2. \A q \in Release : release'[q].policy = 0 <=> release[q].policy = 0
      BY <1>0, <1>4, PolicyEffect
    <2>3. \A q \in Release : release'[q].policy > 0 <=> release[q].policy > 0
      BY <1>0, <1>4, PolicyEffect
    <2>4. draft' = draft /\ sequence' = sequence
      BY <1>4, PolicyEffect
    <2> QED
      BY <2>1, <2>2, <2>3, <2>4
  <1> QED
    BY <1>1, <1>2, <1>3, <1>4, QuietSteps DEF Step

\* A task of another kind leaves the publications alone.
LEMMA OneTaskKept ==
    ASSUME TypeOK, OneTask, Step
    PROVE  OneTask'
  <1> USE DEF OneTask, Publications
  <1>1. CASE Quiet
    BY <1>1 DEF Quiet
  <1>2. ASSUME NEW r \in Release, NEW p \in StoredPayload, CreateStep(r, p) \/ EditStep(r, p)
        PROVE  OneTask'
    BY <1>2, DraftEffect DEF releaseRows
  <1>3. ASSUME NEW r \in Release, Publish(r)
        PROVE  OneTask'
    <2> DEFINE t == [release |-> r, action |-> "publish", requested |-> revision + 1]
    <2>1. tasks' = tasks \cup {t}
      BY <1>3, PublishEffect DEF InsertTask
    <2>2. Publications(r) = {}
      BY <1>3, PublishEffect
    <2>3. Publications(r)' = {t}
      BY <2>1, <2>2
    <2>4. \A q \in Release \ {r} : Publications(q)' = Publications(q)
      BY <2>1
    <2>5. /\ draft'[r].status = "published" /\ t \in tasks'
          /\ \A q \in Release \ {r} : draft'[q] = draft[q]
      BY <1>3, <2>1, PublishEffect
    <2> HIDE DEF t, Publications
    <2>6. \A q \in Release \ {r} : draft[q].status = "published"
                => \E s \in tasks' : Publications(q)' = {s}
      BY <2>1, <2>4
    <2> QED
      BY <2>3, <2>4, <2>5, <2>6
  <1>4. ASSUME NEW r \in Release, NEW action \in PolicyAction, NEW row \in ReleaseRow,
               row.audience \in Audience, PolicyStep(r, action, row)
        PROVE  OneTask'
    <2>1. tasks' = tasks \cup {[release |-> r, action |-> action, requested |-> revision + 1]}
      BY <1>4, PolicyEffect DEF InsertTask
    <2>2. \A q \in Release : Publications(q)' = Publications(q)
      BY <2>1 DEF PolicyAction
    <2> QED
      BY <1>4, <2>1, <2>2, PolicyEffect
  <1> QED
    BY <1>1, <1>2, <1>3, <1>4, QuietSteps DEF Step

\* RevisionsMatchTasks, said of members.
Numbered ==
    /\ \A t \in tasks : t.requested \in 1..revision
    /\ \A n \in 1..revision : \E t \in tasks : t.requested = n
    /\ \A s, t \in tasks : s.requested = t.requested => s = t

LEMMA NumberedTasks ==
    RevisionsMatchTasks <=> Numbered
  BY DEF RevisionsMatchTasks, Numbered

LEMMA InsertNumbers ==
    ASSUME TypeOK, Numbered, NEW r \in Release, NEW action \in Action, NEW before \in Nat,
           InsertTask(r, action, before)
    PROVE  Numbered'
  <1> DEFINE new == [release |-> r, action |-> action, requested |-> revision + 1]
  <1>1. revision \in Nat /\ revision' = revision + 1 /\ tasks' = tasks \cup {new}
    BY DEF TypeOK, InsertTask
  <1>2. new.requested = revision + 1
    OBVIOUS
  <1> HIDE DEF new
  <1>3. \A t \in tasks : t.requested \in 1..revision
    BY DEF Numbered
  <1>4. \A t \in tasks' : t.requested \in 1..revision'
    BY <1>1, <1>2, <1>3
  <1>5. \A n \in 1..revision' : \E t \in tasks' : t.requested = n
    <2>1. \A n \in 1..revision' : n \in 1..revision \/ n = revision + 1
      BY <1>1
    <2> QED
      BY <1>1, <1>2, <2>1 DEF Numbered
  <1>6. \A s, t \in tasks' : s.requested = t.requested => s = t
    BY <1>1, <1>2, <1>3 DEF Numbered
  <1> QED
    BY <1>4, <1>5, <1>6 DEF Numbered

LEMMA NumberedKept ==
    ASSUME TypeOK, Numbered, Step
    PROVE  Numbered'
  <1>1. CASE Quiet
    BY <1>1 DEF Quiet, Numbered
  <1>2. ASSUME NEW r \in Release, NEW p \in StoredPayload, CreateStep(r, p) \/ EditStep(r, p)
        PROVE  Numbered'
    BY <1>2, DraftEffect DEF releaseRows, Numbered
  <1>3. ASSUME NEW r \in Release, Publish(r)
        PROVE  Numbered'
    BY <1>3, PublishEffect, InsertNumbers DEF Action
  <1>4. ASSUME NEW r \in Release, NEW action \in PolicyAction, NEW row \in ReleaseRow,
               row.audience \in Audience, PolicyStep(r, action, row)
        PROVE  Numbered'
    BY <1>4, PolicyEffect, InsertNumbers DEF PolicyAction
  <1> QED
    BY <1>1, <1>2, <1>3, <1>4, QuietSteps DEF Step

\* AuditsFollowPolicy, said of members.
TaskOf(a) == [release |-> a.release, action |-> a.action, requested |-> a.task]

AuditedTasks == {TaskOf(a) : a \in policyAudit} = tasks

AuditChain ==
    /\ \A a \in policyAudit : a.after = a.before + 1 /\ a.after \in 1..release[a.release].policy
    /\ \A r \in Release : \A n \in 1..release[r].policy :
          \E a \in policyAudit : a.release = r /\ a.after = n
    /\ \A a, b \in policyAudit :
          a.release = b.release /\ a.task < b.task => a.after <= b.before

LEMMA AuditParts ==
    ASSUME TypeOK
    PROVE  AuditsFollowPolicy <=> AuditedTasks /\ AuditChain
  <1>1. \A a \in policyAudit : a.release \in Release
    BY DEF TypeOK, PolicyAudit
  <1> QED
    BY <1>1 DEF AuditsFollowPolicy, AuditedTasks, AuditChain, TaskOf

\* A step that gives a release its next revision extends the chain.
LEMMA ChainExtended ==
    ASSUME TypeOK, Numbered, AuditedTasks, AuditChain, NEW r \in Release,
           NEW action \in Action, InsertTask(r, action, release[r].policy),
           release'[r].policy = release[r].policy + 1,
           \A q \in Release \ {r} : release'[q] = release[q]
    PROVE  AuditedTasks' /\ AuditChain'
  <1> DEFINE old == release[r].policy
  <1> DEFINE a0 == [release |-> r, action |-> action, before |-> old, after |-> old + 1,
                    task |-> revision + 1]
  <1>1. old \in Nat /\ revision \in Nat /\ policyAudit \subseteq PolicyAudit
        /\ \A q \in Release : release[q].policy \in Nat
    BY DEF TypeOK, ReleaseRow
  <1>2. policyAudit' = policyAudit \cup {a0} /\ tasks' = tasks \cup {TaskOf(a0)}
    BY DEF InsertTask, TaskOf
  <1>3. a0.release = r /\ a0.before = old /\ a0.after = old + 1 /\ a0.task = revision + 1
    OBVIOUS
  <1>4. AuditedTasks'
    BY <1>2 DEF AuditedTasks
  <1> HIDE DEF a0
  <1>5. \A a \in policyAudit : /\ a.release \in Release /\ a.task \in Nat
                               /\ a.before \in Nat /\ a.after \in Nat
    BY <1>1 DEF PolicyAudit
  <1>6. \A a \in policyAudit : a.task <= revision
    <2> SUFFICES ASSUME NEW a \in policyAudit PROVE a.task <= revision
      OBVIOUS
    <2>1. TaskOf(a) \in tasks /\ TaskOf(a).requested = a.task
      BY DEF AuditedTasks, TaskOf
    <2> QED
      BY <1>1, <2>1 DEF Numbered
  <1>7. \A q \in Release : release'[q].policy =
            IF q = r THEN old + 1 ELSE release[q].policy
    OBVIOUS
  <1> HIDE DEF old
  <1>8. old = release[r].policy
    BY DEF old
  <1>9. \A a \in policyAudit' : a.after = a.before + 1
                                /\ a.after \in 1..release'[a.release].policy
    <2>1. \A a \in policyAudit : a.after \in 1..release'[a.release].policy
      BY <1>1, <1>5, <1>7, <1>8 DEF AuditChain
    <2>2. a0.after = a0.before + 1 /\ a0.after \in 1..release'[a0.release].policy
      BY <1>1, <1>3, <1>7
    <2> QED
      BY <1>2, <2>1, <2>2 DEF AuditChain
  <1>10. \A q \in Release : \A n \in 1..release'[q].policy :
              \E a \in policyAudit' : a.release = q /\ a.after = n
    <2> SUFFICES ASSUME NEW q \in Release, NEW n \in 1..release'[q].policy
                 PROVE  \E a \in policyAudit' : a.release = q /\ a.after = n
      OBVIOUS
    <2>1. CASE n \in 1..release[q].policy
      BY <1>2, <2>1 DEF AuditChain
    <2>2. CASE n \notin 1..release[q].policy
      <3>1. q = r /\ n = old + 1
        BY <1>1, <1>7, <1>8, <2>2
      <3> QED
        BY <1>2, <1>3, <3>1
    <2> QED
      BY <2>1, <2>2
  <1>11. \A a, b \in policyAudit' :
              a.release = b.release /\ a.task < b.task => a.after <= b.before
    <2> SUFFICES ASSUME NEW a \in policyAudit', NEW b \in policyAudit',
                        a.release = b.release, a.task < b.task
                 PROVE  a.after <= b.before
      OBVIOUS
    <2>1. CASE a \in policyAudit /\ b \in policyAudit
      BY <2>1 DEF AuditChain
    <2>2. CASE a = a0
      BY <1>1, <1>2, <1>3, <1>5, <1>6, <2>2
    <2>3. CASE a \in policyAudit /\ b = a0
      BY <1>1, <1>3, <1>5, <1>8, <2>3 DEF AuditChain
    <2> QED
      BY <1>2, <2>1, <2>2, <2>3
  <1> QED
    BY <1>4, <1>9, <1>10, <1>11 DEF AuditChain

LEMMA AuditsKept ==
    ASSUME TypeOK, SequencesAllocated, OneRelease, Numbered, AuditedTasks, AuditChain, Step
    PROVE  AuditedTasks' /\ AuditChain'
  <1>1. CASE Quiet
    BY <1>1 DEF Quiet, AuditedTasks, AuditChain
  <1>2. ASSUME NEW r \in Release, NEW p \in StoredPayload, CreateStep(r, p) \/ EditStep(r, p)
        PROVE  AuditedTasks' /\ AuditChain'
    BY <1>2, DraftEffect DEF releaseRows, AuditedTasks, AuditChain
  <1>3. ASSUME NEW r \in Release, Publish(r)
        PROVE  AuditedTasks' /\ AuditChain'
    <2>1. release[r].policy = 0
      BY <1>3, PublishEffect DEF OneRelease, TypeOK, ReleaseRow
    <2> QED
      BY <1>3, <2>1, PublishEffect, ChainExtended DEF Action
  <1>4. ASSUME NEW r \in Release, NEW action \in PolicyAction, NEW row \in ReleaseRow,
               row.audience \in Audience, PolicyStep(r, action, row)
        PROVE  AuditedTasks' /\ AuditChain'
    BY <1>4, PolicyEffect, ChainExtended DEF PolicyAction
  <1> QED
    BY <1>1, <1>2, <1>3, <1>4, QuietSteps DEF Step

\* The audience in force, of a draft or a release.
InForce(r) ==
    CASE release[r].policy > 0 -> release[r].audience
      [] draft[r].status = "draft" -> AudienceOf(draft[r].payload)
      [] OTHER -> NoAudience

LEMMA AudienceKept ==
    ASSUME TypeOK, OneRelease, AudienceIsAudited, Step
    PROVE  AudienceIsAudited'
  <1>1. CASE Quiet
    BY <1>1 DEF Quiet, AudienceIsAudited
  <1>2. ASSUME NEW r \in Release, NEW p \in StoredPayload, CreateStep(r, p) \/ EditStep(r, p)
        PROVE  AudienceIsAudited'
    <2>0. release' = release /\ release[r].policy = 0
      BY <1>2, DraftEffect DEF releaseRows, OneRelease, TypeOK, ReleaseRow
    <2>1. InForce(r)' = AudienceOf(p)
      BY <1>2, <2>0, DraftEffect DEF InForce
    <2>2. \A q \in Release \ {r} : InForce(q)' = InForce(q)
      BY <1>2, <2>0, DraftEffect DEF InForce
    <2> QED
      BY <1>2, <2>1, <2>2, DraftEffect DEF AudienceIsAudited, InForce
  <1>3. ASSUME NEW r \in Release, Publish(r)
        PROVE  AudienceIsAudited'
    <2>1. InForce(r)' = AudienceOf(draft[r].payload)
      BY <1>3, PublishEffect DEF InForce
    <2>2. \A q \in Release \ {r} : InForce(q)' = InForce(q)
      BY <1>3, PublishEffect DEF InForce
    <2>3. audienceAudit \in [Release -> AudienceAudit]
          /\ Audited(r, NoAudience, AudienceOf(draft[r].payload))
      BY <1>3, PublishEffect DEF TypeOK
    <2> QED
      BY <2>1, <2>2, <2>3 DEF AudienceIsAudited, InForce, Audited
  <1>4. ASSUME NEW r \in Release, NEW action \in PolicyAction, NEW row \in ReleaseRow,
               row.audience \in Audience, PolicyStep(r, action, row)
        PROVE  AudienceIsAudited'
    <2>0. draft[r].status = "published" /\ release'[r].policy > 0
      BY <1>4, PolicyEffect DEF OneRelease
    <2>1. InForce(r) = release[r].audience /\ InForce(r)' = row.audience
      BY <1>4, <2>0, PolicyEffect DEF InForce
    <2>2. \A q \in Release \ {r} : InForce(q)' = InForce(q)
      BY <1>4, PolicyEffect DEF InForce
    <2>3. audienceAudit \in [Release -> AudienceAudit]
      BY DEF TypeOK
    <2>4. audienceAudit'[r].after = row.audience
          /\ \A q \in Release \ {r} : audienceAudit'[q] = audienceAudit[q]
      <3>1. CASE row.audience = release[r].audience /\ UNCHANGED audienceAudit
        BY <2>1, <3>1 DEF AudienceIsAudited, InForce
      <3>2. CASE Audited(r, release[r].audience, row.audience)
        BY <2>3, <3>2 DEF Audited
      <3> QED
        BY <1>4, <3>1, <3>2 DEF PolicyStep
    <2> QED
      BY <2>1, <2>2, <2>4 DEF AudienceIsAudited, InForce
  <1> QED
    BY <1>1, <1>2, <1>3, <1>4, QuietSteps DEF Step

LEMMA ArtifactsKept ==
    ASSUME TypeOK, PublishedArtifactsAreUsed, Step
    PROVE  PublishedArtifactsAreUsed'
  <1> USE DEF PublishedArtifactsAreUsed
  <1>1. CASE ArtifactStep
    BY <1>1 DEF ArtifactStep, UploadArtifact, TypeOK
  <1>2. ASSUME NEW r \in Release, NEW p \in StoredPayload, CreateStep(r, p) \/ EditStep(r, p)
        PROVE  PublishedArtifactsAreUsed'
    BY <1>2, DraftEffect
  <1>3. ASSUME NEW r \in Release, Publish(r)
        PROVE  PublishedArtifactsAreUsed'
    <2>1. \A a \in Artifact : artifact'[a] =
                IF a = draft[r].payload.artifact THEN "published" ELSE artifact[a]
      BY <1>3 DEF Publish
    <2> QED
      BY <1>3, <2>1, PublishEffect
  <1>4. ASSUME NEW r \in Release, PublishRollsBack(r)
        PROVE  PublishedArtifactsAreUsed'
    BY <1>4 DEF PublishRollsBack
  <1>5. ASSUME NEW r \in Release, NEW action \in PolicyAction, NEW row \in ReleaseRow,
               row.audience \in Audience, PolicyStep(r, action, row)
        PROVE  PublishedArtifactsAreUsed'
    BY <1>5, PolicyEffect
  <1>6. CASE ViewStep
    BY <1>6 DEF ViewStep, ReadDetail, ReadUsers, DropView
  <1>7. CASE UNCHANGED vars
    BY <1>7 DEF vars
  <1> QED
    BY <1>1, <1>2, <1>3, <1>4, <1>5, <1>6, <1>7 DEF Step

\* A view stays right while its revision is current: whatever changes the
\* audience of a release raises the revision.
Dated(v) ==
    v.pc # "none" =>
        /\ v.release \in Release /\ v.seen \in Audience
        /\ release[v.release].policy > 0 /\ v.expected <= release[v.release].policy
        /\ v.expected = release[v.release].policy
              => v.seen.scope = release[v.release].audience.scope
        /\ v.expected = release[v.release].policy /\ v.pc = "users"
              => v.seen = release[v.release].audience

LEMMA ViewsKeptDated ==
    ASSUME TypeOK, AudienceKnown, OneRelease, ViewsAreDated, Step
    PROVE  ViewsAreDated'
  <1>0. \A m \in Manager : manager[m] \in View /\ Dated(manager[m])
    BY DEF TypeOK, ViewsAreDated, Dated
  <1>1. ASSUME UNCHANGED <<release, manager>>
        PROVE  ViewsAreDated'
    BY <1>1 DEF ViewsAreDated
  <1>2. ASSUME NEW r \in Release, Publish(r)
        PROVE  ViewsAreDated'
    <2>1. release[r].policy = 0
      BY <1>2, PublishEffect DEF OneRelease, TypeOK, ReleaseRow
    <2>2. ASSUME NEW m \in Manager
          PROVE  Dated(manager[m])'
      <3>1. manager' = manager
        BY <1>2, PublishEffect
      <3>2. manager[m].pc # "none" => manager[m].release # r
        BY <1>0, <2>1 DEF Dated
      <3> QED
        BY <1>0, <1>2, <3>1, <3>2, PublishEffect DEF Dated
    <2> QED
      BY <2>2 DEF ViewsAreDated, Dated
  <1>3. ASSUME NEW r \in Release, NEW action \in PolicyAction, NEW row \in ReleaseRow,
               row.audience \in Audience, PolicyStep(r, action, row)
        PROVE  ViewsAreDated'
    <2>1. ASSUME NEW m \in Manager
          PROVE  Dated(manager[m])'
      <3>1. manager'[m] = manager[m] \/ manager'[m] = NoView
        BY <1>3 DEF PolicyStep, ViewsKept, TypeOK
      <3>2. CASE manager'[m] = NoView
        BY <3>2 DEF Dated, NoView
      <3>3. CASE manager'[m] = manager[m] /\ manager[m].release # r
        BY <1>0, <1>3, <3>3, PolicyEffect DEF Dated
      <3>4. CASE manager'[m] = manager[m] /\ manager[m].release = r
        <4>1. manager[m].expected \in Nat
          BY <1>0 DEF View
        <4> QED
          BY <1>0, <1>3, <3>4, <4>1, PolicyEffect DEF Dated
      <3> QED
        BY <3>1, <3>2, <3>3, <3>4
    <2> QED
      BY <2>1 DEF ViewsAreDated, Dated
  <1>4. CASE ViewStep
    <2>1. PICK m \in Manager :
              (\E r \in Release : ReadDetail(m, r)) \/ ReadUsers(m) \/ DropView(m)
      BY <1>4 DEF ViewStep
    <2>2. release' = release /\ \A n \in Manager \ {m} : manager'[n] = manager[n]
      BY <2>1 DEF TypeOK, ReadDetail, ReadUsers, DropView, releaseRows
    <2>3. Dated(manager'[m])
      <3>1. ASSUME NEW r \in Release, ReadDetail(m, r)
            PROVE  Dated(manager'[m])
        <4>1. manager'[m] = [pc |-> "detail", release |-> r, expected |-> release[r].policy,
                             seen |-> [scope |-> release[r].audience.scope, users |-> {}]]
          BY <3>1 DEF ReadDetail, TypeOK
        <4>2. release[r].policy \in Nat /\ release[r].policy > 0
              /\ release[r].audience \in Audience
          BY <3>1 DEF ReadDetail, TypeOK, ReleaseRow, AudienceKnown
        <4> QED
          BY <4>1, <4>2 DEF Dated, Audience
      <3>2. CASE ReadUsers(m)
        <4> DEFINE v == manager[m]
        <4> DEFINE audience == release[v.release].audience
        <4>1. v \in View /\ v.pc = "detail" /\ Dated(v)
          BY <1>0, <3>2 DEF ReadUsers
        <4>2. audience \in Audience
          BY <4>1 DEF Dated, AudienceKnown
        <4>3. manager'[m] = [v EXCEPT !.pc = "users", !.seen.users = audience.users]
          BY <3>2 DEF ReadUsers, TypeOK
        <4> HIDE DEF audience
        <4>4. manager'[m] = [pc |-> "users", release |-> v.release, expected |-> v.expected,
                             seen |-> [scope |-> v.seen.scope, users |-> audience.users]]
          BY <4>1, <4>3 DEF View, Dated, Audience
        <4>5. v.seen.scope = audience.scope
              => [scope |-> v.seen.scope, users |-> audience.users] = audience
          BY <4>2 DEF Audience
        <4>6. [scope |-> v.seen.scope, users |-> audience.users] \in Audience
          BY <4>1, <4>2 DEF Dated, Audience
        <4> QED
          BY <4>1, <4>4, <4>5, <4>6 DEF Dated, audience
      <3>3. CASE DropView(m)
        BY <3>3 DEF DropView, TypeOK, Dated, NoView
      <3> QED
        BY <2>1, <3>1, <3>2, <3>3
    <2> QED
      BY <1>0, <2>2, <2>3 DEF ViewsAreDated, Dated
  <1>5. CASE ArtifactStep
    BY <1>1, <1>5 DEF ArtifactStep, UploadArtifact, releaseRows
  <1>6. ASSUME NEW r \in Release, PublishRollsBack(r)
        PROVE  ViewsAreDated'
    BY <1>1, <1>6 DEF PublishRollsBack
  <1>7. CASE UNCHANGED vars
    BY <1>1, <1>7 DEF vars, releaseRows
  <1>8. ASSUME NEW r \in Release, NEW p \in StoredPayload, CreateStep(r, p) \/ EditStep(r, p)
        PROVE  ViewsAreDated'
    BY <1>1, <1>8, DraftEffect DEF releaseRows
  <1> QED
    BY <1>2, <1>3, <1>4, <1>5, <1>6, <1>7, <1>8 DEF Step

-----------------------------------------------------------------------------
(* The parts of an audience audit.                                         *)

\* A finite set is listed once each.
LEMMA Listed ==
    ASSUME NEW S, IsFiniteSet(S)
    PROVE  LET s == SetToSeq(S) n == Cardinality(S) IN
           /\ n \in Nat
           /\ s \in [1..n -> S]
           /\ \A i, j \in 1..n : s[i] = s[j] => i = j
           /\ \A x \in S : \E i \in 1..n : s[i] = x
  <1> DEFINE n == Cardinality(S)
             s == SetToSeq(S)
  <1>1. n \in Nat /\ ExistsBijection(1..n, S)
    BY FS_CardinalityType
  <1>2. \E f \in [1..n -> S] : IsInjective(f)
    BY <1>1 DEF ExistsBijection, Bijection, Injection
  <1>3. s \in [1..n -> S] /\ IsInjective(s)
    BY <1>2 DEF SetToSeq
  <1>4. s \in Injection(1..n, S)
    BY <1>3 DEF Injection
  <1>5. Cardinality(1..n) = n
    BY <1>1, FS_Interval
  <1>6. s \in Surjection(1..n, S)
    BY <1>4, <1>5, FS_Injection
  <1> QED
    BY <1>1, <1>3, <1>6 DEF IsInjective, Surjection

LEMMA EntriesListed ==
    ASSUME NEW S, IsFiniteSet(S), NEW added \in BOOLEAN
    PROVE  LET e == Entries(S, added) n == Cardinality(S) IN
           /\ n \in Nat
           /\ e \in [1..n -> [user : S, added : {added}]]
           /\ \A i, j \in 1..n : e[i].user = e[j].user => i = j
           /\ \A x \in S : \E i \in 1..n : e[i].user = x
  <1> DEFINE s == SetToSeq(S)
             n == Cardinality(S)
             e == Entries(S, added)
  <1>1. /\ n \in Nat /\ s \in [1..n -> S]
        /\ \A i, j \in 1..n : s[i] = s[j] => i = j
        /\ \A x \in S : \E i \in 1..n : s[i] = x
    BY Listed
  <1>2. e = [i \in 1..n |-> [user |-> s[i], added |-> added]]
    BY DEF Entries
  <1> HIDE DEF e, s, n
  <1>3. /\ e \in [1..n -> [user : S, added : {added}]]
        /\ \A i \in 1..n : e[i].user = s[i]
    BY <1>1, <1>2
  <1>4. /\ \A i, j \in 1..n : e[i].user = e[j].user => i = j
        /\ \A x \in S : \E i \in 1..n : e[i].user = x
    BY <1>1, <1>3
  <1> QED
    BY <1>1, <1>3, <1>4 DEF e, n

LEMMA AsSequence ==
    ASSUME NEW n \in Nat, NEW S, NEW f \in [1..n -> S]
    PROVE  f \in Seq(S) /\ Len(f) = n
  <1>1. f \in Seq(S)
    OBVIOUS
  <1> QED BY <1>1

\* Changes lists every difference once.
Lists(changes, previous, next) ==
    /\ changes \in Seq([user : previous \cup next, added : BOOLEAN])
    /\ \A i \in 1..Len(changes) :
          changes[i].user \in IF changes[i].added THEN next \ previous ELSE previous \ next
    /\ \A i, j \in 1..Len(changes) : changes[i] = changes[j] => i = j
    /\ \A u \in next \ previous :
          \E i \in 1..Len(changes) : changes[i].user = u /\ changes[i].added
    /\ \A u \in previous \ next :
          \E i \in 1..Len(changes) : changes[i].user = u /\ ~changes[i].added

LEMMA DifferencesListed ==
    ASSUME NEW previous, NEW next, IsFiniteSet(previous), IsFiniteSet(next)
    PROVE  Lists(Differences(previous, next), previous, next)
  <1> DEFINE A == next \ previous
             R == previous \ next
             a == Entries(A, TRUE)
             r == Entries(R, FALSE)
             n == Cardinality(A)
             m == Cardinality(R)
             d == a \o r
             Entry == [user : previous \cup next, added : BOOLEAN]
  <1>1. IsFiniteSet(A) /\ IsFiniteSet(R)
    BY FS_Difference
  <1>2. /\ n \in Nat /\ a \in [1..n -> [user : A, added : {TRUE}]]
        /\ \A i, j \in 1..n : a[i].user = a[j].user => i = j
        /\ \A x \in A : \E i \in 1..n : a[i].user = x
    BY <1>1, EntriesListed, TRUE \in BOOLEAN
  <1>3. /\ m \in Nat /\ r \in [1..m -> [user : R, added : {FALSE}]]
        /\ \A i, j \in 1..m : r[i].user = r[j].user => i = j
        /\ \A x \in R : \E i \in 1..m : r[i].user = x
    BY <1>1, EntriesListed, FALSE \in BOOLEAN
  <1> HIDE DEF a, r, n, m
  <1>4. /\ a \in Seq(Entry) /\ Len(a) = n
        /\ r \in Seq(Entry) /\ Len(r) = m
    <2>1. a \in [1..n -> Entry] /\ r \in [1..m -> Entry]
      BY <1>2, <1>3
    <2> HIDE DEF Entry
    <2> QED BY <1>2, <1>3, <2>1, AsSequence
  <1>5. /\ Len(d) = n + m
        /\ d \in Seq(Entry)
        /\ \A i \in 1..n : d[i] = a[i]
        /\ \A i \in 1..m : d[n + i] = r[i]
    <2> HIDE DEF Entry
    <2>1. /\ d \in Seq(Entry) /\ Len(d) = n + m
          /\ \A i \in 1..n+m : d[i] = IF i <= n THEN a[i] ELSE r[i - n]
      BY <1>4, ConcatProperties
    <2>2. \A i \in 1..n : d[i] = a[i]
      BY <1>2, <1>3, <2>1
    <2>3. ASSUME NEW i \in 1..m PROVE d[n + i] = r[i]
      <3>1. n + i \in 1..n+m /\ ~(n + i <= n) /\ (n + i) - n = i
        BY <1>2, <1>3
      <3> QED BY <2>1, <3>1
    <2> QED BY <2>1, <2>2, <2>3
  <1> HIDE DEF d
  <1>11. ASSUME NEW i \in 1..n+m, i \notin 1..n
         PROVE  /\ i - n \in 1..m /\ i = n + (i - n) /\ d[i] = r[i - n]
    <2>1. i - n \in 1..m /\ i = n + (i - n)
      BY <1>2, <1>3, <1>11
    <2>2. d[n + (i - n)] = r[i - n]
      BY <1>5, <2>1
    <2> QED BY <2>1, <2>2
  <1>6. \A i \in 1..n+m : /\ i \in 1..n => d[i].added /\ d[i].user \in A
                          /\ i \notin 1..n => ~d[i].added /\ d[i].user \in R
    <2> TAKE i \in 1..n+m
    <2>1. i \in 1..n => d[i].added /\ d[i].user \in A
      <3> HAVE i \in 1..n
      <3>1. d[i] = a[i] /\ a[i] \in [user : A, added : {TRUE}]
        BY <1>2, <1>5
      <3> QED BY <3>1
    <2>2. i \notin 1..n => ~d[i].added /\ d[i].user \in R
      <3> HAVE i \notin 1..n
      <3>1. d[i] = r[i - n] /\ r[i - n] \in [user : R, added : {FALSE}]
        BY <1>3, <1>11
      <3> QED BY <3>1
    <2> QED BY <2>1, <2>2
  <1>7. \A i, j \in 1..n+m : d[i] = d[j] => i = j
    <2> SUFFICES ASSUME NEW i \in 1..n+m, NEW j \in 1..n+m, d[i] = d[j] PROVE i = j
      OBVIOUS
    <2>1. CASE i \in 1..n
      <3>1. j \in 1..n
        BY <1>6, <2>1
      <3> QED BY <1>2, <1>5, <2>1, <3>1
    <2>2. CASE i \notin 1..n
      <3>1. j \notin 1..n
        BY <1>6, <2>2
      <3>2. /\ i - n \in 1..m /\ j - n \in 1..m /\ i = n + (i - n) /\ j = n + (j - n)
            /\ r[i - n] = r[j - n]
        BY <1>11, <2>2, <3>1
      <3>3. i - n = j - n
        BY <1>3, <3>2
      <3> QED BY <3>2, <3>3
    <2> QED BY <2>1, <2>2
  <1>8. \A u \in A : \E i \in 1..n+m : d[i].user = u /\ d[i].added
    <2> SUFFICES ASSUME NEW u \in A PROVE \E i \in 1..n+m : d[i].user = u /\ d[i].added
      OBVIOUS
    <2>1. PICK i \in 1..n : a[i].user = u
      BY <1>2
    <2>2. i \in 1..n+m /\ d[i].user = u /\ d[i].added
      BY <1>2, <1>3, <1>5, <1>6, <2>1
    <2> QED BY <2>2
  <1>9. \A u \in R : \E i \in 1..n+m : d[i].user = u /\ ~d[i].added
    <2> SUFFICES ASSUME NEW u \in R PROVE \E i \in 1..n+m : d[i].user = u /\ ~d[i].added
      OBVIOUS
    <2>1. PICK i \in 1..m : r[i].user = u
      BY <1>3
    <2>2. n + i \in 1..n+m /\ n + i \notin 1..n
      BY <1>2, <1>3
    <2>3. d[n + i].user = u /\ ~d[n + i].added
      BY <1>5, <1>6, <2>1, <2>2
    <2> QED BY <2>2, <2>3
  <1>10. Differences(previous, next) = d
    BY DEF Differences, d, a, r
  <1> QED
    BY <1>5, <1>6, <1>7, <1>8, <1>9, <1>10 DEF Lists

\* The positions of the parts share out 1..n, none of them empty or too long.
LEMMA SharedOut ==
    ASSUME NEW n \in Nat
    PROVE  /\ PartCount(n) \in Nat
           /\ \A i \in 1..n : \E p \in 1..PartCount(n) : i \in Positions(p, n)
           /\ \A p \in 1..PartCount(n) : Positions(p, n) # {}
           /\ \A p, q \in 1..PartCount(n) : p # q => Positions(p, n) \cap Positions(q, n) = {}
  <1> USE PartSizeAssumption
  <1> DEFINE k == PartCount(n)
  <1>1. k \in Nat /\ k * PartSize <= n + PartSize - 1 /\ n <= k * PartSize
    <2> DEFINE a == n + PartSize - 1
    <2>1. a \in Nat
      OBVIOUS
    <2>2. a \div PartSize \in Nat
      BY <2>1
    <2>3. PartSize * (a \div PartSize) <= a /\ a < PartSize * (a \div PartSize) + PartSize
      BY <2>1
    <2> QED BY <2>2, <2>3 DEF PartCount
  <1>2. \A p, q \in Nat : p <= q => p * PartSize <= q * PartSize
    <2> TAKE p, q \in Nat
    <2> HAVE p <= q
    <2>1. (q - p) \in Nat
      OBVIOUS
    <2>2. (q - p) * PartSize \in Nat
      BY <2>1
    <2>3. q * PartSize = p * PartSize + (q - p) * PartSize
      OBVIOUS
    <2> QED BY <2>2, <2>3
  <1>3. \A i \in 1..n : \E p \in 1..k : i \in Positions(p, n)
    <2> SUFFICES ASSUME NEW i \in 1..n PROVE \E p \in 1..k : i \in Positions(p, n)
      OBVIOUS
    <2> DEFINE b == (i - 1) \div PartSize
    <2>1. b \in Nat /\ PartSize * b <= i - 1 /\ i - 1 < PartSize * b + PartSize
      OBVIOUS
    <2> HIDE DEF b, k
    <2>2. (b + 1) * PartSize = PartSize * b + PartSize /\ (b + 1 - 1) * PartSize = PartSize * b
      BY <2>1
    <2>3. (b + 1 - 1) * PartSize < i /\ i <= (b + 1) * PartSize
      BY <2>1, <2>2
    <2>4. b < k
      <3> SUFFICES ASSUME k <= b PROVE FALSE
        BY <1>1, <2>1
      <3>1. k * PartSize <= b * PartSize
        BY <1>1, <1>2, <2>1
      <3> QED BY <1>1, <2>1, <3>1
    <2>5. b + 1 \in 1..k
      BY <1>1, <2>1, <2>4
    <2>6. i \in Positions(b + 1, n)
      BY <2>1, <2>3 DEF Positions
    <2> QED BY <2>5, <2>6
  <1>4. \A p \in 1..k : Positions(p, n) # {}
    <2> SUFFICES ASSUME NEW p \in 1..k PROVE Positions(p, n) # {}
      OBVIOUS
    <2> HIDE DEF k
    <2> DEFINE o == (p - 1) * PartSize
    <2>1. p * PartSize <= k * PartSize /\ p * PartSize = o + PartSize /\ o \in Nat
      BY <1>1, <1>2
    <2>2. o + 1 \in 1..n
      BY <1>1, <2>1
    <2>3. o < o + 1 /\ o + 1 <= p * PartSize
      BY <2>1
    <2> QED BY <2>2, <2>3 DEF Positions
  <1>5. \A p, q \in 1..k : p < q => Positions(p, n) \cap Positions(q, n) = {}
    <2> SUFFICES ASSUME NEW p \in 1..k, NEW q \in 1..k, p < q
                 PROVE  Positions(p, n) \cap Positions(q, n) = {}
      OBVIOUS
    <2>1. p * PartSize <= (q - 1) * PartSize
      BY <1>1, <1>2
    <2> QED BY <2>1 DEF Positions
  <1>6. \A p, q \in 1..k : p # q => Positions(p, n) \cap Positions(q, n) = {}
    <2> SUFFICES ASSUME NEW p \in 1..k, NEW q \in 1..k, p # q
                 PROVE  Positions(p, n) \cap Positions(q, n) = {}
      OBVIOUS
    <2>1. p < q \/ q < p
      BY <1>1
    <2> QED BY <1>5, <2>1
  <1> QED BY <1>1, <1>3, <1>4, <1>6

LEMMA PartLength ==
    ASSUME NEW n \in Nat, NEW p \in Nat \ {0}
    PROVE  IsFiniteSet(Positions(p, n)) /\ Cardinality(Positions(p, n)) <= PartSize
  <1> DEFINE o == (p - 1) * PartSize
  <1>1. o \in Nat /\ p * PartSize = o + PartSize /\ PartSize \in Nat \ {0}
    BY PartSizeAssumption
  <1> HIDE DEF o
  <1>2. Positions(p, n) \subseteq o + 1 .. o + PartSize
    BY <1>1 DEF Positions, o
  <1>3. IsFiniteSet(o + 1 .. o + PartSize) /\ Cardinality(o + 1 .. o + PartSize) = PartSize
    BY <1>1, FS_Interval
  <1> QED BY <1>2, <1>3, FS_Subset

\* What the parts of a list say together.
LEMMA PartsAddUp ==
    ASSUME NEW previous, NEW next, IsFiniteSet(previous), IsFiniteSet(next)
    PROVE  PartsComplete(previous, next)
  <1> DEFINE changes == Differences(previous, next)
             n == Len(changes)
             parts == Parts(previous, next)
             A == next \ previous
             R == previous \ next
  <1>1. Lists(changes, previous, next) /\ n \in Nat
    <2>1. Lists(changes, previous, next)
      BY DifferencesListed
    <2> HIDE DEF changes
    <2>2. n \in Nat
      BY <2>1, LenProperties DEF Lists
    <2> QED BY <2>1, <2>2
  <1>2. CASE changes = <<>>
    <2>0. n = 0
      <3>1. Len(<<>>) = 0
        OBVIOUS
      <3> HIDE DEF changes
      <3> QED BY <1>2, <3>1
    <2>1. A = {} /\ R = {}
      <3> HIDE DEF changes, n
      <3>1. 1..n = {}
        BY <2>0
      <3>2. /\ \A u \in A : \E i \in 1..n : changes[i].user = u
            /\ \A u \in R : \E i \in 1..n : changes[i].user = u
        BY <1>1 DEF Lists, n
      <3> QED BY <3>1, <3>2
    <2>2. parts = <<NoChange>>
      BY <1>2 DEF Parts
    <2>3. DOMAIN parts = {1} /\ parts[1] = NoChange /\ parts # <<>>
      BY <2>2
    <2> HIDE DEF parts
    <2>4. /\ UNION {parts[p].added : p \in DOMAIN parts} = {}
          /\ UNION {parts[p].removed : p \in DOMAIN parts} = {}
      BY <2>3 DEF NoChange
    <2>5. \A p \in DOMAIN parts :
             Cardinality(parts[p].added) + Cardinality(parts[p].removed) <= PartSize
      <3>1. Cardinality({}) = 0
        BY FS_EmptySet
      <3>2. NoChange.added = {} /\ NoChange.removed = {}
        BY DEF NoChange
      <3>3. Cardinality(NoChange.added) + Cardinality(NoChange.removed) = 0
        BY <3>1, <3>2
      <3> HIDE DEF NoChange
      <3>4. \A p \in DOMAIN parts : parts[p] = NoChange
        BY <2>3
      <3>5. 0 <= PartSize
        BY PartSizeAssumption
      <3> QED BY <3>3, <3>4, <3>5
    <2>6. previous = next
      BY <2>1
    <2>7. \A p, q \in DOMAIN parts : p = q
      BY <2>3
    <2> QED BY <2>1, <2>3, <2>4, <2>5, <2>6, <2>7 DEF PartsComplete, parts
  <1>3. CASE changes # <<>>
    <2> DEFINE k == PartCount(n)
               Pos(p) == Positions(p, n)
    <2>1. /\ k \in Nat
          /\ \A i \in 1..n : \E p \in 1..k : i \in Pos(p)
          /\ \A p \in 1..k : Pos(p) # {} /\ Pos(p) \subseteq 1..n
          /\ \A p, q \in 1..k : p # q => Pos(p) \cap Pos(q) = {}
      BY <1>1, SharedOut DEF Positions
    <2>2. parts = [p \in 1..k |-> Part(changes, p)]
      BY <1>3 DEF Parts
    <2>3. \A p \in 1..k :
             /\ \A u : u \in parts[p].added <=>
                       \E i \in Pos(p) : changes[i].added /\ changes[i].user = u
             /\ \A u : u \in parts[p].removed <=>
                       \E i \in Pos(p) : ~changes[i].added /\ changes[i].user = u
      BY <2>2 DEF Part
    <2>4. DOMAIN parts = 1..k
      BY <2>2
    <2> HIDE DEF parts, k, n, Pos, changes
    <2>13. \A i \in 1..n : changes[i] \in [user : previous \cup next, added : BOOLEAN]
      <3>1. changes \in Seq([user : previous \cup next, added : BOOLEAN])
        BY <1>1 DEF Lists
      <3> QED BY <3>1, ElementOfSeq DEF n
    <2>5. \A i \in 1..n : changes[i].user \in IF changes[i].added THEN A ELSE R
      BY <1>1 DEF Lists, n
    <2>6. UNION {parts[p].added : p \in DOMAIN parts} = A
      <3>1. ASSUME NEW p \in 1..k, NEW u \in parts[p].added PROVE u \in A
        <4>1. PICK i \in Pos(p) : changes[i].added /\ changes[i].user = u
          BY <2>3
        <4>2. i \in 1..n
          BY <2>1
        <4> QED BY <2>5, <4>1, <4>2
      <3>2. ASSUME NEW u \in A PROVE \E p \in 1..k : u \in parts[p].added
        <4>1. PICK i \in 1..n : changes[i].user = u /\ changes[i].added
          BY <1>1 DEF Lists, n
        <4>2. PICK p \in 1..k : i \in Pos(p)
          BY <2>1
        <4> QED BY <2>3, <4>1, <4>2
      <3> QED BY <2>4, <3>1, <3>2
    <2>7. UNION {parts[p].removed : p \in DOMAIN parts} = R
      <3>1. ASSUME NEW p \in 1..k, NEW u \in parts[p].removed PROVE u \in R
        <4>1. PICK i \in Pos(p) : ~changes[i].added /\ changes[i].user = u
          BY <2>3
        <4>2. i \in 1..n
          BY <2>1
        <4> QED BY <2>5, <4>1, <4>2
      <3>2. ASSUME NEW u \in R PROVE \E p \in 1..k : u \in parts[p].removed
        <4>1. PICK i \in 1..n : changes[i].user = u /\ ~changes[i].added
          BY <1>1 DEF Lists, n
        <4>2. PICK p \in 1..k : i \in Pos(p)
          BY <2>1
        <4> QED BY <2>3, <4>1, <4>2
      <3> QED BY <2>4, <3>1, <3>2
    <2>8. ASSUME NEW i \in 1..n, NEW j \in 1..n,
                 changes[i].user = changes[j].user, changes[i].added = changes[j].added
          PROVE  i = j
      <3>3. changes[i] = changes[j]
        BY <2>8, <2>13
      <3> QED BY <1>1, <3>3 DEF Lists, n
    <2>9. ASSUME NEW p \in 1..k, NEW q \in 1..k, p # q
          PROVE  /\ parts[p].added \cap parts[q].added = {}
                 /\ parts[p].removed \cap parts[q].removed = {}
      <3>1. Pos(p) \cap Pos(q) = {} /\ Pos(p) \subseteq 1..n /\ Pos(q) \subseteq 1..n
        BY <2>1, <2>9
      <3>2. \A i \in Pos(p), j \in Pos(q) : changes[i] # changes[j]
        BY <2>8, <3>1
      <3>3. ASSUME NEW u, u \in parts[p].added, u \in parts[q].added PROVE FALSE
        <4>1. PICK i \in Pos(p) : changes[i].added /\ changes[i].user = u
          BY <2>3, <3>3
        <4>2. PICK j \in Pos(q) : changes[j].added /\ changes[j].user = u
          BY <2>3, <3>3
        <4>3. changes[i] = [user |-> u, added |-> TRUE] /\ changes[j] = [user |-> u, added |-> TRUE]
          BY <2>13, <3>1, <4>1, <4>2
        <4> QED BY <3>2, <4>3
      <3>4. ASSUME NEW u, u \in parts[p].removed, u \in parts[q].removed PROVE FALSE
        <4>1. PICK i \in Pos(p) : ~changes[i].added /\ changes[i].user = u
          BY <2>3, <3>4
        <4>2. PICK j \in Pos(q) : ~changes[j].added /\ changes[j].user = u
          BY <2>3, <3>4
        <4>3. changes[i] = [user |-> u, added |-> FALSE] /\ changes[j] = [user |-> u, added |-> FALSE]
          BY <2>13, <3>1, <4>1, <4>2
        <4> QED BY <3>2, <4>3
      <3> QED BY <3>3, <3>4
    <2>10. ASSUME NEW p \in 1..k
           PROVE  Cardinality(parts[p].added) + Cardinality(parts[p].removed) <= PartSize
      <3> DEFINE I == {j \in Pos(p) : changes[j].added}
                 J == {j \in Pos(p) : ~changes[j].added}
      <3>1. IsFiniteSet(Pos(p)) /\ Cardinality(Pos(p)) <= PartSize
        BY <1>1, <2>1, PartLength DEF Pos
      <3>2. /\ IsFiniteSet(I) /\ IsFiniteSet(J)
            /\ Cardinality(I) + Cardinality(J) = Cardinality(Pos(p))
        <4>1. J = Pos(p) \ I /\ I = Pos(p) \cap I /\ I \in SUBSET Pos(p)
          OBVIOUS
        <4>2. IsFiniteSet(I) /\ IsFiniteSet(J)
          BY <3>1, <4>1, FS_Subset, FS_Difference
        <4>3. Cardinality(J) = Cardinality(Pos(p)) - Cardinality(I)
          <5>1. Cardinality(Pos(p) \ I) = Cardinality(Pos(p)) - Cardinality(Pos(p) \cap I)
            BY <3>1, FS_Difference
          <5>2. J = Pos(p) \ I /\ I = Pos(p) \cap I
            BY <4>1
          <5> HIDE DEF I, J
          <5> QED BY <5>1, <5>2
        <4> QED BY <3>1, <4>2, <4>3, FS_CardinalityType
      <3>3. Cardinality(parts[p].added) <= Cardinality(I) /\ IsFiniteSet(parts[p].added)
        <4> DEFINE f == [i \in I |-> changes[i].user]
        <4>2. f \in [I -> parts[p].added]
          BY <2>3
        <4>3. ASSUME NEW u \in parts[p].added PROVE \E i \in I : f[i] = u
          BY <2>3
        <4>1. f \in Surjection(I, parts[p].added)
          BY <4>2, <4>3 DEF Surjection
        <4> QED BY <3>2, <4>1, FS_Surjection
      <3>4. Cardinality(parts[p].removed) <= Cardinality(J) /\ IsFiniteSet(parts[p].removed)
        <4> DEFINE f == [i \in J |-> changes[i].user]
        <4>2. f \in [J -> parts[p].removed]
          BY <2>3
        <4>3. ASSUME NEW u \in parts[p].removed PROVE \E i \in J : f[i] = u
          BY <2>3
        <4>1. f \in Surjection(J, parts[p].removed)
          BY <4>2, <4>3 DEF Surjection
        <4> QED BY <3>2, <4>1, FS_Surjection
      <3> QED BY <3>1, <3>2, <3>3, <3>4, FS_CardinalityType, PartSizeAssumption
    <2>11. ASSUME NEW p \in 1..k PROVE parts[p] # NoChange
      <3>1. PICK i \in Pos(p) : TRUE
        BY <2>1
      <3>2. changes[i].user \in parts[p].added \/ changes[i].user \in parts[p].removed
        BY <2>3, <3>1
      <3> QED BY <3>2 DEF NoChange
    <2>12. parts # <<>>
      <3>1. n > 0
        BY <1>1, <1>3, EmptySeq DEF Lists, n
      <3>2. 1 \in 1..n
        BY <1>1, <3>1
      <3>3. 1..k # {}
        BY <2>1, <3>2
      <3>4. DOMAIN <<>> = {}
        OBVIOUS
      <3> QED BY <2>4, <3>3, <3>4
    <2> QED BY <2>4, <2>6, <2>7, <2>9, <2>10, <2>11, <2>12 DEF PartsComplete, parts
  <1> QED BY <1>2, <1>3

-----------------------------------------------------------------------------
(* The theorems.                                                           *)

LEMMA Initially ==
    ASSUME Init
    PROVE  IInv
  <1> USE DEF Init, NoDraft, NoRelease, NoView, NoPayload
  <1>1. TypeOK
    BY DEF TypeOK, DraftRow, ReleaseRow, AudienceAudit, View, Payload, Scope, Audiences
  <1>2. AudienceKnown /\ SequencesAllocated /\ ViewsAreDated
    BY DEF AudienceKnown, SequencesAllocated, ViewsAreDated
  <1>3. OneRelease /\ OneTask
    BY DEF OneRelease, OneTask, Publications
  <1>4. Numbered
    BY DEF Numbered
  <1>5. AuditedTasks /\ AuditChain
    BY DEF AuditedTasks, AuditChain
  <1>6. AudienceIsAudited /\ PublishedArtifactsAreUsed
    BY DEF AudienceIsAudited, PublishedArtifactsAreUsed
  <1> QED
    BY <1>1, <1>2, <1>3, <1>4, <1>5, <1>6, PublishedOnceParts, NumberedTasks, AuditParts DEF IInv

LEMMA Inductively ==
    ASSUME IInv, [Next]_vars
    PROVE  IInv'
  <1>1. /\ TypeOK /\ AudienceKnown /\ SequencesAllocated /\ ViewsAreDated
        /\ OneRelease /\ OneTask /\ Numbered /\ AuditedTasks /\ AuditChain
        /\ AudienceIsAudited /\ PublishedArtifactsAreUsed
    BY PublishedOnceParts, NumberedTasks, AuditParts DEF IInv
  <1>2. Step
    BY <1>1, StepKinds
  <1>3. TypeOK' /\ AudienceKnown' /\ ViewsAreDated' /\ PublishedArtifactsAreUsed'
    BY <1>1, <1>2, TypesKept, AudienceKnownKept, ViewsKeptDated, ArtifactsKept
  <1>4. SequencesAllocated' /\ OneRelease' /\ OneTask' /\ Numbered'
    BY <1>1, <1>2, OneReleaseKept, OneTaskKept, NumberedKept
  <1>5. AuditedTasks' /\ AuditChain'
    BY <1>1, <1>2, AuditsKept
  <1>6. AudienceIsAudited'
    BY <1>1, <1>2, AudienceKept
  <1>7. PublishedOnce' /\ RevisionsMatchTasks' /\ AuditsFollowPolicy'
    BY <1>3, <1>4, <1>5, PublishedOnceParts, NumberedTasks, AuditParts, PTL
  <1> QED
    BY <1>3, <1>4, <1>6, <1>7 DEF IInv

\* The invariant of the release lifecycle holds in every reachable state.
THEOREM LifecycleInvariant == Spec => []IInv
  BY Initially, Inductively, PTL DEF Spec

\* Drafts, releases, artifacts, audits and views stay well formed; no draft
\* of a public release with users is ever stored.
THEOREM LifecycleTypes == Spec => []TypeOK
  <1>1. IInv => TypeOK
    BY DEF IInv
  <1> QED
    BY <1>1, LifecycleInvariant, PTL

\* However often publish is called, a draft becomes one release with one
\* sequence and one publish task.
THEOREM OnePublication == Spec => []PublishedOnce
  <1>1. IInv => PublishedOnce
    BY DEF IInv
  <1> QED
    BY <1>1, LifecycleInvariant, PTL

\* publish and mutatePolicy give each catalog revision exactly one task.
THEOREM OneTaskPerRevision == Spec => []RevisionsMatchTasks
  <1>1. IInv => RevisionsMatchTasks
    BY DEF IInv
  <1> QED
    BY <1>1, LifecycleInvariant, PTL

\* The success audits of a release are its policy revisions in task order.
THEOREM AuditedRevisions == Spec => []AuditsFollowPolicy
  <1>1. IInv => AuditsFollowPolicy
    BY DEF IInv
  <1> QED
    BY <1>1, LifecycleInvariant, PTL

\* The last audience audit of a draft or release says what its audience is.
THEOREM AuditedAudience == Spec => []AudienceIsAudited
  <1>1. IInv => AudienceIsAudited
    BY DEF IInv
  <1> QED
    BY <1>1, LifecycleInvariant, PTL

\* Artifacts are marked published exactly for the drafts that were published.
THEOREM UsedArtifacts == Spec => []PublishedArtifactsAreUsed
  <1>1. IInv => PublishedArtifactsAreUsed
    BY DEF IInv
  <1> QED
    BY <1>1, LifecycleInvariant, PTL

\* A change that expects the revision its client has read replaces the
\* audience its client has read.
THEOREM NoLostAudience == Spec => NoBlindOverwrite
  <1>1. ASSUME IInv, NEW m \in Manager, NEW change \in Change, ChangeViewedAudience(m, change)
        PROVE  release[manager[m].release].audience = manager[m].seen
    BY <1>1 DEF IInv, ViewsAreDated, ChangeViewedAudience, RevisionExpected
  <1>2. IInv => [\A m \in Manager : \A change \in Change :
                    ChangeViewedAudience(m, change)
                    => release[manager[m].release].audience = manager[m].seen]_vars
    BY <1>1
  <1> QED
    BY <1>2, LifecycleInvariant, PTL DEF NoBlindOverwrite

\* What an audience audit says of before is what the previous one said of after.
THEOREM ConnectedAudits == Spec => AuditsConnect
  <1> DEFINE Connects ==
        \A r \in Release :
          audienceAudit'[r] # audienceAudit[r]
          => audienceAudit'[r].before =
                IF release[r].policy = 0 /\ release'[r].policy > 0
                THEN NoAudience ELSE audienceAudit[r].after
  <1>1. ASSUME IInv, [Next]_vars
        PROVE  Connects
    <2>1. Step /\ TypeOK /\ OneRelease /\ AudienceIsAudited
      BY <1>1, StepKinds, PublishedOnceParts DEF IInv
    <2>2. audienceAudit \in [Release -> AudienceAudit]
          /\ \A q \in Release : release[q].policy \in Nat
      BY <2>1 DEF TypeOK, ReleaseRow
    <2>3. CASE Quiet
      BY <2>3 DEF Quiet
    <2>4. ASSUME NEW r \in Release, NEW p \in StoredPayload, CreateStep(r, p) \/ EditStep(r, p)
          PROVE  Connects
      <3>1. release' = release /\ release[r].policy = 0
            /\ \A q \in Release \ {r} : audienceAudit'[q] = audienceAudit[q]
        BY <2>1, <2>2, <2>4, DraftEffect DEF releaseRows, OneRelease
      <3>2. audienceAudit'[r].before = audienceAudit[r].after
        <4>1. CASE CreateStep(r, p)
          BY <2>1, <2>2, <3>1, <4>1 DEF CreateStep, Audited, AudienceIsAudited
        <4>2. CASE EditStep(r, p)
          BY <2>1, <2>2, <3>1, <4>2 DEF EditStep, Audited, AudienceIsAudited
        <4> QED
          BY <2>4, <4>1, <4>2
      <3> QED
        BY <3>1, <3>2
    <2>5. ASSUME NEW r \in Release, Publish(r)
          PROVE  Connects
      <3>1. release[r].policy = 0 /\ release'[r].policy = 1
            /\ Audited(r, NoAudience, AudienceOf(draft[r].payload))
        BY <2>1, <2>2, <2>5, PublishEffect DEF OneRelease
      <3> QED
        BY <2>2, <3>1 DEF Audited
    <2>6. ASSUME NEW r \in Release, NEW action \in PolicyAction, NEW row \in ReleaseRow,
                 row.audience \in Audience, PolicyStep(r, action, row)
          PROVE  Connects
      <3>1. release[r].policy > 0 /\ draft[r].status = "published"
        BY <2>1, <2>6, PolicyEffect DEF OneRelease
      <3>2. audienceAudit[r].after = release[r].audience
        BY <2>1, <3>1 DEF AudienceIsAudited
      <3>3. CASE UNCHANGED audienceAudit
        BY <3>3
      <3>4. CASE Audited(r, release[r].audience, row.audience)
        BY <2>2, <3>1, <3>2, <3>4 DEF Audited
      <3> QED
        BY <2>6, <3>3, <3>4 DEF PolicyStep
    <2> QED
      BY <2>1, <2>3, <2>4, <2>5, <2>6, QuietSteps DEF Step
  <1>2. Connects \/ UNCHANGED vars => [Connects]_vars
    OBVIOUS
  <1>3. IInv /\ [Next]_vars => [Connects]_vars
    BY <1>1
  <1> QED
    BY <1>3, LifecycleInvariant, PTL DEF AuditsConnect, Spec

\* Tasks, catalog revisions, policy revisions and audits count alike.
THEOREM CompleteTrail == Spec => []AuditTrailComplete
  <1>1. IInv => AuditTrailComplete
    BY DEF IInv, AuditTrailComplete
  <1> QED BY <1>1, LifecycleInvariant, PTL

\* The audit rows of every audience change rebuild it, for any size of the
\* parts and any number of users.
THEOREM RebuiltAudience == Spec => []AuditPartsComplete
  <1>1. TypeOK => AuditPartsComplete
    <2> SUFFICES ASSUME TypeOK, NEW r \in Release
                 PROVE  PartsComplete(audienceAudit[r].before.users, audienceAudit[r].after.users)
      BY DEF AuditPartsComplete
    <2>1. audienceAudit[r] \in AudienceAudit
      BY DEF TypeOK
    <2>2. /\ audienceAudit[r].before.users \in SUBSET User
          /\ audienceAudit[r].after.users \in SUBSET User
      BY <2>1 DEF AudienceAudit, Audiences, Audience, NoAudience
    <2>3. /\ IsFiniteSet(audienceAudit[r].before.users)
          /\ IsFiniteSet(audienceAudit[r].after.users)
      BY <2>2, UserAssumption, FS_Subset
    <2> QED BY <2>3, PartsAddUp
  <1> QED BY <1>1, LifecycleTypes, PTL

-----------------------------------------------------------------------------
(* The log.                                                                *)

Entry(t) == [release |-> t.release, action |-> t.action]
TaskLog == [i \in 1..revision |-> Entry(Asking(i))]

\* A task is the one that asks for its revision.
LEMMA Asks ==
    ASSUME Numbered, NEW t \in tasks
    PROVE  Asking(t.requested) = t
  BY DEF Numbered, Asking

\* A task that is inserted is appended to the log.
LEMMA LogAppended ==
    ASSUME TypeOK, Numbered, NEW r \in Release, NEW action \in Action, NEW before \in Nat,
           InsertTask(r, action, before)
    PROVE  TaskLog' = Append(TaskLog, [release |-> r, action |-> action])
  <1> DEFINE new == [release |-> r, action |-> action, requested |-> revision + 1]
  <1>1. revision \in Nat /\ revision' = revision + 1 /\ tasks' = tasks \cup {new}
    BY DEF TypeOK, InsertTask
  <1>2. Numbered'
    BY InsertNumbers
  <1>3. Entry(new) = [release |-> r, action |-> action] /\ new.requested = revision + 1
    BY DEF Entry
  <1>4. ASSUME NEW t \in tasks'
        PROVE  (CHOOSE s \in tasks' : s.requested = t.requested) = t
    BY <1>2 DEF Numbered
  <1>5. ASSUME NEW i \in 1..revision
        PROVE  (CHOOSE s \in tasks' : s.requested = i) = Asking(i)
    <2>1. PICK t \in tasks : t.requested = i
      BY DEF Numbered
    <2> QED
      BY <1>1, <1>4, <2>1, Asks
  <1>6. (CHOOSE s \in tasks' : s.requested = revision + 1) = new
    <2> HIDE DEF new
    <2> QED
      BY <1>1, <1>3, <1>4
  <1> DEFINE after == [i \in 1..revision + 1 |-> Entry(CHOOSE s \in tasks' : s.requested = i)]
  <1>7. TaskLog' = after
    BY <1>1 DEF TaskLog, Asking, Entry
  <1> DEFINE entries == {Entry(Asking(i)) : i \in 1..revision}
  <1>8. TaskLog \in Seq(entries) /\ Len(TaskLog) = revision
    <2>1. TaskLog \in [1..revision -> entries]
      BY DEF TaskLog
    <2> HIDE DEF entries
    <2> QED
      BY <1>1, <2>1
  <1>9. \A i \in 1..revision : after[i] = TaskLog[i]
    BY <1>1, <1>5 DEF TaskLog
  <1>10. after[revision + 1] = [release |-> r, action |-> action]
    BY <1>1, <1>3, <1>6
  <1>11. after = Append(TaskLog, [release |-> r, action |-> action])
    <2> HIDE DEF after, new
    <2> DEFINE e == [release |-> r, action |-> action]
    <2>1. after = [i \in 1..revision + 1 |-> after[i]]
      BY DEF after
    <2>2. Append(TaskLog, e) = [i \in 1..revision + 1 |-> IF i = revision + 1 THEN e ELSE TaskLog[i]]
      BY <1>1, <1>8
    <2>3. \A i \in 1..revision + 1 : i = revision + 1 \/ i \in 1..revision
      BY <1>1
    <2>4. \A i \in 1..revision + 1 : after[i] = IF i = revision + 1 THEN e ELSE TaskLog[i]
      BY <1>1, <1>9, <1>10, <2>3
    <2> QED
      BY <2>1, <2>2, <2>4
  <1> QED
    BY <1>7, <1>11

\* A policy change is an entry of the log.
LEMMA RevisionLogged ==
    ASSUME IInv, NEW r \in Release, NEW action \in PolicyAction, NEW row,
           MutatePolicy(r, action, row)
    PROVE  Log!Revise(r, action, row)
  <1>1. /\ release[r].policy > 0 /\ InsertTask(r, action, release[r].policy)
        /\ release' = [release EXCEPT ![r] = [row EXCEPT !.policy = release[r].policy + 1]]
    BY DEF MutatePolicy
  <1>2. TypeOK /\ Numbered /\ action \in Action /\ release[r].policy \in Nat
    BY NumberedTasks DEF IInv, PolicyAction, TypeOK, ReleaseRow
  <1>3. TaskLog' = Append(TaskLog, [release |-> r, action |-> action])
    BY <1>1, <1>2, LogAppended
  <1> QED
    BY <1>1, <1>3 DEF Log!Revise, Log!Write, TaskLog, Entry

\* What a policy change makes of its row, when it changes but the enabled flag or the
\* audience.
LEMMA RowRevised ==
    ASSUME TypeOK, NEW r \in Release, NEW action, NEW row \in ReleaseRow,
           MutatePolicy(r, action, row)
    PROVE  release'[r] # release[r] /\ release'[r].audience = row.audience
  <1>1. release[r].policy \in Nat /\ release \in [Release -> ReleaseRow]
    BY DEF TypeOK, ReleaseRow
  <1>2. release'[r] = [row EXCEPT !.policy = release[r].policy + 1]
    BY <1>1 DEF MutatePolicy
  <1>3. release'[r].policy = release[r].policy + 1 /\ release'[r].audience = row.audience
    BY <1>2 DEF ReleaseRow
  <1> QED
    BY <1>1, <1>3

LEMMA SwitchLogged ==
    ASSUME IInv, NEW r \in Release, NEW enabled \in BOOLEAN, SetEnabled(r, enabled)
    PROVE  Log!Next
  <1> DEFINE row == [release[r] EXCEPT !.enabled = enabled]
  <1> DEFINE action == IF enabled THEN "enable" ELSE "disable"
  <1>1. action \in PolicyAction /\ MutatePolicy(r, action, row)
    BY DEF SetEnabled, PolicyAction, Action
  <1>2. TypeOK /\ row \in ReleaseRow
    BY DEF IInv, TypeOK, ReleaseRow
  <1>3. Log!Revise(r, action, row) /\ release'[r] # release[r]
    BY <1>1, <1>2, RevisionLogged, RowRevised
  <1>4. Log!Switch(r)
    BY <1>3 DEF Log!Switch
  <1> QED
    BY <1>3, <1>4 DEF Log!Next

LEMMA AudienceLogged ==
    ASSUME IInv, NEW r \in Release, NEW change \in Change, ChangeAudience(r, change)
    PROVE  Log!Next
  <1> DEFINE audience == Written(release[r].audience, change)
  <1> DEFINE row == [release[r] EXCEPT !.audience = audience]
  <1>1. TypeOK /\ release[r] \in ReleaseRow /\ release[r].audience \in Audience
    BY DEF IInv, TypeOK, AudienceKnown, ChangeAudience, MutatePolicy
  <1>2. audience \in Audience
    BY <1>1, WrittenAsPlanned
  <1>3. MutatePolicy(r, "audience_changed", row)
    BY <1>1 DEF ChangeAudience, ReleaseRow
  <1> HIDE DEF audience
  <1>4. row \in ReleaseRow /\ row.audience = audience
    BY <1>1, <1>2 DEF ReleaseRow, Audiences
  <1>5. Log!Revise(r, "audience_changed", row)
    BY <1>3, RevisionLogged DEF PolicyAction, Action
  <1>6. release'[r] # release[r] /\ release'[r].audience = audience
    <2> HIDE DEF row
    <2> QED
      BY <1>1, <1>3, <1>4, RowRevised
  <1>7. Log!ChangeAudience(r, release'[r].audience)
    BY <1>2, <1>5, <1>6 DEF Log!ChangeAudience
  <1> QED
    BY <1>6, <1>7 DEF Log!Next

LEMMA RedispatchLogged ==
    ASSUME IInv, NEW r \in Release, Redispatch(r)
    PROVE  Log!Next
  <1>1. MutatePolicy(r, "redispatch", release[r]) /\ TypeOK /\ release[r] \in ReleaseRow
    BY DEF Redispatch, IInv, TypeOK
  <1>2. Log!Revise(r, "redispatch", release[r]) /\ release'[r] # release[r]
    BY <1>1, RevisionLogged, RowRevised DEF PolicyAction, Action
  <1> QED
    BY <1>2 DEF Log!Next, Log!Redispatch

LEMMA PublicationLogged ==
    ASSUME IInv, NEW r \in Release, Publish(r)
    PROVE  Log!Next
  <1> DEFINE row == release'[r]
  <1>1. /\ TypeOK /\ Numbered /\ release[r].policy = 0
        /\ \A q \in Release : release[q].sequence \in Nat /\ release[q].sequence <= sequence
    BY NumberedTasks, PublishedOnceParts, PublishEffect
       DEF IInv, OneRelease, SequencesAllocated, TypeOK, ReleaseRow
  <1>2. /\ row.policy = 1 /\ row.sequence = sequence + 1 /\ sequence \in Nat
        /\ row.audience \in Audience
        /\ InsertTask(r, "publish", 0)
    BY <1>1, PublishEffect
  <1>3. release' = [release EXCEPT ![r] = row]
    BY <1>1 DEF Publish, TypeOK
  <1>4. TaskLog' = Append(TaskLog, [release |-> r, action |-> "publish"])
    <2>1. "publish" \in Action /\ 0 \in Nat
      BY DEF Action
    <2> HIDE DEF row
    <2> QED
      BY <1>1, <1>2, <2>1, LogAppended
  <1>5. \A q \in Release : release[q].sequence < row.sequence
    BY <1>1, <1>2
  <1>6. row # release[r]
    BY <1>1, <1>2
  <1> HIDE DEF row
  <1>7. Log!Publish(r, row)
    BY <1>1, <1>2, <1>3, <1>4, <1>5 DEF Log!Publish, Log!Write, TaskLog, Entry
  <1> QED
    BY <1>6, <1>7 DEF Log!Next, row

LEMMA StepLogged ==
    ASSUME IInv, [Next]_vars
    PROVE  [Log!Next]_(Log!logVars)
  <1>1. CASE UNCHANGED <<release, tasks, revision>>
    BY <1>1 DEF Log!logVars, Asking
  <1>2. ASSUME NEW r \in Release, NEW change \in Change, ChangeAudienceBlindly(r, change)
        PROVE  Log!Next
    BY <1>2, AudienceLogged DEF ChangeAudienceBlindly
  <1>3. ASSUME NEW m \in Manager, NEW change \in Change, ChangeViewedAudience(m, change)
        PROVE  Log!Next
    <2>1. manager[m].release \in Release
      BY <1>3 DEF ChangeViewedAudience, IInv, ViewsAreDated
    <2> QED
      BY <1>3, <2>1, AudienceLogged DEF ChangeViewedAudience
  <1>4. \/ UNCHANGED <<release, tasks, revision>>
        \/ \E r \in Release :
              \/ Publish(r) \/ Redispatch(r)
              \/ \E enabled \in BOOLEAN : SetEnabled(r, enabled)
              \/ \E change \in Change : ChangeAudienceBlindly(r, change)
        \/ \E m \in Manager, change \in Change : ChangeViewedAudience(m, change)
    BY DEF Next, UploadArtifact, CreateDraft, UpdateDraft, PublishRollsBack,
       ChangeDraftAudience, ReadDetail, ReadUsers, DropView, releaseRows, vars
  <1> QED
    BY <1>1, <1>2, <1>3, <1>4, PublicationLogged, RedispatchLogged, SwitchLogged

\* For every number of releases, changes and clients: the catalog is a log whose entries
\* are numbered as they are appended, start with the publication of their release, count
\* its policy revisions and say all that changes of it.
THEOREM LogRefinement == Spec => ImplementsReleaseLog
  <1>1. Init => Log!Init
    BY DEF Init, Log!Init
  <1>2. IInv /\ [Next]_vars => [Log!Next]_(Log!logVars)
    BY StepLogged
  <1> QED
    BY <1>1, <1>2, LifecycleInvariant, PTL DEF Spec, ImplementsReleaseLog, Log!Spec

=============================================================================
