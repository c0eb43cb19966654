---------------------------- MODULE UpdateProofs ----------------------------
(***************************************************************************)
(* Proofs about updates, from the decision to the socket.                   *)
(*                                                                          *)
(* The decision, for every catalog and client: versions are totally         *)
(* ordered, at most one release is offered and it depends on the catalog    *)
(* alone, and an update that is installed is progress, so that no client is *)
(* offered it again.                                                        *)
(*                                                                          *)
(* The push, for every set of sockets, tasks, profiles and decisions: what  *)
(* is sent late is sent to nobody it is not meant for, and a socket that    *)
(* was told something out of date is owed the present offer by a task that  *)
(* has not succeeded, whichever way dispatches, replays, recomputations and *)
(* subscription changes interleave.                                         *)
(***************************************************************************)
EXTENDS RealtimeDispatch, UpdateDecision, FiniteSetTheorems, WellFoundedInduction, TLAPS

LEMMA NumeralType ==
    ASSUME NEW n \in Numeral
    PROVE  n \in Seq(0..9) /\ Len(n) \in Nat /\ \A i \in 1..Len(n) : n[i] \in 0..9
BY DEF Numeral

LEMMA VersionType ==
    ASSUME NEW v \in Version
    PROVE  v[1] \in Numeral /\ v[2] \in Numeral /\ v[3] \in Numeral /\ v = <<v[1], v[2], v[3]>>
BY DEF Version

-----------------------------------------------------------------------------
(* Numerals.                                                                 *)

LEMMA LeastNatural ==
    ASSUME NEW S \in SUBSET Nat, S # {}
    PROVE  \E n \in S : \A m \in S : n <= m
<1>1. PICK n \in S : \A m \in S : ~(<<m, n>> \in OpToRel(<, Nat))
    BY NatLessThanWellFounded, WFMin
<1>2. ASSUME NEW m \in S, m < n
      PROVE  <<m, n>> \in OpToRel(<, Nat)
  <2>1. <<m, n>> \in Nat \X Nat /\ <<m, n>>[1] < <<m, n>>[2]
    BY <1>2
  <2> QED
    BY <2>1, Zenon DEF OpToRel
<1>3. \A m \in S : ~(m < n)
    BY <1>1, <1>2
<1>4. \A m \in S : n <= m
    BY <1>3
<1> QED
    BY <1>4

LEMMA GreaterAsymmetric ==
    ASSUME NEW a \in Numeral, NEW b \in Numeral, Greater(a, b)
    PROVE  ~Greater(b, a) /\ a # b
<1>1. Len(a) \in Nat /\ Len(b) \in Nat
    BY NumeralType
<1>2. CASE Len(a) > Len(b)
    BY <1>1, <1>2 DEF Greater
<1>3. CASE Len(a) = Len(b) /\ After(a, b)
  <2>1. PICK i \in 1..Len(a) : a[i] > b[i] /\ \A j \in 1..(i - 1) : a[j] = b[j]
    BY <1>3 DEF After
  <2>2. a[i] \in Int /\ b[i] \in Int
    BY <1>1, <1>3, NumeralType
  <2>3. ~After(b, a)
    <3> SUFFICES ASSUME NEW k \in 1..Len(b), b[k] > a[k], \A j \in 1..(k - 1) : b[j] = a[j]
                 PROVE  FALSE
        BY DEF After
    <3>1. a[k] \in Int /\ b[k] \in Int
        BY <1>1, <1>3, NumeralType
    <3>2. i < k \/ k < i \/ i = k
        BY <1>1
    <3> QED
        BY <1>1, <2>1, <2>2, <3>1, <3>2
  <2> QED
    BY <1>1, <1>3, <2>1, <2>2, <2>3 DEF Greater
<1> QED
    BY <1>2, <1>3 DEF Greater

LEMMA GreaterTransitive ==
    ASSUME NEW a \in Numeral, NEW b \in Numeral, NEW c \in Numeral,
           Greater(a, b), Greater(b, c)
    PROVE  Greater(a, c)
<1>1. Len(a) \in Nat /\ Len(b) \in Nat /\ Len(c) \in Nat
    BY NumeralType
<1>2. CASE Len(a) > Len(b) \/ Len(b) > Len(c)
    BY <1>1, <1>2 DEF Greater
<1>3. CASE Len(a) = Len(b) /\ Len(b) = Len(c) /\ After(a, b) /\ After(b, c)
  <2>1. PICK i \in 1..Len(a) : a[i] > b[i] /\ \A j \in 1..(i - 1) : a[j] = b[j]
    BY <1>3 DEF After
  <2>2. PICK k \in 1..Len(b) : b[k] > c[k] /\ \A j \in 1..(k - 1) : b[j] = c[j]
    BY <1>3 DEF After
  <2>3. \A j \in 1..Len(a) : a[j] \in Int /\ b[j] \in Int /\ c[j] \in Int
    BY <1>1, <1>3, NumeralType
  <2>4. CASE i <= k
    <3>1. a[i] > c[i]
        BY <1>1, <1>3, <2>1, <2>2, <2>3, <2>4
    <3>2. \A j \in 1..(i - 1) : a[j] = c[j]
        BY <1>1, <1>3, <2>1, <2>2, <2>4
    <3> QED
        BY <1>3, <3>1, <3>2 DEF Greater, After
  <2>5. CASE k < i
    <3>1. a[k] > c[k]
        BY <1>1, <1>3, <2>1, <2>2, <2>3, <2>5
    <3>2. \A j \in 1..(k - 1) : a[j] = c[j]
        BY <1>1, <1>3, <2>1, <2>2, <2>5
    <3> QED
        BY <1>3, <3>1, <3>2 DEF Greater, After
  <2> QED
    BY <1>1, <1>3, <2>4, <2>5
<1> QED
    BY <1>2, <1>3 DEF Greater

\* Numerals of one length that differ, differ at a first place.
LEMMA GreaterTotal ==
    ASSUME NEW a \in Numeral, NEW b \in Numeral, a # b
    PROVE  Greater(a, b) \/ Greater(b, a)
<1>1. Len(a) \in Nat /\ Len(b) \in Nat
    BY NumeralType
<1>2. CASE Len(a) # Len(b)
    BY <1>1, <1>2 DEF Greater
<1>3. CASE Len(a) = Len(b)
  <2> DEFINE D == {i \in 1..Len(a) : a[i] # b[i]}
  <2>1. D # {}
    <3> SUFFICES ASSUME D = {} PROVE a = b
        OBVIOUS
    <3>1. \A i \in 1..Len(a) : a[i] = b[i]
        OBVIOUS
    <3> QED
        BY <1>3, <3>1, NumeralType
  <2>2. PICK i \in D : \A j \in D : i <= j
    <3>1. D \in SUBSET Nat
        BY <1>1
    <3> HIDE DEF D
    <3> QED
        BY <2>1, <3>1, LeastNatural
  <2>3. \A j \in D : ~(j < i)
    BY <1>1, <2>2
  <2>4. \A j \in 1..(i - 1) : a[j] = b[j]
    BY <1>1, <2>3
  <2>5. a[i] \in Int /\ b[i] \in Int /\ a[i] # b[i]
    BY <1>1, <1>3, NumeralType
  <2>6. CASE a[i] > b[i]
    BY <1>3, <2>4, <2>6 DEF Greater, After
  <2>7. CASE b[i] > a[i]
    BY <1>3, <2>4, <2>7 DEF Greater, After
  <2> QED
    BY <2>5, <2>6, <2>7
<1> QED
    BY <1>2, <1>3

-----------------------------------------------------------------------------
(* Versions.                                                                 *)

\* No version is newer than itself, and of two versions at most one is newer.
THEOREM NewerAsymmetric ==
    ASSUME NEW v \in Version, NEW w \in Version, Newer(v, w)
    PROVE  ~Newer(w, v) /\ v # w
BY VersionType, GreaterAsymmetric DEF Newer

\* A version that is newer than a newer version is newer.
THEOREM NewerTransitive ==
    ASSUME NEW u \in Version, NEW v \in Version, NEW w \in Version,
           Newer(u, v), Newer(v, w)
    PROVE  Newer(u, w)
BY VersionType, GreaterTransitive DEF Newer

\* compareVersions calls two versions equal only when they are: sorting by it and
\* comparing the strings, as the hot candidates do, agree.
THEOREM NewerTotal ==
    ASSUME NEW v \in Version, NEW w \in Version, v # w
    PROVE  Newer(v, w) \/ Newer(w, v)
<1>1. v[1] # w[1] \/ v[2] # w[2] \/ v[3] # w[3]
    BY VersionType
<1> QED
    BY <1>1, VersionType, GreaterTotal DEF Newer

-----------------------------------------------------------------------------
(* Decisions.                                                                *)

LEMMA CandidateFacts ==
    ASSUME NEW client \in ClientUpdateContext, NEW releases \in Catalog,
           NEW x \in Candidates(client, releases)
    PROVE  /\ x \in releases /\ x \in CatalogRelease
           /\ x.targetVersion \in Version /\ x.sequence \in Nat
           /\ client.currentVersion \in Version /\ client.installedSequence \in Nat
           /\ x \in Eligible(client, releases)
           /\ \/ Newer(x.targetVersion, client.currentVersion)
              \/ /\ x.targetVersion = client.currentVersion
                 /\ x.sequence > client.installedSequence
<1>1. x \in FullCandidates(client, releases) \/ x \in HotCandidates(client, releases)
    BY DEF Candidates
<1>2. /\ x \in Eligible(client, releases)
      /\ \/ Newer(x.targetVersion, client.currentVersion)
         \/ /\ x.targetVersion = client.currentVersion
            /\ x.sequence > client.installedSequence
    BY <1>1 DEF FullCandidates, HotCandidates
<1>3. x \in releases /\ releases \subseteq CatalogRelease
    BY <1>2 DEF Eligible, Catalog
<1>4. x.targetVersion \in Version /\ x.sequence \in Nat
    BY <1>3 DEF CatalogRelease
<1>5. client.currentVersion \in Version /\ client.installedSequence \in Nat
    BY DEF ClientUpdateContext
<1> QED
    BY <1>2, <1>3, <1>4, <1>5

\* The order candidates are sorted in is total: of two of them exactly one comes
\* first, whatever order the database returns them in.
THEOREM CandidatesAreOrdered ==
    ASSUME NEW client \in ClientUpdateContext, NEW releases \in Catalog,
           NEW x \in Candidates(client, releases), NEW y \in Candidates(client, releases),
           x # y
    PROVE  /\ Preferred(x, y) \/ Preferred(y, x)
           /\ ~(Preferred(x, y) /\ Preferred(y, x))
<1>1. /\ x \in releases /\ x.targetVersion \in Version /\ x.sequence \in Nat
      /\ y \in releases /\ y.targetVersion \in Version /\ y.sequence \in Nat
    BY CandidateFacts
<1>2. x.sequence # y.sequence
    BY <1>1 DEF Catalog
<1>3. CASE x.targetVersion = y.targetVersion
  <2>1. ~Newer(x.targetVersion, y.targetVersion) /\ ~Newer(y.targetVersion, x.targetVersion)
    BY <1>1, <1>3, NewerAsymmetric
  <2> QED
    BY <1>1, <1>2, <1>3, <2>1 DEF Preferred
<1>4. CASE x.targetVersion # y.targetVersion
    BY <1>1, <1>4, NewerAsymmetric, NewerTotal DEF Preferred
<1> QED
    BY <1>3, <1>4

\* A decision names at most one release.
THEOREM OfferIsUnique ==
    ASSUME NEW client \in ClientUpdateContext, NEW releases \in Catalog,
           NEW x \in Offered(client, releases), NEW y \in Offered(client, releases)
    PROVE  x = y
<1> SUFFICES ASSUME x # y PROVE FALSE
    OBVIOUS
<1>1. x \in Candidates(client, releases) /\ y \in Candidates(client, releases)
    BY DEF Offered
<1>2. Preferred(x, y) /\ Preferred(y, x)
    BY DEF Offered
<1> QED
    BY <1>1, <1>2, CandidatesAreOrdered

LEMMA PreferredTransitive ==
    ASSUME NEW x, NEW y, NEW z,
           \A r \in {x, y, z} : r.targetVersion \in Version /\ r.sequence \in Nat,
           Preferred(x, y), Preferred(y, z)
    PROVE  Preferred(x, z)
<1>1. CASE Newer(x.targetVersion, y.targetVersion) /\ Newer(y.targetVersion, z.targetVersion)
    BY <1>1, NewerTransitive DEF Preferred
<1>2. CASE x.targetVersion = y.targetVersion \/ y.targetVersion = z.targetVersion
    BY <1>2 DEF Preferred
<1> QED
    BY <1>1, <1>2 DEF Preferred

\* When a release applies, one is offered, and it is the only one: sorting any
\* finite catalog leaves a first candidate.
THEOREM OfferIsMade ==
    ASSUME NEW client \in ClientUpdateContext, NEW releases \in Catalog,
           IsFiniteSet(releases), Candidates(client, releases) # {}
    PROVE  \E x \in Candidates(client, releases) : Offered(client, releases) = {x}
<1> DEFINE S == Candidates(client, releases)
           Ahead(x) == {y \in S : Preferred(y, x)}
           Ranks == {Cardinality(Ahead(x)) : x \in S}
<1>1. \A x \in S : /\ x \in releases /\ x.targetVersion \in Version
                   /\ x.sequence \in Nat
    BY CandidateFacts
<1>2. \A x, y \in S : x # y => (Preferred(x, y) <=> ~Preferred(y, x))
    BY CandidatesAreOrdered
<1>3. \A x \in S : ~Preferred(x, x)
    BY <1>1, NewerAsymmetric DEF Preferred
<1>4. IsFiniteSet(S)
    BY <1>1, FS_Subset
<1> HIDE DEF S
<1>5. \A x \in S : IsFiniteSet(Ahead(x)) /\ Cardinality(Ahead(x)) \in Nat
    BY <1>4, FS_Subset, FS_CardinalityType
<1>6. PICK x \in S : \A y \in S : Cardinality(Ahead(x)) <= Cardinality(Ahead(y))
  <2>1. Ranks \in SUBSET Nat /\ Ranks # {}
    BY <1>5 DEF S
  <2>2. PICK n \in Ranks : \A m \in Ranks : n <= m
    <3> HIDE DEF Ranks
    <3> QED
        BY <2>1, LeastNatural
  <2> QED
    BY <2>2
<1>7. ASSUME NEW y \in S, y # x
      PROVE  Preferred(x, y)
  <2> SUFFICES ASSUME Preferred(y, x) PROVE FALSE
    BY <1>2, <1>7
  <2>1. \A z \in S : Preferred(z, y) => Preferred(z, x)
    BY <1>1, PreferredTransitive
  <2>2. Ahead(y) \subseteq Ahead(x) /\ y \in Ahead(x) /\ y \notin Ahead(y)
    BY <1>3, <2>1
  <2>3. Cardinality(Ahead(y)) <= Cardinality(Ahead(x))
        /\ Cardinality(Ahead(y)) # Cardinality(Ahead(x))
    BY <1>5, <2>2, FS_Subset
  <2> QED
    BY <1>5, <1>6, <2>3
<1>8. x \in Offered(client, releases)
    BY <1>7 DEF Offered, S
<1> QED
    BY <1>8, OfferIsUnique DEF S, Offered

\* What a client tells about itself once it has installed a release.
Updated(client, release) ==
    [client EXCEPT !.currentVersion = release.targetVersion,
                   !.installedSequence = release.sequence]

\* An installed update is never offered again, and neither is any release that
\* would take the client back to the version it had: there is no update loop,
\* whatever releases are published, enabled or disabled meanwhile.
THEOREM OfferIsProgress ==
    ASSUME NEW client \in ClientUpdateContext, NEW before \in Catalog, NEW after \in Catalog,
           NEW x \in Offered(client, before),
           NEW y \in Offered(Updated(client, x), after)
    PROVE  /\ \/ Newer(y.targetVersion, x.targetVersion)
              \/ y.targetVersion = x.targetVersion /\ y.sequence > x.sequence
           /\ ~Newer(client.currentVersion, y.targetVersion)
<1> DEFINE next == Updated(client, x)
<1>1. /\ x.targetVersion \in Version /\ x.sequence \in Nat
      /\ client.currentVersion \in Version
      /\ \/ Newer(x.targetVersion, client.currentVersion)
         \/ x.targetVersion = client.currentVersion
    BY CandidateFacts DEF Offered
<1>2. next \in ClientUpdateContext /\ next.currentVersion = x.targetVersion
                      /\ next.installedSequence = x.sequence
    BY <1>1 DEF Updated, ClientUpdateContext
<1> HIDE DEF next
<1>3. y \in Candidates(next, after)
    BY DEF Offered, next
<1>4. /\ y.targetVersion \in Version
      /\ \/ Newer(y.targetVersion, x.targetVersion)
         \/ y.targetVersion = x.targetVersion /\ y.sequence > x.sequence
    BY <1>2, <1>3, CandidateFacts
<1>5. Newer(y.targetVersion, client.currentVersion) \/ y.targetVersion = client.currentVersion
    BY <1>1, <1>4, NewerTransitive
<1>6. ~Newer(client.currentVersion, y.targetVersion)
    BY <1>1, <1>4, <1>5, NewerAsymmetric
<1> QED
    BY <1>4, <1>6

-----------------------------------------------------------------------------
(* Bags of handlers.                                                         *)

LEMMA BagAdd ==
    ASSUME NEW B, IsABag(B), NEW h
    PROVE  /\ IsABag(B (+) SetToBag({h}))
           /\ BagToSet(B (+) SetToBag({h})) = BagToSet(B) \cup {h}
BY DEF IsABag, BagToSet, SetToBag, (+)

LEMMA BagRemove ==
    ASSUME NEW B, IsABag(B), NEW h
    PROVE  /\ IsABag(B (-) SetToBag({h}))
           /\ BagToSet(B (-) SetToBag({h})) \subseteq BagToSet(B)
           /\ BagToSet(B) \ {h} \subseteq BagToSet(B (-) SetToBag({h}))
BY DEF IsABag, BagToSet, SetToBag, (-)

LEMMA NoHandlers == IsABag(EmptyBag) /\ BagToSet(EmptyBag) = {}
BY DEF IsABag, BagToSet, SetToBag, EmptyBag

-----------------------------------------------------------------------------
(* Types.                                                                    *)

\* TypeOK, and that the handlers awaited are a bag.
DispatchType == TypeOK /\ IsABag(pending)

LEMMA FreshType ==
    ASSUME NEW state \in {"new", "open", "closed"}
    PROVE  Fresh(state) \in Connection
BY ProfileAssumption DEF Fresh, AnyProfile, Connection

LEMMA RevisedType ==
    ASSUME TypeOK, NEW s \in Socket
    PROVE  Revised(s) \in Connection /\ \A b \in BOOLEAN : Rebound(s, b) \in Connection
<1>1. conn[s] \in Connection
    BY DEF TypeOK
<1>2. Revised(s) \in Connection
  <2> DEFINE c == conn[s]
             n == c.next
             m == n + 1
  <2>1. c \in Connection /\ n \in Nat /\ m \in Nat
      BY <1>1 DEF Connection
  <2>2. Revised(s) = [c EXCEPT !.subscription = n, !.next = m]
      BY DEF Revised
  <2> HIDE DEF c, n, m
  <2> QED
      BY <2>1, <2>2 DEF Connection
<1>3. ASSUME NEW b \in BOOLEAN
      PROVE  Rebound(s, b) \in Connection
  <2>1. (IF Subscribed(s) THEN Revised(s) ELSE conn[s]) \in Connection
      BY <1>1, <1>2
  <2> QED
      BY <2>1 DEF Rebound, Connection
<1> QED
    BY <1>2, <1>3

LEMMA CaptureType ==
    ASSUME NEW s \in Socket, NEW c \in Connection
    PROVE  Capture(s, c) \in Subscriber
BY DEF Capture, Subscriber, Connection

LEMMA SubscribersType == TypeOK => Subscribers \subseteq Subscriber
BY CaptureType DEF TypeOK, Subscribers, toSubscriber

LEMMA WantedType ==
    ASSUME NEW sub \in Subscriber, NEW r \in Revision
    PROVE  Wanted(sub, r) \in Payloads \cup {NoOffer}
BY DEF Wanted, Subscriber, Payloads

LEMMA ToldType ==
    ASSUME NEW prev \in Payloads \cup {NoOffer}, NEW want \in Payloads \cup {NoOffer},
           NEW force \in BOOLEAN
    PROVE  /\ Told(prev, want, force) \in Payloads \cup {NoOffer}
           /\ ToldLess(prev, want, force) \subseteq Payloads \cup {NoOffer}
BY DEF Told, ToldLess

LEMMA AwaitingType ==
    ASSUME IsABag(pending), BagToSet(pending) \subseteq Handler,
           NEW h \in Handler, Awaiting(h)
    PROVE  IsABag(pending') /\ BagToSet(pending') \subseteq Handler
<1>1. pending' = pending (+) SetToBag({h})
    BY DEF Awaiting
<1>2. IsABag(pending') /\ BagToSet(pending') = BagToSet(pending) \cup {h}
    BY <1>1, BagAdd
<1> QED
    BY <1>2

LEMMA DoneType ==
    ASSUME IsABag(pending), BagToSet(pending) \subseteq Handler, NEW h, Done(h)
    PROVE  IsABag(pending') /\ BagToSet(pending') \subseteq Handler
BY BagRemove DEF Done

LEMMA RecomputeType ==
    ASSUME TypeOK, IsABag(pending), NEW s \in Socket, NEW c \in Connection, Recompute(s, c)
    PROVE  IsABag(pending') /\ BagToSet(pending') \subseteq Handler
<1>1. CASE Subscribed(s)
  <2>1. [subscriber |-> Capture(s, c), force |-> FALSE] \in Handler
      BY CaptureType DEF Handler
  <2> QED
      BY <1>1, <2>1, AwaitingType DEF Recompute, TypeOK
<1>2. CASE ~Subscribed(s)
    BY <1>2 DEF Recompute, TypeOK
<1> QED
    BY <1>1, <1>2

LEMMA ToldByType ==
    ASSUME TypeOK, NEW t \in Task, NEW s \in Socket, NEW c \in SUBSET Subscriber
    PROVE  ToldBy(t, c, s) \in Payloads \cup {NoOffer}
<1> DEFINE subs == {sub \in c : sub.socket = s /\ isCurrent(sub)}
<1>1. CASE subs = {}
    BY <1>1 DEF ToldBy, TypeOK
<1>2. CASE subs # {}
  <2>1. PICK sub : sub = (CHOOSE x \in subs : TRUE) /\ sub \in subs
      BY <1>2
  <2>2. sub \in Subscriber /\ run[t].claimed \in Revision /\ delivered[s] \in Payloads \cup {NoOffer}
      BY <2>1 DEF TypeOK, Execution
  <2>3. ToldBy(t, c, s) = Told(delivered[s], Wanted(sub, run[t].claimed), TRUE)
      BY <1>2, <2>1 DEF ToldBy
  <2> QED
      BY <2>2, <2>3, WantedType, ToldType
<1> QED
    BY <1>1, <1>2

LEMMA ScanType ==
    ASSUME TypeOK, NEW t \in Task
    PROVE  ToScan(t) \subseteq Subscriber /\ Chunks(t) \subseteq SUBSET Subscriber
BY SubscribersType DEF TypeOK, ToScan, Chunks, Execution

LEMMA SentType ==
    ASSUME TypeOK, NEW t \in Task, NEW c \in SUBSET Subscriber, NEW e \in BOOLEAN,
           SentChunk(t, c, e)
    PROVE  run' \in [Task -> Execution]
<1>1. run[t] \in Execution /\ ToScan(t) \ c \in SUBSET Subscriber
    BY ScanType DEF TypeOK
<1> DEFINE x == [run[t] EXCEPT !.pc = "checking", !.captured = TRUE, !.todo = ToScan(t) \ c,
                               !.emitErrors = @ \/ e]
<1>2. x \in Execution
    BY <1>1 DEF Execution
<1>3. run' = [run EXCEPT ![t] = x]
    BY DEF SentChunk
<1> QED
    BY <1>2, <1>3 DEF TypeOK

LEMMA NotRunningType ==
    NotRunning \in Execution /\ \A r \in Revision :
        [NotRunning EXCEPT !.pc = "claimed", !.claimed = r] \in Execution
<1>1. 0 \in Revision
    BY RevisionAssumption DEF Revision
<1> QED
    BY <1>1 DEF NotRunning, Execution

LEMMA AttemptFailsType ==
    ASSUME TypeOK, NEW t \in Task, AttemptFails(t)
    PROVE  task' \in [Task -> TaskRow] /\ run' \in [Task -> Execution]
BY NotRunningType DEF AttemptFails, TypeOK, TaskRow

LEMMA AnswerType ==
    ASSUME TypeOK, NEW r \in Revision, Answer(r)
    PROVE  r <= revision /\ revision' \in Revision /\ floor' \in Revision /\ answered' \in Revision
BY RevisionAssumption DEF TypeOK, Answer, Answers, Revision

LEMMA PcType ==
    ASSUME TypeOK, NEW t \in Task,
           NEW pc \in {"idle", "claimed", "loading", "checking", "sending", "completing"}
    PROVE  [run EXCEPT ![t].pc = pc] \in [Task -> Execution]
<1>1. run[t] \in Execution /\ run \in [Task -> Execution]
    BY DEF TypeOK
<1>2. [run[t] EXCEPT !.pc = pc] \in Execution
    BY <1>1 DEF Execution
<1> QED
    BY <1>1, <1>2

LEMMA ClientType ==
    ASSUME DispatchType, NEW s \in Socket, Client(s) \/ MessageQueried(s)
    PROVE  DispatchType'
<1> USE DEF DispatchType
<1>1. CASE Connect(s) \/ Disconnect(s)
    BY <1>1, FreshType DEF TypeOK, Connect, Disconnect, promiseVars, taskVars
<1>2. CASE SubscribeApplication(s)
  <2>1. PICK p \in Profile :
            LET c == [Revised(s) EXCEPT !.profile = p] IN
            /\ conn' = [conn EXCEPT ![s] = c]
            /\ Awaiting([subscriber |-> Capture(s, c), force |-> TRUE])
      BY <1>2 DEF SubscribeApplication
  <2> DEFINE c == [Revised(s) EXCEPT !.profile = p]
  <2>2. c \in Connection
      BY RevisedType DEF Connection
  <2> HIDE DEF c
  <2>3. [subscriber |-> Capture(s, c), force |-> TRUE] \in Handler
      BY <2>2, CaptureType DEF Handler
  <2>4. conn' = [conn EXCEPT ![s] = c]
      BY <2>1 DEF c
  <2>5. IsABag(pending') /\ BagToSet(pending') \subseteq Handler
      BY <2>1, <2>3, AwaitingType DEF TypeOK, c
  <2> QED
      BY <1>2, <2>2, <2>4, <2>5 DEF TypeOK, SubscribeApplication, promiseVars, taskVars
<1>3. CASE UnsubscribeApplication(s)
    BY <1>3 DEF TypeOK, UnsubscribeApplication, Connection, promiseVars, taskVars
<1>4. CASE SubscribeUserId(s)
  <2>1. Rebound(s, TRUE) \in Connection
      BY RevisedType
  <2>2. querying' \in [Socket -> 0..MaxQueries]
      BY <1>4, BoundAssumption DEF TypeOK, SubscribeUserId
  <2> QED
      BY <1>4, <2>1, <2>2 DEF TypeOK, SubscribeUserId, promiseVars, taskVars
<1>5. CASE MessageQueried(s)
  <2>1. IsABag(pending') /\ BagToSet(pending') \subseteq Handler
      BY <1>5, RecomputeType DEF TypeOK, MessageQueried
  <2>2. querying' \in [Socket -> 0..MaxQueries]
      BY <1>5, BoundAssumption DEF TypeOK, MessageQueried
  <2> QED
      BY <1>5, <2>1, <2>2 DEF TypeOK, MessageQueried, promiseVars, taskVars
<1>6. CASE UnsubscribeUserId(s)
  <2>1. Rebound(s, FALSE) \in Connection
      BY RevisedType
  <2>2. IsABag(pending') /\ BagToSet(pending') \subseteq Handler
      BY <1>6, <2>1, RecomputeType DEF UnsubscribeUserId
  <2> QED
      BY <1>6, <2>1, <2>2 DEF TypeOK, UnsubscribeUserId, promiseVars, taskVars
<1> QED
    BY <1>1, <1>2, <1>3, <1>4, <1>5, <1>6 DEF Client

LEMMA HandlerType ==
    ASSUME DispatchType, NEW h \in BagToSet(pending), Handle(h)
    PROVE  DispatchType'
<1> USE DEF DispatchType
<1> DEFINE s == h.subscriber.socket
<1>1. h \in Handler /\ h.subscriber \in Subscriber /\ h.force \in BOOLEAN /\ s \in Socket
    BY DEF TypeOK, Handler, Subscriber
<1>2. Done(h) => IsABag(pending') /\ BagToSet(pending') \subseteq Handler
    BY DoneType DEF TypeOK
<1>3. CASE CatalogAnswered(h)
  <2>1. PICK r \in Revision : Answer(r) /\ Replay(h, r)
      BY <1>3 DEF CatalogAnswered
  <2> DEFINE want == Wanted(h.subscriber, r)
  <2>2. want \in Payloads \cup {NoOffer} /\ delivered[s] \in Payloads \cup {NoOffer}
      BY <1>1, WantedType DEF TypeOK
  <2>3. /\ Told(delivered[s], want, h.force) \in Payloads \cup {NoOffer}
        /\ ToldLess(delivered[s], want, h.force) \subseteq Payloads \cup {NoOffer}
      BY <1>1, <2>2, ToldType
  <2> HIDE DEF want
  <2>4. /\ delivered' \in [Socket -> Payloads \cup {NoOffer}]
        /\ missed' \subseteq Socket
        /\ faults' \in Nat
      BY <1>1, <2>1, <2>3 DEF Replay, TypeOK, Fault, want
  <2>5. revision' \in Revision /\ floor' \in Revision /\ answered' \in Revision
      BY <2>1, AnswerType
  <2> QED
      BY <1>2, <1>3, <2>4, <2>5 DEF CatalogAnswered, TypeOK, taskVars
<1>4. CASE CatalogFails(h)
    BY <1>1, <1>2, <1>4 DEF CatalogFails, TypeOK, Fault, promiseVars, taskVars
<1> QED
    BY <1>3, <1>4 DEF Handle

LEMMA ExecuteType ==
    ASSUME DispatchType, NEW t \in Task, Release(t) \/ Execute(t)
    PROVE  DispatchType'
<1> USE DEF DispatchType
<1>1. CASE Release(t)
    BY <1>1, RevisionAssumption
    DEF Release, Commit, TypeOK, Revision, TaskRow, socketVars
<1>2. CASE ClaimTask(t)
  <2>1. task' \in [Task -> TaskRow]
      BY <1>2 DEF ClaimTask, TypeOK, TaskRow
  <2>2. run' \in [Task -> Execution]
      BY <1>2, NotRunningType DEF ClaimTask, TypeOK
  <2> QED
      BY <1>2, <2>1, <2>2 DEF ClaimTask, TypeOK, socketVars, promiseVars
<1>3. CASE ForceLoad(t)
    BY <1>3, PcType DEF ForceLoad, Invalidate, TypeOK, socketVars
<1>4. CASE Loaded(t)
  <2>1. PICK r \in Revision :
            /\ Answer(r)
            /\ IF r = run[t].claimed
               THEN run' = [run EXCEPT ![t].pc = "checking"] /\ UNCHANGED task
               ELSE AttemptFails(t)
      BY <1>4 DEF Loaded
  <2>2. revision' \in Revision /\ floor' \in Revision /\ answered' \in Revision
      BY <2>1, AnswerType
  <2>3. task' \in [Task -> TaskRow] /\ run' \in [Task -> Execution]
      BY <2>1, AttemptFailsType, PcType DEF TypeOK
  <2> QED
      BY <1>4, <2>2, <2>3 DEF Loaded, TypeOK, socketVars
<1>5. CASE LeaseChecked(t)
  <2>1. task' \in [Task -> TaskRow] /\ run' \in [Task -> Execution]
      BY <1>5, AttemptFailsType, PcType DEF LeaseChecked, TypeOK
  <2> QED
      BY <1>5, <2>1 DEF LeaseChecked, TypeOK, socketVars, promiseVars
<1>6. CASE SendChunk(t)
  <2>1. PICK c \in Chunks(t) :
            /\ delivered' = [s \in Socket |-> ToldBy(t, c, s)]
            /\ missed' = missed \ Reached(c)
            /\ SentChunk(t, c, FALSE)
      BY <1>6 DEF SendChunk
  <2>2. c \in SUBSET Subscriber
      BY ScanType
  <2>3. run' \in [Task -> Execution]
      BY <2>1, <2>2, SentType
  <2>4. delivered' \in [Socket -> Payloads \cup {NoOffer}]
      BY <2>1, <2>2, ToldByType
  <2> QED
      BY <1>6, <2>1, <2>3, <2>4 DEF SendChunk, TypeOK, promiseVars
<1>7. CASE SendChunkFails(t)
  <2>0. PICK c \in Chunks(t) : \E sub \in {x \in c : isCurrent(x)} :
            /\ \E told \in ToldLess(delivered[sub.socket], Wanted(sub, run[t].claimed), TRUE) :
                  delivered' = [s \in Socket |->
                                  IF s = sub.socket THEN told ELSE ToldBy(t, c, s)]
            /\ missed' = missed \ Reached(c \ {sub})
            /\ SentChunk(t, c, TRUE)
      BY <1>7 DEF SendChunkFails
  <2>s. PICK sub \in {x \in c : isCurrent(x)} :
            /\ \E told \in ToldLess(delivered[sub.socket], Wanted(sub, run[t].claimed), TRUE) :
                  delivered' = [s \in Socket |->
                                  IF s = sub.socket THEN told ELSE ToldBy(t, c, s)]
            /\ missed' = missed \ Reached(c \ {sub})
            /\ SentChunk(t, c, TRUE)
      BY <2>0
  <2>1. PICK told \in ToldLess(delivered[sub.socket], Wanted(sub, run[t].claimed), TRUE) :
            /\ delivered' = [s \in Socket |->
                                IF s = sub.socket THEN told ELSE ToldBy(t, c, s)]
            /\ missed' = missed \ Reached(c \ {sub})
            /\ SentChunk(t, c, TRUE)
      BY <2>s
  <2>2. c \in SUBSET Subscriber /\ sub \in Subscriber
      BY ScanType
  <2>3. run' \in [Task -> Execution]
      BY <2>1, <2>2, SentType
  <2>4. told \in Payloads \cup {NoOffer}
    <3>1. sub.socket \in Socket /\ run[t].claimed \in Revision
        BY <2>2 DEF TypeOK, Execution, Subscriber
    <3>2. delivered[sub.socket] \in Payloads \cup {NoOffer}
        BY <3>1 DEF TypeOK
    <3> QED
        BY <2>1, <2>2, <3>1, <3>2, WantedType, ToldType
  <2>5. delivered' \in [Socket -> Payloads \cup {NoOffer}]
      BY <2>1, <2>2, <2>4, ToldByType
  <2> QED
      BY <1>7, <2>1, <2>3, <2>5 DEF SendChunkFails, TypeOK, Fault, promiseVars
<1>8. CASE Complete(t)
  <2>1. task' \in [Task -> TaskRow] /\ run' \in [Task -> Execution]
    <3>1. CASE revision = run[t].claimed
        BY <1>8, <3>1, NotRunningType DEF Complete, TypeOK, TaskRow
    <3>2. CASE revision # run[t].claimed
        BY <1>8, <3>2, AttemptFailsType DEF Complete
    <3> QED
        BY <3>1, <3>2
  <2> QED
      BY <1>8, <2>1 DEF Complete, TypeOK, socketVars, promiseVars
<1>9. CASE ExecutionFails(t)
    BY <1>9, AttemptFailsType DEF ExecutionFails, TypeOK, Fault, socketVars, promiseVars
<1> QED
    BY <1>1, <1>2, <1>3, <1>4, <1>5, <1>6, <1>7, <1>8, <1>9 DEF Execute

LEMMA DispatchTypeStep == DispatchType /\ [DispatchNext]_vars => DispatchType'
<1> SUFFICES ASSUME DispatchType, [DispatchNext]_vars
             PROVE  DispatchType'
    OBVIOUS
<1>1. CASE WriterInvalidates
    BY <1>1 DEF DispatchType, TypeOK, WriterInvalidates, Invalidate, socketVars, taskVars
<1>2. CASE UNCHANGED vars
    BY <1>2 DEF DispatchType, TypeOK, vars, promiseVars, socketVars, taskVars
<1> QED
    BY <1>1, <1>2, ClientType, HandlerType, ExecuteType DEF DispatchNext

LEMMA DispatchTypeInit == DispatchInit => DispatchType
BY FreshType, NoHandlers, RevisionAssumption, BoundAssumption
DEF DispatchInit, Init, DispatchType, TypeOK, Revision, TaskRow, Execution, NotRunning

-----------------------------------------------------------------------------
(* Executions.                                                               *)

\* The load has answered.
Active == {"checking", "sending", "completing"}

\* An execution belongs to an open task, captures its subscribers after its load,
\* which no catalog older than its claim has answered, and completes without errors.
Sound(t) ==
    /\ run[t].pc # "idle" => task[t].status = "open" /\ task[t].attempts > 0
    /\ run[t].pc \in {"claimed", "loading"} => ~run[t].captured
    /\ run[t].pc \in Active \cup {"loading"} => floor >= run[t].claimed
    /\ run[t].pc = "completing" =>
          run[t].captured /\ run[t].todo = {} /\ ~run[t].emitErrors
    /\ run[t].claimed <= revision

\* The inductive invariant of the executions.
ExecutionInv == DispatchType /\ floor <= revision /\ \A t \in Task : Sound(t)

\* The catalog only moves on.
LEMMA CatalogGrows ==
    ASSUME ExecutionInv, [DispatchNext]_vars
    PROVE  revision' >= revision /\ floor' >= floor /\ floor' <= revision'
<1>1. revision \in Nat /\ floor \in Nat /\ floor <= revision
    BY RevisionAssumption DEF ExecutionInv, DispatchType, TypeOK, Revision
<1>2. CASE UNCHANGED vars
    BY <1>1, <1>2 DEF vars, promiseVars
<1>3. CASE WriterInvalidates
    BY <1>1, <1>3 DEF WriterInvalidates, Invalidate
<1>4. ASSUME NEW s \in Socket, Client(s) \/ MessageQueried(s)
      PROVE  UNCHANGED promiseVars
    BY <1>4 DEF Client, Connect, Disconnect, SubscribeApplication, UnsubscribeApplication,
                SubscribeUserId, UnsubscribeUserId, MessageQueried
<1>5. ASSUME NEW h, Handle(h)
      PROVE  UNCHANGED <<revision, floor>>
    BY <1>5 DEF Handle, CatalogAnswered, CatalogFails, Answer, promiseVars
<1>6. ASSUME NEW t, Release(t)
      PROVE  revision' = revision + 1 /\ floor' = floor
    BY <1>6 DEF Release, Commit
<1>7. ASSUME NEW t, Execute(t)
      PROVE  revision' = revision /\ (floor' = floor \/ floor' = revision)
    BY <1>7 DEF Execute, ClaimTask, ForceLoad, Invalidate, Loaded, Answer, LeaseChecked,
                SendChunk, SendChunkFails, Complete, ExecutionFails, promiseVars
<1> QED
    BY <1>1, <1>2, <1>3, <1>4, <1>5, <1>6, <1>7 DEF DispatchNext, promiseVars

LEMMA StillSound ==
    ASSUME ExecutionInv, [DispatchNext]_vars, NEW u \in Task, run'[u] = run[u],
           task'[u] = task[u] \/ run[u].pc = "idle"
    PROVE  Sound(u)'
<1>1. revision' >= revision /\ floor' >= floor
    BY CatalogGrows
<1>2. /\ revision \in Nat /\ revision' \in Nat /\ floor \in Nat /\ floor' \in Nat
      /\ run[u].claimed \in Nat
    BY DispatchTypeStep, RevisionAssumption
    DEF ExecutionInv, DispatchType, TypeOK, Revision, Execution
<1>3. run[u].claimed <= revision' /\ (floor >= run[u].claimed => floor' >= run[u].claimed)
    BY <1>1, <1>2 DEF ExecutionInv, Sound
<1> QED
    BY <1>3 DEF ExecutionInv, Sound

\* A failed attempt leaves the execution idle and the task unfinished.
LEMMA AfterFailure ==
    ASSUME ExecutionInv, [DispatchNext]_vars, NEW t \in Task, AttemptFails(t)
    PROVE  /\ Sound(t)'
           /\ run'[t].pc = "idle" /\ task'[t].status \in {"open", "failed"}
           /\ task'[t].attempts = task[t].attempts
           /\ \A u \in Task \ {t} : run'[u] = run[u] /\ task'[u] = task[u]
<1>1. run'[t] = NotRunning /\ \A u \in Task \ {t} : run'[u] = run[u] /\ task'[u] = task[u]
    BY DEF AttemptFails, ExecutionInv, DispatchType, TypeOK
<1>2. task'[t].status \in {"open", "failed"} /\ task'[t].attempts = task[t].attempts
    BY DEF AttemptFails, ExecutionInv, DispatchType, TypeOK, TaskRow
<1>3. 0 <= revision'
    BY DispatchTypeStep, RevisionAssumption DEF ExecutionInv, DispatchType, TypeOK, Revision
<1>4. run'[t].pc = "idle" /\ run'[t].claimed = 0
    BY <1>1 DEF NotRunning
<1>5. Sound(t)'
    BY <1>3, <1>4 DEF Sound, Active
<1> QED
    BY <1>1, <1>2, <1>4, <1>5

\* What a chunk leaves of the execution.
LEMMA AfterChunk ==
    ASSUME TypeOK, NEW t \in Task, NEW c, NEW e \in BOOLEAN, SentChunk(t, c, e)
    PROVE  /\ run'[t].pc = "checking" /\ run'[t].claimed = run[t].claimed
           /\ run'[t].captured /\ run'[t].todo = ToScan(t) \ c
           /\ e \/ run[t].emitErrors => run'[t].emitErrors
           /\ \A u \in Task \ {t} : run'[u] = run[u]
<1> DEFINE x == [run[t] EXCEPT !.pc = "checking", !.captured = TRUE, !.todo = ToScan(t) \ c,
                               !.emitErrors = @ \/ e]
<1>1. run[t] \in Execution
    BY DEF TypeOK
<1>2. /\ x.pc = "checking" /\ x.claimed = run[t].claimed /\ x.captured
      /\ x.todo = ToScan(t) \ c /\ x.emitErrors = (run[t].emitErrors \/ e)
    BY <1>1 DEF Execution
<1>3. run' = [run EXCEPT ![t] = x]
    BY DEF SentChunk
<1> HIDE DEF x
<1>4. run'[t] = x /\ \A u \in Task \ {t} : run'[u] = run[u]
    BY <1>3 DEF TypeOK
<1> QED
    BY <1>2, <1>4

\* A step of t leaves the other tasks alone, and t's execution sound.
LEMMA ExecuteSound ==
    ASSUME ExecutionInv, [DispatchNext]_vars, NEW t \in Task, Execute(t)
    PROVE  /\ Sound(t)'
           /\ \A u \in Task \ {t} : run'[u] = run[u] /\ task'[u] = task[u]
<1>0. /\ run[t] \in Execution /\ task[t] \in TaskRow
      /\ run \in [Task -> Execution] /\ task \in [Task -> TaskRow]
      /\ Sound(t)
    BY DEF ExecutionInv, DispatchType, TypeOK
<1>n. /\ revision \in Nat /\ floor \in Nat /\ floor <= revision /\ run[t].claimed \in Nat
      /\ task[t].attempts \in Nat /\ revision <= revision
      /\ run[t].claimed <= revision
    BY <1>0, RevisionAssumption
    DEF ExecutionInv, DispatchType, TypeOK, Revision, Execution, TaskRow, Sound
<1>1. CASE ClaimTask(t)
  <2>1. /\ run'[t] = [NotRunning EXCEPT !.pc = "claimed", !.claimed = revision]
        /\ task'[t].status = "open" /\ task'[t].attempts = task[t].attempts + 1
        /\ revision' = revision
        /\ \A u \in Task \ {t} : run'[u] = run[u] /\ task'[u] = task[u]
      BY <1>0, <1>1 DEF ClaimTask, TaskRow, promiseVars
  <2>2. task'[t].attempts > 0
      BY <1>n, <2>1
  <2>3. run'[t].pc = "claimed" /\ ~run'[t].captured /\ run'[t].claimed = revision
      BY <2>1 DEF NotRunning
  <2> QED
      BY <1>n, <2>1, <2>2, <2>3 DEF Sound, Active
<1>2. CASE ForceLoad(t)
  <2>1. /\ run'[t] = [run[t] EXCEPT !.pc = "loading"]
        /\ task' = task /\ revision' = revision /\ floor' = revision
        /\ \A u \in Task \ {t} : run'[u] = run[u]
      BY <1>0, <1>2 DEF ForceLoad, Invalidate
  <2>2. /\ run'[t].pc = "loading" /\ run'[t].claimed = run[t].claimed
        /\ run'[t].captured = run[t].captured /\ run[t].pc = "claimed"
      BY <1>0, <1>2, <2>1 DEF ForceLoad, Execution
  <2> QED
      BY <1>0, <1>n, <2>1, <2>2 DEF Sound, Active
<1>3. CASE Loaded(t)
  <2>1. \/ AttemptFails(t)
        \/ /\ run' = [run EXCEPT ![t].pc = "checking"]
           /\ task' = task /\ revision' = revision /\ floor' = floor /\ run[t].pc = "loading"
      BY <1>3 DEF Loaded, Answer
  <2>2. CASE run' = [run EXCEPT ![t].pc = "checking"] /\ task' = task
             /\ revision' = revision /\ floor' = floor /\ run[t].pc = "loading"
    <3>1. /\ run'[t].pc = "checking" /\ run'[t].claimed = run[t].claimed
          /\ \A u \in Task \ {t} : run'[u] = run[u]
        BY <1>0, <2>2 DEF Execution
    <3> QED
        BY <1>0, <2>2, <3>1 DEF Sound, Active
  <2> QED
      BY <2>1, <2>2, AfterFailure
<1>4. CASE LeaseChecked(t)
  <2>1. CASE AttemptFails(t)
      BY <2>1, AfterFailure
  <2>2. CASE ~AttemptFails(t)
    <3> DEFINE done == run[t].captured /\ run[t].todo = {}
               pc == IF done THEN "completing" ELSE "sending"
    <3>1. /\ run' = [run EXCEPT ![t].pc = pc] /\ task' = task
          /\ revision' = revision /\ floor' = floor /\ run[t].pc = "checking"
          /\ done => ~run[t].emitErrors
        BY <1>4, <2>2 DEF LeaseChecked, promiseVars
    <3>2. /\ run'[t].pc = pc /\ run'[t].claimed = run[t].claimed
          /\ run'[t].captured = run[t].captured /\ run'[t].todo = run[t].todo
          /\ run'[t].emitErrors = run[t].emitErrors
          /\ \A u \in Task \ {t} : run'[u] = run[u]
        BY <1>0, <3>1 DEF Execution
    <3> QED
        BY <1>0, <3>1, <3>2 DEF Sound, Active
  <2> QED
      BY <2>1, <2>2
<1>5. CASE SendChunk(t) \/ SendChunkFails(t)
  <2>1. \E c : SentChunk(t, c, FALSE) \/ SentChunk(t, c, TRUE)
      BY <1>5 DEF SendChunk, SendChunkFails
  <2>2. /\ task' = task /\ revision' = revision /\ floor' = floor /\ run[t].pc = "sending"
      BY <1>5 DEF SendChunk, SendChunkFails, promiseVars
  <2>3. /\ run'[t].pc = "checking" /\ run'[t].claimed = run[t].claimed
        /\ \A u \in Task \ {t} : run'[u] = run[u]
      BY <2>1, AfterChunk DEF ExecutionInv, DispatchType
  <2> QED
      BY <1>0, <2>2, <2>3 DEF Sound, Active
<1>6. CASE Complete(t)
  <2>1. CASE AttemptFails(t)
      BY <2>1, AfterFailure
  <2>2. CASE ~AttemptFails(t)
    <3>1. /\ run'[t] = NotRunning /\ revision' = revision
          /\ \A u \in Task \ {t} : run'[u] = run[u] /\ task'[u] = task[u]
        BY <1>0, <1>6, <2>2 DEF Complete, promiseVars
    <3>2. run'[t].pc = "idle" /\ run'[t].claimed = 0
        BY <3>1 DEF NotRunning
    <3> QED
        BY <1>n, <3>1, <3>2 DEF Sound, Active
  <2> QED
      BY <2>1, <2>2
<1>7. CASE ExecutionFails(t)
    BY <1>7, AfterFailure DEF ExecutionFails
<1> QED
    BY <1>1, <1>2, <1>3, <1>4, <1>5, <1>6, <1>7 DEF Execute

LEMMA ExecutionStep == ExecutionInv /\ [DispatchNext]_vars => ExecutionInv'
<1> SUFFICES ASSUME ExecutionInv, [DispatchNext]_vars
             PROVE  ExecutionInv'
    OBVIOUS
<1>1. DispatchType' /\ floor' <= revision'
    BY DispatchTypeStep, CatalogGrows DEF ExecutionInv
<1>2. ASSUME NEW u \in Task
      PROVE  Sound(u)'
  <2>1. CASE UNCHANGED <<task, run>>
      BY <2>1, StillSound
  <2>2. CASE \E t \in Task : Execute(t)
      BY <2>2, ExecuteSound, StillSound
  <2>3. CASE \E t \in Task : Release(t)
    <3>1. PICK t \in Task : Release(t)
        BY <2>3
    <3>2. run' = run /\ task[t].status = "absent"
        BY <3>1 DEF Release
    <3>3. u # t => task'[u] = task[u]
        BY <3>1 DEF Release, ExecutionInv, DispatchType, TypeOK
    <3>4. run[t].pc = "idle"
        BY <3>2 DEF ExecutionInv, Sound
    <3> QED
        BY <3>2, <3>3, <3>4, StillSound
  <2> QED
      BY <2>1, <2>2, <2>3 DEF DispatchNext, vars, taskVars, Client, Connect, Disconnect,
         SubscribeApplication, UnsubscribeApplication, SubscribeUserId, UnsubscribeUserId,
         MessageQueried, Handle, CatalogAnswered, CatalogFails, WriterInvalidates
<1> QED
    BY <1>1, <1>2 DEF ExecutionInv

LEMMA ExecutionInit == DispatchInit => ExecutionInv
<1> SUFFICES ASSUME DispatchInit
             PROVE  ExecutionInv
    OBVIOUS
<1>1. revision = 0 /\ floor = 0 /\ \A t \in Task : run[t] = NotRunning
    BY DEF DispatchInit, Init
<1>2. NotRunning.pc = "idle" /\ NotRunning.claimed = 0
    BY DEF NotRunning
<1> QED
    BY <1>1, <1>2, DispatchTypeInit DEF ExecutionInv, Sound, Active

-----------------------------------------------------------------------------
(* Subscriptions.                                                            *)

\* What was captured of a connection is what it is subscribed with, unless the
\* subscription has been replaced or removed since: its revision is not used again.
Faithful(sub) ==
    LET c == conn[sub.socket] IN
    /\ c.state # "new"
    /\ c.state = "open" => sub.subscription < c.next
    /\ isCurrent(sub) => sub = toSubscriber(sub.socket)

\* Only an open connection is subscribed, under a revision already counted.
Connections ==
    \A s \in Socket :
        /\ conn[s].subscription < conn[s].next
        /\ conn[s].state # "open" => ~Subscribed(s)

\* What the handlers and the executions have captured is faithful.
Captured ==
    /\ \A h \in BagToSet(pending) : Faithful(h.subscriber)
    /\ \A t \in Task : \A sub \in run[t].todo : Faithful(sub)

\* The inductive invariant of the subscriptions.
SubscriptionInv == DispatchType /\ Connections /\ Captured /\ NoDeadDeliveries

\* What an operation of a client makes of the connection of s.
Moves(s, c) ==
    /\ c \in Connection /\ conn' = [conn EXCEPT ![s] = c]
    /\ c.state # "new"
    /\ c.state = "open" => \/ conn[s].state = "new"
                           \/ conn[s].state = "open" /\ c.next >= conn[s].next
    /\ c.subscription < c.next
    /\ c.state # "open" => c.subscription = 0
    /\ \/ c.subscription = 0
       \/ conn[s].state = "open" /\ c.subscription = conn[s].next

\* No delivery record is left where nothing is subscribed.
Forgets(s, c) ==
    /\ \/ delivered' = delivered
       \/ delivered' = [delivered EXCEPT ![s] = NoOffer]
    /\ c.subscription = 0 => ~Subscribed(s) \/ delivered'[s] = NoOffer

\* What is captured for a handler is the connection as it now is.
Replays(s, c) ==
    \/ pending' = pending
    \/ /\ c.state = "open" /\ c.subscription > 0
       /\ \E f \in BOOLEAN : Awaiting([subscriber |-> Capture(s, c), force |-> f])

LEMMA StillFaithful ==
    ASSUME TypeOK, NEW s \in Socket, NEW c, Moves(s, c),
           NEW sub \in Subscriber, Faithful(sub)
    PROVE  Faithful(sub)'
<1>1. sub.socket \in Socket /\ sub.subscription \in Nat /\ conn[s] \in Connection /\ c \in Connection
    BY DEF Moves, Subscriber, TypeOK
<1>2. CASE sub.socket # s
  <2>1. conn'[sub.socket] = conn[sub.socket]
      BY <1>1, <1>2 DEF Moves, TypeOK
  <2> QED
      BY <2>1 DEF Faithful, isCurrent, Subscribed, toSubscriber
<1>3. CASE sub.socket = s
  <2>1. conn'[sub.socket] = c
      BY <1>3 DEF Moves, TypeOK
  <2>2. c.next \in Nat /\ conn[s].next \in Nat /\ c.subscription \in Nat
      BY <1>1 DEF Connection
  <2>3. c.state # "new" /\ (c.state = "open" => sub.subscription < c.next)
      BY <1>1, <1>3, <2>2 DEF Moves, Faithful
  <2>4. ~isCurrent(sub)'
      BY <1>1, <1>3, <2>1, <2>2 DEF Moves, Faithful, isCurrent, Subscribed
  <2> QED
      BY <2>1, <2>3, <2>4 DEF Faithful
<1> QED
    BY <1>2, <1>3

LEMMA SameConnections ==
    ASSUME conn' = conn, NEW sub, Faithful(sub)
    PROVE  Faithful(sub)'
BY DEF Faithful, isCurrent, Subscribed, toSubscriber

\* The capture of a connection that is subscribed is faithful.
LEMMA CaptureFaithful ==
    ASSUME TypeOK, Connections, NEW s \in Socket, Subscribed(s)
    PROVE  Faithful(toSubscriber(s))
BY DEF Faithful, Connections, toSubscriber, Capture, Subscribed, TypeOK, Connection

LEMMA NewCaptureFaithful ==
    ASSUME TypeOK, NEW s \in Socket, NEW c, Moves(s, c), c.state = "open"
    PROVE  Faithful(Capture(s, c))'
<1>1. conn'[s] = c
    BY DEF Moves, TypeOK
<1> QED
    BY <1>1 DEF Faithful, Moves, toSubscriber, Capture

\* An operation of a client keeps what was captured, and no delivery record of a
\* socket that is not subscribed.
LEMMA ClientMoves ==
    ASSUME TypeOK, Connections, NEW s \in Socket, Client(s)
    PROVE  \E c : Moves(s, c) /\ Forgets(s, c) /\ Replays(s, c)
<1>0. /\ conn[s] \in Connection /\ conn[s].next \in Nat /\ conn[s].subscription \in Nat
      /\ conn[s].subscription < conn[s].next
      /\ conn[s].next > 0 /\ conn[s].next # 0 /\ conn[s].next >= conn[s].next
      /\ conn[s].state # "open" => conn[s].subscription = 0
    BY DEF TypeOK, Connection, Connections, Subscribed
<1>r. /\ Revised(s) \in Connection
      /\ Revised(s).state = conn[s].state
      /\ Revised(s).subscription = conn[s].next
      /\ Revised(s).next >= conn[s].next /\ Revised(s).next > conn[s].next
  <2> DEFINE n == conn[s].next
             m == n + 1
  <2>1. m >= n /\ m > n
      BY <1>0
  <2>2. Revised(s) = [conn[s] EXCEPT !.subscription = n, !.next = m]
      BY DEF Revised
  <2> HIDE DEF m
  <2> QED
      BY <1>0, <2>1, <2>2, RevisedType DEF Connection
<1>b. ASSUME NEW b \in BOOLEAN, conn[s].state = "open"
      PROVE  /\ Rebound(s, b) \in Connection
             /\ Rebound(s, b).state = "open"
             /\ Subscribed(s) => /\ Rebound(s, b).subscription = conn[s].next
                                 /\ Rebound(s, b).next >= conn[s].next
                                 /\ conn[s].next < Rebound(s, b).next
             /\ ~Subscribed(s) => /\ Rebound(s, b).subscription = 0
                                  /\ Rebound(s, b).next = conn[s].next
  <2>1. CASE Subscribed(s)
    <3>1. Rebound(s, b) = [Revised(s) EXCEPT !.bound = b]
        BY <2>1 DEF Rebound
    <3> QED
        BY <1>r, <1>b, <2>1, <3>1, RevisedType DEF Connection
  <2>2. CASE ~Subscribed(s)
    <3>1. Rebound(s, b) = [conn[s] EXCEPT !.bound = b]
        BY <2>2 DEF Rebound
    <3> QED
        BY <1>0, <1>b, <2>2, <3>1, RevisedType DEF Connection, Subscribed
  <2> QED
      BY <2>1, <2>2
<1>f. ASSUME NEW state \in {"open", "closed"}
      PROVE  /\ Fresh(state) \in Connection
             /\ Fresh(state).state = state /\ Fresh(state).subscription = 0 /\ Fresh(state).next = 1
    BY FreshType DEF Fresh
<1>1. CASE Connect(s)
  <2> DEFINE c == Fresh("open")
  <2>1. Moves(s, c)
      BY <1>1, <1>f DEF Connect, Moves
  <2>2. Forgets(s, c) /\ Replays(s, c)
      BY <1>0, <1>1 DEF Connect, Forgets, Replays, Subscribed
  <2> QED
      BY <2>1, <2>2
<1>2. CASE Disconnect(s)
  <2> DEFINE c == Fresh("closed")
  <2>1. Moves(s, c)
      BY <1>2, <1>f DEF Disconnect, Moves
  <2>2. Forgets(s, c) /\ Replays(s, c)
      BY <1>2 DEF Disconnect, Forgets, Replays, TypeOK
  <2> QED
      BY <2>1, <2>2
<1>3. CASE SubscribeApplication(s)
  <2>1. PICK p \in Profile :
            LET c == [Revised(s) EXCEPT !.profile = p] IN
            /\ conn' = [conn EXCEPT ![s] = c]
            /\ Awaiting([subscriber |-> Capture(s, c), force |-> TRUE])
      BY <1>3 DEF SubscribeApplication
  <2> DEFINE c == [Revised(s) EXCEPT !.profile = p]
  <2>2. /\ c \in Connection
        /\ c.state = "open" /\ c.subscription = conn[s].next
        /\ c.next >= conn[s].next /\ c.subscription < c.next
      BY <1>3, <1>r DEF SubscribeApplication, Connection
  <2>3. /\ conn' = [conn EXCEPT ![s] = c]
        /\ Awaiting([subscriber |-> Capture(s, c), force |-> TRUE])
        /\ delivered' = delivered
      BY <1>3, <2>1 DEF SubscribeApplication
  <2> HIDE DEF c
  <2>4. Moves(s, c)
      BY <1>0, <1>3, <2>2, <2>3 DEF SubscribeApplication, Moves
  <2>5. c.subscription > 0 /\ c.subscription # 0
      BY <1>0, <2>2
  <2>6. Forgets(s, c) /\ Replays(s, c)
      BY <2>2, <2>3, <2>5 DEF Forgets, Replays
  <2> QED
      BY <2>4, <2>6
<1>4. CASE UnsubscribeApplication(s)
  <2> DEFINE c == [conn[s] EXCEPT !.subscription = 0]
  <2>1. c \in Connection /\ c.state = conn[s].state /\ c.subscription = 0 /\ c.next = conn[s].next
      BY <1>0 DEF Connection
  <2>2. conn' = [conn EXCEPT ![s] = c] /\ conn[s].state = "open"
      BY <1>0, <1>4 DEF UnsubscribeApplication, Subscribed
  <2>3. /\ delivered' = [delivered EXCEPT ![s] = NoOffer]
        /\ pending' = pending
      BY <1>4 DEF UnsubscribeApplication
  <2> HIDE DEF c
  <2>4. Moves(s, c)
      BY <1>0, <2>1, <2>2 DEF Moves
  <2>5. Forgets(s, c) /\ Replays(s, c)
      BY <2>3 DEF Forgets, Replays, TypeOK
  <2> QED
      BY <2>4, <2>5
<1>5. CASE SubscribeUserId(s)
  <2>1. Moves(s, Rebound(s, TRUE))
      BY <1>0, <1>5, <1>b DEF SubscribeUserId, Moves
  <2>2. Forgets(s, Rebound(s, TRUE)) /\ Replays(s, Rebound(s, TRUE))
      BY <1>0, <1>5, <1>b DEF SubscribeUserId, Forgets, Replays
  <2> QED
      BY <2>1, <2>2
<1>6. CASE UnsubscribeUserId(s)
  <2>1. Moves(s, Rebound(s, FALSE))
      BY <1>0, <1>6, <1>b DEF UnsubscribeUserId, Moves
  <2>2. Forgets(s, Rebound(s, FALSE))
      BY <1>0, <1>6, <1>b DEF UnsubscribeUserId, Forgets
  <2>3. Replays(s, Rebound(s, FALSE))
      BY <1>0, <1>6, <1>b DEF UnsubscribeUserId, Recompute, Replays
  <2> QED
      BY <2>1, <2>2, <2>3
<1> QED
    BY <1>1, <1>2, <1>3, <1>4, <1>5, <1>6 DEF Client

LEMMA ScanFaithful ==
    ASSUME SubscriptionInv, NEW t \in Task
    PROVE  /\ ToScan(t) \subseteq Subscriber
           /\ \A sub \in ToScan(t) : Faithful(sub)
<1> USE DEF SubscriptionInv, DispatchType
<1>1. CASE run[t].captured
    BY <1>1, ScanType DEF ToScan, Captured
<1>2. CASE ~run[t].captured
  <2>1. \A s \in Socket : Subscribed(s) => Faithful(toSubscriber(s))
      BY CaptureFaithful
  <2> QED
      BY <1>2, <2>1, ScanType DEF ToScan, Subscribers
<1> QED
    BY <1>1, <1>2

\* A chunk reaches exactly the sockets whose present subscription is in it.
LEMMA ChunkReaches ==
    ASSUME SubscriptionInv, NEW t \in Task, NEW c \in SUBSET ToScan(t), NEW s \in Socket
    PROVE  /\ s \notin Reached(c) => ToldBy(t, c, s) = delivered[s]
           /\ s \in Reached(c) =>
                 /\ Subscribed(s) /\ toSubscriber(s) \in c
                 /\ ToldBy(t, c, s) =
                       Told(delivered[s], Wanted(toSubscriber(s), run[t].claimed), TRUE)
<1> DEFINE subs == {sub \in c : sub.socket = s /\ isCurrent(sub)}
<1>1. s \in Reached(c) <=> subs # {}
    BY DEF Reached
<1>2. ASSUME NEW sub \in subs
      PROVE  sub = toSubscriber(s) /\ Subscribed(s) /\ sub \in c
    BY <1>2, ScanFaithful DEF Faithful, isCurrent
<1>3. CASE subs = {}
    BY <1>1, <1>3 DEF ToldBy
<1>4. CASE subs # {}
  <2>1. (CHOOSE sub \in subs : TRUE) \in subs
      BY <1>4
  <2>2. (CHOOSE sub \in subs : TRUE) = toSubscriber(s)
      BY <1>2, <2>1
  <2> QED
      BY <1>1, <1>2, <1>4, <2>1, <2>2 DEF ToldBy
<1> QED
    BY <1>3, <1>4

\* What a step tells a socket: nothing new, nothing at all, or what its present
\* subscription is offered at a committed revision.
LEMMA Push ==
    ASSUME SubscriptionInv, ExecutionInv, [DispatchNext]_vars, NEW s \in Socket
    PROVE  \/ delivered'[s] = delivered[s]
           \/ delivered'[s] = NoOffer
           \/ /\ UNCHANGED conn /\ Subscribed(s)
              /\ \E r \in 0..revision : delivered'[s] = Wanted(toSubscriber(s), r)
<1> USE DEF SubscriptionInv, DispatchType
<1>0. /\ revision \in Nat /\ delivered \in [Socket -> Payloads \cup {NoOffer}]
    BY RevisionAssumption DEF TypeOK, Revision
<1>1. CASE UNCHANGED delivered
    BY <1>1
<1>2. ASSUME NEW x \in Socket, Client(x)
      PROVE  delivered'[s] = delivered[s] \/ delivered'[s] = NoOffer
  <2>1. delivered' = delivered \/ delivered' = [delivered EXCEPT ![x] = NoOffer]
      BY <1>2, ClientMoves DEF Forgets
  <2> QED
      BY <1>0, <2>1
<1>3. ASSUME NEW h \in BagToSet(pending), CatalogAnswered(h)
      PROVE  \/ delivered'[s] = delivered[s]
             \/ delivered'[s] = NoOffer
             \/ /\ UNCHANGED conn /\ Subscribed(s)
                /\ \E r \in 0..revision : delivered'[s] = Wanted(toSubscriber(s), r)
  <2> DEFINE x == h.subscriber.socket
  <2>1. PICK r \in Revision : Answer(r) /\ Replay(h, r)
      BY <1>3 DEF CatalogAnswered
  <2>2. r \in 0..revision /\ UNCHANGED conn
      BY <1>3, <2>1 DEF Answer, Answers, CatalogAnswered
  <2>3. CASE ~isCurrent(h.subscriber) \/ x # s
      BY <1>0, <2>1, <2>3 DEF Replay
  <2>4. CASE isCurrent(h.subscriber) /\ x = s
    <3>1. h.subscriber = toSubscriber(s) /\ Subscribed(s)
        BY <1>3, <2>4 DEF Captured, Faithful, isCurrent
    <3>2. delivered'[s] \in {delivered[s], NoOffer, Wanted(h.subscriber, r)}
        BY <1>0, <2>1, <2>4 DEF Replay, Told, ToldLess
    <3> QED
        BY <2>2, <3>1, <3>2
  <2> QED
      BY <2>3, <2>4
<1>4. ASSUME NEW t \in Task, SendChunk(t) \/ SendChunkFails(t)
      PROVE  \/ delivered'[s] = delivered[s]
             \/ delivered'[s] = NoOffer
             \/ /\ UNCHANGED conn /\ Subscribed(s)
                /\ \E r \in 0..revision : delivered'[s] = Wanted(toSubscriber(s), r)
  <2>1. UNCHANGED conn /\ run[t].claimed \in 0..revision
    <3>1. run[t].claimed \in Nat /\ run[t].claimed <= revision
        BY RevisionAssumption DEF TypeOK, Execution, Revision, ExecutionInv, Sound
    <3>2. run[t].claimed \in 0..revision
        BY <1>0, <3>1
    <3> QED
        BY <1>4, <3>2 DEF SendChunk, SendChunkFails
  <2>2. PICK c \in SUBSET ToScan(t) :
           \/ delivered'[s] = ToldBy(t, c, s)
           \/ \E sub \in c : /\ s = sub.socket
                             /\ delivered'[s] \in
                                   ToldLess(delivered[s], Wanted(sub, run[t].claimed), TRUE)
      BY <1>4 DEF SendChunk, SendChunkFails, Chunks
  <2>3. CASE delivered'[s] = ToldBy(t, c, s)
    <3>1. CASE s \in Reached(c)
      <4>1. /\ Subscribed(s)
            /\ delivered'[s] \in {delivered[s], NoOffer, Wanted(toSubscriber(s), run[t].claimed)}
          BY <2>3, <3>1, ChunkReaches DEF Told
      <4> QED
          BY <2>1, <4>1
    <3>2. CASE s \notin Reached(c)
        BY <2>3, <3>2, ChunkReaches
    <3> QED
        BY <3>1, <3>2
  <2>4. CASE \E sub \in c : /\ s = sub.socket
                            /\ delivered'[s] \in
                                  ToldLess(delivered[s], Wanted(sub, run[t].claimed), TRUE)
      BY <2>4 DEF ToldLess
  <2> QED
      BY <2>2, <2>3, <2>4
<1> QED
    BY <1>1, <1>2, <1>3, <1>4 DEF DispatchNext, Handle, Execute, vars, socketVars,
       MessageQueried, CatalogFails, Release, ClaimTask, ForceLoad, Loaded, LeaseChecked,
       Complete, ExecutionFails, WriterInvalidates

LEMMA SubscriptionStep ==
    ASSUME SubscriptionInv, ExecutionInv, [DispatchNext]_vars
    PROVE  SubscriptionInv'
<1> USE DEF SubscriptionInv, DispatchType
<1>0. /\ DispatchType'
      /\ \A h \in BagToSet(pending) : h.subscriber \in Subscriber
      /\ \A t \in Task : run[t].todo \subseteq Subscriber
    BY DispatchTypeStep DEF TypeOK, Handler, Execution
<1>1. ASSUME NEW s \in Socket, Client(s)
      PROVE  Connections' /\ Captured' /\ NoDeadDeliveries'
  <2>1. PICK c : Moves(s, c) /\ Forgets(s, c) /\ Replays(s, c)
      BY <1>1, ClientMoves
  <2>2. conn'[s] = c /\ (\A x \in Socket \ {s} : conn'[x] = conn[x]) /\ run' = run
      BY <1>1, <2>1 DEF Moves, TypeOK, Client, Connect, Disconnect, SubscribeApplication,
         UnsubscribeApplication, SubscribeUserId, UnsubscribeUserId, taskVars
  <2>3. Connections'
    <3>1. c.subscription < c.next /\ (c.state # "open" => ~(c.subscription > 0))
        BY <2>1 DEF Moves
    <3> QED
        BY <2>2, <3>1 DEF Connections, Subscribed
  <2>4. \A sub \in Subscriber : Faithful(sub) => Faithful(sub)'
      BY <2>1, StillFaithful
  <2>5. \A h \in BagToSet(pending') : Faithful(h.subscriber)'
    <3>1. CASE pending' = pending
        BY <1>0, <2>4, <3>1 DEF Captured
    <3>2. CASE pending' # pending
      <4>1. PICK f \in BOOLEAN :
                c.state = "open" /\ Awaiting([subscriber |-> Capture(s, c), force |-> f])
          BY <2>1, <3>2 DEF Replays
      <4>2. BagToSet(pending') =
                BagToSet(pending) \cup {[subscriber |-> Capture(s, c), force |-> f]}
          BY <4>1, BagAdd DEF Awaiting
      <4>3. Faithful(Capture(s, c))'
          BY <2>1, <4>1, NewCaptureFaithful
      <4> QED
          BY <1>0, <2>4, <4>2, <4>3 DEF Captured
    <3> QED
        BY <3>1, <3>2
  <2>6. Captured'
      BY <1>0, <2>2, <2>4, <2>5 DEF Captured
  <2>7. NoDeadDeliveries'
    <3> SUFFICES ASSUME NEW x \in Socket, delivered'[x] # NoOffer
                 PROVE  Subscribed(x)'
        BY DEF NoDeadDeliveries
    <3>1. delivered'[x] = delivered[x]
        BY <2>1 DEF Forgets, TypeOK
    <3>2. CASE x # s
        BY <2>2, <3>1, <3>2 DEF NoDeadDeliveries, Subscribed
    <3>3. CASE x = s
      <4>1. Subscribed(s)
          BY <3>1, <3>3 DEF NoDeadDeliveries
      <4>2. c.subscription # 0 /\ c.subscription \in Nat
          BY <2>1, <3>3, <4>1 DEF Forgets, Moves, Connection
      <4> QED
          BY <2>2, <3>3, <4>2 DEF Subscribed
    <3> QED
        BY <3>2, <3>3
  <2> QED
      BY <2>3, <2>6, <2>7
<1>2. CASE ~\E s \in Socket : Client(s)
  <2>1. UNCHANGED conn
      BY <1>2 DEF DispatchNext, vars, socketVars, MessageQueried, Handle, CatalogAnswered,
         CatalogFails, Execute, Release, ClaimTask, ForceLoad, Loaded, LeaseChecked, SendChunk,
         SendChunkFails, Complete, ExecutionFails, WriterInvalidates
  <2>2. \A sub : Faithful(sub) => Faithful(sub)'
      BY <2>1, SameConnections
  <2>3. Connections'
      BY <2>1 DEF Connections, Subscribed
  <2>4. NoDeadDeliveries'
    <3> SUFFICES ASSUME NEW x \in Socket, delivered'[x] # NoOffer
                 PROVE  Subscribed(x)'
        BY DEF NoDeadDeliveries
    <3>1. Subscribed(x)
        BY Push DEF NoDeadDeliveries
    <3> QED
        BY <2>1, <3>1 DEF Subscribed
  <2>5. \A h \in BagToSet(pending') : Faithful(h.subscriber)
    <3>1. CASE pending' = pending
        BY <3>1 DEF Captured
    <3>2. ASSUME NEW h, Done(h)
          PROVE  \A x \in BagToSet(pending') : Faithful(x.subscriber)
        BY <3>2, BagRemove DEF Done, Captured
    <3>3. ASSUME NEW s \in Socket, Subscribed(s),
                 Awaiting([subscriber |-> toSubscriber(s), force |-> FALSE])
          PROVE  \A x \in BagToSet(pending') : Faithful(x.subscriber)
      <4> DEFINE h == [subscriber |-> toSubscriber(s), force |-> FALSE]
      <4>1. BagToSet(pending') = BagToSet(pending) \cup {h}
          BY <3>3, BagAdd DEF Awaiting
      <4>2. Faithful(toSubscriber(s))
          BY <3>3, CaptureFaithful
      <4> QED
          BY <4>1, <4>2 DEF Captured
    <3>4. ASSUME NEW s \in Socket, MessageQueried(s)
          PROVE  \A x \in BagToSet(pending') : Faithful(x.subscriber)
        BY <3>1, <3>3, <3>4 DEF MessageQueried, Recompute, toSubscriber
    <3> QED
        BY <1>2, <3>1, <3>2, <3>4 DEF DispatchNext, vars, socketVars, Handle,
           CatalogAnswered, CatalogFails, Execute, Release, ClaimTask, ForceLoad, Loaded,
           LeaseChecked, SendChunk, SendChunkFails, Complete, ExecutionFails, WriterInvalidates
  <2>6. \A t \in Task : \A sub \in run'[t].todo : Faithful(sub)
    <3>1. CASE run' = run
        BY <3>1 DEF Captured
    <3>2. ASSUME NEW t \in Task, Execute(t)
          PROVE  \A u \in Task : \A sub \in run'[u].todo : Faithful(sub)
      <4>1. run'[t].todo \subseteq ToScan(t) \cup run[t].todo
        <5>1. CASE AttemptFails(t) \/ run'[t] = NotRunning
            BY <5>1 DEF AttemptFails, NotRunning, TypeOK
        <5>2. CASE \E c : SentChunk(t, c, FALSE) \/ SentChunk(t, c, TRUE)
            BY <5>2, AfterChunk
        <5>3. CASE ClaimTask(t)
            BY <5>3 DEF ClaimTask, NotRunning, TypeOK
        <5>4. CASE run' = run \/ \E pc : run' = [run EXCEPT ![t].pc = pc]
          <6>1. run'[t].todo = run[t].todo
              BY <5>4 DEF TypeOK, Execution
          <6> QED
              BY <6>1
        <5> QED
            BY <3>2, <5>1, <5>2, <5>3, <5>4 DEF Execute, ForceLoad, Loaded, LeaseChecked,
               SendChunk, SendChunkFails, Complete, ExecutionFails, TypeOK
      <4>2. \A u \in Task \ {t} : run'[u] = run[u]
          BY <3>2, ExecuteSound
      <4> QED
          BY <4>1, <4>2, ScanFaithful DEF Captured
    <3> QED
        BY <1>2, <3>1, <3>2 DEF DispatchNext, vars, taskVars, MessageQueried, Handle,
           CatalogAnswered, CatalogFails, Release, WriterInvalidates
  <2> QED
      BY <1>0, <2>2, <2>3, <2>4, <2>5, <2>6 DEF Captured
<1> QED
    BY <1>0, <1>1, <1>2

LEMMA SubscriptionInit == DispatchInit => SubscriptionInv
<1> SUFFICES ASSUME DispatchInit
             PROVE  SubscriptionInv
    OBVIOUS
<1>1. \A s \in Socket : conn[s].subscription = 0 /\ conn[s].next = 1
    BY DEF DispatchInit, Fresh
<1>2. \A t \in Task : run[t].todo = {}
    BY DEF DispatchInit, NotRunning
<1>3. BagToSet(pending) = {}
    BY NoHandlers DEF DispatchInit
<1>4. Connections
    BY <1>1 DEF Connections, Subscribed
<1> QED
    BY <1>2, <1>3, <1>4, DispatchTypeInit
    DEF DispatchInit, SubscriptionInv, Captured, NoDeadDeliveries

DispatchInv == SubscriptionInv /\ ExecutionInv

LEMMA DispatchInvariant == DispatchSpec => []DispatchInv
<1>1. DispatchInit => DispatchInv
    BY SubscriptionInit, ExecutionInit DEF DispatchInv
<1>2. DispatchInv /\ [DispatchNext]_vars => DispatchInv'
    BY SubscriptionStep, ExecutionStep DEF DispatchInv
<1> QED
    BY <1>1, <1>2, PTL DEF DispatchSpec

\* The state of the dispatch keeps its types: connections, handlers, tasks and
\* executions, whatever the order of their steps.
THEOREM DispatchTyped == DispatchSpec => []TypeOK
BY DispatchInvariant, PTL DEF DispatchInv, SubscriptionInv, DispatchType

\* NoDeadDeliveries: unsubscribing and disconnecting forget what was delivered, and
\* what a handler or a dispatch captured before cannot bring it back.
THEOREM DeadDeliveries == DispatchSpec => []NoDeadDeliveries
BY DispatchInvariant, PTL DEF DispatchInv, SubscriptionInv

\* PushesMatchSubscription: the subscription revision, which a connection never uses
\* twice, tells a captured subscriber from the present one.
THEOREM Pushes == DispatchSpec => PushesMatchSubscription
<1>1. ASSUME DispatchInv, [DispatchNext]_vars
      PROVE  [\A s \in Socket :
                delivered'[s] # delivered[s] /\ delivered'[s] # NoOffer
                => \E r \in 0..revision : delivered'[s] = Wanted(toSubscriber(s), r)]_vars
    BY <1>1, Push DEF DispatchInv
<1> QED
    BY <1>1, DispatchInvariant, PTL DEF DispatchSpec, PushesMatchSubscription

-----------------------------------------------------------------------------
(* Convergence.                                                              *)

\* Open or failed; Tried: it may have told a socket something.
Unfinished(t) == task[t].status \in {"open", "failed"}
Tried(t) == Unfinished(t) /\ task[t].attempts > 0
\* No execution is under way.
Idle == \A t \in Task : run[t].pc = "idle"

\* The execution sends what the committed catalog offers.
AtRevision(t) == run[t].pc \in Active /\ run[t].claimed = revision

\* The present subscription of s is done with in the execution of t.
Served(t, s) ==
    /\ AtRevision(t) /\ run[t].captured /\ ~run[t].emitErrors
    /\ toSubscriber(s) \notin run[t].todo

Owing(t, s) == Tried(t) /\ ~Served(t, s)

\* Someone has still to tell s: an unfinished task that is not done with it, or,
\* while nothing executes, any unfinished task.
Owed(s) ==
    \/ Idle /\ \E t \in Task : Unfinished(t)
    \/ \E t \in Task : Owing(t, s)

\* s was last told another release than it is offered, and no handler will tell it.
Stale(s) ==
    /\ Subscribed(s) /\ ~Awaited(s) /\ s \notin missed
    /\ ReleaseOf(delivered[s]) # ReleaseOf(Current(s))

\* A socket is only ever stale while it is owed the present offer.
StaleIsOwed == \A s \in Socket : Stale(s) => Owed(s)

\* While nothing executes, a catalog may only lag behind for an unfinished task.
LagIsOwed == Idle /\ floor < revision => \E t \in Task : Unfinished(t)

\* The inductive invariant behind both results on convergence.
ConvergenceInv == LagIsOwed /\ StaleIsOwed

LEMMA RunningIsTried ==
    ASSUME ExecutionInv, NEW t \in Task, run[t].pc # "idle"
    PROVE  Tried(t)
BY DEF ExecutionInv, Sound, Tried, Unfinished

\* A catalog that lags behind is owed to every socket.
LEMMA LagOwesAll ==
    ASSUME ExecutionInv, LagIsOwed, floor < revision, NEW s
    PROVE  Owed(s)
<1>1. CASE Idle
    BY <1>1 DEF LagIsOwed, Owed
<1>2. CASE ~Idle
  <2>1. PICK t \in Task : run[t].pc # "idle"
      BY <1>2 DEF Idle
  <2>2. ~AtRevision(t)
      BY RevisionAssumption
      DEF ExecutionInv, Sound, AtRevision, Active, DispatchType, TypeOK, Revision
  <2> QED
      BY <2>1, <2>2, RunningIsTried DEF Owed, Owing, Served
<1> QED
    BY <1>1, <1>2

\* After what a socket is told, its release is the one wanted.
LEMMA ToldRelease ==
    ASSUME NEW prev, NEW want, NEW force \in BOOLEAN
    PROVE  ReleaseOf(Told(prev, want, force)) = ReleaseOf(want)
BY DEF Told, Updates, Revokes, ReleaseOf

LEMMA StaleBefore ==
    ASSUME NEW s \in Socket, conn'[s] = conn[s], delivered'[s] = delivered[s],
           querying'[s] = querying[s], revision' = revision, s \in missed => s \in missed',
           \A h \in BagToSet(pending) :
              h.subscriber.socket = s /\ isCurrent(h.subscriber) => h \in BagToSet(pending'),
           Stale(s)'
    PROVE  Stale(s)
<1>1. Awaited(s) => Awaited(s)'
    BY DEF Awaited, isCurrent, Subscribed
<1> QED
    BY <1>1 DEF Stale, Subscribed, Current, toSubscriber, Wanted

LEMMA StillOwed ==
    ASSUME NEW s \in Socket, conn'[s] = conn[s], revision' = revision, task' = task, run' = run,
           Owed(s)
    PROVE  Owed(s)'
BY DEF Owed, Owing, Tried, Unfinished, Idle, Served, AtRevision, toSubscriber

LEMMA OthersOwe ==
    ASSUME NEW s \in Socket, conn'[s] = conn[s], revision' = revision,
           NEW u \in Task, run'[u] = run[u], task'[u] = task[u], Owing(u, s)
    PROVE  Owing(u, s)'
BY DEF Owing, Tried, Unfinished, Served, AtRevision, toSubscriber

LEMMA AwaitedHandler ==
    ASSUME NEW s \in Socket, NEW h, h.subscriber.socket = s, IsABag(pending), Awaiting(h),
           isCurrent(h.subscriber)'
    PROVE  Awaited(s)'
<1>1. h \in BagToSet(pending')
    BY BagAdd DEF Awaiting
<1> QED
    BY <1>1 DEF Awaited

\* A client's own socket is not stale after its operation.
LEMMA ClientNotStale ==
    ASSUME SubscriptionInv, NEW s \in Socket, Client(s)
    PROVE  ~Stale(s)'
<1> USE DEF SubscriptionInv, DispatchType
<1>0. /\ conn \in [Socket -> Connection] /\ conn[s] \in Connection /\ IsABag(pending)
      /\ Revised(s) \in Connection /\ conn[s].subscription \in Nat
    BY RevisedType DEF TypeOK, Connection
<1>f. ASSUME NEW state PROVE Fresh(state).subscription = 0
    BY DEF Fresh
<1>1. CASE Connect(s) \/ Disconnect(s)
  <2>1. conn'[s].subscription = 0
      BY <1>0, <1>1, <1>f DEF Connect, Disconnect
  <2> QED
      BY <2>1 DEF Stale, Subscribed
<1>2. CASE UnsubscribeApplication(s)
  <2>1. conn'[s].subscription = 0
      BY <1>0, <1>2 DEF UnsubscribeApplication, Connection
  <2> QED
      BY <2>1 DEF Stale, Subscribed
<1>3. CASE SubscribeUserId(s)
  <2>1. querying'[s] = querying[s] + 1 /\ querying[s] \in Nat
      BY <1>3, BoundAssumption DEF SubscribeUserId, TypeOK
  <2>2. querying'[s] > 0
      BY <2>1
  <2> QED
      BY <2>2 DEF Stale, Awaited
<1>4. ASSUME NEW c, conn'[s] = c, Subscribed(s)', NEW f,
             Awaiting([subscriber |-> Capture(s, c), force |-> f])
      PROVE  ~Stale(s)'
  <2> DEFINE h == [subscriber |-> Capture(s, c), force |-> f]
  <2>1. h.subscriber.socket = s /\ h.subscriber.subscription = c.subscription
      BY DEF Capture
  <2>2. isCurrent(h.subscriber)'
      BY <1>4, <2>1 DEF isCurrent, Subscribed
  <2>3. Awaited(s)'
      BY <1>0, <1>4, <2>1, <2>2, AwaitedHandler
  <2> QED
      BY <2>3 DEF Stale
<1>5. CASE SubscribeApplication(s)
  <2>1. \E c : conn'[s] = c /\ Awaiting([subscriber |-> Capture(s, c), force |-> TRUE])
      BY <1>0, <1>5 DEF SubscribeApplication
  <2> QED
      BY <1>4, <2>1 DEF Stale
<1>6. CASE UnsubscribeUserId(s)
  <2>1. conn'[s] = Rebound(s, FALSE)
      BY <1>0, <1>6 DEF UnsubscribeUserId
  <2>2. CASE Subscribed(s)
      BY <1>4, <1>6, <2>1, <2>2 DEF UnsubscribeUserId, Recompute, Stale
  <2>3. CASE ~Subscribed(s)
    <3>1. conn'[s].subscription = conn[s].subscription
        BY <1>0, <2>1, <2>3 DEF Rebound, Connection
    <3> QED
        BY <2>3, <3>1 DEF Stale, Subscribed
  <2> QED
      BY <2>2, <2>3
<1> QED
    BY <1>1, <1>2, <1>3, <1>5, <1>6 DEF Client

\* An operation of a client, or its message query, makes no socket stale.
LEMMA SocketsOwed ==
    ASSUME SubscriptionInv, StaleIsOwed, NEW x \in Socket, Client(x) \/ MessageQueried(x)
    PROVE  StaleIsOwed'
<1> USE DEF SubscriptionInv, DispatchType
<1> SUFFICES ASSUME NEW s \in Socket, Stale(s)'
             PROVE  Owed(s)'
    BY DEF StaleIsOwed
<1>1. revision' = revision /\ task' = task /\ run' = run /\ IsABag(pending)
    BY DEF Client, Connect, Disconnect, SubscribeApplication, UnsubscribeApplication,
           SubscribeUserId, UnsubscribeUserId, MessageQueried, promiseVars, taskVars
<1>2. \A h \in BagToSet(pending) : h \in BagToSet(pending')
  <2>1. pending' = pending \/ \E h : Awaiting(h)
      BY DEF Client, Connect, Disconnect, SubscribeApplication, UnsubscribeApplication,
             SubscribeUserId, UnsubscribeUserId, MessageQueried, Recompute
  <2>2. ASSUME NEW h, Awaiting(h)
        PROVE  BagToSet(pending') = BagToSet(pending) \cup {h}
      BY <1>1, <2>2, BagAdd DEF Awaiting
  <2> QED
      BY <2>1, <2>2
<1>3. CASE x # s
  <2>1. conn'[s] = conn[s] /\ delivered'[s] = delivered[s] /\ querying'[s] = querying[s]
      BY <1>3 DEF Client, Connect, Disconnect, SubscribeApplication, UnsubscribeApplication,
         SubscribeUserId, UnsubscribeUserId, MessageQueried, TypeOK
  <2>2. s \in missed => s \in missed'
      BY <1>3 DEF Client, Connect, Disconnect, SubscribeApplication, UnsubscribeApplication,
         SubscribeUserId, UnsubscribeUserId, MessageQueried
  <2> QED
      BY <1>1, <1>2, <2>1, <2>2, StaleBefore, StillOwed DEF StaleIsOwed
<1>4. CASE x = s /\ Client(x)
    BY <1>4, ClientNotStale
<1>5. CASE x = s /\ MessageQueried(x)
  <2>1. conn' = conn /\ Subscribed(s)
      BY <1>5 DEF MessageQueried, Stale, Subscribed
  <2>2. PICK h : h = [subscriber |-> Capture(s, conn[s]), force |-> FALSE] /\ Awaiting(h)
      BY <1>5, <2>1 DEF MessageQueried, Recompute
  <2>3. h.subscriber.socket = s /\ h.subscriber.subscription = conn[s].subscription
      BY <2>2 DEF Capture
  <2>4. isCurrent(h.subscriber)'
      BY <2>1, <2>3 DEF isCurrent, Subscribed
  <2>5. Awaited(s)'
      BY <1>1, <2>2, <2>3, <2>4, AwaitedHandler
  <2> QED
      BY <2>5 DEF Stale
<1> QED
    BY <1>3, <1>4, <1>5

\* A handler tells its socket the present offer, or a task owes it that.
LEMMA HandlersOwed ==
    ASSUME SubscriptionInv, ExecutionInv, ConvergenceInv,
           NEW h \in BagToSet(pending), Handle(h)
    PROVE  StaleIsOwed'
<1> USE DEF SubscriptionInv, DispatchType, ConvergenceInv
<1> SUFFICES ASSUME NEW s \in Socket, Stale(s)'
             PROVE  Owed(s)'
    BY DEF StaleIsOwed
<1> DEFINE x == h.subscriber.socket
           own == x = s /\ isCurrent(h.subscriber)
<1>1. /\ conn' = conn /\ querying' = querying /\ revision' = revision
      /\ task' = task /\ run' = run /\ Done(h)
      /\ h.force \in BOOLEAN
    BY DEF Handle, CatalogAnswered, CatalogFails, Answer, promiseVars, taskVars, TypeOK, Handler
<1>2. CASE ~own
  <2>1. \A g \in BagToSet(pending) :
           g.subscriber.socket = s /\ isCurrent(g.subscriber) => g \in BagToSet(pending')
    <3>1. BagToSet(pending) \ {h} \subseteq BagToSet(pending')
        BY <1>1, BagRemove DEF Done
    <3> QED
        BY <1>2, <3>1
  <2>2. delivered'[s] = delivered[s] /\ (s \in missed => s \in missed')
    <3>1. CASE CatalogAnswered(h)
      <4>1. \E r : Replay(h, r)
          BY <3>1 DEF CatalogAnswered
      <4> QED
          BY <1>2, <4>1 DEF Replay, TypeOK
    <3>2. CASE CatalogFails(h)
        BY <3>2 DEF CatalogFails
    <3> QED
        BY <3>1, <3>2 DEF Handle
  <2>3. Stale(s)
      BY <1>1, <2>1, <2>2, StaleBefore
  <2> QED
      BY <1>1, <2>3, StillOwed DEF StaleIsOwed
<1>3. CASE own
  <2>1. h.subscriber = toSubscriber(s)
      BY <1>3 DEF Captured, Faithful
  <2>2. CASE CatalogFails(h)
      BY <1>3, <2>2 DEF CatalogFails, Stale
  <2>3. CASE CatalogAnswered(h)
    <3>1. PICK r \in Revision : Answer(r) /\ Replay(h, r)
        BY <2>3 DEF CatalogAnswered
    <3>2. delivered'[s] = Told(delivered[s], Wanted(toSubscriber(s), r), h.force)
        BY <1>3, <2>1, <3>1 DEF Replay, Stale, TypeOK
    <3>3. ReleaseOf(delivered'[s]) = ReleaseOf(Wanted(toSubscriber(s), r))
        BY <1>1, <3>2, ToldRelease
    <3>4. r # revision
        BY <1>1, <3>3 DEF Stale, Current, toSubscriber, Wanted, ReleaseOf
    <3>5. floor < revision
      <4>1. r >= floor /\ r <= revision /\ r \in Nat /\ floor \in Nat /\ revision \in Nat
          BY <3>1, RevisionAssumption DEF Answer, Answers, TypeOK, Revision
      <4> QED
          BY <3>4, <4>1
    <3> QED
        BY <1>1, <3>5, LagOwesAll, StillOwed
  <2> QED
      BY <2>2, <2>3 DEF Handle
<1> QED
    BY <1>2, <1>3

\* Whatever an execution does, a socket is told the present offer, or a task owes it.
LEMMA ExecutionsOwed ==
    ASSUME SubscriptionInv, ExecutionInv, ConvergenceInv, ExecutionInv',
           [DispatchNext]_vars, NEW t \in Task, Execute(t)
    PROVE  StaleIsOwed'
<1> USE DEF SubscriptionInv, DispatchType, ConvergenceInv
<1> SUFFICES ASSUME NEW s \in Socket, Stale(s)'
             PROVE  Owed(s)'
    BY DEF StaleIsOwed
<1>0. /\ run[t] \in Execution /\ run \in [Task -> Execution]
      /\ Sound(t) /\ Sound(t)'
    BY DEF ExecutionInv, TypeOK
<1>1. /\ conn' = conn /\ querying' = querying /\ pending' = pending /\ revision' = revision
    BY DEF Execute, ClaimTask, ForceLoad, Invalidate, Loaded, Answer, LeaseChecked, SendChunk,
           SendChunkFails, Complete, ExecutionFails, promiseVars, socketVars
<1>2. \A u \in Task \ {t} : run'[u] = run[u] /\ task'[u] = task[u]
    BY ExecuteSound
<1>3. ASSUME run'[t].pc # "idle", ~Served(t, s)'
      PROVE  Owed(s)'
    BY <1>0, <1>3 DEF Sound, Tried, Unfinished, Owed, Owing
<1>4. ASSUME AttemptFails(t), run[t].pc # "idle"
      PROVE  Owed(s)'
  <2>1. Tried(t)'
      BY <1>0, <1>4, AfterFailure DEF Sound, Tried, Unfinished
  <2>2. ~Served(t, s)'
      BY <1>4, AfterFailure DEF Served, AtRevision, Active
  <2> QED
      BY <2>1, <2>2 DEF Owed, Owing
<1>5. ASSUME NEW u \in Task \ {t}, Owing(u, s)
      PROVE  Owed(s)'
    BY <1>1, <1>2, <1>5, OthersOwe DEF Owed
\* Another task owes it as before, unless t alone did.
<1>6. ASSUME Stale(s), run[t].pc # "idle", Owing(t, s) => Owed(s)'
      PROVE  Owed(s)'
  <2>1. \E u \in Task : Owing(u, s)
      BY <1>6 DEF StaleIsOwed, Owed, Idle
  <2> QED
      BY <1>5, <1>6, <2>1
<1>7. ASSUME delivered' = delivered, missed' = missed
      PROVE  Stale(s)
    BY <1>1, <1>7, StaleBefore
<1>8. CASE ClaimTask(t)
  <2>1. run'[t].pc = "claimed"
      BY <1>0, <1>8 DEF ClaimTask, NotRunning
  <2> QED
      BY <1>3, <2>1 DEF Served, AtRevision, Active
<1>9. CASE ForceLoad(t)
  <2>1. run'[t].pc = "loading"
      BY <1>0, <1>9 DEF ForceLoad, Execution
  <2> QED
      BY <1>3, <2>1 DEF Served, AtRevision, Active
<1>10. CASE Loaded(t)
  <2>1. CASE AttemptFails(t)
      BY <1>4, <1>10, <2>1 DEF Loaded
  <2>2. CASE ~AttemptFails(t)
    <3>1. run' = [run EXCEPT ![t].pc = "checking"] /\ run[t].pc = "loading"
        BY <1>10, <2>2 DEF Loaded
    <3>2. run'[t].pc = "checking" /\ run'[t].captured = run[t].captured
        BY <1>0, <3>1 DEF Execution
    <3> QED
        BY <1>0, <1>3, <3>1, <3>2 DEF Served, Sound
  <2> QED
      BY <2>1, <2>2
<1>11. CASE LeaseChecked(t)
  <2>1. CASE AttemptFails(t)
      BY <1>4, <1>11, <2>1 DEF LeaseChecked
  <2>2. CASE ~AttemptFails(t)
    <3> DEFINE pc == IF run[t].captured /\ run[t].todo = {} THEN "completing" ELSE "sending"
    <3>1. run' = [run EXCEPT ![t].pc = pc] /\ run[t].pc = "checking"
        BY <1>11, <2>2 DEF LeaseChecked
    <3>2. /\ run'[t].pc = pc /\ run'[t].claimed = run[t].claimed
          /\ run'[t].captured = run[t].captured /\ run'[t].todo = run[t].todo
          /\ run'[t].emitErrors = run[t].emitErrors
        BY <1>0, <3>1 DEF Execution
    <3>3. ~Served(t, s) => ~Served(t, s)'
        BY <1>1, <3>1, <3>2 DEF Served, AtRevision, Active, toSubscriber
    <3>4. Stale(s)
        BY <1>7, <1>11 DEF LeaseChecked, socketVars
    <3> QED
        BY <1>3, <1>6, <3>1, <3>2, <3>3, <3>4 DEF Owing
  <2> QED
      BY <2>1, <2>2
<1>12. CASE SendChunk(t)
  <2>1. PICK c \in Chunks(t) :
            /\ delivered' = [x \in Socket |-> ToldBy(t, c, x)]
            /\ missed' = missed \ Reached(c)
            /\ SentChunk(t, c, FALSE)
      BY <1>12 DEF SendChunk
  <2>2. c \in SUBSET ToScan(t) /\ run[t].pc = "sending"
      BY <1>12 DEF SendChunk, Chunks
  <2>3. /\ run'[t].pc = "checking" /\ run'[t].claimed = run[t].claimed
        /\ run'[t].todo = ToScan(t) \ c
        /\ run[t].emitErrors => run'[t].emitErrors
      BY <2>1, AfterChunk
  <2>4. CASE run[t].claimed # revision
    <3>1. ~Served(t, s)'
        BY <1>1, <2>3, <2>4 DEF Served, AtRevision
    <3> QED
        BY <1>3, <2>3, <3>1
  <2>5. CASE run[t].claimed = revision /\ s \in Reached(c)
    <3>1. delivered'[s] = Told(delivered[s], Wanted(toSubscriber(s), revision), TRUE)
        BY <2>1, <2>2, <2>5, ChunkReaches
    <3>2. ReleaseOf(delivered'[s]) = ReleaseOf(Current(s))
        BY <3>1, ToldRelease DEF Current
    <3> QED
        BY <1>1, <3>2 DEF Stale, Current, toSubscriber, Wanted, ReleaseOf
  <2>6. CASE run[t].claimed = revision /\ s \notin Reached(c)
    <3>1. delivered'[s] = delivered[s] /\ (s \in missed => s \in missed')
        BY <2>1, <2>2, <2>6, ChunkReaches
    <3>2. Stale(s)
        BY <1>1, <3>1, StaleBefore
    <3>3. toSubscriber(s) \notin c
      <4>1. isCurrent(toSubscriber(s)) /\ toSubscriber(s).socket = s
          BY <3>2 DEF Stale, isCurrent, toSubscriber, Capture, Subscribed
      <4> QED
          BY <2>6, <4>1 DEF Reached
    <3>4. ASSUME ~Served(t, s)
          PROVE  ~Served(t, s)'
      <4>1. CASE run[t].emitErrors
          BY <2>3, <4>1 DEF Served
      <4>2. CASE ~run[t].emitErrors
        <5>1. ~run[t].captured \/ toSubscriber(s) \in run[t].todo
            BY <2>2, <2>6, <3>4, <4>2 DEF Served, AtRevision, Active
        <5>2. toSubscriber(s) \in ToScan(t)
            BY <3>2, <5>1 DEF ToScan, Subscribers, Stale
        <5>3. toSubscriber(s) \in run'[t].todo
            BY <2>3, <3>3, <5>2
        <5> QED
            BY <1>1, <5>3 DEF Served, toSubscriber
      <4> QED
          BY <4>1, <4>2
    <3> QED
        BY <1>3, <1>6, <2>2, <2>3, <3>2, <3>4 DEF Owing
  <2> QED
      BY <2>4, <2>5, <2>6
<1>13. CASE SendChunkFails(t)
  <2>1. \E c : SentChunk(t, c, TRUE)
      BY <1>13 DEF SendChunkFails
  <2>2. run'[t].pc = "checking" /\ run'[t].emitErrors
      BY <2>1, AfterChunk
  <2> QED
      BY <1>3, <2>2 DEF Served
<1>14. CASE Complete(t)
  <2>1. CASE AttemptFails(t)
      BY <1>4, <1>14, <2>1 DEF Complete
  <2>2. CASE ~AttemptFails(t)
    <3>1. run[t].pc = "completing" /\ revision = run[t].claimed
        BY <1>14, <2>2 DEF Complete
    <3>2. Served(t, s)
        BY <1>0, <3>1 DEF Sound, Served, AtRevision, Active
    <3>3. Stale(s)
        BY <1>7, <1>14 DEF Complete, socketVars
    <3> QED
        BY <1>6, <3>1, <3>2, <3>3 DEF Owing
  <2> QED
      BY <2>1, <2>2
<1>15. CASE ExecutionFails(t)
    BY <1>4, <1>15 DEF ExecutionFails
<1> QED
    BY <1>8, <1>9, <1>10, <1>11, <1>12, <1>13, <1>14, <1>15 DEF Execute

LEMMA LagStep ==
    ASSUME ExecutionInv, ConvergenceInv, ExecutionInv', [DispatchNext]_vars
    PROVE  LagIsOwed'
<1> SUFFICES ASSUME Idle', (floor < revision)'
             PROVE  \E t \in Task : Unfinished(t)'
    BY DEF LagIsOwed
<1>n. revision \in Nat /\ floor \in Nat /\ floor <= revision
    BY RevisionAssumption DEF ExecutionInv, DispatchType, TypeOK, Revision
<1>1. CASE UNCHANGED <<task, run, floor, revision>>
    BY <1>1 DEF ConvergenceInv, LagIsOwed, Idle, Unfinished
<1>2. CASE WriterInvalidates
  <2>1. floor' = revision /\ revision' = revision
      BY <1>2 DEF WriterInvalidates, Invalidate
  <2> QED
      BY <1>n, <2>1
<1>3. ASSUME NEW t \in Task, Release(t)
      PROVE  Unfinished(t)'
    BY <1>3 DEF Release, ExecutionInv, DispatchType, TypeOK, TaskRow, Unfinished
<1>4. ASSUME NEW t \in Task, Execute(t)
      PROVE  Unfinished(t)'
  <2>1. run'[t].pc = "idle" /\ run[t] \in Execution /\ run \in [Task -> Execution]
      BY DEF Idle, ExecutionInv, DispatchType, TypeOK
  <2>2. CASE AttemptFails(t)
      BY <2>2, AfterFailure DEF Unfinished
  <2>3. CASE ClaimTask(t)
      BY <2>1, <2>3 DEF ClaimTask, NotRunning
  <2>4. CASE \E pc \in {"checking", "loading", "sending", "completing"} :
                run' = [run EXCEPT ![t].pc = pc]
      BY <2>1, <2>4 DEF Execution
  <2>5. CASE \E c : SentChunk(t, c, FALSE) \/ SentChunk(t, c, TRUE)
      BY <2>1, <2>5, AfterChunk DEF ExecutionInv, DispatchType
  <2>6. CASE Complete(t) /\ ~AttemptFails(t)
    <3>1. run[t].pc = "completing" /\ revision = run[t].claimed
          /\ floor' = floor /\ revision' = revision
        BY <2>6 DEF Complete, promiseVars
    <3>2. floor >= revision
        BY <3>1 DEF ExecutionInv, Sound, Active
    <3> QED
        BY <1>n, <3>1, <3>2
  <2> QED
      BY <1>4, <2>2, <2>3, <2>4, <2>5, <2>6 DEF Execute, ForceLoad, Loaded, LeaseChecked,
         SendChunk, SendChunkFails, ExecutionFails
<1> QED
    BY <1>1, <1>2, <1>3, <1>4 DEF DispatchNext, vars, promiseVars, taskVars, Client, Connect,
       Disconnect, SubscribeApplication, UnsubscribeApplication, SubscribeUserId,
       UnsubscribeUserId, MessageQueried, Handle, CatalogAnswered, CatalogFails, Answer

LEMMA ConvergenceStep ==
    ASSUME DispatchInv, ConvergenceInv, [DispatchNext]_vars
    PROVE  ConvergenceInv'
<1> USE DEF DispatchInv
<1>1. ExecutionInv'
    BY ExecutionStep
<1>2. StaleIsOwed'
  <2>1. ASSUME NEW t \in Task, Release(t)
        PROVE  StaleIsOwed'
    <3>1. Unfinished(t)' /\ run' = run /\ revision' = revision + 1
        BY <2>1 DEF Release, Commit, ExecutionInv, DispatchType, TypeOK, TaskRow, Unfinished
    <3> SUFFICES ASSUME NEW s \in Socket
                 PROVE  Owed(s)'
        BY DEF StaleIsOwed
    <3>2. CASE Idle'
        BY <3>1, <3>2 DEF Owed
    <3>3. CASE ~Idle'
      <4>1. PICK u \in Task : run'[u].pc # "idle"
          BY <3>3 DEF Idle
      <4>2. Tried(u)'
          BY <1>1, <4>1 DEF ExecutionInv, Sound, Tried, Unfinished
      <4>3. run'[u].claimed # revision'
        <5>1. revision \in Nat /\ run[u].claimed <= revision /\ run[u].claimed \in Nat
            BY RevisionAssumption
            DEF ExecutionInv, Sound, DispatchType, TypeOK, Revision, Execution
        <5> QED
            BY <3>1, <5>1
      <4> QED
          BY <4>2, <4>3 DEF Owed, Owing, Served, AtRevision
    <3> QED
        BY <3>2, <3>3
  <2>2. CASE UNCHANGED <<socketVars, taskVars, revision>>
    <3> SUFFICES ASSUME NEW s \in Socket, Stale(s)'
                 PROVE  Owed(s)'
        BY DEF StaleIsOwed
    <3>1. Stale(s)
        BY <2>2, StaleBefore DEF socketVars
    <3> QED
        BY <2>2, <3>1, StillOwed DEF ConvergenceInv, StaleIsOwed, socketVars, taskVars
  <2> QED
      BY <1>1, <2>1, <2>2, SocketsOwed, HandlersOwed, ExecutionsOwed
      DEF DispatchNext, ConvergenceInv, vars, promiseVars, WriterInvalidates, Invalidate
<1> QED
    BY <1>1, <1>2, LagStep DEF ConvergenceInv

LEMMA Convergence == DispatchSpec => [](DispatchInv /\ ConvergenceInv)
<1>1. DispatchInit => ConvergenceInv
    BY DEF DispatchInit, Init, Fresh, ConvergenceInv, LagIsOwed, StaleIsOwed, Stale, Subscribed
<1>2. DispatchInv /\ ConvergenceInv /\ [DispatchNext]_vars => ConvergenceInv'
    BY ConvergenceStep
<1> QED
    BY <1>1, <1>2, DispatchInvariant, PTL DEF DispatchSpec

\* Converged: once every task succeeded and no handler is awaited or failed, every
\* subscribed socket was last told the release the committed catalog offers it.
THEOREM AllConverge == DispatchSpec => []Converged
<1>1. DispatchInv /\ ConvergenceInv => Converged
  <2> SUFFICES ASSUME ConvergenceInv, NEW s \in Socket, Settled(s)
               PROVE  ReleaseOf(delivered[s]) = ReleaseOf(Current(s))
      BY DEF Converged
  <2>1. \A t \in Task : ~Unfinished(t)
      BY DEF Settled, Unfinished
  <2>2. ~Owed(s)
      BY <2>1 DEF Owed, Owing, Tried
  <2> QED
      BY <2>2 DEF ConvergenceInv, StaleIsOwed, Stale, Settled
<1> QED
    BY <1>1, Convergence, PTL

\* SuccessReachesEveryone: what the success of one publish task means for all
\* sockets, with any number of tasks executing at once.
THEOREM SuccessIsComplete == DispatchSpec => SuccessReachesEveryone
<1>1. ASSUME DispatchInv, ConvergenceInv, [DispatchNext]_vars, NEW t \in Task,
             task[t].status = "open", task'[t].status = "succeeded", NEW s \in Socket
      PROVE  \/ ~Subscribed(s) \/ Awaited(s) \/ s \in missed
             \/ ReleaseOf(delivered[s]) = ReleaseOf(Current(s))
             \/ \E u \in Task \ {t} : task[u].attempts > 0 /\ task[u].status # "succeeded"
  <2>0. task \in [Task -> TaskRow] /\ ExecutionInv
      BY <1>1 DEF DispatchInv, ExecutionInv, DispatchType, TypeOK
  <2>1. Complete(t) /\ ~AttemptFails(t)
    <3>1. ASSUME AttemptFails(t) PROVE FALSE
        BY <1>1, <2>0, <3>1, AfterFailure
    <3>2. Execute(t)
      <4>1. ~\E u \in Task : Release(u)
          BY <1>1, <2>0 DEF Release, TaskRow
      <4>2. \A u \in Task \ {t} : ~Execute(u)
          BY <1>1, <2>0, ExecuteSound
      <4>3. task' # task
          BY <1>1
      <4> QED
          BY <1>1, <4>1, <4>2, <4>3 DEF DispatchNext, vars, taskVars, Client, Connect,
             Disconnect, SubscribeApplication, UnsubscribeApplication, SubscribeUserId,
             UnsubscribeUserId, MessageQueried, Handle, CatalogAnswered, CatalogFails,
             WriterInvalidates
    <3>3. ~ClaimTask(t)
        BY <1>1, <2>0 DEF ClaimTask, TaskRow
    <3> QED
        BY <1>1, <3>1, <3>2, <3>3 DEF Execute, ForceLoad, Loaded, LeaseChecked, SendChunk,
           SendChunkFails, ExecutionFails
  <2>2. run[t].pc = "completing" /\ revision = run[t].claimed
      BY <2>1 DEF Complete
  <2>3. ~Idle /\ ~Owing(t, s)
      BY <2>0, <2>2 DEF Idle, Owing, Served, AtRevision, Active, ExecutionInv, Sound
  <2>4. Stale(s) => \E u \in Task \ {t} : Owing(u, s)
      BY <1>1, <2>3 DEF ConvergenceInv, StaleIsOwed, Owed
  <2> QED
      BY <2>4 DEF Stale, Owing, Tried, Unfinished
<1>2. ASSUME DispatchInv, ConvergenceInv, [DispatchNext]_vars
      PROVE  [\A t \in Task :
                task[t].status = "open" /\ task'[t].status = "succeeded"
                => \A s \in Socket :
                      \/ ~Subscribed(s) \/ Awaited(s) \/ s \in missed
                      \/ ReleaseOf(delivered[s]) = ReleaseOf(Current(s))
                      \/ \E u \in Task \ {t} :
                            task[u].attempts > 0 /\ task[u].status # "succeeded"]_vars
    BY <1>1, <1>2
<1> QED
    BY <1>2, Convergence, PTL DEF DispatchSpec, SuccessReachesEveryone
=============================================================================
