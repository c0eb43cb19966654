------------------------ MODULE ReleaseCatalogProofs ------------------------
(***************************************************************************)
(* Proofs about ReleaseCatalog, for every number of callers, loads,        *)
(* revisions, invalidations and faults.                                    *)
(*                                                                         *)
(* The key fact is about the active load alone: it started after the last  *)
(* invalidation and after the last answer, so its snapshot is no older     *)
(* than either, whatever the disowned loads have read.                     *)
(***************************************************************************)
EXTENDS ReleaseCatalog, TLAPS

\* A catalog that may be handed out now.
Current(r) == r \in Nat /\ r >= floor /\ r >= answered /\ r <= revision

CatalogInv ==
    /\ TypeOK
    /\ floor <= revision /\ answered <= revision
    /\ cache # NoCatalog => Current(cache)
    /\ active # NoLoad => cache = NoCatalog /\ ~Free(active)
    /\ active # NoLoad /\ flight[active].pc = "read" => Current(flight[active].revision)

LEMMA RevisionFacts == MaxRevision \in Nat /\ Revision \subseteq Nat /\ NoCatalog \notin Nat
BY CatalogAssumption DEF Revision

LEMMA InitInv == Init => CatalogInv
<1>. SUFFICES ASSUME Init PROVE CatalogInv
  OBVIOUS
<1>. USE CatalogAssumption DEF Init
<1>1. 0 \in Revision
  BY DEF Revision
<1>2. NotInFlight \in Flight
  BY <1>1 DEF NotInFlight, Flight
<1>3. TypeOK
  BY <1>1, <1>2 DEF TypeOK
<1>. QED BY <1>3 DEF CatalogInv

\* What loadCatalog does for the callers in C, given what else the step does
\* to the loads: none of it touches the active one.
LEMMA LoadCatalogKeeps ==
    ASSUME CatalogInv, NEW C \in SUBSET Caller, NEW flights \in [Load -> Flight],
           active # NoLoad => flights[active] = flight[active],
           LoadCatalog(C, flights),
           UNCHANGED <<revision, uninvalidated, cache, floor, invalidations>>, faults' \in Nat
    PROVE  CatalogInv' /\ (answered' = answered \/ (answered' = cache /\ cache # NoCatalog))
<1>. USE RevisionFacts, LoadAssumption
<1>1. TypeOK /\ Revision \subseteq Nat
  BY DEF CatalogInv
<1>2. CASE AnswerFromCache(C) /\ flight' = flights
  <2>1. active = NoLoad /\ answered' = cache /\ Current(cache) /\ active' = NoLoad
    BY <1>2 DEF AnswerFromCache, CatalogInv
  <2>2. waiting' \in [Caller -> Load \cup {NoLoad}]
    BY <1>1, <1>2 DEF AnswerFromCache, Moved, TypeOK
  <2>3. TypeOK'
    BY <1>1, <1>2, <2>1, <2>2 DEF AnswerFromCache, TypeOK
  <2>4. (cache # NoCatalog => Current(cache))'
    BY <2>1 DEF Current, CatalogInv
  <2>. QED BY <1>2, <2>1, <2>3, <2>4 DEF CatalogInv, AnswerFromCache, Current
<1>3. CASE JoinActive(C) /\ flight' = flights
  <2>1. active \in Load /\ flight'[active] = flight[active]
    BY <1>1, <1>3 DEF JoinActive, TypeOK
  <2>2. waiting' \in [Caller -> Load \cup {NoLoad}]
    BY <1>1, <1>3, <2>1 DEF JoinActive, Moved, TypeOK
  <2>3. TypeOK'
    BY <1>1, <1>3, <2>2 DEF JoinActive, TypeOK
  <2>. QED BY <1>3, <2>1, <2>3 DEF JoinActive, CatalogInv, Current, Free
<1>4. ASSUME cache = NoCatalog, active = NoLoad, NEW l \in Load, StartLoad(C, l),
             flight' = [flights EXCEPT ![l] = [pc |-> "reading", revision |-> 0]]
      PROVE  CatalogInv' /\ answered' = answered
  <2>1. [pc |-> "reading", revision |-> 0] \in Flight
    BY DEF Flight, Revision
  <2>2. flight' \in [Load -> Flight] /\ flight'[l].pc = "reading"
    BY <1>4, <2>1
  <2>3. waiting' \in [Caller -> Load \cup {NoLoad}]
    BY <1>1, <1>4 DEF StartLoad, Moved, TypeOK
  <2>4. TypeOK'
    BY <1>1, <1>4, <2>2, <2>3 DEF StartLoad, TypeOK
  <2>. QED BY <1>4, <2>2, <2>4 DEF StartLoad, CatalogInv, Current, Free
<1>. QED BY <1>2, <1>3, <1>4 DEF LoadCatalog

LEMMA WritersKeep ==
    ASSUME CatalogInv, Commit \/ Invalidate \/ WriterFails
    PROVE  CatalogInv'
<1>. USE RevisionFacts
<1>1. CASE Commit
  <2>1. revision' = revision + 1 /\ revision' \in Revision /\ revision \in Nat
    BY <1>1 DEF Commit, CatalogInv, TypeOK, Revision
  <2>2. TypeOK'
    BY <1>1, <2>1 DEF Commit, CatalogInv, TypeOK
  <2>3. floor \in Nat /\ answered \in Nat
    BY DEF CatalogInv, TypeOK
  <2>4. \A r : Current(r) => Current(r)'
    BY <1>1, <2>1, <2>3 DEF Commit, Current
  <2>. QED BY <1>1, <2>1, <2>2, <2>3, <2>4 DEF Commit, CatalogInv, Free
<1>2. CASE Invalidate
  <2>1. TypeOK'
    BY <1>2 DEF Invalidate, Invalidated, CatalogInv, TypeOK
  <2>. QED BY <1>2, <2>1 DEF Invalidate, Invalidated, CatalogInv, Current, TypeOK
<1>3. CASE WriterFails
  <2>1. TypeOK'
    BY <1>3 DEF WriterFails, CatalogInv, TypeOK
  <2>. QED BY <1>3, <2>1 DEF WriterFails, CatalogInv, Current, Free
<1>. QED BY <1>1, <1>2, <1>3

LEMMA AskKeeps ==
    ASSUME CatalogInv, NEW c \in Caller, Ask(c)
    PROVE  CatalogInv' /\ (answered' = answered \/ (answered' = cache /\ cache # NoCatalog))
<1>1. flight \in [Load -> Flight] /\ {c} \in SUBSET Caller /\ faults' \in Nat
  BY DEF CatalogInv, TypeOK, Ask
<1>. QED BY <1>1, LoadCatalogKeeps DEF Ask

LEMMA AskForcedKeeps ==
    ASSUME CatalogInv, NEW c \in Caller, AskForced(c)
    PROVE  CatalogInv'
<1>. USE RevisionFacts, LoadAssumption
<1>1. PICK l \in Load : /\ StartLoad({c}, l)
                        /\ flight' = [flight EXCEPT ![l] = [pc |-> "reading", revision |-> 0]]
  BY DEF AskForced
<1>2. [pc |-> "reading", revision |-> 0] \in Flight
  BY DEF Flight, Revision
<1>3. flight' \in [Load -> Flight] /\ flight'[l].pc = "reading"
  BY <1>1, <1>2 DEF CatalogInv, TypeOK
<1>4. waiting' \in [Caller -> Load \cup {NoLoad}]
  BY <1>1 DEF StartLoad, Moved, CatalogInv, TypeOK
<1>5. TypeOK'
  <2>1. TypeOK
    BY DEF CatalogInv
  <2>2. /\ cache' = NoCatalog /\ floor' = revision /\ invalidations' = invalidations + 1
        /\ UNCHANGED <<revision, uninvalidated, faults, answered>> /\ active' = l
    BY <1>1 DEF AskForced, StartLoad
  <2>3. invalidations' \in Nat
    BY <2>1, <2>2 DEF TypeOK
  <2>. QED BY <1>3, <1>4, <2>1, <2>2, <2>3 DEF TypeOK
<1>. QED BY <1>1, <1>3, <1>5 DEF AskForced, StartLoad, CatalogInv, Current, Free, TypeOK

LEMMA ReadKeeps ==
    ASSUME CatalogInv, NEW l \in Load, Read(l)
    PROVE  CatalogInv'
<1>. USE RevisionFacts
<1>. DEFINE new == [pc |-> "read", revision |-> revision]
<1>1. new \in Flight /\ new.pc = "read" /\ new.revision = revision
  BY DEF CatalogInv, TypeOK, Flight
<1>2. flight' = [flight EXCEPT ![l] = new] /\ UNCHANGED <<revision, cache, active, floor, answered>>
  BY DEF Read
<1>. HIDE DEF new
<1>3. flight' \in [Load -> Flight] /\ flight'[l] = new /\ \A m \in Load : m # l => flight'[m] = flight[m]
  BY <1>1, <1>2 DEF CatalogInv, TypeOK
<1>4. TypeOK'
  BY <1>3 DEF Read, CatalogInv, TypeOK
<1>5. Current(revision)
  BY DEF Current, CatalogInv, TypeOK
<1>6. active # NoLoad => active \in Load
  BY DEF CatalogInv, TypeOK
<1>. QED BY <1>1, <1>2, <1>3, <1>4, <1>5, <1>6 DEF CatalogInv, Current, Free

\* A load settles, or fails.
LEMMA SettleKeeps ==
    ASSUME CatalogInv, NEW l \in Load, Settle(l) \/ SettleFails(l)
    PROVE  /\ CatalogInv'
           /\ \/ answered' = answered
              \/ answered' = cache /\ cache # NoCatalog
              \/ answered' = flight[l].revision /\ active = l /\ flight[l].pc = "read"
<1>. USE RevisionFacts, LoadAssumption
<1>. DEFINE flights == [flight EXCEPT ![l] = NotInFlight]
<1>1. TypeOK /\ faults' \in Nat /\ UNCHANGED <<revision, uninvalidated, floor, invalidations>>
  BY DEF CatalogInv, TypeOK, Settle, SettleFails
<1>2. NotInFlight \in Flight
  BY DEF NotInFlight, Flight, Revision
<1>3. flights \in [Load -> Flight]
  BY <1>1, <1>2 DEF TypeOK
<1>4. CASE SettleDisowned(l)
  <2>1. active # NoLoad => flights[active] = flight[active]
    BY <1>1, <1>4 DEF SettleDisowned, TypeOK
  <2>2. LoadCatalog(Waiters(l), flights) /\ UNCHANGED cache /\ Waiters(l) \in SUBSET Caller
    BY <1>4 DEF SettleDisowned, Waiters
  <2>. HIDE DEF flights
  <2>. QED BY <1>1, <1>3, <2>1, <2>2, LoadCatalogKeeps
<1>5. CASE SettleOwned(l) /\ flight[l].pc = "read"
  <2>1. active = l /\ Current(flight[l].revision) /\ flight[l].revision \in Revision
    BY <1>1, <1>5 DEF SettleOwned, CatalogInv, TypeOK, Flight
  <2>2. waiting' \in [Caller -> Load \cup {NoLoad}]
    BY <1>1, <1>5 DEF SettleOwned, Moved, TypeOK
  <2>3. TypeOK'
    BY <1>1, <1>3, <1>5, <2>1, <2>2 DEF SettleOwned, TypeOK
  <2>. QED BY <1>1, <1>5, <2>1, <2>3 DEF SettleOwned, CatalogInv, Current
<1>6. CASE FailOwned(l)
  <2>1. waiting' \in [Caller -> Load \cup {NoLoad}]
    BY <1>1, <1>6 DEF FailOwned, Moved, TypeOK
  <2>2. TypeOK'
    BY <1>1, <1>3, <1>6, <2>1 DEF FailOwned, TypeOK
  <2>. QED BY <1>1, <1>6, <2>2 DEF FailOwned, CatalogInv, Current
<1>. QED BY <1>4, <1>5, <1>6 DEF Settle, SettleFails

\* Expiry and stuttering.
LEMMA RestKeeps ==
    ASSUME CatalogInv, CacheExpires \/ UNCHANGED vars
    PROVE  CatalogInv'
<1>1. TypeOK'
  BY DEF CatalogInv, TypeOK, CacheExpires, vars
<1>. QED BY <1>1 DEF CatalogInv, Current, Free, CacheExpires, vars

LEMMA NextInv == CatalogInv /\ [Next]_vars => CatalogInv'
BY WritersKeep, AskKeeps, AskForcedKeeps, ReadKeeps, SettleKeeps, RestKeeps DEF Next

\* The active load, and with it the cache, is as new as every answer given.
THEOREM CatalogInvariant == Spec => []CatalogInv
BY InitInv, NextInv, PTL DEF Spec

\* The cache, the loads and the callers stay well formed.
THEOREM CatalogTypes == Spec => []TypeOK
<1>1. CatalogInv => TypeOK
  BY DEF CatalogInv
<1>. QED BY <1>1, CatalogInvariant, PTL

\* A load that invalidate has disowned can refill neither the cache nor the
\* load that new callers join.
THEOREM FreshCache == Spec => []CacheIsFresh
<1>1. CatalogInv => CacheIsFresh
  BY DEF CatalogInv, CacheIsFresh, Current
<1>. QED BY <1>1, CatalogInvariant, PTL

\* ReleaseCatalog implements CatalogPromise: no caller is handed a catalog
\* older than the last invalidation or than an earlier answer.
THEOREM CatalogRefinement == Spec => ImplementsCatalogPromise
<1>1. Init => Promise!Init
  BY DEF Init, Promise!Init
<1>2. ASSUME CatalogInv, [Next]_vars
      PROVE  [Promise!Next]_(Promise!promiseVars)
  <2>. USE RevisionFacts
  <2>1. revision \in Nat /\ revision <= MaxRevision /\ floor \in Nat /\ answered \in Nat
    BY <1>2 DEF CatalogInv, TypeOK, Revision
  <2>2. ASSUME NEW r, Current(r), answered' = r, UNCHANGED <<revision, floor>>
        PROVE  Promise!Next
    <3>1. r \in 0..MaxRevision /\ r \in Promise!Answers
      BY <2>1, <2>2 DEF Current, Promise!Answers
    <3>. QED BY <2>2, <3>1 DEF Promise!Next, Promise!Answer
  <2>3. CASE Commit
    BY <2>3 DEF Commit, Promise!Next, Promise!Commit
  <2>4. CASE Invalidate
    BY <2>4 DEF Invalidate, Invalidated, Promise!Next, Promise!Invalidate
  <2>5. ASSUME NEW c \in Caller, AskForced(c)
        PROVE  Promise!Next
    BY <2>5 DEF AskForced, StartLoad, Promise!Next, Promise!Invalidate
  <2>6. ASSUME NEW c \in Caller, Ask(c)
        PROVE  Promise!Next \/ UNCHANGED Promise!promiseVars
    <3>1. \/ answered' = answered
          \/ answered' = cache /\ Current(cache)
      BY <1>2, <2>6, AskKeeps DEF CatalogInv
    <3>2. UNCHANGED <<revision, floor>>
      BY <2>6 DEF Ask
    <3>. QED BY <2>2, <3>1, <3>2 DEF Promise!promiseVars
  <2>7. ASSUME NEW l \in Load, Settle(l) \/ SettleFails(l)
        PROVE  Promise!Next \/ UNCHANGED Promise!promiseVars
    <3>1. \/ answered' = answered
          \/ answered' = cache /\ Current(cache)
          \/ answered' = flight[l].revision /\ Current(flight[l].revision)
      BY <1>2, <2>7, SettleKeeps, LoadAssumption DEF CatalogInv
    <3>2. UNCHANGED <<revision, floor>>
      BY <2>7 DEF Settle, SettleFails
    <3>. QED BY <2>2, <3>1, <3>2 DEF Promise!promiseVars
  <2>8. CASE WriterFails \/ CacheExpires \/ (\E l \in Load : Read(l)) \/ UNCHANGED vars
    BY <2>8 DEF WriterFails, CacheExpires, Read, vars, Promise!promiseVars
  <2>. QED BY <1>2, <2>3, <2>4, <2>5, <2>6, <2>7, <2>8 DEF Next
<1>. QED BY <1>1, <1>2, CatalogInvariant, PTL DEF Spec, Promise!Spec, ImplementsCatalogPromise
=============================================================================
