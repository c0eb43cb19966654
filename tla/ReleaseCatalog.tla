--------------------------- MODULE ReleaseCatalog ---------------------------
(***************************************************************************)
(* The release catalog of one application: a cached catalog, the load in   *)
(* flight that new callers join, loads an invalidation has disowned, and   *)
(* the callers waiting on each.                                            *)
(*                                                                         *)
(* A load reads one REPEATABLE READ snapshot, so a catalog is its revision. *)
(* Everything between two awaits is one action; the continuations of a     *)
(* promise run before anything else does, so a load settles in one action. *)
(***************************************************************************)
EXTENDS Naturals

CONSTANTS
    Caller,             \* requests that read the catalog
    Load,               \* loads that may be in flight, one more than the callers
    NoLoad,             \* no load in flight
    NoCatalog,          \* nothing cached
    MaxRevision,        \* bound: catalog_revision
    MaxInvalidations,   \* bound: invalidations
    MaxFaults           \* bound: failed loads and writers whose answer is lost

ASSUME LoadAssumption == NoLoad \notin Load
ASSUME CatalogAssumption == MaxRevision \in Nat /\ NoCatalog \notin Nat

VARIABLES
    revision,           \* catalog_revision, as committed
    uninvalidated,      \* writers that committed and have not invalidated yet
    cache,              \* the cached catalog, NoCatalog when missing or expired
    active,             \* loads.get(appName)
    flight,             \* every load in flight, active or disowned
    waiting,            \* the load each caller waits on
    floor,              \* history: revision at the last invalidation
    answered,           \* history: revision of the last catalog handed out
    invalidations,      \* invalidations so far
    faults              \* faults so far

vars == <<revision, uninvalidated, cache, active, flight, waiting, floor, answered,
          invalidations, faults>>

-----------------------------------------------------------------------------
Revision == 0..MaxRevision
Flight == [pc : {"none", "reading", "read"}, revision : Revision]
NotInFlight == [pc |-> "none", revision |-> 0]

Init ==
    /\ revision = 0
    /\ uninvalidated = 0
    /\ cache = NoCatalog
    /\ active = NoLoad
    /\ flight = [l \in Load |-> NotInFlight]
    /\ waiting = [c \in Caller |-> NoLoad]
    /\ floor = 0
    /\ answered = 0
    /\ invalidations = 0
    /\ faults = 0

Free(l) == flight[l].pc = "none"
Waiters(l) == {c \in Caller : waiting[c] = l}

\* waiting with the callers in C moved to l.
Moved(C, l) == [c \in Caller |-> IF c \in C THEN l ELSE waiting[c]]

-----------------------------------------------------------------------------
\* invalidate: the cache and the active load are forgotten.
Invalidated ==
    /\ cache' = NoCatalog
    /\ active' = NoLoad
    /\ floor' = revision
    /\ invalidations' = invalidations + 1

\* A cached catalog answers the callers in C at once.
AnswerFromCache(C) ==
    /\ cache # NoCatalog
    /\ answered' = cache
    /\ waiting' = Moved(C, NoLoad)
    /\ UNCHANGED active

\* They join the active load.
JoinActive(C) ==
    /\ cache = NoCatalog /\ active # NoLoad
    /\ waiting' = Moved(C, active)
    /\ UNCHANGED <<answered, active>>

\* They wait on a new load l.
StartLoad(C, l) ==
    /\ Free(l)
    /\ waiting' = Moved(C, l)
    /\ active' = l
    /\ UNCHANGED answered

\* loadCatalog without force, called for the callers in C; flights is what
\* flight becomes apart from a load started here.
LoadCatalog(C, flights) ==
    \/ AnswerFromCache(C) /\ flight' = flights
    \/ JoinActive(C) /\ flight' = flights
    \/ /\ cache = NoCatalog /\ active = NoLoad
       /\ \E l \in Load :
             /\ StartLoad(C, l)
             /\ flight' = [flights EXCEPT ![l] = [pc |-> "reading", revision |-> 0]]

-----------------------------------------------------------------------------
(* Writers.                                                                *)

Commit ==
    /\ revision < MaxRevision
    /\ revision' = revision + 1
    /\ uninvalidated' = uninvalidated + 1
    /\ UNCHANGED <<cache, active, flight, waiting, floor, answered, invalidations, faults>>

\* The writer has its commit acknowledged and invalidates.
Invalidate ==
    /\ uninvalidated > 0 /\ invalidations < MaxInvalidations
    /\ uninvalidated' = uninvalidated - 1
    /\ Invalidated
    /\ UNCHANGED <<revision, flight, waiting, answered, faults>>

\* The acknowledgement is lost: the writer throws before it invalidates.
WriterFails ==
    /\ uninvalidated > 0
    /\ faults < MaxFaults /\ faults' = faults + 1
    /\ uninvalidated' = uninvalidated - 1
    /\ UNCHANGED <<revision, cache, active, flight, waiting, floor, answered, invalidations>>

-----------------------------------------------------------------------------
(* Callers and loads.                                                      *)

Ask(c) ==
    /\ waiting[c] = NoLoad
    /\ LoadCatalog({c}, flight)
    /\ UNCHANGED <<revision, uninvalidated, cache, floor, invalidations, faults>>

\* loadCatalog with force, as a dispatch calls it: a load of its own.
AskForced(c) ==
    /\ waiting[c] = NoLoad /\ invalidations < MaxInvalidations
    /\ cache' = NoCatalog
    /\ floor' = revision
    /\ invalidations' = invalidations + 1
    /\ \E l \in Load :
          /\ StartLoad({c}, l)
          /\ flight' = [flight EXCEPT ![l] = [pc |-> "reading", revision |-> 0]]
    /\ UNCHANGED <<revision, uninvalidated, faults>>

\* loadCatalogFromDatabase: the snapshot is taken.
Read(l) ==
    /\ flight[l].pc = "reading"
    /\ flight' = [flight EXCEPT ![l] = [pc |-> "read", revision |-> revision]]
    /\ UNCHANGED <<revision, uninvalidated, cache, active, waiting, floor, answered, invalidations, faults>>

\* The load is still the active one: it fills the cache and answers.
SettleOwned(l) ==
    /\ active = l
    /\ cache' = flight[l].revision
    /\ active' = NoLoad
    /\ flight' = [flight EXCEPT ![l] = NotInFlight]
    /\ waiting' = Moved(Waiters(l), NoLoad)
    /\ answered' = flight[l].revision

\* Mutant: a disowned load answers its callers all the same.
SettleDisownedAnswers(l) ==
    /\ active # l
    /\ flight' = [flight EXCEPT ![l] = NotInFlight]
    /\ waiting' = Moved(Waiters(l), NoLoad)
    /\ answered' = flight[l].revision
    /\ UNCHANGED <<cache, active>>

\* It was disowned: its callers load again and nothing is cached from it.
SettleDisowned(l) ==
    /\ active # l
    /\ LoadCatalog(Waiters(l), [flight EXCEPT ![l] = NotInFlight])
    /\ UNCHANGED cache

Settle(l) ==
    /\ flight[l].pc = "read"
    /\ SettleOwned(l) \/ SettleDisowned(l)
    /\ UNCHANGED <<revision, uninvalidated, floor, invalidations, faults>>

\* Mutant: a rejected load stays the active one.
FailOwnedKeepsActive(l) ==
    /\ active = l
    /\ flight' = [flight EXCEPT ![l] = NotInFlight]
    /\ waiting' = Moved(Waiters(l), NoLoad)
    /\ UNCHANGED <<cache, active, answered>>

\* The read fails: the callers of an active load are rejected.
FailOwned(l) ==
    /\ active = l
    /\ active' = NoLoad
    /\ flight' = [flight EXCEPT ![l] = NotInFlight]
    /\ waiting' = Moved(Waiters(l), NoLoad)
    /\ UNCHANGED <<cache, answered>>

SettleFails(l) ==
    /\ flight[l].pc # "none"
    /\ faults < MaxFaults /\ faults' = faults + 1
    /\ FailOwned(l) \/ SettleDisowned(l)
    /\ UNCHANGED <<revision, uninvalidated, floor, invalidations>>

\* Five seconds pass.
CacheExpires ==
    /\ cache # NoCatalog
    /\ cache' = NoCatalog
    /\ UNCHANGED <<revision, uninvalidated, active, flight, waiting, floor, answered, invalidations, faults>>

-----------------------------------------------------------------------------
Next ==
    \/ Commit \/ Invalidate \/ WriterFails
    \/ \E c \in Caller : Ask(c) \/ AskForced(c)
    \/ \E l \in Load : Read(l) \/ Settle(l) \/ SettleFails(l)
    \/ CacheExpires

Spec == Init /\ [][Next]_vars

\* The database answers every load.
FairSpec == Spec /\ \A l \in Load : WF_vars(Read(l)) /\ WF_vars(Settle(l))

-----------------------------------------------------------------------------
(* Properties.                                                             *)

TypeOK ==
    /\ revision \in Revision
    /\ uninvalidated \in Nat
    /\ cache \in Revision \cup {NoCatalog}
    /\ active \in Load \cup {NoLoad}
    /\ flight \in [Load -> Flight]
    /\ waiting \in [Caller -> Load \cup {NoLoad}]
    /\ floor \in Revision /\ answered \in Revision
    /\ invalidations \in Nat /\ faults \in Nat

\* Work an invalidation has disowned cannot refill the cache: what is cached,
\* or will be by the active load, is no older than the last invalidation.
CacheIsFresh ==
    /\ cache # NoCatalog => cache >= floor
    /\ active # NoLoad /\ flight[active].pc = "read" => flight[active].revision >= floor

\* Every caller is answered or rejected once the invalidations stop.
EveryCallerServed == \A c \in Caller : waiting[c] # NoLoad ~> waiting[c] = NoLoad

\* What the callers see is what CatalogPromise promises.
Promise == INSTANCE CatalogPromise
ImplementsCatalogPromise == Promise!Spec
=============================================================================
