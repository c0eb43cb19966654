-------------------------- MODULE RealtimeDispatch --------------------------
(***************************************************************************)
(* Pushing updates of one application to its sockets: connections with      *)
(* their subscriptions, what each socket was last told, the handlers that   *)
(* replay or recompute a decision after an await, and the publish tasks     *)
(* whose execution dispatches the catalog to every subscriber in chunks.    *)
(*                                                                          *)
(* The catalog is the one CatalogPromise promises (ReleaseCatalog           *)
(* implements it).  A decision is a table, Offer.  Code between two awaits  *)
(* is one action.  No lease expires while its execution is alive: takeovers *)
(* are the subject of PublishTask.                                          *)
(***************************************************************************)
EXTENDS CatalogPromise, FiniteSets, Bags

CONSTANTS
    Socket,             \* connections; an id is used for one connection
    Profile,            \* what a client says of itself when it subscribes
    Offer,              \* the decision per revision, profile and bound user
    NoOffer,            \* no update for this client
    Task,               \* publish tasks
    MaxAttempts,        \* max_attempts of a task
    ChunkSize,          \* subscribers per chunk
    MaxSubscriptions,   \* bound: subscription revisions of a connection
    MaxQueries,         \* bound: user subscriptions of a socket in progress
    MaxFaults           \* bound: failed loads, emits and executions

ASSUME SizeAssumption == MaxAttempts \in Nat \ {0} /\ ChunkSize \in Nat \ {0}
ASSUME ProfileAssumption == Profile # {}
ASSUME BoundAssumption == MaxQueries \in Nat

VARIABLES
    conn,               \* the connection store
    delivered,          \* deliveredReleases: what a socket was last told
    querying,           \* user subscriptions awaiting the message query
    pending,            \* bag of handlers awaiting the catalog
    task,               \* publish_task rows
    run,                \* the execution of each task
    missed,             \* history: sockets whose last handler failed
    faults              \* faults so far

socketVars == <<conn, delivered, querying, pending, missed>>
taskVars == <<task, run>>
vars == <<promiseVars, socketVars, taskVars, faults>>

-----------------------------------------------------------------------------
Revision == 0..MaxRevision
Payloads == {Offer[r][p][b] : r \in Revision, p \in Profile, b \in BOOLEAN} \ {NoOffer}

\* subscription: its revision, 0 when there is none; bound: a matching userId.
Connection == [state : {"new", "open", "closed"}, subscription : Nat, next : Nat,
               profile : Profile, bound : BOOLEAN]
Subscriber == [socket : Socket, subscription : Nat, profile : Profile, bound : BOOLEAN]
Handler == [subscriber : Subscriber, force : BOOLEAN]
TaskRow == [status : {"absent", "open", "succeeded", "failed"}, attempts : Nat]
\* claimed: effectiveRevision; captured: the subscribers are read after the first
\* lease check; todo: those not scanned yet.
Execution == [pc : {"idle", "claimed", "loading", "checking", "sending", "completing"},
              claimed : Revision, captured : BOOLEAN, todo : SUBSET Subscriber,
              emitErrors : BOOLEAN]

NotRunning == [pc |-> "idle", claimed |-> 0, captured |-> FALSE, todo |-> {},
               emitErrors |-> FALSE]
AnyProfile == CHOOSE p \in Profile : TRUE
Fresh(state) == [state |-> state, subscription |-> 0, next |-> 1,
                 profile |-> AnyProfile, bound |-> FALSE]

DispatchInit ==
    /\ Init
    /\ conn = [s \in Socket |-> Fresh("new")]
    /\ delivered = [s \in Socket |-> NoOffer]
    /\ querying = [s \in Socket |-> 0]
    /\ pending = EmptyBag
    /\ task = [t \in Task |-> [status |-> "absent", attempts |-> 0]]
    /\ run = [t \in Task |-> NotRunning]
    /\ missed = {}
    /\ faults = 0

Fault == faults < MaxFaults /\ faults' = faults + 1

-----------------------------------------------------------------------------
(* emitCurrentDecision.                                                     *)

Subscribed(s) == conn[s].subscription > 0

\* What a handler or a dispatch captures of the connection c of s.
Capture(s, c) == [socket |-> s, subscription |-> c.subscription,
                  profile |-> c.profile, bound |-> c.bound]

toSubscriber(s) == Capture(s, conn[s])

\* getApplicationSubscribers.
Subscribers == {toSubscriber(s) : s \in {x \in Socket : Subscribed(x)}}

isCurrent(sub) ==
    Subscribed(sub.socket) /\ conn[sub.socket].subscription = sub.subscription

Wanted(sub, r) == Offer[r][sub.profile][sub.bound]

\* A release told before is withdrawn when it is not the one wanted now.
Revokes(prev, want) == prev # NoOffer /\ (want = NoOffer \/ prev.release # want.release)

\* An update is emitted when forced or when the release is another.
Updates(prev, want, force) ==
    want # NoOffer /\ (force \/ prev = NoOffer \/ prev.release # want.release)

\* What the socket is told when every emit succeeds.
Told(prev, want, force) ==
    IF Updates(prev, want, force) THEN want
    ELSE IF Revokes(prev, want) THEN NoOffer ELSE prev

\* What it may have been told when one fails: a failed withdrawal stops there.
ToldLess(prev, want, force) ==
    {p \in {prev} : Revokes(prev, want) \/ Updates(prev, want, force)}
    \cup {p \in {NoOffer} : Revokes(prev, want) /\ want # NoOffer}

-----------------------------------------------------------------------------
(* Connections.                                                             *)

Connect(s) ==
    /\ conn[s].state = "new"
    /\ conn' = [conn EXCEPT ![s] = Fresh("open")]
    /\ UNCHANGED <<promiseVars, taskVars, delivered, querying, pending, missed, faults>>

\* handleDisconnect; what its handlers await goes on.
Disconnect(s) ==
    /\ conn[s].state = "open"
    /\ conn' = [conn EXCEPT ![s] = Fresh("closed")]
    /\ delivered' = [delivered EXCEPT ![s] = NoOffer]
    /\ missed' = missed \ {s}
    /\ UNCHANGED <<promiseVars, taskVars, querying, pending, faults>>

\* Mutant: the revision is counted from the subscription that may be removed.
RevisedFromSubscription(s) ==
    [conn[s] EXCEPT !.subscription = conn[s].subscription + 1, !.next = @ + 1]

\* The revision comes from the connection's lifetime, not from the subscription.
Revised(s) == [conn[s] EXCEPT !.subscription = conn[s].next, !.next = @ + 1]

\* The connection when its user changes: a subscription gets a new revision.
Rebound(s, bound) ==
    [(IF Subscribed(s) THEN Revised(s) ELSE conn[s]) EXCEPT !.bound = bound]

Awaiting(handler) == pending' = pending (+) SetToBag({handler})

\* app:subscribe: register, then await the catalog to replay the decision.
SubscribeApplication(s) ==
    /\ conn[s].state = "open" /\ conn[s].next <= MaxSubscriptions
    /\ \E p \in Profile :
          LET c == [Revised(s) EXCEPT !.profile = p] IN
          /\ conn' = [conn EXCEPT ![s] = c]
          /\ Awaiting([subscriber |-> Capture(s, c), force |-> TRUE])
    /\ missed' = missed \ {s}
    /\ UNCHANGED <<promiseVars, taskVars, delivered, querying, faults>>

\* Mutant: unsubscribing leaves the delivery record.
UnsubscribeKeepsDelivery(s) ==
    /\ Subscribed(s)
    /\ conn' = [conn EXCEPT ![s].subscription = 0]
    /\ missed' = missed \ {s}
    /\ UNCHANGED <<promiseVars, taskVars, delivered, querying, pending, faults>>

UnsubscribeApplication(s) ==
    /\ Subscribed(s)
    /\ conn' = [conn EXCEPT ![s].subscription = 0]
    /\ delivered' = [delivered EXCEPT ![s] = NoOffer]
    /\ missed' = missed \ {s}
    /\ UNCHANGED <<promiseVars, taskVars, querying, pending, faults>>

\* userId:subscribe: the subscription gets a new revision at once, the
\* recomputation follows when the stored message has been queried.
SubscribeUserId(s) ==
    /\ conn[s].state = "open" /\ querying[s] < MaxQueries
    /\ Subscribed(s) => conn[s].next <= MaxSubscriptions
    /\ conn' = [conn EXCEPT ![s] = Rebound(s, TRUE)]
    /\ querying' = [querying EXCEPT ![s] = @ + 1]
    /\ UNCHANGED <<promiseVars, taskVars, delivered, pending, missed, faults>>

\* Mutant: a change of the user is not followed by a recomputation.
NoRecompute(s, c) == UNCHANGED pending

\* recomputeConnectionApplications captures the subscription of this moment.
Recompute(s, c) ==
    IF Subscribed(s) THEN Awaiting([subscriber |-> Capture(s, c), force |-> FALSE])
                     ELSE UNCHANGED pending

\* The message query returns or fails: the recomputation starts.
MessageQueried(s) ==
    /\ querying[s] > 0
    /\ querying' = [querying EXCEPT ![s] = @ - 1]
    /\ Recompute(s, conn[s])
    /\ UNCHANGED <<promiseVars, taskVars, conn, delivered, missed, faults>>

\* userId:unsubscribe recomputes at once.
UnsubscribeUserId(s) ==
    /\ conn[s].state = "open" /\ conn[s].bound
    /\ Subscribed(s) => conn[s].next <= MaxSubscriptions
    /\ conn' = [conn EXCEPT ![s] = Rebound(s, FALSE)]
    /\ Recompute(s, Rebound(s, FALSE))
    /\ UNCHANGED <<promiseVars, taskVars, delivered, querying, missed, faults>>

-----------------------------------------------------------------------------
(* The catalog answers a handler.                                           *)

Done(h) == pending' = pending (-) SetToBag({h})

\* The handler's own continuation: it may emit, if its subscription is current.
Replay(h, r) ==
    LET s == h.subscriber.socket
        prev == delivered[s]
        want == Wanted(h.subscriber, r)
    IN
    \/ /\ ~isCurrent(h.subscriber)
       /\ UNCHANGED <<delivered, missed, faults>>
    \/ /\ isCurrent(h.subscriber)
       /\ delivered' = [delivered EXCEPT ![s] = Told(prev, want, h.force)]
       /\ missed' = missed \ {s}
       /\ UNCHANGED faults
    \/ /\ isCurrent(h.subscriber)
       /\ \E told \in ToldLess(prev, want, h.force) :
             delivered' = [delivered EXCEPT ![s] = told]
       /\ missed' = missed \cup {s}
       /\ Fault

CatalogAnswered(h) ==
    /\ BagIn(h, pending)
    /\ \E r \in Revision : Answer(r) /\ Replay(h, r)
    /\ Done(h)
    /\ UNCHANGED <<taskVars, conn, querying>>

\* The load fails: a replay is logged, a recomputation rejects its handler.
CatalogFails(h) ==
    /\ BagIn(h, pending)
    /\ Fault
    /\ Done(h)
    /\ missed' = IF isCurrent(h.subscriber) THEN missed \cup {h.subscriber.socket} ELSE missed
    /\ UNCHANGED <<promiseVars, taskVars, conn, delivered, querying>>

-----------------------------------------------------------------------------
(* Publishing.                                                              *)

\* A release transaction: the revision and its task are committed together.
Release(t) ==
    /\ task[t].status = "absent"
    /\ Commit
    /\ task' = [task EXCEPT ![t].status = "open"]
    /\ UNCHANGED <<socketVars, run, faults>>

\* The writer invalidates the catalog once its commit is acknowledged.
WriterInvalidates ==
    /\ \E t \in Task : task[t].status # "absent"
    /\ Invalidate
    /\ UNCHANGED <<socketVars, taskVars, faults>>

\* claimTask commits the attempt at the revision it reads.
ClaimTask(t) ==
    /\ task[t].status = "open" /\ run[t].pc = "idle"
    /\ task[t].attempts < MaxAttempts
    /\ task' = [task EXCEPT ![t].attempts = @ + 1]
    /\ run' = [run EXCEPT ![t] = [NotRunning EXCEPT !.pc = "claimed", !.claimed = revision]]
    /\ UNCHANGED <<promiseVars, socketVars, faults>>

\* dispatchApplicationUpdate starts with a forced load.
ForceLoad(t) ==
    /\ run[t].pc = "claimed"
    /\ Invalidate
    /\ run' = [run EXCEPT ![t].pc = "loading"]
    /\ UNCHANGED <<socketVars, task, faults>>

\* Mutant: a status the task table's readers do not know.
AttemptFailsUnknown(t) ==
    /\ run' = [run EXCEPT ![t] = NotRunning]
    /\ task' = [task EXCEPT ![t].status =
                    IF task[t].attempts >= MaxAttempts THEN "failed" ELSE "retrying"]

\* The attempt fails: the task waits for a retry or has used its attempts.
AttemptFails(t) ==
    /\ run' = [run EXCEPT ![t] = NotRunning]
    /\ task' = [task EXCEPT ![t].status =
                    IF task[t].attempts >= MaxAttempts THEN "failed" ELSE "open"]

Loaded(t) ==
    /\ run[t].pc = "loading"
    /\ \E r \in Revision :
          /\ Answer(r)
          /\ IF r = run[t].claimed
             THEN run' = [run EXCEPT ![t].pc = "checking"] /\ UNCHANGED task
             ELSE AttemptFails(t)
    /\ UNCHANGED <<socketVars, faults>>

\* isLeaseValid: before the first chunk, between chunks and after the last.
LeaseChecked(t) ==
    /\ run[t].pc = "checking"
    /\ IF \/ revision # run[t].claimed
          \/ run[t].captured /\ run[t].todo = {} /\ run[t].emitErrors
       THEN AttemptFails(t)
       ELSE /\ run' = [run EXCEPT ![t].pc = IF run[t].captured /\ run[t].todo = {}
                                            THEN "completing" ELSE "sending"]
            /\ UNCHANGED task
    /\ UNCHANGED <<promiseVars, socketVars, faults>>

\* The subscribers still to scan; they are captured with the first chunk.
ToScan(t) == IF run[t].captured THEN run[t].todo ELSE Subscribers

\* The chunks that may come next: ChunkSize of them, or all that are left.
Chunks(t) ==
    {c \in SUBSET ToScan(t) :
        \/ Cardinality(c) = ChunkSize
        \/ c = ToScan(t) /\ Cardinality(c) < ChunkSize}

\* What socket s is told by a chunk c of t's dispatch.
ToldBy(t, c, s) ==
    LET subs == {sub \in c : sub.socket = s /\ isCurrent(sub)} IN
    IF subs = {} THEN delivered[s]
    ELSE Told(delivered[s], Wanted(CHOOSE sub \in subs : TRUE, run[t].claimed), TRUE)

\* The sockets that the subscribers of c in fact reach.
Reached(c) == {sub.socket : sub \in {x \in c : isCurrent(x)}}

\* Mutant: one chunk is all that is sent.
SentOneChunk(t, c, errors) ==
    run' = [run EXCEPT ![t] = [run[t] EXCEPT
                !.pc = "checking", !.captured = TRUE, !.todo = {},
                !.emitErrors = @ \/ errors]]

\* Mutant: a chunk whose emits failed counts as sent.
SentWithoutErrors(t, c, errors) ==
    run' = [run EXCEPT ![t] = [run[t] EXCEPT
                !.pc = "checking", !.captured = TRUE, !.todo = ToScan(t) \ c]]

SentChunk(t, c, errors) ==
    run' = [run EXCEPT ![t] = [run[t] EXCEPT
                !.pc = "checking", !.captured = TRUE, !.todo = ToScan(t) \ c,
                !.emitErrors = @ \/ errors]]

\* One chunk, without an await.
SendChunk(t) ==
    /\ run[t].pc = "sending"
    /\ \E c \in Chunks(t) :
          /\ delivered' = [s \in Socket |-> ToldBy(t, c, s)]
          /\ missed' = missed \ Reached(c)
          /\ SentChunk(t, c, FALSE)
    /\ UNCHANGED <<promiseVars, conn, querying, pending, task, faults>>

\* One of its emits fails, and is counted.
SendChunkFails(t) ==
    /\ run[t].pc = "sending"
    /\ Fault
    /\ \E c \in Chunks(t) : \E sub \in {x \in c : isCurrent(x)} :
          /\ \E told \in ToldLess(delivered[sub.socket], Wanted(sub, run[t].claimed), TRUE) :
                delivered' = [s \in Socket |->
                                IF s = sub.socket THEN told ELSE ToldBy(t, c, s)]
          /\ missed' = missed \ Reached(c \ {sub})
          /\ SentChunk(t, c, TRUE)
    /\ UNCHANGED <<promiseVars, conn, querying, pending, task>>

\* The completion transaction requires the claimed revision once more.
Complete(t) ==
    /\ run[t].pc = "completing"
    /\ IF revision = run[t].claimed
       THEN /\ task' = [task EXCEPT ![t].status = "succeeded"]
            /\ run' = [run EXCEPT ![t] = NotRunning]
       ELSE AttemptFails(t)
    /\ UNCHANGED <<promiseVars, socketVars, faults>>

\* A call of the execution fails.
ExecutionFails(t) ==
    /\ run[t].pc \in {"claimed", "loading", "checking", "completing"}
    /\ Fault
    /\ AttemptFails(t)
    /\ UNCHANGED <<promiseVars, socketVars>>

-----------------------------------------------------------------------------
Client(s) ==
    \/ Connect(s) \/ Disconnect(s)
    \/ SubscribeApplication(s) \/ UnsubscribeApplication(s)
    \/ SubscribeUserId(s) \/ UnsubscribeUserId(s)

Handle(h) == CatalogAnswered(h) \/ CatalogFails(h)

Execute(t) ==
    \/ ClaimTask(t) \/ ForceLoad(t) \/ Loaded(t) \/ LeaseChecked(t)
    \/ SendChunk(t) \/ SendChunkFails(t) \/ Complete(t) \/ ExecutionFails(t)

DispatchNext ==
    \/ \E s \in Socket : Client(s) \/ MessageQueried(s)
    \/ \E h \in BagToSet(pending) : Handle(h)
    \/ \E t \in Task : Release(t) \/ Execute(t)
    \/ WriterInvalidates

DispatchSpec == DispatchInit /\ [][DispatchNext]_vars

\* The database answers, and the recovery loop executes what is open.
FairDispatch ==
    /\ DispatchSpec
    /\ \A s \in Socket : WF_vars(MessageQueried(s))
    /\ WF_vars(\E h \in BagToSet(pending) : Handle(h))
    /\ \A t \in Task : WF_vars(Execute(t))

-----------------------------------------------------------------------------
(* Properties.                                                              *)

TypeOK ==
    /\ revision \in Revision /\ floor \in Revision /\ answered \in Revision
    /\ conn \in [Socket -> Connection]
    /\ delivered \in [Socket -> Payloads \cup {NoOffer}]
    /\ querying \in [Socket -> 0..MaxQueries]
    /\ BagToSet(pending) \subseteq Handler
    /\ task \in [Task -> TaskRow]
    /\ run \in [Task -> Execution]
    /\ missed \subseteq Socket
    /\ faults \in Nat

\* A handler of s, or the query before it, has still to answer.
Awaited(s) ==
    \/ querying[s] > 0
    \/ \E h \in BagToSet(pending) : h.subscriber.socket = s /\ isCurrent(h.subscriber)

\* The release a decision tells, its flags left aside.
ReleaseOf(p) == IF p = NoOffer THEN NoOffer ELSE p.release

Current(s) == Wanted(toSubscriber(s), revision)

\* Nothing is on its way to s: every task succeeded, no handler is awaited and
\* the last one did not fail.
Settled(s) ==
    /\ Subscribed(s)
    /\ \A t \in Task : task[t].status \in {"absent", "succeeded"}
    /\ ~Awaited(s) /\ s \notin missed

\* Once everything has settled, a subscribed socket was last told exactly the
\* release the committed catalog offers its present subscription, whatever
\* order dispatches, replays, recomputations and subscription changes took.
Converged ==
    \A s \in Socket : Settled(s) => ReleaseOf(delivered[s]) = ReleaseOf(Current(s))

\* A late continuation of a replaced, removed or dead subscription leaves no
\* delivery record: deliveredReleases holds only what is subscribed.
NoDeadDeliveries == \A s \in Socket : delivered[s] # NoOffer => Subscribed(s)

\* A socket is only ever pushed a decision for the context it has subscribed
\* with at that moment: none of a profile or user it had before.
PushesMatchSubscription ==
    [][\A s \in Socket :
          delivered'[s] # delivered[s] /\ delivered'[s] # NoOffer
          => \E r \in 0..revision : delivered'[s] = Wanted(toSubscriber(s), r)]_vars

\* What a task's success means: every subscriber was last told the release the
\* committed catalog offers it, unless its handler is awaited or failed, or an
\* earlier attempt of another task, yet to succeed, told it something older.
SuccessReachesEveryone ==
    [][\A t \in Task :
          task[t].status = "open" /\ task'[t].status = "succeeded"
          => \A s \in Socket :
                \/ ~Subscribed(s) \/ Awaited(s) \/ s \in missed
                \/ ReleaseOf(delivered[s]) = ReleaseOf(Current(s))
                \/ \E u \in Task \ {t} : task[u].attempts > 0 /\ task[u].status # "succeeded"]_vars

\* What the documentation says: the order in which the application and the user
\* are subscribed makes no difference to the decision a settled client is told.
OrderMakesNoDifference == \A s \in Socket : Settled(s) => delivered[s] = Current(s)

\* A socket that was told something out of date is brought up to date, unless a
\* task used up its attempts, its own handler failed or it unsubscribed.
StaleSocketCatchesUp ==
    \A s \in Socket :
        Subscribed(s) /\ ReleaseOf(delivered[s]) # ReleaseOf(Current(s))
        ~> \/ ~Subscribed(s) \/ s \in missed
           \/ ReleaseOf(delivered[s]) = ReleaseOf(Current(s))
           \/ \E t \in Task : task[t].status = "failed"
=============================================================================
