---------------------------- MODULE Provisioning -----------------------------
(***************************************************************************)
(* What operators set up with the command line and requests depend on: the *)
(* registration of applications with the prefix of their tables, the       *)
(* access keys with the applications granted to them and their audit, and  *)
(* the requests that present a key.                                        *)
(*                                                                         *)
(* A command is a process of its own.  It may first prepare the            *)
(* applications it names, one after the other under the named lock of      *)
(* each, then changes the key in one transaction, which locks the row of   *)
(* the key and, for a grant, those of the applications.  An application's  *)
(* tables are its prefix; what preparing does with them, and its audit, is *)
(* the subject of ApplicationWrite.  Names, presets and secrets are left   *)
(* out: a request presents a key with its secret and has the permission.   *)
(***************************************************************************)
EXTENDS Naturals, FiniteSets, Sequences

CONSTANTS
    Cli,                \* processes of the command line
    Nobody,             \* a lock is free
    App,                \* application names
    Asked,              \* the commands that operators give
    Prefix,             \* table prefixes
    NoPrefix,           \* the application is not registered
    Initial,            \* collisionSafePrefix of each application
    Hashed,             \* hashedPrefix of each application
    Key,                \* ids of access keys
    NoKey,              \* the command has no key
    MaxApplications,    \* MAX_API_KEY_APPLICATIONS
    Request,            \* requests that present a key
    MaxCommands,        \* bound: commands begun
    MaxFaults           \* bound: failed statements and killed processes

ASSUME NameAssumption ==
    /\ Nobody \notin Cli /\ NoKey \notin Key /\ NoPrefix \notin Prefix
    /\ Initial \in [App -> Prefix] /\ Hashed \in [App -> Prefix]

Kind == {"create", "grant", "ungrant", "revoke", "prepare"}

\* The command line and validateApplications: the applications are named, and not too
\* many; what prepares is a grant or creation told to, or app:prepare of one name.
ValidCommand(x) ==
    /\ x.kind # "revoke" => x.apps # {} /\ Cardinality(x.apps) <= MaxApplications
    /\ x.kind \in {"ungrant", "revoke"} => ~x.prepare
    /\ x.kind = "prepare" => x.prepare /\ Cardinality(x.apps) = 1

ASSUME CommandAssumption ==
    /\ IsFiniteSet(App) /\ App # {} /\ MaxApplications \in Nat
    /\ Asked \subseteq [kind : Kind, apps : SUBSET App, prepare : BOOLEAN]
    /\ \A x \in Asked : ValidCommand(x)

VARIABLES
    prefix,             \* table_prefix of the registered applications
    ready,              \* applications whose row is ready
    created,            \* keys that exist
    expired,            \* keys past expires_at
    revoked,            \* keys with revoked_at
    grants,             \* ota_api_key_applications of each key
    audits,             \* the audit rows that say what a key was granted
    revocations,        \* how many api_key_revoked rows name a key
    named,              \* holder of the preparation lock of each application
    appLock,            \* transaction that has locked an application's row
    keyLock,            \* transaction that has locked a key's row
    pc,                 \* step of the command of each process
    cmd,                \* its input
    todo,               \* applications it has still to prepare
    app,                \* the application it prepares
    candidate,          \* the prefix it has allocated
    before,             \* the grants it has read
    req,                \* requests
    begun,              \* commands so far
    faults              \* faults so far

registry == <<prefix, ready>>
keys == <<created, revoked, grants, audits, revocations>>
locks == <<named, appLock, keyLock>>
preparing == <<todo, app, candidate>>
process == <<pc, cmd, preparing, before>>
vars == <<registry, keys, expired, locks, process, req, begun, faults>>

-----------------------------------------------------------------------------
Command == [kind : Kind, apps : SUBSET App, prepare : BOOLEAN, key : Key \cup {NoKey}]
Audit == [before : SUBSET App, after : SUBSET App]
Pc == {"idle", "inspect", "measure", "prepare", "read", "insert", "build", "failing",
       "lock", "check", "commit"}

\* since: audit rows of its key when it arrived; dead: the key was out of use then.
RequestState == [pc : {"new", "sent", "using", "admitted", "refused"}, key : Key \cup {NoKey},
                 app : App, since : Nat, dead : BOOLEAN]

AnyApp == CHOOSE a \in App : TRUE
NoCommand == [kind |-> "revoke", apps |-> {}, prepare |-> FALSE, key |-> NoKey]
NewRequest == [pc |-> "new", key |-> NoKey, app |-> AnyApp, since |-> 0, dead |-> FALSE]

Init ==
    /\ prefix = [a \in App |-> NoPrefix] /\ ready = {}
    /\ created = {} /\ expired = {} /\ revoked = {}
    /\ grants = [k \in Key |-> {}] /\ audits = [k \in Key |-> <<>>]
    /\ revocations = [k \in Key |-> 0]
    /\ named = [a \in App |-> Nobody] /\ appLock = [a \in App |-> Nobody]
    /\ keyLock = [k \in Key |-> Nobody]
    /\ pc = [c \in Cli |-> "idle"] /\ cmd = [c \in Cli |-> NoCommand]
    /\ todo = [c \in Cli |-> {}] /\ app = [c \in Cli |-> AnyApp]
    /\ candidate = [c \in Cli |-> NoPrefix] /\ before = [c \in Cli |-> {}]
    /\ req = [r \in Request |-> NewRequest]
    /\ begun = 0 /\ faults = 0

Active(k) == k \notin revoked /\ k \notin expired
Registered(a) == prefix[a] # NoPrefix

Goto(c, step) == pc' = [pc EXCEPT ![c] = step]
Fault == faults < MaxFaults /\ faults' = faults + 1

Freed(lock, c) == [x \in DOMAIN lock |-> IF lock[x] = c THEN Nobody ELSE lock[x]]

\* Mutant: a refused change does not roll back.
EndsCommitted(c) ==
    /\ appLock' = Freed(appLock, c) /\ named' = Freed(named, c)
    /\ keyLock' = IF pc[c] = "commit" THEN Freed(keyLock, c) ELSE keyLock
    /\ Goto(c, "idle") /\ cmd' = [cmd EXCEPT ![c] = NoCommand]
    /\ todo' = [todo EXCEPT ![c] = {}] /\ app' = [app EXCEPT ![c] = AnyApp]
    /\ candidate' = [candidate EXCEPT ![c] = NoPrefix]
    /\ before' = [before EXCEPT ![c] = {}]

\* The command is over: COMMIT or ROLLBACK and the end of the session free its locks.
Ends(c) ==
    /\ appLock' = Freed(appLock, c) /\ named' = Freed(named, c)
    /\ keyLock' = Freed(keyLock, c)
    /\ Goto(c, "idle") /\ cmd' = [cmd EXCEPT ![c] = NoCommand]
    /\ todo' = [todo EXCEPT ![c] = {}] /\ app' = [app EXCEPT ![c] = AnyApp]
    /\ candidate' = [candidate EXCEPT ![c] = NoPrefix]
    /\ before' = [before EXCEPT ![c] = {}]

Fails(c) == Ends(c) /\ UNCHANGED <<registry, keys, expired, req, begun, faults>>

-----------------------------------------------------------------------------
(* The command line.                                                       *)

FirstStep(x) ==
    CASE x.kind = "grant" /\ x.prepare -> "inspect"
      [] x.kind # "grant" /\ x.prepare -> "prepare"
      [] x.kind = "create" /\ ~x.prepare -> "check"
      [] OTHER -> "lock"

\* The key a command may name: a new one has a random id, others are shown when they
\* have been created.
MayName(x, k) ==
    CASE x.kind = "prepare" -> k = NoKey
      [] x.kind = "create" -> k \in Key \ created /\ \A c \in Cli : cmd[c].key # k
      [] OTHER -> k \in created

Begin(c, x, k) ==
    /\ pc[c] = "idle" /\ begun < MaxCommands /\ MayName(x, k)
    /\ begun' = begun + 1
    /\ Goto(c, FirstStep(x))
    /\ cmd' = [cmd EXCEPT ![c] = [kind |-> x.kind, apps |-> x.apps, prepare |-> x.prepare,
                                  key |-> k]]
    /\ todo' = [todo EXCEPT ![c] = IF x.prepare THEN x.apps ELSE {}]
    /\ UNCHANGED <<registry, keys, expired, locks, app, candidate, before, req, faults>>

\* Before it prepares applications, key:grant reads the key, then its grants.
Inspect(c) ==
    /\ pc[c] = "inspect"
    /\ IF Active(cmd[c].key)
       THEN Goto(c, "measure") /\ UNCHANGED <<cmd, preparing, before, locks>>
       ELSE Ends(c)
    /\ UNCHANGED <<registry, keys, expired, req, begun, faults>>

Measure(c) ==
    /\ pc[c] = "measure"
    /\ IF Cardinality(grants[cmd[c].key] \cup cmd[c].apps) <= MaxApplications
       THEN Goto(c, "prepare") /\ UNCHANGED <<cmd, preparing, before, locks>>
       ELSE Ends(c)
    /\ UNCHANGED <<registry, keys, expired, req, begun, faults>>

\* Every application is prepared.
Prepared(c) ==
    /\ pc[c] = "prepare" /\ todo[c] = {}
    /\ IF cmd[c].kind = "prepare" THEN Ends(c)
       ELSE /\ Goto(c, IF cmd[c].kind = "create" THEN "check" ELSE "lock")
            /\ UNCHANGED <<cmd, preparing, before, locks>>
    /\ UNCHANGED <<registry, keys, expired, req, begun, faults>>

-----------------------------------------------------------------------------
(* prepare.                                                                *)

\* GET_LOCK of the next application.
PrepareNext(c) ==
    /\ pc[c] = "prepare"
    /\ \E a \in todo[c] :
          /\ named[a] = Nobody
          /\ named' = [named EXCEPT ![a] = c]
          /\ app' = [app EXCEPT ![c] = a]
    /\ Goto(c, "read")
    /\ UNCHANGED <<registry, keys, expired, appLock, keyLock, cmd, todo, candidate, before,
                   req, begun, faults>>

\* GET_LOCK gives up after 30 s.
Busy(c) ==
    /\ pc[c] = "prepare" /\ \E a \in todo[c] : named[a] # Nobody
    /\ Fails(c)

\* The application is prepared: RELEASE_LOCK.
NextApp(c) ==
    /\ named' = [named EXCEPT ![app[c]] = Nobody]
    /\ todo' = [todo EXCEPT ![c] = @ \ {app[c]}]
    /\ app' = [app EXCEPT ![c] = AnyApp]
    /\ candidate' = [candidate EXCEPT ![c] = NoPrefix]
    /\ Goto(c, "prepare")
    /\ UNCHANGED <<appLock, keyLock, cmd, before>>

Owned(p) == \E a \in App : prefix[a] = p

\* allocatePrefix, with what findByPrefix reads: no lock keeps it so.
Allocatable(a) ==
    IF ~Owned(Initial[a]) THEN {Initial[a]} ELSE {p \in {Hashed[a]} : ~Owned(p)}

\* The row, locked FOR UPDATE, is ready, or has its prefix, or is to be inserted.
Read(c) ==
    /\ pc[c] = "read" /\ appLock[app[c]] = Nobody
    /\ \/ /\ app[c] \in ready
          /\ NextApp(c)
       \/ /\ Registered(app[c]) /\ app[c] \notin ready
          /\ Goto(c, "build")
          /\ UNCHANGED <<cmd, preparing, before, locks>>
       \/ /\ ~Registered(app[c])
          /\ \E p \in Allocatable(app[c]) : candidate' = [candidate EXCEPT ![c] = p]
          /\ Goto(c, "insert")
          /\ UNCHANGED <<cmd, todo, app, before, locks>>
       \/ /\ ~Registered(app[c]) /\ Allocatable(app[c]) = {}
          /\ Goto(c, "failing")
          /\ UNCHANGED <<cmd, preparing, before, locks>>
    /\ UNCHANGED <<registry, keys, expired, req, begun, faults>>

\* Mutant: nothing makes the prefix unique.
InsertAnyway(c) ==
    /\ pc[c] = "insert"
    /\ prefix' = [prefix EXCEPT ![app[c]] = candidate[c]]
    /\ Goto(c, "build")
    /\ UNCHANGED <<ready, keys, expired, locks, cmd, preparing, before, req, begun, faults>>

\* table_prefix is unique: the insertion fails if another application has it by now.
Insert(c) ==
    /\ pc[c] = "insert"
    /\ IF Owned(candidate[c])
       THEN Goto(c, "failing") /\ UNCHANGED prefix
       ELSE Goto(c, "build") /\ prefix' = [prefix EXCEPT ![app[c]] = candidate[c]]
    /\ UNCHANGED <<ready, keys, expired, locks, cmd, preparing, before, req, begun, faults>>

\* The tables are there and the row becomes ready, when no transaction has it locked.
Build(c) ==
    /\ pc[c] = "build" /\ appLock[app[c]] = Nobody
    /\ ready' = ready \cup {app[c]}
    /\ NextApp(c)
    /\ UNCHANGED <<prefix, keys, expired, req, begun, faults>>

\* A statement of prepare fails; two that insert at once may fail by a deadlock.
PrepareFails(c) ==
    /\ pc[c] \in {"read", "insert", "build"}
    /\ \/ Fault
       \/ /\ pc[c] = "insert" /\ \E other \in Cli \ {c} : pc[other] = "insert"
          /\ UNCHANGED faults
    /\ Goto(c, "failing")
    /\ UNCHANGED <<registry, keys, expired, locks, cmd, preparing, before, req, begun>>

\* The failure is marked, if the application has a row, and the command is over.
MarkFailed(c) ==
    /\ pc[c] = "failing" /\ appLock[app[c]] = Nobody
    /\ ready' = ready \ {app[c]}
    /\ Ends(c)
    /\ UNCHANGED <<prefix, keys, expired, req, begun, faults>>

-----------------------------------------------------------------------------
(* create, changeApplications and revoke.                                  *)

Added(c) == IF cmd[c].kind = "ungrant" THEN {} ELSE cmd[c].apps \ before[c]
Removed(c) == IF cmd[c].kind = "ungrant" THEN before[c] \cap cmd[c].apps ELSE {}
With(apps, c) == (apps \cup Added(c)) \ Removed(c)

\* Mutant: what key:grant has inspected before preparing is not checked again.
ChangeableIfInspected(c, granted) ==
    \/ cmd[c].prepare
    \/ /\ Active(cmd[c].key)
       /\ cmd[c].kind = "grant" => Cardinality(granted \cup cmd[c].apps) <= MaxApplications

\* The check of the key and of the size of what it would be granted.
Changeable(c, granted) ==
    /\ Active(cmd[c].key)
    /\ cmd[c].kind = "grant" => Cardinality(granted \cup cmd[c].apps) <= MaxApplications

\* Mutant: the key and its grants are read without a lock.
ReadKeyUnlocked(c) ==
    /\ pc[c] = "lock"
    /\ IF cmd[c].kind = "revoke" \/ Changeable(c, grants[cmd[c].key])
       THEN /\ before' = [before EXCEPT ![c] = grants[cmd[c].key]]
            /\ Goto(c, IF cmd[c].kind = "grant" THEN "check" ELSE "commit")
            /\ UNCHANGED <<named, appLock, keyLock, cmd, preparing>>
       ELSE Ends(c)
    /\ UNCHANGED <<registry, keys, expired, req, begun, faults>>

\* SELECT ... FOR UPDATE of the key and its grants; both stay locked to the end.
LockKey(c) ==
    /\ pc[c] = "lock" /\ keyLock[cmd[c].key] = Nobody
    /\ IF cmd[c].kind = "revoke" \/ Changeable(c, grants[cmd[c].key])
       THEN /\ keyLock' = [keyLock EXCEPT ![cmd[c].key] = c]
            /\ before' = [before EXCEPT ![c] = grants[cmd[c].key]]
            /\ Goto(c, IF cmd[c].kind = "grant" THEN "check" ELSE "commit")
            /\ UNCHANGED <<named, appLock, cmd, preparing>>
       ELSE Ends(c)
    /\ UNCHANGED <<registry, keys, expired, req, begun, faults>>

\* Mutant: the applications are checked without a lock.
CheckUnlocked(c) ==
    /\ pc[c] = "check"
    /\ IF cmd[c].apps \subseteq ready
       THEN Goto(c, "commit") /\ UNCHANGED <<locks, cmd, preparing, before>>
       ELSE Ends(c)
    /\ UNCHANGED <<registry, keys, expired, req, begun, faults>>

\* SELECT ... FOR UPDATE of the applications to grant: all must be ready.
Check(c) ==
    /\ pc[c] = "check" /\ \A a \in cmd[c].apps : appLock[a] = Nobody
    /\ IF cmd[c].apps \subseteq ready
       THEN /\ appLock' = [a \in App |-> IF a \in cmd[c].apps THEN c ELSE appLock[a]]
            /\ Goto(c, "commit")
            /\ UNCHANGED <<named, keyLock, cmd, preparing, before>>
       ELSE Ends(c)
    /\ UNCHANGED <<registry, keys, expired, req, begun, faults>>

\* What is added is inserted, what is removed deleted, and the audit says so unless
\* nothing changes; a new key gets its row.
CommitScope(c) ==
    LET k == cmd[c].key IN
    /\ pc[c] = "commit" /\ cmd[c].kind # "revoke"
    /\ created' = created \cup {k}
    /\ grants' = [grants EXCEPT ![k] = With(@, c)]
    /\ audits' = IF Added(c) \cup Removed(c) = {} THEN audits
                 ELSE [audits EXCEPT ![k] = Append(@, [before |-> before[c],
                                                       after |-> With(before[c], c)])]
    /\ Ends(c)
    /\ UNCHANGED <<registry, expired, revoked, revocations, req, begun, faults>>

\* A key that is revoked already stays as it is.
CommitRevocation(c) ==
    LET k == cmd[c].key IN
    /\ pc[c] = "commit" /\ cmd[c].kind = "revoke"
    /\ revoked' = revoked \cup {k}
    /\ revocations' = IF k \in revoked THEN revocations ELSE [revocations EXCEPT ![k] = @ + 1]
    /\ Ends(c)
    /\ UNCHANGED <<registry, expired, created, grants, audits, req, begun, faults>>

\* A statement fails or waits too long for a row, or the process is killed anywhere.
Dies(c) ==
    /\ pc[c] # "idle"
    /\ Fault
    /\ Ends(c)
    /\ UNCHANGED <<registry, keys, expired, req, begun>>

-----------------------------------------------------------------------------
(* Requests: AuthGuard and ApiKeyService.                                  *)

Expire(k) ==
    /\ k \in created \ expired
    /\ expired' = expired \cup {k}
    /\ UNCHANGED <<registry, keys, locks, process, req, begun, faults>>

Arrive(r, k, a) ==
    /\ req[r].pc = "new" /\ k \in created
    /\ req' = [req EXCEPT ![r] = [pc |-> "sent", key |-> k, app |-> a,
                                  since |-> Len(audits[k]), dead |-> ~Active(k)]]
    /\ UNCHANGED <<registry, keys, expired, locks, process, begun, faults>>

\* Mutant: only the revocation is looked at.
AuthenticateExpired(r) ==
    /\ req[r].pc = "sent"
    /\ LET permitted == req[r].key \notin revoked /\ req[r].app \in grants[req[r].key]
       IN  req' = [req EXCEPT ![r].pc = IF permitted THEN "using" ELSE "refused"]
    /\ UNCHANGED <<registry, keys, expired, locks, process, begun, faults>>

\* authenticate reads the key with its grants in one statement, permits looks at them.
Authenticate(r) ==
    /\ req[r].pc = "sent"
    /\ LET permitted == Active(req[r].key) /\ req[r].app \in grants[req[r].key]
       IN  req' = [req EXCEPT ![r].pc = IF permitted THEN "using" ELSE "refused"]
    /\ UNCHANGED <<registry, keys, expired, locks, process, begun, faults>>

\* markUsed waits for the row of the key.
MarkUsed(r) ==
    /\ req[r].pc = "using" /\ keyLock[req[r].key] = Nobody
    /\ req' = [req EXCEPT ![r].pc = "admitted"]
    /\ UNCHANGED <<registry, keys, expired, locks, process, begun, faults>>

MarkUsedFails(r) ==
    /\ req[r].pc = "using"
    /\ Fault
    /\ req' = [req EXCEPT ![r].pc = "refused"]
    /\ UNCHANGED <<registry, keys, expired, locks, process, begun>>

-----------------------------------------------------------------------------
Prepares(c) ==
    \/ Prepared(c) \/ PrepareNext(c) \/ Busy(c) \/ Read(c) \/ Insert(c) \/ Build(c) \/ MarkFailed(c)

Changes(c) == LockKey(c) \/ Check(c) \/ CommitScope(c) \/ CommitRevocation(c)

Step(c) == Inspect(c) \/ Measure(c) \/ Prepares(c) \/ Changes(c)

Served(r) == Authenticate(r) \/ MarkUsed(r)

Next ==
    \/ \E c \in Cli : \/ Step(c) \/ PrepareFails(c) \/ Dies(c)
                      \/ \E x \in Asked, k \in Key \cup {NoKey} : Begin(c, x, k)
    \/ \E k \in Key : Expire(k)
    \/ \E r \in Request : \/ Served(r) \/ MarkUsedFails(r)
                          \/ \E k \in Key, a \in App : Arrive(r, k, a)

Spec == Init /\ [][Next]_vars

\* The database serves every process and every request.
FairSpec ==
    /\ Spec
    /\ \A c \in Cli : WF_vars(Step(c))
    /\ \A r \in Request : WF_vars(Served(r))

-----------------------------------------------------------------------------
(* Properties.                                                             *)

TypeOK ==
    /\ prefix \in [App -> Prefix \cup {NoPrefix}] /\ ready \subseteq App
    /\ created \subseteq Key /\ expired \subseteq Key /\ revoked \subseteq Key
    /\ grants \in [Key -> SUBSET App] /\ audits \in [Key -> Seq(Audit)]
    /\ revocations \in [Key -> Nat]
    /\ named \in [App -> Cli \cup {Nobody}] /\ appLock \in [App -> Cli \cup {Nobody}]
    /\ keyLock \in [Key -> Cli \cup {Nobody}]
    /\ pc \in [Cli -> Pc] /\ cmd \in [Cli -> Command]
    /\ todo \in [Cli -> SUBSET App] /\ app \in [Cli -> App]
    /\ candidate \in [Cli -> Prefix \cup {NoPrefix}] /\ before \in [Cli -> SUBSET App]
    /\ req \in [Request -> RequestState]
    /\ begun \in Nat /\ faults \in Nat

\* What the audit of a key says it was granted after its i-th row.
AuditedAfter(k, i) == IF i = 0 THEN {} ELSE audits[k][i].after

\* The audit tells the whole history of a key, also when several commands change it
\* at once: each row starts where the one before ended and says a real change, the
\* last says what is granted now, and a revocation is told once.
AuditsFollowGrants ==
    \A k \in Key :
        /\ \A i \in 1..Len(audits[k]) :
              /\ audits[k][i].before = AuditedAfter(k, i - 1)
              /\ audits[k][i].after # audits[k][i].before
        /\ grants[k] = AuditedAfter(k, Len(audits[k]))
        /\ revocations[k] = IF k \in revoked THEN 1 ELSE 0

\* A key has at most MAX_API_KEY_APPLICATIONS applications, also when grants that
\* are each small enough come together.
GrantsBounded == \A k \in Key : Cardinality(grants[k]) <= MaxApplications

\* Different applications never share tables, also when their names collide and
\* they are prepared at once, and only a registered application is ready or granted.
TablesAreOwn ==
    /\ \A a, b \in App : a # b /\ Registered(a) => prefix[a] # prefix[b]
    /\ \A a \in ready \cup UNION {grants[k] : k \in Key} : Registered(a)

\* A request is only admitted by a key in use when it arrived, for an application that
\* the key has been granted at some moment since then.
AdmittedWasGranted ==
    \A r \in Request :
        req[r].pc \in {"using", "admitted"}
        => /\ ~req[r].dead
           /\ \E i \in req[r].since..Len(audits[req[r].key]) :
                 req[r].app \in AuditedAfter(req[r].key, i)

\* What a step leaves of the keys that are revoked.
RevokedKept == \A k \in revoked : /\ k \in revoked' /\ grants'[k] = grants[k]
                                  /\ audits'[k] = audits[k]

\* A revoked key stays as it is: no command under way grants it or takes from it.
RevokedIsFinal == [][RevokedKept]_vars

\* A key is only granted what is ready at that moment, although an application may
\* fail to be prepared again between the check and the grant.
OnlyReadyIsGranted == [][\A k \in Key : grants'[k] \ grants[k] \subseteq ready]_vars

\* The requests that may go on, with what their keys permit them.
Permitted == {[request |-> r, key |-> req[r].key, app |-> req[r].app] :
                 r \in {q \in Request : req[q].pc \in {"using", "admitted"}}}

Ledger == INSTANCE KeyLedger WITH permitted <- Permitted

\* Commands that overlap, wait, fail and are killed anywhere come to single steps on a
\* ledger, audited with what they change, and a request is permitted by one look at it
\* (the transactions of changeApplications and revoke, and authenticate's one statement).
ImplementsKeyLedger == Ledger!Spec

\* Whatever they wait for, every command ends and every request is answered.
EveryCommandEnds ==
    /\ \A c \in Cli : pc[c] # "idle" ~> pc[c] = "idle"
    /\ \A r \in Request : req[r].pc \in {"sent", "using"} ~> req[r].pc \in {"admitted", "refused"}
=============================================================================
