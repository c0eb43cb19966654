------------------------- MODULE ProvisioningProofs -------------------------
(***************************************************************************)
(* Proofs about Provisioning, for every number of processes, applications, *)
(* keys, requests and faults.                                              *)
(*                                                                         *)
(* A command relies on the rows it has locked (CmdInv): while it holds the *)
(* key's row nobody else changes the grants it has read, while it holds an *)
(* application's row the application stays ready.  Every step keeps what   *)
(* other commands rely on (Rely).                                          *)
(***************************************************************************)
EXTENDS Provisioning, FiniteSetTheorems, TLAPS

CmdInv(c) ==
    /\ ValidCommand(cmd[c])
    /\ pc[c] = "idle" => cmd[c] = NoCommand /\ before[c] = {}
    /\ cmd[c].kind = "create" => cmd[c].key \in Key \ created /\ before[c] = {}
    /\ cmd[c].kind \in {"grant", "ungrant", "revoke"} /\ pc[c] # "idle" => cmd[c].key \in created
    /\ pc[c] \in {"inspect", "measure"} => cmd[c].kind = "grant"
    /\ pc[c] \in {"prepare", "read", "insert", "build", "failing"}
          => cmd[c].kind \in {"create", "grant", "prepare"}
    /\ pc[c] = "insert" => candidate[c] \in Prefix
    /\ pc[c] = "build" => Registered(app[c])
    /\ pc[c] = "lock" => cmd[c].kind \in {"grant", "ungrant", "revoke"}
    /\ pc[c] = "check" => cmd[c].kind \in {"create", "grant"}
    /\ pc[c] = "commit" => cmd[c].kind # "prepare"
    /\ pc[c] \in {"check", "commit"} /\ cmd[c].kind # "create" => keyLock[cmd[c].key] = c
    /\ pc[c] \in {"check", "commit"} /\ cmd[c].kind \in {"grant", "ungrant"}
          => cmd[c].key \notin revoked /\ before[c] = grants[cmd[c].key]
    /\ pc[c] \in {"check", "commit"} /\ cmd[c].kind = "grant"
          => Cardinality(grants[cmd[c].key] \cup cmd[c].apps) <= MaxApplications
    /\ pc[c] = "commit" /\ cmd[c].kind \in {"create", "grant"}
          => cmd[c].apps \subseteq ready /\ \A a \in cmd[c].apps : appLock[a] = c

\* The keys that are being created are different.
FreshKeys ==
    \A c, d \in Cli : c # d /\ cmd[c].kind = "create" /\ cmd[d].kind = "create"
                      => cmd[c].key # cmd[d].key

Unused(k) == grants[k] = {} /\ audits[k] = <<>> /\ k \notin revoked

KeyInv == \A k \in Key \ created : Unused(k)

ReqInv(r) ==
    /\ req[r].pc # "new" => /\ req[r].key \in Key
                            /\ req[r].since <= Len(audits[req[r].key])
                            /\ req[r].dead => ~Active(req[r].key)
    /\ req[r].pc \in {"using", "admitted"}
          => /\ ~req[r].dead
             /\ \E i \in req[r].since..Len(audits[req[r].key]) :
                   req[r].app \in AuditedAfter(req[r].key, i)

IInv ==
    /\ TypeOK
    /\ \A c \in Cli : CmdInv(c)
    /\ FreshKeys
    /\ KeyInv
    /\ AuditsFollowGrants
    /\ GrantsBounded
    /\ TablesAreOwn
    /\ \A r \in Request : ReqInv(r)

\* A step of c leaves the other commands alone, with the rows they have locked.
Apart(c) ==
    \A d \in Cli \ {c} :
        /\ pc'[d] = pc[d] /\ cmd'[d] = cmd[d] /\ before'[d] = before[d]
        /\ app'[d] = app[d] /\ candidate'[d] = candidate[d]
        /\ \A k \in Key : keyLock[k] = d => keyLock'[k] = d
        /\ \A a \in App : appLock[a] = d => appLock'[a] = d

\* What the other commands rely on: what such rows say.
Rely(c) ==
    /\ created \subseteq created'
    /\ \A a \in App : Registered(a) => prefix'[a] # NoPrefix
    /\ \A d \in Cli \ {c} :
          /\ cmd[d].kind = "create" => cmd[d].key \notin created'
          /\ \A k \in created : keyLock[k] = d => /\ grants'[k] = grants[k]
                                                  /\ k \in revoked' => k \in revoked
          /\ \A a \in ready : appLock[a] = d => a \in ready'

-----------------------------------------------------------------------------
(* Types.                                                                  *)

LEMMA NoCommandType == NoCommand \in Command /\ ValidCommand(NoCommand) /\ AnyApp \in App
  BY CommandAssumption DEF NoCommand, Command, Kind, ValidCommand, AnyApp

LEMMA FreedType ==
  ASSUME NEW S, NEW lock \in [S -> Cli \cup {Nobody}], NEW c \in Cli
  PROVE  Freed(lock, c) \in [S -> Cli \cup {Nobody}]
  BY DEF Freed

ProcessTypes ==
    /\ named \in [App -> Cli \cup {Nobody}] /\ appLock \in [App -> Cli \cup {Nobody}]
    /\ keyLock \in [Key -> Cli \cup {Nobody}]
    /\ pc \in [Cli -> Pc] /\ cmd \in [Cli -> Command]
    /\ todo \in [Cli -> SUBSET App] /\ app \in [Cli -> App]
    /\ candidate \in [Cli -> Prefix \cup {NoPrefix}] /\ before \in [Cli -> SUBSET App]

LEMMA EndsType ==
  ASSUME TypeOK, NEW c \in Cli, Ends(c)
  PROVE  ProcessTypes'
  BY FreedType, NoCommandType DEF TypeOK, Ends, Goto, ProcessTypes, Pc

LEMMA NextAppType ==
  ASSUME TypeOK, NEW c \in Cli, NextApp(c)
  PROVE  ProcessTypes'
  BY NoCommandType DEF TypeOK, NextApp, Goto, ProcessTypes, Pc

LEMMA TypeInit == Init => TypeOK
  BY NoCommandType, NameAssumption, CommandAssumption
  DEF Init, TypeOK, NewRequest, RequestState, Pc

\* A command that changes a key has named one.
LEMMA KeyNamed ==
  ASSUME TypeOK, NEW c \in Cli, CmdInv(c),
         \/ pc[c] \in {"inspect", "measure", "lock", "check", "commit"}
  PROVE  cmd[c].key \in Key
  BY DEF TypeOK, CmdInv, Command, Kind

LEMMA TypeStep == TypeOK /\ (\A c \in Cli : CmdInv(c)) /\ [Next]_vars => TypeOK'
<1> SUFFICES ASSUME TypeOK, \A c \in Cli : CmdInv(c), [Next]_vars PROVE TypeOK'
  OBVIOUS
<1> USE DEF TypeOK, Pc, Goto
<1>1. ASSUME NEW c \in Cli, NEW x \in Asked, NEW k \in Key \cup {NoKey}, Begin(c, x, k) PROVE TypeOK'
  <2>1. [kind |-> x.kind, apps |-> x.apps, prepare |-> x.prepare, key |-> k] \in Command
    BY CommandAssumption DEF Command
  <2>2. x.apps \in SUBSET App
    BY CommandAssumption
  <2>3. FirstStep(x) \in Pc
    BY DEF FirstStep
  <2> QED BY <1>1, <2>1, <2>2, <2>3 DEF Begin, registry, keys, locks
<1>2. ASSUME NEW c \in Cli, Step(c) PROVE TypeOK'
  <2>1. CASE Inspect(c)
    BY <2>1, EndsType DEF Inspect, ProcessTypes, registry, keys, locks, preparing
  <2>2. CASE Measure(c)
    BY <2>2, EndsType DEF Measure, ProcessTypes, registry, keys, locks, preparing
  <2>3. CASE Prepared(c)
    <3>1. ProcessTypes'
      <4>1. CASE cmd[c].kind = "prepare"
        BY <2>3, <4>1, EndsType DEF Prepared
      <4>2. CASE cmd[c].kind # "prepare"
        BY <2>3, <4>2 DEF Prepared, ProcessTypes, locks, preparing
      <4> QED BY <4>1, <4>2
    <3> QED BY <2>3, <3>1 DEF Prepared, ProcessTypes, registry, keys
  <2>4. CASE PrepareNext(c)
    BY <2>4 DEF PrepareNext, registry, keys
  <2>5. CASE Busy(c)
    BY <2>5, EndsType DEF Busy, Fails, ProcessTypes, registry, keys
  <2>6. CASE Read(c)
    <3>1. ProcessTypes'
      <4>1. CASE NextApp(c)
        BY <4>1, NextAppType
      <4>2. CASE ~NextApp(c)
        <5>1. ASSUME NEW p \in Allocatable(app[c]) PROVE p \in Prefix
          BY <5>1, NameAssumption DEF Allocatable
        <5> QED BY <2>6, <4>2, <5>1 DEF Read, ProcessTypes, locks, preparing
      <4> QED BY <4>1, <4>2
    <3> QED BY <2>6, <3>1 DEF Read, ProcessTypes, registry, keys
  <2>7. CASE Insert(c)
    BY <2>7 DEF Insert, keys, locks, preparing
  <2>8. CASE Build(c)
    BY <2>8, NextAppType DEF Build, ProcessTypes, keys
  <2>9. CASE MarkFailed(c)
    BY <2>9, EndsType DEF MarkFailed, ProcessTypes, keys
  <2>10. CASE LockKey(c)
    <3>1. cmd[c].key \in Key
      BY <2>10, KeyNamed DEF LockKey
    <3>2. ProcessTypes'
      <4> DEFINE granted == cmd[c].kind = "revoke" \/ Changeable(c, grants[cmd[c].key])
      <4>1. CASE ~granted
        BY <2>10, <4>1, EndsType DEF LockKey
      <4>2. CASE granted
        <5>1. /\ keyLock' = [keyLock EXCEPT ![cmd[c].key] = c]
              /\ before' = [before EXCEPT ![c] = grants[cmd[c].key]]
              /\ pc' = [pc EXCEPT ![c] = IF cmd[c].kind = "grant" THEN "check" ELSE "commit"]
              /\ UNCHANGED <<named, appLock, cmd, todo, app, candidate>>
          BY <2>10, <4>2 DEF LockKey, preparing
        <5>2. grants[cmd[c].key] \in SUBSET App
          BY <3>1
        <5> QED BY <5>1, <5>2 DEF ProcessTypes
      <4> QED BY <4>1, <4>2
    <3> QED BY <2>10, <3>2 DEF LockKey, ProcessTypes, registry, keys
  <2>11. CASE Check(c)
    BY <2>11, EndsType DEF Check, ProcessTypes, registry, keys, preparing
  <2>12. CASE CommitScope(c)
    <3>1. cmd[c].key \in Key /\ cmd[c].apps \in SUBSET App
      BY <2>12, KeyNamed DEF CommitScope, Command
    <3>2. \A apps \in SUBSET App : With(apps, c) \in SUBSET App
      BY <3>1 DEF With, Added, Removed
    <3>3. [before |-> before[c], after |-> With(before[c], c)] \in Audit
      BY <3>2 DEF Audit
    <3>4. grants' \in [Key -> SUBSET App]
      BY <2>12, <3>1, <3>2 DEF CommitScope
    <3>5. audits' \in [Key -> Seq(Audit)]
      BY <2>12, <3>1, <3>3 DEF CommitScope
    <3>6. created' \subseteq Key
      BY <2>12, <3>1 DEF CommitScope
    <3> QED BY <2>12, <3>4, <3>5, <3>6, EndsType DEF CommitScope, ProcessTypes, registry
  <2>13. CASE CommitRevocation(c)
    BY <2>13, EndsType, KeyNamed DEF CommitRevocation, ProcessTypes, registry
  <2> QED BY <1>2, <2>1, <2>2, <2>3, <2>4, <2>5, <2>6, <2>7, <2>8, <2>9, <2>10, <2>11, <2>12, <2>13
          DEF Step, Prepares, Changes
<1>3. ASSUME NEW c \in Cli, PrepareFails(c) \/ Dies(c) PROVE TypeOK'
  <2>1. CASE PrepareFails(c)
    BY <2>1 DEF PrepareFails, Fault, registry, keys, locks, preparing
  <2>2. CASE Dies(c)
    BY <2>2, EndsType DEF Dies, Fault, ProcessTypes, registry, keys
  <2> QED BY <1>3, <2>1, <2>2
<1>4. ASSUME NEW k \in Key, Expire(k) PROVE TypeOK'
  BY <1>4 DEF Expire, registry, keys, locks, process, preparing
<1>5. ASSUME NEW r \in Request, NEW k \in Key, NEW a \in App, Arrive(r, k, a) PROVE TypeOK'
  <2>1. [pc |-> "sent", key |-> k, app |-> a, since |-> Len(audits[k]), dead |-> ~Active(k)]
            \in RequestState
    BY DEF RequestState
  <2> QED BY <1>5, <2>1 DEF Arrive, registry, keys, locks, process, preparing
<1>6. ASSUME NEW r \in Request, Served(r) \/ MarkUsedFails(r) PROVE TypeOK'
  <2>1. req' \in [Request -> RequestState]
    <3>1. \A step \in {"using", "admitted", "refused"} : [req[r] EXCEPT !.pc = step] \in RequestState
      BY DEF RequestState
    <3>2. \E step \in {"using", "admitted", "refused"} :
             req' = [req EXCEPT ![r] = [req[r] EXCEPT !.pc = step]]
      BY <1>6 DEF Served, Authenticate, MarkUsed, MarkUsedFails
    <3> QED BY <3>1, <3>2
  <2> QED BY <1>6, <2>1 DEF Served, Authenticate, MarkUsed, MarkUsedFails, Fault, registry, keys,
                            locks, process, preparing
<1>7. CASE UNCHANGED vars
  BY <1>7 DEF vars, registry, keys, locks, process, preparing
<1> QED BY <1>1, <1>2, <1>3, <1>4, <1>5, <1>6, <1>7 DEF Next

-----------------------------------------------------------------------------
(* The other commands.                                                     *)

LEMMA OthersKept ==
  ASSUME IInv, NEW c \in Cli, Apart(c), Rely(c), NEW d \in Cli \ {c}
  PROVE  CmdInv(d)'
<1> DEFINE x == cmd[d]
<1>1. /\ pc'[d] = pc[d] /\ cmd'[d] = cmd[d] /\ before'[d] = before[d]
      /\ app'[d] = app[d] /\ candidate'[d] = candidate[d]
  BY DEF Apart
<1>2. CmdInv(d) /\ cmd[d] \in Command /\ app[d] \in App /\ ready \subseteq App /\ created \subseteq Key
  BY DEF IInv, TypeOK
<1>3. (ValidCommand(cmd[d]))'
  BY <1>1, <1>2 DEF CmdInv, ValidCommand
<1>4. x.kind = "create" => x.key \in Key \ created'
  BY <1>2 DEF CmdInv, Rely
<1>5. ASSUME pc[d] \in {"check", "commit"}, x.kind # "create"
      PROVE  /\ x.key \in created /\ keyLock[x.key] = d /\ keyLock'[x.key] = d
             /\ grants'[x.key] = grants[x.key]
             /\ x.key \in revoked' => x.key \in revoked
  <2>1. x.kind \in {"grant", "ungrant", "revoke"}
    BY <1>2, <1>5 DEF CmdInv, Command, Kind
  <2>2. x.key \in created /\ keyLock[x.key] = d
    BY <1>2, <1>5, <2>1 DEF CmdInv
  <2> QED BY <1>2, <2>2 DEF Rely, Apart
<1>6. ASSUME pc[d] = "commit", x.kind \in {"create", "grant"}
      PROVE  x.apps \subseteq ready' /\ \A a \in x.apps : appLock'[a] = d
  <2>1. x.apps \subseteq ready /\ \A a \in x.apps : appLock[a] = d
    BY <1>2, <1>6 DEF CmdInv
  <2> QED BY <1>2, <2>1 DEF Rely, Apart
<1>7. pc[d] = "build" => prefix'[app[d]] # NoPrefix
  BY <1>2 DEF CmdInv, Rely
<1>8. created \subseteq created'
  BY DEF Rely
<1> QED BY <1>1, <1>2, <1>3, <1>4, <1>5, <1>6, <1>7, <1>8 DEF CmdInv, Registered

LEMMA SameRely ==
  ASSUME IInv, UNCHANGED <<registry, keys>>, NEW c \in Cli
  PROVE  Rely(c)
  BY DEF IInv, CmdInv, Rely, Registered, registry, keys

LEMMA EndsApart ==
  ASSUME TypeOK, NEW c \in Cli, Ends(c)
  PROVE  /\ Apart(c) /\ CmdInv(c)'
         /\ cmd' = [cmd EXCEPT ![c] = NoCommand]
<1>1. Apart(c)
  BY DEF TypeOK, Ends, Goto, Apart, Freed
<1>2. pc'[c] = "idle" /\ cmd'[c] = NoCommand /\ before'[c] = {}
  BY DEF TypeOK, Ends, Goto
<1>3. CmdInv(c)'
  BY <1>2, NoCommandType DEF CmdInv, NoCommand, ValidCommand
<1> QED BY <1>1, <1>3 DEF Ends

LEMMA NextAppApart ==
  ASSUME IInv, NEW c \in Cli, NextApp(c), UNCHANGED created,
         pc[c] \in {"read", "build"}
  PROVE  Apart(c) /\ CmdInv(c)' /\ cmd' = cmd
<1>1. Apart(c)
  BY DEF IInv, TypeOK, NextApp, Goto, Apart
<1>2. pc'[c] = "prepare" /\ cmd' = cmd /\ before' = before
  BY DEF IInv, TypeOK, NextApp, Goto
<1>3. CmdInv(c)'
  BY <1>2 DEF IInv, CmdInv, ValidCommand
<1> QED BY <1>1, <1>2, <1>3

LEMMA FreshStep ==
  ASSUME IInv, NEW c \in Cli, cmd' = cmd \/ cmd' = [cmd EXCEPT ![c] = NoCommand]
  PROVE  FreshKeys'
<1>1. \A d \in Cli : cmd'[d] = cmd[d] \/ cmd'[d] = NoCommand
  BY DEF IInv, TypeOK
<1>2. \A d \in Cli : cmd'[d].kind = "create" => cmd'[d] = cmd[d]
  BY <1>1 DEF NoCommand
<1> QED BY <1>2 DEF IInv, FreshKeys

-----------------------------------------------------------------------------
(* The rows.                                                               *)

RowInv == KeyInv /\ AuditsFollowGrants /\ GrantsBounded /\ TablesAreOwn

LEMMA SameRows ==
  ASSUME RowInv, UNCHANGED <<registry, keys>>
  PROVE  RowInv'
  BY DEF RowInv, KeyInv, Unused, AuditsFollowGrants, AuditedAfter, GrantsBounded, TablesAreOwn,
         Registered, registry, keys

LEMMA SameRequests ==
  ASSUME \A r \in Request : ReqInv(r), UNCHANGED <<keys, req>>, expired \subseteq expired'
  PROVE  \A r \in Request : ReqInv(r)'
  BY DEF ReqInv, AuditedAfter, Active, keys

LEMMA ScopeCommitted ==
  ASSUME IInv, NEW c \in Cli, CommitScope(c), NEW k, k = cmd[c].key
  PROVE  /\ k \in Key /\ k \notin revoked /\ before[c] = grants[k]
         /\ grants' = [grants EXCEPT ![k] = With(grants[k], c)]
         /\ With(grants[k], c) \in SUBSET App
         /\ Cardinality(With(grants[k], c)) <= MaxApplications
         /\ With(grants[k], c) \ grants[k] \subseteq ready
         /\ Added(c) \cup Removed(c) = {} <=> With(grants[k], c) = grants[k]
         /\ cmd[c].kind = "create" => k \notin created
         /\ cmd[c].kind # "create" => k \in created /\ keyLock[k] = c
<1> DEFINE x == cmd[c]
<1>1. CmdInv(c) /\ x \in Command /\ pc[c] = "commit" /\ x.kind # "revoke" /\ k \in Key
  BY KeyNamed DEF IInv, TypeOK, CommitScope
<1>2. x.kind \in {"create", "grant", "ungrant"} /\ x.apps \in SUBSET App /\ ValidCommand(x)
  BY <1>1 DEF CmdInv, Command, Kind
<1>3. k \notin revoked /\ before[c] = grants[k]
  <2>1. CASE x.kind = "create"
    BY <1>1, <2>1 DEF IInv, CmdInv, KeyInv, Unused
  <2>2. CASE x.kind \in {"grant", "ungrant"}
    BY <1>1, <2>2 DEF CmdInv
  <2> QED BY <1>2, <2>1, <2>2
<1>4. grants[k] \in SUBSET App /\ Cardinality(grants[k]) <= MaxApplications
  BY <1>1 DEF IInv, TypeOK, GrantsBounded
<1>5. CASE x.kind = "ungrant"
  <2>1. With(grants[k], c) = grants[k] \ x.apps /\ Added(c) \cup Removed(c) = grants[k] \cap x.apps
    BY <1>3, <1>5 DEF With, Added, Removed
  <2>2. IsFiniteSet(grants[k])
    BY <1>4, FS_Subset, CommandAssumption
  <2>3. /\ Cardinality(grants[k] \ x.apps) <= Cardinality(grants[k])
        /\ Cardinality(grants[k]) \in Nat /\ Cardinality(grants[k] \ x.apps) \in Nat
    BY <2>2, FS_Subset, FS_CardinalityType
  <2>4. Cardinality(With(grants[k], c)) <= MaxApplications
    BY <1>4, <2>1, <2>3, CommandAssumption
  <2>5. Added(c) \cup Removed(c) = {} <=> With(grants[k], c) = grants[k]
    BY <2>1
  <2> QED BY <1>1, <1>3, <1>4, <1>5, <2>1, <2>4, <2>5 DEF CommitScope, CmdInv
<1>6. CASE x.kind \in {"create", "grant"}
  <2>1. With(grants[k], c) = grants[k] \cup x.apps /\ Added(c) \cup Removed(c) = x.apps \ grants[k]
    BY <1>3, <1>6 DEF With, Added, Removed
  <2>2. Cardinality(With(grants[k], c)) <= MaxApplications
    <3>1. CASE x.kind = "create"
      <4>1. grants[k] \cup x.apps = x.apps
        BY <1>1, <1>3, <3>1 DEF CmdInv
      <4> QED BY <1>2, <2>1, <3>1, <4>1 DEF ValidCommand
    <3>2. CASE x.kind = "grant"
      BY <1>1, <2>1, <3>2 DEF CmdInv
    <3> QED BY <1>6, <3>1, <3>2
  <2>3. x.apps \subseteq ready
    BY <1>1, <1>6 DEF CmdInv
  <2>4. Added(c) \cup Removed(c) = {} <=> With(grants[k], c) = grants[k]
    BY <2>1
  <2>5. x.kind = "grant" => k \in created /\ keyLock[k] = c
    BY <1>1 DEF CmdInv
  <2>6. x.kind = "create" => k \notin created
    BY <1>1 DEF CmdInv
  <2> QED BY <1>1, <1>2, <1>3, <1>4, <1>6, <2>1, <2>2, <2>3, <2>4, <2>5, <2>6 DEF CommitScope
<1> QED BY <1>2, <1>5, <1>6

LEMMA OtherScopes ==
  ASSUME IInv, NEW c \in Cli, CommitScope(c), NEW j \in Key, j # cmd[c].key
  PROVE  audits'[j] = audits[j] /\ grants'[j] = grants[j]
  BY DEF IInv, TypeOK, CommitScope

\* The audit of the key of a change grows by one row, or not at all.
LEMMA AuditCommitted ==
  ASSUME IInv, NEW c \in Cli, CommitScope(c), NEW k, k = cmd[c].key
  PROVE  /\ \A j \in Key \ {k} : audits'[j] = audits[j] /\ grants'[j] = grants[j]
         /\ \/ /\ audits'[k] = audits[k]
               /\ grants'[k] = grants[k]
            \/ /\ Len(audits'[k]) = Len(audits[k]) + 1
               /\ \A i \in 1..Len(audits[k]) : audits'[k][i] = audits[k][i]
               /\ audits'[k][Len(audits[k]) + 1] = [before |-> grants[k], after |-> grants'[k]]
               /\ grants'[k] # grants[k]
<1> DEFINE row == [before |-> before[c], after |-> With(before[c], c)]
<1>1. k \in Key /\ audits[k] \in Seq(Audit) /\ grants'[k] = With(grants[k], c) /\ before[c] = grants[k]
  BY ScopeCommitted DEF IInv, TypeOK
<1>2. \A j \in Key \ {k} : audits'[j] = audits[j] /\ grants'[j] = grants[j]
  BY <1>1 DEF IInv, TypeOK, CommitScope
<1>3. CASE Added(c) \cup Removed(c) = {}
  <2>1. audits'[k] = audits[k]
    BY <1>3 DEF CommitScope
  <2> QED BY <1>1, <1>2, <1>3, <2>1, ScopeCommitted
<1>4. CASE Added(c) \cup Removed(c) # {}
  <2>1. audits'[k] = Append(audits[k], row)
    BY <1>1, <1>4 DEF CommitScope, IInv, TypeOK
  <2>2. row \in Audit
    <3>1. With(before[c], c) \in SUBSET App
      BY <1>1, ScopeCommitted
    <3> QED BY <3>1 DEF Audit, IInv, TypeOK
  <2>3. /\ Len(audits'[k]) = Len(audits[k]) + 1
        /\ \A i \in 1..Len(audits[k]) : audits'[k][i] = audits[k][i]
        /\ audits'[k][Len(audits[k]) + 1] = row
    BY <1>1, <2>1, <2>2
  <2>4. grants'[k] # grants[k]
    BY <1>1, <1>4, ScopeCommitted
  <2> QED BY <1>1, <1>2, <2>3, <2>4
<1> QED BY <1>3, <1>4

LEMMA ScopeRows ==
  ASSUME IInv, NEW c \in Cli, CommitScope(c)
  PROVE  RowInv' /\ Rely(c) /\ \A r \in Request : ReqInv(r)'
<1>0. PICK k : k = cmd[c].key
  OBVIOUS
<1>1. /\ k \in Key /\ k \notin revoked
      /\ grants' = [grants EXCEPT ![k] = With(grants[k], c)]
      /\ Cardinality(With(grants[k], c)) <= MaxApplications
      /\ With(grants[k], c) \ grants[k] \subseteq ready
      /\ cmd[c].kind = "create" => k \notin created
      /\ cmd[c].kind # "create" => k \in created /\ keyLock[k] = c
  BY <1>0, ScopeCommitted
<1>2. /\ \A j \in Key \ {k} : audits'[j] = audits[j] /\ grants'[j] = grants[j]
      /\ \/ /\ audits'[k] = audits[k]
            /\ grants'[k] = grants[k]
         \/ /\ Len(audits'[k]) = Len(audits[k]) + 1
            /\ \A i \in 1..Len(audits[k]) : audits'[k][i] = audits[k][i]
            /\ audits'[k][Len(audits[k]) + 1] = [before |-> grants[k], after |-> grants'[k]]
            /\ grants'[k] # grants[k]
  BY <1>0, AuditCommitted
<1>3. /\ created' = created \cup {k}
      /\ UNCHANGED <<prefix, ready, expired, revoked, revocations, req>>
  BY <1>0 DEF CommitScope, registry
<1>4. grants'[k] = With(grants[k], c)
  BY <1>1 DEF IInv, TypeOK
<1>5. \A j \in Key : Len(audits[j]) \in Nat
  BY DEF IInv, TypeOK
<1>6. KeyInv'
  BY <1>2, <1>3 DEF IInv, KeyInv, Unused
<1>7. AuditsFollowGrants'
  <2> SUFFICES ASSUME NEW j \in Key
               PROVE  /\ \A i \in 1..Len(audits'[j]) :
                            /\ audits'[j][i].before = AuditedAfter(j, i - 1)'
                            /\ audits'[j][i].after # audits'[j][i].before
                      /\ grants'[j] = AuditedAfter(j, Len(audits[j]))'
    BY <1>3 DEF IInv, AuditsFollowGrants
  <2>1. /\ \A i \in 1..Len(audits[j]) : /\ audits[j][i].before = AuditedAfter(j, i - 1)
                                       /\ audits[j][i].after # audits[j][i].before
        /\ grants[j] = AuditedAfter(j, Len(audits[j]))
    BY DEF IInv, AuditsFollowGrants
  <2>2. CASE j # k \/ (audits'[k] = audits[k] /\ grants'[k] = grants[k])
    BY <1>2, <2>1, <2>2 DEF AuditedAfter
  <2>3. CASE j = k /\ Len(audits'[k]) = Len(audits[k]) + 1
    <3>1. \A i \in 0..Len(audits[k]) : AuditedAfter(k, i)' = AuditedAfter(k, i)
      BY <1>2, <1>5, <2>3 DEF AuditedAfter
    <3>2. ASSUME NEW i \in 1..Len(audits[k])
          PROVE  /\ audits'[k][i].before = AuditedAfter(k, i - 1)'
                 /\ audits'[k][i].after # audits'[k][i].before
      BY <1>2, <1>5, <2>1, <2>3, <3>1
    <3>3. PICK n : n = Len(audits[k]) + 1
      OBVIOUS
    <3>4. /\ audits'[k][n].before = AuditedAfter(k, n - 1)'
          /\ audits'[k][n].after # audits'[k][n].before
          /\ grants'[k] = AuditedAfter(k, n)'
      BY <1>2, <1>5, <2>1, <2>3, <3>1, <3>3 DEF AuditedAfter
    <3> QED BY <1>5, <2>3, <3>2, <3>3, <3>4
  <2>4. \/ j # k \/ (audits'[k] = audits[k] /\ grants'[k] = grants[k])
        \/ j = k /\ Len(audits'[k]) = Len(audits[k]) + 1
    BY <1>2
  <2> QED BY <2>2, <2>3, <2>4
<1>8. GrantsBounded'
  BY <1>1, <1>2, <1>4 DEF IInv, GrantsBounded
<1>9. TablesAreOwn'
  <2>1. \A a \in UNION {grants'[j] : j \in Key} : a \in ready \cup UNION {grants[j] : j \in Key}
    BY <1>1, <1>2, <1>4
  <2> QED BY <1>3, <2>1 DEF IInv, TablesAreOwn, Registered
<1>10. Rely(c)
  <2>1. ASSUME NEW d \in Cli \ {c}, cmd[d].kind = "create" PROVE cmd[d].key \notin created'
    <3>1. cmd[d].key \in Key \ created
      BY <2>1 DEF IInv, CmdInv
    <3>2. cmd[d].key # k
      BY <1>0, <1>1, <2>1, <3>1 DEF IInv, FreshKeys
    <3> QED BY <1>3, <3>1, <3>2
  <2>2. ASSUME NEW d \in Cli \ {c}, NEW j \in created, keyLock[j] = d
        PROVE  grants'[j] = grants[j]
    BY <1>1, <1>2, <2>2 DEF IInv, TypeOK
  <2> QED BY <1>3, <2>1, <2>2 DEF Rely, Registered
<1>11. ASSUME NEW r \in Request PROVE ReqInv(r)'
  <2>1. CASE req[r].pc = "new"
    BY <1>3, <2>1 DEF ReqInv
  <2>2. CASE req[r].pc # "new"
    <3>0. PICK j : j = req[r].key
      OBVIOUS
    <3>1. j \in Key /\ req[r].since \in Nat /\ req[r].since <= Len(audits[j]) /\ (req[r].dead => ~Active(j))
      BY <2>2, <3>0 DEF IInv, ReqInv, TypeOK, RequestState
    <3>2. /\ Len(audits'[j]) \in Nat /\ Len(audits[j]) <= Len(audits'[j])
          /\ \A i \in 0..Len(audits[j]) : AuditedAfter(j, i)' = AuditedAfter(j, i)
      BY <1>2, <1>5, <3>1 DEF AuditedAfter
    <3>3. req[r].pc \in {"using", "admitted"}
          => /\ ~req[r].dead
             /\ \E i \in req[r].since..Len(audits'[j]) : req[r].app \in AuditedAfter(j, i)'
      BY <1>5, <3>0, <3>1, <3>2 DEF IInv, ReqInv
    <3> QED BY <1>3, <1>5, <3>0, <3>1, <3>2, <3>3 DEF ReqInv, Active
  <2> QED BY <2>1, <2>2
<1> QED BY <1>6, <1>7, <1>8, <1>9, <1>10, <1>11 DEF RowInv

LEMMA RevocationRows ==
  ASSUME IInv, NEW c \in Cli, CommitRevocation(c)
  PROVE  RowInv' /\ Rely(c) /\ \A r \in Request : ReqInv(r)'
<1> DEFINE k == cmd[c].key
<1>1. k \in created /\ k \in Key /\ keyLock[k] = c
  BY KeyNamed DEF IInv, CmdInv, CommitRevocation
<1>2. /\ revoked' = revoked \cup {k}
      /\ revocations' = IF k \in revoked THEN revocations ELSE [revocations EXCEPT ![k] = @ + 1]
      /\ UNCHANGED <<prefix, ready, expired, created, grants, audits, req>>
  BY DEF CommitRevocation, registry
<1>3. KeyInv'
  BY <1>1, <1>2 DEF IInv, KeyInv, Unused
<1>4. AuditsFollowGrants'
  BY <1>1, <1>2 DEF IInv, TypeOK, AuditsFollowGrants, AuditedAfter
<1>5. GrantsBounded' /\ TablesAreOwn'
  BY <1>2 DEF IInv, GrantsBounded, TablesAreOwn, Registered
<1>6. Rely(c)
  BY <1>1, <1>2 DEF IInv, CmdInv, Rely, Registered
<1>7. ASSUME NEW r \in Request PROVE ReqInv(r)'
  BY <1>2 DEF IInv, ReqInv, AuditedAfter, Active
<1> QED BY <1>3, <1>4, <1>5, <1>6, <1>7 DEF RowInv

\* The steps of prepare that change a row.
LEMMA RegistryRows ==
  ASSUME IInv, NEW c \in Cli, Insert(c) \/ Build(c) \/ MarkFailed(c)
  PROVE  RowInv' /\ Rely(c)
<1>1. UNCHANGED keys
  BY DEF Insert, Build, MarkFailed
<1>2. \A a \in App : Registered(a) => prefix'[a] # NoPrefix
  <2>1. CASE UNCHANGED prefix
    BY <2>1 DEF Registered
  <2>2. CASE prefix' = [prefix EXCEPT ![app[c]] = candidate[c]] /\ pc[c] = "insert"
    <3>1. candidate[c] # NoPrefix
      BY <2>2, NameAssumption DEF IInv, CmdInv
    <3> QED BY <2>2, <3>1 DEF IInv, TypeOK, Registered
  <2> QED BY <2>1, <2>2 DEF Insert, Build, MarkFailed
<1>3. \A a \in ready' : a \in ready \/ Registered(a)
  <2>1. Build(c) => Registered(app[c])
    BY DEF IInv, CmdInv, Build
  <2> QED BY <2>1 DEF Insert, Build, MarkFailed
<1>4. \A a, b \in App : a # b /\ prefix'[a] # NoPrefix => prefix'[a] # prefix'[b]
  <2>1. CASE UNCHANGED prefix
    BY <2>1 DEF IInv, TablesAreOwn, Registered
  <2>2. CASE prefix' = [prefix EXCEPT ![app[c]] = candidate[c]] /\ ~Owned(candidate[c]) /\ pc[c] = "insert"
    BY <2>2, NameAssumption DEF IInv, TypeOK, CmdInv, TablesAreOwn, Registered, Owned
  <2> QED BY <2>1, <2>2 DEF Insert, Build, MarkFailed
<1>5. TablesAreOwn'
  <2>1. \A a \in ready \cup UNION {grants[k] : k \in Key} : a \in App /\ Registered(a)
    BY DEF IInv, TypeOK, TablesAreOwn
  <2>2. \A a \in ready' \cup UNION {grants'[k] : k \in Key} : prefix'[a] # NoPrefix
    <3>1. \A a \in ready' : a \in App
      BY DEF IInv, TypeOK, Insert, Build, MarkFailed
    <3> QED BY <1>1, <1>2, <1>3, <2>1, <3>1 DEF keys
  <2> QED BY <1>4, <2>2 DEF TablesAreOwn, Registered
<1>6. KeyInv' /\ AuditsFollowGrants' /\ GrantsBounded'
  BY <1>1 DEF IInv, KeyInv, Unused, AuditsFollowGrants, AuditedAfter, GrantsBounded, keys
<1>7. \A d \in Cli \ {c}, a \in ready : appLock[a] = d => a \in ready'
  BY NameAssumption DEF IInv, TypeOK, Insert, Build, MarkFailed
<1>8. Rely(c)
  BY <1>1, <1>2, <1>7 DEF IInv, CmdInv, Rely, keys
<1> QED BY <1>5, <1>6, <1>8 DEF RowInv

-----------------------------------------------------------------------------
(* The steps.                                                              *)

LEMMA Combine ==
  ASSUME IInv, TypeOK', NEW c \in Cli, Apart(c), CmdInv(c)', Rely(c), FreshKeys', RowInv',
         \A r \in Request : ReqInv(r)'
  PROVE  IInv'
<1>1. \A d \in Cli : CmdInv(d)'
  BY OthersKept
<1> QED BY <1>1 DEF IInv, RowInv

\* A step of a command that changes no row and no request.
LEMMA CombineSame ==
  ASSUME IInv, TypeOK', NEW c \in Cli, Apart(c), CmdInv(c)', FreshKeys',
         UNCHANGED <<registry, keys, expired, req>>
  PROVE  IInv'
<1>1. RowInv'
  BY SameRows DEF IInv, RowInv
<1>2. \A r \in Request : ReqInv(r)'
  BY SameRequests DEF IInv
<1> QED BY <1>1, <1>2, SameRely, Combine

\* A command goes from step to step with its input as it is.
LEMMA StepApart ==
  ASSUME IInv, NEW c \in Cli, NEW step, Goto(c, step), UNCHANGED <<cmd, app, before, locks>>,
         \A d \in Cli \ {c} : candidate'[d] = candidate[d]
  PROVE  Apart(c) /\ pc'[c] = step /\ FreshKeys'
<1>1. Apart(c) /\ pc'[c] = step
  BY DEF IInv, TypeOK, Goto, Apart, locks
<1>2. FreshKeys'
  BY FreshStep
<1> QED BY <1>1, <1>2

\* A step of no command.
LEMMA SameProcess ==
  ASSUME IInv, TypeOK', UNCHANGED <<registry, keys, locks, process>>,
         \A r \in Request : ReqInv(r)'
  PROVE  IInv'
<1>1. \A c \in Cli : CmdInv(c)'
  BY DEF IInv, CmdInv, ValidCommand, Registered, registry, keys, locks, process, preparing
<1>2. FreshKeys'
  BY DEF IInv, FreshKeys, process
<1>3. RowInv'
  BY SameRows DEF IInv, RowInv
<1> QED BY <1>1, <1>2, <1>3 DEF IInv, RowInv

LEMMA OtherKeys ==
  ASSUME [Next]_vars
  PROVE  (\E c \in Cli : CommitScope(c) \/ CommitRevocation(c)) \/ UNCHANGED keys
  BY DEF Next, Step, Prepares, Changes, Served, Begin, Inspect, Measure, Prepared, PrepareNext, Busy,
     Fails, Read, Insert, Build, MarkFailed, PrepareFails, LockKey, Check, Dies, Expire, Arrive,
     Authenticate, MarkUsed, MarkUsedFails, vars

LEMMA StepInv == IInv /\ TypeOK' /\ [Next]_vars => IInv'
<1> SUFFICES ASSUME IInv, TypeOK', [Next]_vars PROVE IInv'
  OBVIOUS
<1>1. ASSUME NEW c \in Cli, NEW x \in Asked, NEW k \in Key \cup {NoKey}, Begin(c, x, k) PROVE IInv'
  <2>1. /\ cmd' = [cmd EXCEPT ![c] = [kind |-> x.kind, apps |-> x.apps, prepare |-> x.prepare,
                                      key |-> k]]
        /\ pc' = [pc EXCEPT ![c] = FirstStep(x)] /\ pc[c] = "idle" /\ MayName(x, k)
        /\ UNCHANGED <<registry, keys, expired, req, app, candidate, before, locks>>
    BY <1>1 DEF Begin, Goto
  <2>2. Apart(c)
    BY <2>1 DEF Apart, IInv, TypeOK, locks
  <2>3. x \in [kind : Kind, apps : SUBSET App, prepare : BOOLEAN] /\ ValidCommand(x)
    BY CommandAssumption
  <2>4. cmd'[c].kind = x.kind /\ cmd'[c].key = k /\ cmd'[c].apps = x.apps
        /\ cmd'[c].prepare = x.prepare /\ pc'[c] = FirstStep(x)
    BY <2>1 DEF IInv, TypeOK
  <2>5. FreshKeys'
    <3>1. x.kind = "create" => \A d \in Cli : cmd[d].key # k
      BY <2>1 DEF MayName
    <3> QED BY <2>1, <2>4, <3>1 DEF IInv, TypeOK, FreshKeys
  <2>6. CmdInv(c)'
    <3>1. ValidCommand(cmd[c])'
      BY <2>3, <2>4 DEF ValidCommand
    <3>2. FirstStep(x) \in {"inspect", "prepare", "check", "lock"}
      BY DEF FirstStep
    <3>3. /\ FirstStep(x) = "inspect" => x.kind = "grant"
          /\ FirstStep(x) = "prepare" => x.kind \in {"create", "grant", "prepare"}
          /\ FirstStep(x) = "lock" => x.kind \in {"grant", "ungrant", "revoke"}
          /\ FirstStep(x) = "check" => x.kind = "create"
      BY <2>3 DEF FirstStep, ValidCommand, Kind
    <3>4. /\ x.kind = "create" => k \in Key \ created
          /\ x.kind \in {"grant", "ungrant", "revoke"} => k \in created
      BY <2>1, NameAssumption DEF MayName
    <3>5. before[c] = {}
      BY <2>1 DEF IInv, CmdInv
    <3> QED BY <2>1, <2>4, <3>1, <3>2, <3>3, <3>4, <3>5 DEF CmdInv, keys
  <2> QED BY <2>1, <2>2, <2>5, <2>6, CombineSame
<1>2. ASSUME NEW c \in Cli, Step(c) PROVE IInv'
  <2>0. CmdInv(c) /\ cmd[c] \in Command /\ app[c] \in App
    BY DEF IInv, TypeOK
  <2>1. ASSUME Ends(c), UNCHANGED <<registry, keys, expired, req>> PROVE IInv'
    BY <2>1, EndsApart, FreshStep, CombineSame DEF IInv
  <2>2. ASSUME NextApp(c), pc[c] \in {"read", "build"}, UNCHANGED <<registry, keys, expired, req>>
        PROVE  IInv'
    BY <2>2, NextAppApart, FreshStep, CombineSame DEF keys
  <2>3. ASSUME NEW step \in {"measure", "prepare", "check", "lock", "failing"}, Goto(c, step),
               UNCHANGED <<cmd, preparing, before, locks, registry, keys, expired, req>>,
               \/ step \in {"measure", "prepare"} /\ cmd[c].kind = "grant"
               \/ step = "check" /\ cmd[c].kind = "create"
               \/ step = "lock" /\ cmd[c].kind = "grant"
               \/ step = "failing" /\ cmd[c].kind \in {"create", "grant", "prepare"},
               pc[c] # "idle"
        PROVE  IInv'
    <3>1. Apart(c) /\ pc'[c] = step /\ FreshKeys'
      BY <2>3, StepApart DEF preparing
    <3>2. CmdInv(c)'
      BY <2>0, <2>3, <3>1 DEF CmdInv, ValidCommand, keys, preparing
    <3> QED BY <2>3, <3>1, <3>2, CombineSame
  <2>4. CASE Inspect(c) \/ Measure(c)
    BY <2>0, <2>1, <2>3, <2>4 DEF Inspect, Measure, CmdInv
  <2>5. CASE Prepared(c)
    BY <2>0, <2>1, <2>3, <2>5 DEF Prepared, CmdInv
  <2>6. CASE Busy(c)
    BY <2>1, <2>6 DEF Busy, Fails
  <2>7. CASE PrepareNext(c)
    <3>1. Apart(c) /\ FreshKeys' /\ pc[c] = "prepare" /\ pc'[c] = "read" /\ UNCHANGED <<cmd, before, keys>>
      BY <2>7, FreshStep DEF PrepareNext, Goto, Apart, IInv, TypeOK
    <3>2. CmdInv(c)'
      BY <2>0, <3>1 DEF CmdInv, ValidCommand, keys
    <3> QED BY <2>7, <3>1, <3>2, CombineSame DEF PrepareNext
  <2>8. CASE Read(c)
    <3>0. /\ cmd[c].kind \in {"create", "grant", "prepare"} /\ pc[c] = "read"
          /\ UNCHANGED <<registry, keys, expired, req>>
      BY <2>0, <2>8 DEF Read, CmdInv
    <3>1. CASE NextApp(c)
      BY <2>2, <3>0, <3>1
    <3>2. CASE Registered(app[c]) /\ Goto(c, "build") /\ UNCHANGED <<cmd, preparing, before, locks>>
      <4>1. Apart(c) /\ pc'[c] = "build" /\ FreshKeys'
        BY <3>2, StepApart DEF preparing
      <4>2. CmdInv(c)'
        BY <2>0, <3>0, <3>2, <4>1 DEF CmdInv, ValidCommand, Registered, keys, registry, preparing
      <4> QED BY <3>0, <4>1, <4>2, CombineSame
    <3>3. CASE /\ \E p \in Allocatable(app[c]) : candidate' = [candidate EXCEPT ![c] = p]
               /\ Goto(c, "insert") /\ UNCHANGED <<cmd, todo, app, before, locks>>
      <4>1. PICK p \in Allocatable(app[c]) : candidate' = [candidate EXCEPT ![c] = p]
        BY <3>3
      <4>2. p \in Prefix
        BY <2>0, <4>1, NameAssumption DEF Allocatable
      <4>3. candidate'[c] = p /\ \A d \in Cli \ {c} : candidate'[d] = candidate[d]
        BY <4>1 DEF IInv, TypeOK
      <4>4. Apart(c) /\ pc'[c] = "insert" /\ FreshKeys'
        BY <3>3, <4>3, StepApart
      <4>5. CmdInv(c)'
        BY <2>0, <3>0, <3>3, <4>2, <4>3, <4>4 DEF CmdInv, ValidCommand, keys
      <4> QED BY <3>0, <4>4, <4>5, CombineSame
    <3>4. CASE Goto(c, "failing") /\ UNCHANGED <<cmd, preparing, before, locks>>
      BY <2>3, <3>0, <3>4
    <3> QED BY <2>8, <3>1, <3>2, <3>3, <3>4 DEF Read
  <2>9. CASE Insert(c) \/ Build(c) \/ MarkFailed(c)
    <3>1. RowInv' /\ Rely(c)
      BY <2>9, RegistryRows
    <3>2. \A r \in Request : ReqInv(r)'
      BY <2>9, SameRequests DEF IInv, Insert, Build, MarkFailed
    <3>3. Apart(c) /\ CmdInv(c)' /\ FreshKeys'
      <4>1. CASE Insert(c)
        <5>1. /\ cmd[c].kind \in {"create", "grant", "prepare"} /\ candidate[c] # NoPrefix
              /\ pc[c] = "insert"
          BY <2>0, <4>1, NameAssumption DEF Insert, CmdInv
        <5>2. PICK step : /\ Goto(c, step)
                          /\ \/ step = "failing"
                             \/ step = "build" /\ prefix'[app[c]] # NoPrefix
          BY <2>0, <4>1, <5>1 DEF Insert, IInv, TypeOK
        <5>3. UNCHANGED <<cmd, app, before, locks, candidate, keys>>
          BY <4>1 DEF Insert, preparing
        <5>4. Apart(c) /\ pc'[c] = step /\ FreshKeys'
          BY <5>2, <5>3, StepApart
        <5>5. CmdInv(c)'
          BY <2>0, <5>1, <5>2, <5>3, <5>4 DEF CmdInv, ValidCommand, Registered, keys
        <5> QED BY <5>4, <5>5
      <4>2. CASE Build(c)
        BY <4>2, NextAppApart, FreshStep DEF Build, keys
      <4>3. CASE MarkFailed(c)
        BY <4>3, EndsApart, FreshStep DEF MarkFailed, IInv
      <4> QED BY <2>9, <4>1, <4>2, <4>3
    <3> QED BY <3>1, <3>2, <3>3, Combine
  <2>10. CASE LockKey(c)
    <3>0. /\ pc[c] = "lock" /\ cmd[c].kind \in {"grant", "ungrant", "revoke"}
          /\ cmd[c].key \in Key /\ cmd[c].key \in created /\ keyLock[cmd[c].key] = Nobody
          /\ UNCHANGED <<registry, keys, expired, req>>
      <4>1. pc[c] = "lock" /\ keyLock[cmd[c].key] = Nobody /\ UNCHANGED <<registry, keys, expired, req>>
        BY <2>10 DEF LockKey
      <4>2. cmd[c].kind \in {"grant", "ungrant", "revoke"} /\ cmd[c].key \in created
        BY <2>0, <4>1 DEF CmdInv
      <4> QED BY <4>1, <4>2 DEF IInv, TypeOK
    <3>1. CASE ~(cmd[c].kind = "revoke" \/ Changeable(c, grants[cmd[c].key]))
      BY <2>1, <2>10, <3>0, <3>1 DEF LockKey
    <3>2. CASE cmd[c].kind = "revoke" \/ Changeable(c, grants[cmd[c].key])
      <4>1. PICK step : step = IF cmd[c].kind = "grant" THEN "check" ELSE "commit"
        OBVIOUS
      <4>2. /\ keyLock' = [keyLock EXCEPT ![cmd[c].key] = c]
            /\ before' = [before EXCEPT ![c] = grants[cmd[c].key]]
            /\ pc' = [pc EXCEPT ![c] = step]
            /\ UNCHANGED <<named, appLock, cmd, todo, app, candidate, registry, keys>>
        BY <2>10, <3>0, <3>2, <4>1 DEF LockKey, Goto, preparing
      <4>3. Apart(c)
        BY <3>0, <4>2, NameAssumption DEF Apart, IInv, TypeOK
      <4>4. FreshKeys'
        BY <4>2, FreshStep
      <4>5. /\ keyLock'[cmd[c].key] = c /\ before'[c] = grants[cmd[c].key] /\ pc'[c] = step
            /\ cmd[c].kind \in {"grant", "ungrant"} => Changeable(c, grants[cmd[c].key])
        BY <3>0, <3>2, <4>2 DEF IInv, TypeOK
      <4>6. CmdInv(c)'
        BY <2>0, <3>0, <4>1, <4>2, <4>5 DEF CmdInv, ValidCommand, Changeable, Active, keys
      <4> QED BY <3>0, <4>3, <4>4, <4>6, CombineSame
    <3> QED BY <3>1, <3>2
  <2>11. CASE Check(c)
    <3>0. /\ pc[c] = "check" /\ cmd[c].kind \in {"create", "grant"} /\ cmd[c].apps \in SUBSET App
          /\ \A a \in cmd[c].apps : appLock[a] = Nobody
          /\ UNCHANGED <<registry, keys, expired, req>>
      BY <2>0, <2>11 DEF Check, CmdInv, Command
    <3>1. CASE ~(cmd[c].apps \subseteq ready)
      BY <2>1, <2>11, <3>0, <3>1 DEF Check
    <3>2. CASE cmd[c].apps \subseteq ready
      <4>1. /\ appLock' = [a \in App |-> IF a \in cmd[c].apps THEN c ELSE appLock[a]]
            /\ pc' = [pc EXCEPT ![c] = "commit"]
            /\ UNCHANGED <<named, keyLock, cmd, todo, app, candidate, before, registry, keys>>
        BY <2>11, <3>0, <3>2 DEF Check, Goto, preparing
      <4>2. Apart(c)
        BY <3>0, <4>1, NameAssumption DEF Apart, IInv, TypeOK
      <4>3. FreshKeys'
        BY <4>1, FreshStep
      <4>4. pc'[c] = "commit" /\ \A a \in cmd[c].apps : appLock'[a] = c
        BY <3>0, <4>1 DEF IInv, TypeOK
      <4>5. CmdInv(c)'
        BY <2>0, <3>0, <3>2, <4>1, <4>4 DEF CmdInv, ValidCommand, keys, registry
      <4> QED BY <3>0, <4>2, <4>3, <4>5, CombineSame
    <3> QED BY <3>1, <3>2
  <2>12. CASE CommitScope(c)
    BY <2>12, ScopeRows, EndsApart, FreshStep, Combine DEF CommitScope, IInv
  <2>13. CASE CommitRevocation(c)
    BY <2>13, RevocationRows, EndsApart, FreshStep, Combine DEF CommitRevocation, IInv
  <2> QED BY <1>2, <2>4, <2>5, <2>6, <2>7, <2>8, <2>9, <2>10, <2>11, <2>12, <2>13
          DEF Step, Prepares, Changes
<1>3. ASSUME NEW c \in Cli, PrepareFails(c) \/ Dies(c) PROVE IInv'
  <2>1. CASE PrepareFails(c)
    <3>1. /\ pc[c] \in {"read", "insert", "build"} /\ Goto(c, "failing")
          /\ UNCHANGED <<registry, keys, expired, locks, cmd, todo, app, candidate, before, req>>
      BY <2>1 DEF PrepareFails, preparing
    <3>2. Apart(c) /\ pc'[c] = "failing" /\ FreshKeys'
      BY <3>1, StepApart
    <3>3. CmdInv(c)'
      BY <3>1, <3>2 DEF IInv, CmdInv, ValidCommand, keys
    <3> QED BY <3>1, <3>2, <3>3, CombineSame
  <2>2. CASE Dies(c)
    BY <2>2, EndsApart, FreshStep, CombineSame DEF Dies, IInv
  <2> QED BY <1>3, <2>1, <2>2
<1>4. ASSUME NEW k \in Key, Expire(k) PROVE IInv'
  <2>1. UNCHANGED <<registry, keys, locks, process, req>> /\ expired \subseteq expired'
    BY <1>4 DEF Expire
  <2> QED BY <2>1, SameProcess, SameRequests DEF IInv
<1>5. ASSUME NEW r \in Request, NEW k \in Key, NEW a \in App, Arrive(r, k, a) PROVE IInv'
  <2>1. UNCHANGED <<registry, keys, locks, process>> /\ expired' = expired
    BY <1>5 DEF Arrive
  <2>2. req' = [req EXCEPT ![r] = [pc |-> "sent", key |-> k, app |-> a,
                                   since |-> Len(audits[k]), dead |-> ~Active(k)]]
    BY <1>5 DEF Arrive
  <2>3. Len(audits[k]) \in Nat
    BY DEF IInv, TypeOK
  <2>4. ASSUME NEW q \in Request PROVE ReqInv(q)'
    <3>1. CASE q = r
      <4>1. /\ req'[r].pc = "sent" /\ req'[r].key = k /\ req'[r].since = Len(audits[k])
            /\ req'[r].dead = ~Active(k)
        BY <2>2 DEF IInv, TypeOK
      <4>2. (req[r].dead => ~Active(req[r].key))'
        BY <2>1, <4>1 DEF Active, keys
      <4>3. (req[r].key \in Key /\ req[r].since <= Len(audits[req[r].key]))'
        BY <2>1, <2>3, <4>1 DEF keys
      <4> QED BY <3>1, <4>1, <4>2, <4>3 DEF ReqInv
    <3>2. CASE q # r
      <4>1. req'[q] = req[q]
        BY <2>2, <3>2 DEF IInv, TypeOK
      <4> QED BY <2>1, <4>1 DEF IInv, ReqInv, AuditedAfter, Active, keys
    <3> QED BY <3>1, <3>2
  <2> QED BY <2>1, <2>4, SameProcess
<1>6. ASSUME NEW r \in Request, Served(r) \/ MarkUsedFails(r) PROVE IInv'
  <2>1. UNCHANGED <<registry, keys, locks, process>> /\ expired' = expired
    BY <1>6 DEF Served, Authenticate, MarkUsed, MarkUsedFails
  <2>2. ASSUME NEW q \in Request PROVE ReqInv(q)'
    <3>0. /\ req[r].key \in Key \/ req[r].pc = "new"
          /\ req[r].since \in Nat /\ ReqInv(r) /\ ReqInv(q)
      BY DEF IInv, TypeOK, RequestState, ReqInv
    <3>1. CASE q # r \/ req'[q] = req[q]
      <4>1. req'[q] = req[q]
        BY <1>6, <3>1 DEF IInv, TypeOK, Served, Authenticate, MarkUsed, MarkUsedFails
      <4> QED BY <2>1, <3>0, <4>1 DEF ReqInv, AuditedAfter, Active, keys
    <3>2. CASE q = r
      <4>1. /\ req'[r].key = req[r].key /\ req'[r].app = req[r].app
            /\ req'[r].since = req[r].since /\ req'[r].dead = req[r].dead
            /\ req[r].pc \in {"sent", "using"}
            /\ req'[r].pc \in {"using", "admitted"}
                  => \/ req[r].pc = "using"
                     \/ Active(req[r].key) /\ req[r].app \in grants[req[r].key]
        <5>1. \E step : req' = [req EXCEPT ![r].pc = step]
                        /\ \/ req[r].pc = "sent" /\ step \in {"using", "refused"}
                              /\ (step = "using" => /\ Active(req[r].key)
                                                    /\ req[r].app \in grants[req[r].key])
                           \/ req[r].pc = "using" /\ step \in {"admitted", "refused"}
          BY <1>6 DEF Served, Authenticate, MarkUsed, MarkUsedFails
        <5> QED BY <5>1 DEF IInv, TypeOK, RequestState
      <4>2. PICK k : k = req[r].key
        OBVIOUS
      <4>3. k \in Key /\ req[r].since <= Len(audits[k]) /\ Len(audits[k]) \in Nat
            /\ (req[r].dead => ~Active(k)) /\ grants[k] = AuditedAfter(k, Len(audits[k]))
        BY <3>0, <4>1, <4>2 DEF ReqInv, IInv, TypeOK, AuditsFollowGrants
      <4>4. req'[r].pc \in {"using", "admitted"}
            => ~req[r].dead /\ \E i \in req[r].since..Len(audits[k]) : req[r].app \in AuditedAfter(k, i)
        BY <3>0, <4>1, <4>2, <4>3 DEF ReqInv
      <4>5. \A i : AuditedAfter(k, i)' = AuditedAfter(k, i)
        BY <2>1 DEF AuditedAfter, keys
      <4>6. Active(k)' = Active(k)
        BY <2>1 DEF Active, keys
      <4> QED BY <2>1, <3>2, <4>1, <4>2, <4>3, <4>4, <4>5, <4>6 DEF ReqInv, keys
    <3> QED BY <3>1, <3>2
  <2> QED BY <2>1, <2>2, SameProcess
<1>7. CASE UNCHANGED vars
  BY <1>7, SameProcess, SameRequests DEF vars, IInv
<1> QED BY <1>1, <1>2, <1>3, <1>4, <1>5, <1>6, <1>7 DEF Next

LEMMA InitInv == Init => IInv
<1> SUFFICES ASSUME Init PROVE IInv
  OBVIOUS
<1> USE DEF Init
<1>1. TypeOK
  BY TypeInit
<1>2. \A c \in Cli : CmdInv(c)
  BY NoCommandType DEF CmdInv, NoCommand
<1>3. FreshKeys /\ KeyInv /\ AuditsFollowGrants /\ TablesAreOwn
  BY NameAssumption DEF FreshKeys, NoCommand, KeyInv, Unused, AuditsFollowGrants, AuditedAfter,
     TablesAreOwn, Registered
<1>4. GrantsBounded
  BY FS_EmptySet, CommandAssumption DEF GrantsBounded
<1>5. \A r \in Request : ReqInv(r)
  BY DEF ReqInv, NewRequest
<1> QED BY <1>1, <1>2, <1>3, <1>4, <1>5 DEF IInv

-----------------------------------------------------------------------------
(* The theorems.                                                           *)

\* The invariant is inductive: what every command relies on holds at every step.
THEOREM ProvisioningInvariant == Spec => []IInv
<1>1. Init => IInv
  BY InitInv
<1>2. IInv /\ [Next]_vars => IInv'
  BY TypeStep, StepInv DEF IInv
<1> QED BY <1>1, <1>2, PTL DEF Spec

\* The rows, the locks and the steps have their types.
THEOREM Types == Spec => []TypeOK
<1>1. IInv => TypeOK
  BY DEF IInv
<1> QED BY <1>1, ProvisioningInvariant, PTL

\* The audit of every key tells its whole history, whatever changes it at once
\* (changeApplications under the lock of the key's row).
THEOREM AuditComplete == Spec => []AuditsFollowGrants
<1>1. IInv => AuditsFollowGrants
  BY DEF IInv
<1> QED BY <1>1, ProvisioningInvariant, PTL

\* No key exceeds MAX_API_KEY_APPLICATIONS (the check under the lock, not the one that
\* key:grant made before preparing).
THEOREM Bounded == Spec => []GrantsBounded
<1>1. IInv => GrantsBounded
  BY DEF IInv
<1> QED BY <1>1, ProvisioningInvariant, PTL

\* No two applications share tables, however many are prepared at once (the unique
\* table_prefix, not the lookup of allocatePrefix).
THEOREM OwnTables == Spec => []TablesAreOwn
<1>1. IInv => TablesAreOwn
  BY DEF IInv
<1> QED BY <1>1, ProvisioningInvariant, PTL

\* Who is admitted had a key in use and the application, at some moment since it asked.
THEOREM Admission == Spec => []AdmittedWasGranted
<1>1. IInv => AdmittedWasGranted
  BY DEF IInv, ReqInv, AdmittedWasGranted
<1> QED BY <1>1, ProvisioningInvariant, PTL

\* A revocation is final for the commands that were under way, too.
THEOREM Revocation == Spec => RevokedIsFinal
<1>1. IInv /\ [Next]_vars => [RevokedKept]_vars
  <2> SUFFICES ASSUME IInv, [Next]_vars, NEW k \in revoked
               PROVE  k \in revoked' /\ grants'[k] = grants[k] /\ audits'[k] = audits[k]
    BY DEF RevokedKept
  <2>1. k \in Key
    BY DEF IInv, TypeOK
  <2>2. ASSUME NEW c \in Cli, CommitScope(c) PROVE revoked' = revoked /\ k # cmd[c].key
    <3>1. PICK j : j = cmd[c].key
      OBVIOUS
    <3> QED BY <2>2, <3>1, ScopeCommitted DEF CommitScope
  <2>3. ASSUME NEW c \in Cli, CommitScope(c) PROVE grants'[k] = grants[k] /\ audits'[k] = audits[k]
    BY <2>1, <2>2, <2>3, OtherScopes
  <2>4. ASSUME NEW c \in Cli, CommitRevocation(c)
        PROVE  k \in revoked' /\ UNCHANGED <<grants, audits>>
    BY <2>4 DEF CommitRevocation
  <2>5. \/ \E c \in Cli : CommitScope(c) \/ CommitRevocation(c)
        \/ UNCHANGED keys
    BY OtherKeys
  <2> QED BY <2>2, <2>3, <2>4, <2>5 DEF keys
<1> QED BY <1>1, ProvisioningInvariant, PTL DEF RevokedIsFinal, Spec

\* What a key is granted is ready at that moment (the lock of the applications' rows
\* keeps a preparation from marking one failed between the check and the grant).
THEOREM ReadyGrants == Spec => OnlyReadyIsGranted
<1>1. IInv /\ [Next]_vars => [\A k \in Key : grants'[k] \ grants[k] \subseteq ready]_vars
  <2> SUFFICES ASSUME IInv, [Next]_vars, NEW k \in Key PROVE grants'[k] \ grants[k] \subseteq ready
    OBVIOUS
  <2>1. ASSUME NEW c \in Cli, CommitScope(c) PROVE grants'[k] \ grants[k] \subseteq ready
    <3>1. PICK j : j = cmd[c].key
      OBVIOUS
    <3>2. CASE k = j
      BY <2>1, <3>1, <3>2, ScopeCommitted DEF IInv, TypeOK
    <3>3. CASE k # j
      BY <2>1, <3>1, <3>3, OtherScopes
    <3> QED BY <3>2, <3>3
  <2>2. ASSUME NEW c \in Cli, CommitRevocation(c) PROVE UNCHANGED grants
    BY <2>2 DEF CommitRevocation
  <2>3. \/ \E c \in Cli : CommitScope(c) \/ CommitRevocation(c)
        \/ UNCHANGED keys
    BY OtherKeys
  <2> QED BY <2>1, <2>2, <2>3 DEF keys
<1> QED BY <1>1, ProvisioningInvariant, PTL DEF OnlyReadyIsGranted, Spec


-----------------------------------------------------------------------------
(* The ledger.                                                             *)

\* Who prepares an application holds its preparation lock, so that nobody else gives it
\* a prefix meanwhile.
Alone(c) ==
    /\ pc[c] \in {"read", "insert", "build", "failing"} => named[app[c]] = c
    /\ pc[c] = "insert" => ~Registered(app[c])

AloneInv == \A c \in Cli : Alone(c)

\* A step of c that gives no prefix and takes no lock of another.
LEMMA AloneStep ==
  ASSUME IInv, AloneInv, NEW c \in Cli, Alone(c)',
         \A a \in App : named[a] \in Cli \ {c} => named'[a] = named[a] /\ prefix'[a] = prefix[a],
         \A d \in Cli \ {c} : pc'[d] = pc[d] /\ app'[d] = app[d]
  PROVE  AloneInv'
<1> SUFFICES ASSUME NEW d \in Cli \ {c} PROVE Alone(d)'
  BY DEF AloneInv
<1>1. Alone(d) /\ app[d] \in App
  BY DEF AloneInv, IInv, TypeOK
<1>2. CASE pc[d] \in {"read", "insert", "build", "failing"}
  <2>1. named[app[d]] \in Cli \ {c}
    BY <1>1, <1>2 DEF Alone
  <2> QED BY <1>1, <1>2, <2>1 DEF Alone, Registered
<1>3. CASE pc[d] \notin {"read", "insert", "build", "failing"}
  BY <1>3 DEF Alone
<1> QED BY <1>2, <1>3

LEMMA AloneEnds ==
  ASSUME IInv, AloneInv, NEW c \in Cli, Ends(c), UNCHANGED prefix
  PROVE  AloneInv'
<1>1. \A a \in App : named[a] \in Cli \ {c} => named'[a] = named[a] /\ prefix'[a] = prefix[a]
  BY DEF Ends, Freed, IInv, TypeOK
<1>2. pc'[c] = "idle" /\ \A d \in Cli \ {c} : pc'[d] = pc[d] /\ app'[d] = app[d]
  BY DEF Ends, Goto, IInv, TypeOK
<1>3. Alone(c)'
  BY <1>2 DEF Alone
<1> QED BY <1>1, <1>2, <1>3, AloneStep

LEMMA AloneNextApp ==
  ASSUME IInv, AloneInv, NEW c \in Cli, NextApp(c), pc[c] \in {"read", "build"}, UNCHANGED prefix
  PROVE  AloneInv'
<1>1. named[app[c]] = c
  BY DEF AloneInv, Alone
<1>2. \A a \in App : named[a] \in Cli \ {c} => named'[a] = named[a] /\ prefix'[a] = prefix[a]
  BY <1>1 DEF NextApp, IInv, TypeOK
<1>3. pc'[c] = "prepare" /\ \A d \in Cli \ {c} : pc'[d] = pc[d] /\ app'[d] = app[d]
  BY DEF NextApp, Goto, IInv, TypeOK
<1>4. Alone(c)'
  BY <1>3 DEF Alone
<1> QED BY <1>2, <1>3, <1>4, AloneStep

\* A step of c to where it needs no lock of an application, or has it.
LEMMA AloneGoes ==
  ASSUME IInv, AloneInv, NEW c \in Cli, NEW step, Goto(c, step), UNCHANGED <<prefix, named, app>>,
         \/ step \in {"idle", "measure", "prepare", "lock", "check", "commit", "inspect"}
         \/ /\ pc[c] \in {"read", "insert", "build"}
            /\ step \in {"insert", "build", "failing"}
            /\ step = "insert" => ~Registered(app[c])
  PROVE  AloneInv'
<1>1. pc'[c] = step /\ \A d \in Cli \ {c} : pc'[d] = pc[d]
  BY DEF Goto, IInv, TypeOK
<1>2. Alone(c)'
  BY <1>1 DEF AloneInv, Alone, Registered
<1> QED BY <1>1, <1>2, AloneStep

LEMMA AloneNext ==
  ASSUME IInv, AloneInv, [Next]_vars
  PROVE  AloneInv'
<1>1. ASSUME NEW c \in Cli, NEW x \in Asked, NEW k \in Key \cup {NoKey}, Begin(c, x, k) PROVE AloneInv'
  <2>1. FirstStep(x) \in {"inspect", "prepare", "check", "lock"}
    BY DEF FirstStep
  <2> QED BY <1>1, <2>1, AloneGoes DEF Begin, registry, locks
<1>2. ASSUME NEW c \in Cli, Inspect(c) \/ Measure(c) PROVE AloneInv'
  BY <1>2, AloneGoes, AloneEnds DEF Inspect, Measure, registry, locks, preparing
<1>3. ASSUME NEW c \in Cli, Prepared(c) PROVE AloneInv'
  <2>1. CASE cmd[c].kind = "prepare"
    BY <1>3, <2>1, AloneEnds DEF Prepared, registry
  <2>2. CASE cmd[c].kind # "prepare"
    BY <1>3, <2>2, AloneGoes DEF Prepared, registry, locks, preparing
  <2> QED BY <2>1, <2>2
<1>4. ASSUME NEW c \in Cli, PrepareNext(c) PROVE AloneInv'
  <2>1. PICK a \in todo[c] : /\ named[a] = Nobody /\ named' = [named EXCEPT ![a] = c]
                             /\ app' = [app EXCEPT ![c] = a]
    BY <1>4 DEF PrepareNext
  <2>2. a \in App /\ pc'[c] = "read" /\ app'[c] = a /\ named'[a] = c
    BY <1>4, <2>1 DEF PrepareNext, Goto, IInv, TypeOK
  <2>3. \A d \in Cli \ {c} : pc'[d] = pc[d] /\ app'[d] = app[d]
    BY <1>4, <2>1 DEF PrepareNext, Goto, IInv, TypeOK
  <2>4. \A b \in App : named[b] \in Cli \ {c} => named'[b] = named[b] /\ prefix'[b] = prefix[b]
    BY <1>4, <2>1, NameAssumption DEF PrepareNext, registry, IInv, TypeOK
  <2>5. Alone(c)'
    BY <2>2 DEF Alone
  <2> QED BY <2>3, <2>4, <2>5, AloneStep
<1>5. ASSUME NEW c \in Cli, Busy(c) \/ MarkFailed(c) \/ Dies(c) PROVE AloneInv'
  BY <1>5, AloneEnds DEF Busy, Fails, MarkFailed, Dies, registry
<1>6. ASSUME NEW c \in Cli, Read(c) PROVE AloneInv'
  <2>1. pc[c] = "read" /\ UNCHANGED prefix
    BY <1>6 DEF Read, registry
  <2>2. CASE NextApp(c)
    BY <2>1, <2>2, AloneNextApp
  <2>3. CASE ~NextApp(c)
    BY <1>6, <2>1, <2>3, AloneGoes DEF Read, locks, preparing
  <2> QED BY <2>2, <2>3
<1>7. ASSUME NEW c \in Cli, Insert(c) PROVE AloneInv'
  <2>1. CASE Owned(candidate[c])
    BY <1>7, <2>1, AloneGoes DEF Insert, locks, preparing
  <2>2. CASE ~Owned(candidate[c])
    <3>1. /\ pc[c] = "insert" /\ Goto(c, "build") /\ UNCHANGED <<named, app>>
          /\ prefix' = [prefix EXCEPT ![app[c]] = candidate[c]]
      BY <1>7, <2>2 DEF Insert, locks, preparing
    <3>2. named[app[c]] = c
      BY <3>1 DEF AloneInv, Alone
    <3>3. \A a \in App : named[a] \in Cli \ {c} => named'[a] = named[a] /\ prefix'[a] = prefix[a]
      BY <3>1, <3>2 DEF IInv, TypeOK
    <3>4. pc'[c] = "build" /\ \A d \in Cli \ {c} : pc'[d] = pc[d] /\ app'[d] = app[d]
      BY <3>1 DEF Goto, IInv, TypeOK
    <3>5. Alone(c)'
      BY <3>1, <3>2, <3>4 DEF Alone
    <3> QED BY <3>3, <3>4, <3>5, AloneStep
  <2> QED BY <2>1, <2>2
<1>8. ASSUME NEW c \in Cli, Build(c) PROVE AloneInv'
  BY <1>8, AloneNextApp DEF Build
<1>9. ASSUME NEW c \in Cli, PrepareFails(c) PROVE AloneInv'
  BY <1>9, AloneGoes DEF PrepareFails, registry, locks, preparing
<1>10. ASSUME NEW c \in Cli, LockKey(c) \/ Check(c) PROVE AloneInv'
  BY <1>10, AloneGoes, AloneEnds DEF LockKey, Check, registry, preparing
<1>11. ASSUME NEW c \in Cli, CommitScope(c) \/ CommitRevocation(c) PROVE AloneInv'
  BY <1>11, AloneEnds DEF CommitScope, CommitRevocation, registry
<1>12. ASSUME UNCHANGED <<registry, locks, process>> PROVE AloneInv'
  BY <1>12 DEF AloneInv, Alone, Registered, registry, locks, process, preparing
<1>13. ASSUME NEW r \in Request,
              \/ Served(r) \/ MarkUsedFails(r)
              \/ \E k \in Key, a \in App : Arrive(r, k, a)
       PROVE  AloneInv'
  BY <1>12, <1>13 DEF Served, Authenticate, MarkUsed, MarkUsedFails, Arrive
<1>14. ASSUME NEW k \in Key, Expire(k) PROVE AloneInv'
  BY <1>12, <1>14 DEF Expire
<1>15. CASE UNCHANGED vars
  BY <1>12, <1>15 DEF vars
<1> QED BY <1>1, <1>2, <1>3, <1>4, <1>5, <1>6, <1>7, <1>8, <1>9, <1>10, <1>11, <1>13, <1>14, <1>15
        DEF Next, Step, Prepares, Changes


\* A step in which no request is asked leaves the permitted ones as they are.
LEMMA SamePermitted == req' = req => Permitted' = Permitted
  BY DEF Permitted

\* A step of a request that leaves it out of the permitted ones, or among them.
LEMMA PermittedKept ==
  ASSUME NEW r \in Request, \A q \in Request \ {r} : req'[q] = req[q],
         \/ /\ req[r].pc \notin {"using", "admitted"} /\ req'[r].pc \notin {"using", "admitted"}
         \/ /\ req[r].pc \in {"using", "admitted"} /\ req'[r].pc \in {"using", "admitted"}
            /\ req'[r].key = req[r].key /\ req'[r].app = req[r].app
  PROVE  Permitted' = Permitted
<1>1. \A q \in Request : /\ req'[q].pc \in {"using", "admitted"} <=> req[q].pc \in {"using", "admitted"}
                         /\ req[q].pc \in {"using", "admitted"}
                               => req'[q].key = req[q].key /\ req'[q].app = req[q].app
  OBVIOUS
<1> QED BY <1>1 DEF Permitted

\* A step of a request that is permitted, or no longer.
LEMMA PermittedSplit ==
  ASSUME NEW r \in Request, \A q \in Request \ {r} : req'[q] = req[q],
         NEW t, t = [request |-> r, key |-> req[r].key, app |-> req[r].app]
  PROVE  /\ /\ req[r].pc \notin {"using", "admitted"} /\ req'[r].pc \in {"using", "admitted"}
            /\ req'[r].key = req[r].key /\ req'[r].app = req[r].app
            => Permitted' = Permitted \cup {t} /\ t \notin Permitted
         /\ req[r].pc \in {"using", "admitted"} /\ req'[r].pc \notin {"using", "admitted"}
            => Permitted' = Permitted \ {t} /\ t \in Permitted
<1> DEFINE Others == {[request |-> q, key |-> req[q].key, app |-> req[q].app] :
                         q \in {p \in Request \ {r} : req[p].pc \in {"using", "admitted"}}}
           After == [request |-> r, key |-> req'[r].key, app |-> req'[r].app]
<1>1. t \notin Others
  OBVIOUS
<1>2. Permitted = IF req[r].pc \in {"using", "admitted"} THEN Others \cup {t} ELSE Others
  BY DEF Permitted
<1>3. Permitted' = IF req'[r].pc \in {"using", "admitted"} THEN Others \cup {After} ELSE Others
  BY DEF Permitted
<1>4. req'[r].key = req[r].key /\ req'[r].app = req[r].app => After = t
  OBVIOUS
<1> HIDE DEF Others, After
<1> QED BY <1>1, <1>2, <1>3, <1>4

\* The commit of a grant, a withdrawal or a creation is one step of the ledger.
LEMMA ScopeLedger ==
  ASSUME IInv, NEW c \in Cli, CommitScope(c)
  PROVE  [Ledger!Next]_(Ledger!ledgerVars)
<1>0. PICK k : k = cmd[c].key
  OBVIOUS
<1> DEFINE apps == With(grants[k], c)
           row == [before |-> grants[k], after |-> apps]
<1>1. /\ k \in Key /\ k \notin revoked /\ before[c] = grants[k]
      /\ grants' = [grants EXCEPT ![k] = apps]
      /\ apps \in SUBSET App /\ Cardinality(apps) <= MaxApplications
      /\ apps \ grants[k] \subseteq ready
      /\ Added(c) \cup Removed(c) = {} <=> apps = grants[k]
      /\ cmd[c].kind = "create" => k \notin created
      /\ cmd[c].kind # "create" => k \in created
  BY <1>0, ScopeCommitted
<1>2. /\ UNCHANGED <<prefix, ready, expired, revoked, revocations>> /\ created' = created \cup {k}
      /\ audits' = IF apps = grants[k] THEN audits ELSE [audits EXCEPT ![k] = Append(@, row)]
  BY <1>0, <1>1 DEF CommitScope, registry
<1>3. Permitted' = Permitted
  BY SamePermitted DEF CommitScope
<1>4. apps # grants[k] => Ledger!Scope(k, apps)
  <2> HIDE DEF apps
  <2>1. apps # grants[k] => audits' = [audits EXCEPT ![k] = Append(audits[k], row)]
    BY <1>2
  <2>2. Ledger!Cardinality(apps) = Cardinality(apps)
    BY DEF Cardinality, Ledger!Cardinality
  <2> QED BY <1>1, <1>2, <1>3, <2>1, <2>2 DEF Ledger!Scope, Ledger!registry
<1>5. CASE cmd[c].kind = "create"
  <2>1. grants[k] = {}
    BY <1>1, <1>5 DEF IInv, KeyInv, Unused
  <2>2. cmd[c].apps # {} /\ apps = cmd[c].apps
    BY <1>1, <1>5, <2>1 DEF IInv, CmdInv, ValidCommand, With, Added, Removed
  <2>3. Ledger!Create(k, apps)
    BY <1>1, <1>2, <1>4, <1>5, <2>1, <2>2 DEF Ledger!Create
  <2> QED BY <1>1, <2>3 DEF Ledger!Next
<1>6. CASE cmd[c].kind # "create" /\ apps # grants[k]
  <2>1. apps \subseteq grants[k] \/ grants[k] \subseteq apps
    BY <1>1, <1>6 DEF With, Added, Removed
  <2>2. Ledger!Change(k, apps)
    BY <1>1, <1>2, <1>4, <1>6, <2>1 DEF Ledger!Change
  <2> QED BY <1>1, <2>2 DEF Ledger!Next
<1>7. CASE cmd[c].kind # "create" /\ apps = grants[k]
  <2>1. UNCHANGED <<prefix, ready, created, revoked, grants, audits, revocations, expired>>
    BY <1>1, <1>2, <1>7 DEF IInv, TypeOK
  <2> QED BY <1>3, <2>1 DEF Ledger!ledgerVars, Ledger!registry, Ledger!keys
<1> QED BY <1>5, <1>6, <1>7

\* So is a revocation, the first of its key.
LEMMA RevocationLedger ==
  ASSUME IInv, NEW c \in Cli, CommitRevocation(c)
  PROVE  [Ledger!Next]_(Ledger!ledgerVars)
<1>0. PICK k : k = cmd[c].key
  OBVIOUS
<1>1. k \in created /\ created \subseteq Key
  BY <1>0 DEF CommitRevocation, IInv, CmdInv, TypeOK
<1>2. /\ UNCHANGED <<prefix, ready, expired, created, grants, audits>>
      /\ revoked' = revoked \cup {k}
      /\ revocations' = IF k \in revoked THEN revocations ELSE [revocations EXCEPT ![k] = @ + 1]
      /\ Permitted' = Permitted
  BY <1>0, SamePermitted DEF CommitRevocation, registry
<1>3. CASE k \in revoked
  <2>1. UNCHANGED <<revoked, revocations>>
    BY <1>2, <1>3
  <2> QED BY <1>2, <2>1 DEF Ledger!ledgerVars, Ledger!registry, Ledger!keys
<1>4. CASE k \notin revoked
  <2>1. Ledger!Revoke(k)
    BY <1>1, <1>2, <1>4 DEF Ledger!Revoke, Ledger!registry
  <2> QED BY <1>1, <2>1 DEF Ledger!Next
<1> QED BY <1>3, <1>4

\* So is what a preparation changes.
LEMMA RegistryLedger ==
  ASSUME IInv, AloneInv, NEW c \in Cli, Insert(c) \/ Build(c) \/ MarkFailed(c)
  PROVE  [Ledger!Next]_(Ledger!ledgerVars)
<1>1. app[c] \in App /\ UNCHANGED <<created, revoked, grants, audits, revocations, expired>>
  BY DEF Insert, Build, MarkFailed, keys, IInv, TypeOK
<1>2. Permitted' = Permitted
  BY SamePermitted DEF Insert, Build, MarkFailed
<1> USE <1>1, <1>2 DEF Ledger!keys
<1>3. CASE Insert(c) /\ Owned(candidate[c])
  BY <1>3 DEF Insert, Ledger!ledgerVars, Ledger!registry
<1>4. CASE Insert(c) /\ ~Owned(candidate[c])
  <2>1. prefix' = [prefix EXCEPT ![app[c]] = candidate[c]] /\ pc[c] = "insert" /\ UNCHANGED ready
    BY <1>4 DEF Insert
  <2>2. prefix[app[c]] = NoPrefix /\ candidate[c] \in Prefix
    BY <2>1 DEF AloneInv, Alone, Registered, IInv, CmdInv
  <2>3. Ledger!Register(app[c], candidate[c])
    BY <1>4, <2>1, <2>2 DEF Ledger!Register, Owned
  <2> QED BY <2>2, <2>3 DEF Ledger!Next
<1>5. CASE Build(c)
  <2>1. prefix[app[c]] # NoPrefix
    BY <1>5 DEF Build, IInv, CmdInv, Registered
  <2>2. Ledger!Prepare(app[c])
    BY <1>5, <2>1 DEF Build, Ledger!Prepare
  <2> QED BY <2>2 DEF Ledger!Next
<1>6. CASE MarkFailed(c)
  <2>1. Ledger!Prepare(app[c])
    BY <1>6 DEF MarkFailed, Ledger!Prepare
  <2> QED BY <2>1 DEF Ledger!Next
<1> QED BY <1>3, <1>4, <1>5, <1>6

\* A request is permitted where it is authenticated.
LEMMA RequestLedger ==
  ASSUME IInv, NEW r \in Request,
         \/ Served(r) \/ MarkUsedFails(r)
         \/ \E k \in Key, a \in App : Arrive(r, k, a)
  PROVE  [Ledger!Next]_(Ledger!ledgerVars)
<1>1. UNCHANGED <<prefix, ready, created, revoked, grants, audits, revocations, expired>>
  BY DEF Served, Authenticate, MarkUsed, MarkUsedFails, Arrive, registry, keys
<1>2. req \in [Request -> RequestState]
  BY DEF IInv, TypeOK
<1> DEFINE t == [request |-> r, key |-> req[r].key, app |-> req[r].app]
<1>3. CASE Permitted' = Permitted
  BY <1>1, <1>3 DEF Ledger!ledgerVars, Ledger!registry, Ledger!keys
<1>4. CASE \E k \in Key, a \in App : Arrive(r, k, a)
  <2>1. req[r].pc = "new" /\ req'[r].pc = "sent" /\ \A q \in Request \ {r} : req'[q] = req[q]
    BY <1>2, <1>4 DEF Arrive
  <2>2. Permitted' = Permitted
    BY <2>1, PermittedKept
  <2> QED BY <1>3, <2>2
<1>5. CASE Authenticate(r)
  <2> DEFINE granted == Active(req[r].key) /\ req[r].app \in grants[req[r].key]
  <2>1. /\ req[r].pc = "sent" /\ \A q \in Request \ {r} : req'[q] = req[q]
        /\ req'[r] = [req[r] EXCEPT !.pc = IF granted THEN "using" ELSE "refused"]
    BY <1>2, <1>5 DEF Authenticate
  <2>2. req'[r].pc = (IF granted THEN "using" ELSE "refused") /\ req'[r].key = req[r].key
          /\ req'[r].app = req[r].app
    BY <1>2, <2>1 DEF RequestState
  <2>3. CASE ~granted
    <3>1. Permitted' = Permitted
      BY <2>1, <2>2, <2>3, PermittedKept
    <3> QED BY <1>3, <3>1
  <2>4. CASE granted
    <3>1. req[r].key \in created
      BY <2>1, <2>4 DEF IInv, ReqInv, KeyInv, Unused
    <3>2. Permitted' = Permitted \cup {t} /\ t \notin Permitted
      <4>1. /\ req'[r].pc = "using" /\ req[r].pc = "sent"
            /\ req'[r].key = req[r].key /\ req'[r].app = req[r].app
        BY <2>1, <2>2, <2>4
      <4> QED BY <2>1, <4>1, PermittedSplit
    <3>3. Ledger!Permit(t)
      BY <1>1, <2>4, <3>1, <3>2 DEF Ledger!Permit, Ledger!registry, Ledger!keys, Active
    <3> QED BY <3>2, <3>3 DEF Ledger!Next
  <2> QED BY <2>3, <2>4
<1>6. CASE MarkUsed(r)
  <2>1. req[r].pc = "using" /\ req'[r] = [req[r] EXCEPT !.pc = "admitted"]
          /\ \A q \in Request \ {r} : req'[q] = req[q]
    BY <1>2, <1>6 DEF MarkUsed
  <2>2. req'[r].pc = "admitted" /\ req'[r].key = req[r].key /\ req'[r].app = req[r].app
    BY <1>2, <2>1 DEF RequestState
  <2>3. Permitted' = Permitted
    BY <2>1, <2>2, PermittedKept
  <2> QED BY <1>3, <2>3
<1>7. CASE MarkUsedFails(r)
  <2>1. req[r].pc = "using" /\ req'[r] = [req[r] EXCEPT !.pc = "refused"]
          /\ \A q \in Request \ {r} : req'[q] = req[q]
    BY <1>2, <1>7 DEF MarkUsedFails
  <2>2. req'[r].pc = "refused"
    BY <1>2, <2>1 DEF RequestState
  <2>3. Permitted' = Permitted \ {t} /\ t \in Permitted
    BY <2>1, <2>2, PermittedSplit
  <2>4. Ledger!Withdraw(t)
    BY <1>1, <2>3 DEF Ledger!Withdraw, Ledger!registry, Ledger!keys
  <2> QED BY <2>3, <2>4 DEF Ledger!Next
<1> QED BY <1>4, <1>5, <1>6, <1>7 DEF Served

LEMMA StepLedger ==
  ASSUME IInv, AloneInv, [Next]_vars
  PROVE  [Ledger!Next]_(Ledger!ledgerVars)
<1>1. ASSUME NEW k \in Key, Expire(k) PROVE [Ledger!Next]_(Ledger!ledgerVars)
  <2>1. Permitted' = Permitted
    BY <1>1, SamePermitted DEF Expire
  <2>2. Ledger!Expire(k)
    BY <1>1, <2>1 DEF Expire, Ledger!Expire, Ledger!registry, Ledger!keys, registry, keys
  <2> QED BY <2>2 DEF Ledger!Next
<1>2. ASSUME UNCHANGED <<registry, keys, expired, req>> PROVE [Ledger!Next]_(Ledger!ledgerVars)
  BY <1>2, SamePermitted DEF Ledger!ledgerVars, Ledger!registry, Ledger!keys, registry, keys
<1>3. \/ \E c \in Cli : \/ CommitScope(c) \/ CommitRevocation(c)
                        \/ Insert(c) \/ Build(c) \/ MarkFailed(c)
      \/ \E r \in Request : \/ Served(r) \/ MarkUsedFails(r)
                            \/ \E k \in Key, a \in App : Arrive(r, k, a)
      \/ \E k \in Key : Expire(k)
      \/ UNCHANGED <<registry, keys, expired, req>>
  <2>1. ASSUME NEW c \in Cli, Step(c)
        PROVE  \/ CommitScope(c) \/ CommitRevocation(c) \/ Insert(c) \/ Build(c) \/ MarkFailed(c)
               \/ UNCHANGED <<registry, keys, expired, req>>
    BY <2>1 DEF Step, Prepares, Changes, Inspect, Measure, Prepared, PrepareNext, Busy, Fails, Read,
       LockKey, Check
  <2>2. ASSUME NEW c \in Cli, PrepareFails(c) \/ Dies(c)
                                \/ \E x \in Asked, k \in Key \cup {NoKey} : Begin(c, x, k)
        PROVE  UNCHANGED <<registry, keys, expired, req>>
    BY <2>2 DEF PrepareFails, Dies, Begin
  <2>3. UNCHANGED vars => UNCHANGED <<registry, keys, expired, req>>
    BY DEF vars
  <2> QED BY <2>1, <2>2, <2>3 DEF Next
<1> QED BY <1>1, <1>2, <1>3, ScopeLedger, RevocationLedger, RegistryLedger, RequestLedger

\* However many commands overlap, wait for each other, fail or are killed: what is there
\* of keys, grants, audits and tables is what single steps on a ledger come to, and each
\* request is permitted by one look at it.
THEOREM LedgerRefinement == Spec => ImplementsKeyLedger
<1>1. Init => AloneInv /\ Ledger!Init
  <2> SUFFICES ASSUME Init PROVE AloneInv /\ Ledger!Init
    OBVIOUS
  <2>1. AloneInv
    BY DEF Init, AloneInv, Alone
  <2>2. Permitted = {}
    BY DEF Init, Permitted, NewRequest
  <2> QED BY <2>1, <2>2 DEF Init, Ledger!Init
<1>2. IInv /\ AloneInv /\ [Next]_vars => AloneInv'
  BY AloneNext
<1>3. IInv /\ AloneInv /\ [Next]_vars => [Ledger!Next]_(Ledger!ledgerVars)
  BY StepLedger
<1> QED
  BY <1>1, <1>2, <1>3, ProvisioningInvariant, PTL DEF Spec, ImplementsKeyLedger, Ledger!Spec

-----------------------------------------------------------------------------
(* Deadlocks.                                                              *)

PreparePc == {"read", "insert", "build", "failing"}

\* Every lock belongs to a command that is where it needs it.
LockOfRunner ==
    \A c \in Cli :
        /\ \A a \in App : named[a] = c => pc[c] \in PreparePc /\ app[c] = a
        /\ \A a \in App : appLock[a] = c => pc[c] = "commit"
        /\ \A k \in Key : keyLock[k] = c => pc[c] \in {"check", "commit"}

\* c cannot go on before o does: at GET_LOCK, or at a row it locks.
Delays(o, c) ==
    \/ pc[c] = "prepare" /\ \E a \in todo[c] : named[a] = o
    \/ pc[c] \in {"read", "build", "failing"} /\ appLock[app[c]] = o
    \/ pc[c] = "lock" /\ keyLock[cmd[c].key] = o
    \/ pc[c] = "check" /\ \E a \in cmd[c].apps : appLock[a] = o

\* The order in which locks are waited for.
Order(step) ==
    CASE step = "commit" -> 1 [] step = "check" -> 2
      [] step \in {"lock", "read", "insert", "build", "failing"} -> 3 [] OTHER -> 4

WaitsForward == \A c, o \in Cli : Delays(o, c) => Order(pc[o]) < Order(pc[c])

\* A step of c that takes no lock for another command.
LEMMA LockStep ==
  ASSUME LockOfRunner, NEW c \in Cli,
         \A d \in Cli \ {c} : pc'[d] = pc[d] /\ app'[d] = app[d],
         \A a \in App, d \in Cli \ {c} : /\ named'[a] = d => named[a] = d
                                         /\ appLock'[a] = d => appLock[a] = d,
         \A k \in Key, d \in Cli \ {c} : keyLock'[k] = d => keyLock[k] = d,
         \A a \in App : /\ named'[a] = c => pc'[c] \in PreparePc /\ app'[c] = a
                        /\ appLock'[a] = c => pc'[c] = "commit",
         \A k \in Key : keyLock'[k] = c => pc'[c] \in {"check", "commit"}
  PROVE  LockOfRunner'
BY DEF LockOfRunner

LEMMA LockEnds ==
  ASSUME TypeOK, LockOfRunner, NEW c \in Cli, Ends(c)
  PROVE  LockOfRunner'
<1>1. \A d \in Cli \ {c} : pc'[d] = pc[d] /\ app'[d] = app[d]
  BY DEF Ends, Goto, TypeOK
<1>2. \A a \in App : /\ named'[a] = IF named[a] = c THEN Nobody ELSE named[a]
                     /\ appLock'[a] = IF appLock[a] = c THEN Nobody ELSE appLock[a]
  BY DEF Ends, Freed, TypeOK
<1>3. \A k \in Key : keyLock'[k] = IF keyLock[k] = c THEN Nobody ELSE keyLock[k]
  BY DEF Ends, Freed, TypeOK
<1> QED BY <1>1, <1>2, <1>3, LockStep, NameAssumption

LEMMA LockNextApp ==
  ASSUME TypeOK, LockOfRunner, NEW c \in Cli, NextApp(c), pc[c] \in {"read", "build"}
  PROVE  LockOfRunner'
<1>1. /\ \A d \in Cli \ {c} : pc'[d] = pc[d] /\ app'[d] = app[d]
      /\ UNCHANGED <<appLock, keyLock>>
  BY DEF NextApp, Goto, TypeOK
<1>2. \A a \in App : named'[a] = IF a = app[c] THEN Nobody ELSE named[a]
  BY DEF NextApp, TypeOK
<1>3. \A a \in App : named'[a] # c /\ appLock'[a] # c
  BY <1>1, <1>2, NameAssumption DEF LockOfRunner
<1>4. \A k \in Key : keyLock'[k] # c
  BY <1>1 DEF LockOfRunner
<1> QED BY <1>1, <1>2, <1>3, <1>4, LockStep, NameAssumption

\* A step of c with the locks it has.
LEMMA LockGoes ==
  ASSUME TypeOK, LockOfRunner, NEW c \in Cli, NEW step, Goto(c, step), UNCHANGED <<locks, app>>,
         \/ pc[c] \in {"idle", "inspect", "measure", "prepare"}
         \/ pc[c] \in PreparePc /\ step \in PreparePc
  PROVE  LockOfRunner'
<1>1. pc'[c] = step /\ \A d \in Cli \ {c} : pc'[d] = pc[d] /\ app'[d] = app[d]
  BY DEF Goto, TypeOK
<1>2. UNCHANGED <<named, appLock, keyLock, app>>
  BY DEF locks
<1> QED BY <1>1, <1>2, LockStep DEF LockOfRunner, PreparePc

LEMMA LockNext ==
  ASSUME TypeOK, LockOfRunner, [Next]_vars
  PROVE  LockOfRunner'
<1>1. ASSUME NEW c \in Cli, NEW x \in Asked, NEW k \in Key \cup {NoKey}, Begin(c, x, k) PROVE LockOfRunner'
  BY <1>1, LockGoes DEF Begin
<1>2. ASSUME NEW c \in Cli, Inspect(c) \/ Measure(c) PROVE LockOfRunner'
  BY <1>2, LockGoes, LockEnds DEF Inspect, Measure, preparing
<1>3. ASSUME NEW c \in Cli, Prepared(c) PROVE LockOfRunner'
  <2>1. CASE Ends(c)
    BY <2>1, LockEnds
  <2>2. CASE ~Ends(c)
    BY <1>3, <2>2, LockGoes DEF Prepared, preparing
  <2> QED BY <2>1, <2>2
<1>4. ASSUME NEW c \in Cli, PrepareNext(c) PROVE LockOfRunner'
  <2>1. PICK a \in todo[c] : /\ named[a] = Nobody /\ named' = [named EXCEPT ![a] = c]
                             /\ app' = [app EXCEPT ![c] = a]
    BY <1>4 DEF PrepareNext
  <2>2. a \in App /\ pc[c] = "prepare" /\ pc'[c] = "read" /\ app'[c] = a
    BY <1>4, <2>1 DEF PrepareNext, Goto, TypeOK
  <2>3. /\ \A d \in Cli \ {c} : pc'[d] = pc[d] /\ app'[d] = app[d]
        /\ UNCHANGED <<appLock, keyLock>>
    BY <1>4, <2>1 DEF PrepareNext, Goto, TypeOK
  <2>4. \A b \in App : named'[b] = IF b = a THEN c ELSE named[b]
    BY <2>1, <2>2 DEF TypeOK
  <2> QED BY <2>2, <2>3, <2>4, LockStep DEF LockOfRunner, PreparePc
<1>5. ASSUME NEW c \in Cli, Busy(c) \/ MarkFailed(c) \/ Dies(c) PROVE LockOfRunner'
  BY <1>5, LockEnds DEF Busy, Fails, MarkFailed, Dies
<1>6. ASSUME NEW c \in Cli, Read(c) PROVE LockOfRunner'
  <2>1. pc[c] = "read"
    BY <1>6 DEF Read
  <2>2. CASE NextApp(c)
    BY <2>1, <2>2, LockNextApp
  <2>3. CASE ~NextApp(c)
    BY <1>6, <2>1, <2>3, LockGoes DEF Read, preparing, PreparePc
  <2> QED BY <2>2, <2>3
<1>7. ASSUME NEW c \in Cli, Insert(c) \/ PrepareFails(c) PROVE LockOfRunner'
  BY <1>7, LockGoes DEF Insert, PrepareFails, preparing, PreparePc
<1>8. ASSUME NEW c \in Cli, Build(c) PROVE LockOfRunner'
  BY <1>8, LockNextApp DEF Build
<1>9. ASSUME NEW c \in Cli, LockKey(c) PROVE LockOfRunner'
  <2>1. CASE Ends(c)
    BY <2>1, LockEnds
  <2>2. CASE ~Ends(c)
    <3>1. /\ pc[c] = "lock" /\ pc'[c] \in {"check", "commit"}
          /\ \A d \in Cli \ {c} : pc'[d] = pc[d] /\ app'[d] = app[d]
          /\ UNCHANGED <<named, appLock, app>>
      BY <1>9, <2>2 DEF LockKey, Goto, preparing, TypeOK
    <3>2. \A k \in Key : keyLock'[k] \in {keyLock[k], c}
      BY <1>9, <2>2 DEF LockKey, TypeOK
    <3> QED BY <3>1, <3>2, LockStep DEF LockOfRunner, PreparePc
  <2> QED BY <2>1, <2>2
<1>10. ASSUME NEW c \in Cli, Check(c) PROVE LockOfRunner'
  <2>1. CASE Ends(c)
    BY <2>1, LockEnds
  <2>2. CASE ~Ends(c)
    <3>1. /\ pc[c] = "check" /\ pc'[c] = "commit"
          /\ \A d \in Cli \ {c} : pc'[d] = pc[d] /\ app'[d] = app[d]
          /\ UNCHANGED <<named, keyLock, app>>
      BY <1>10, <2>2 DEF Check, Goto, preparing, TypeOK
    <3>2. \A a \in App : appLock'[a] \in {appLock[a], c}
      BY <1>10, <2>2 DEF Check, TypeOK
    <3> QED BY <3>1, <3>2, LockStep DEF LockOfRunner, PreparePc
  <2> QED BY <2>1, <2>2
<1>11. ASSUME NEW c \in Cli, CommitScope(c) \/ CommitRevocation(c) PROVE LockOfRunner'
  BY <1>11, LockEnds DEF CommitScope, CommitRevocation
<1>12. ASSUME UNCHANGED <<locks, process>> PROVE LockOfRunner'
  BY <1>12 DEF LockOfRunner, locks, process, preparing
<1>13. ASSUME NEW r \in Request,
              \/ Served(r) \/ MarkUsedFails(r)
              \/ \E k \in Key, a \in App : Arrive(r, k, a)
       PROVE  LockOfRunner'
  BY <1>12, <1>13 DEF Served, Authenticate, MarkUsed, MarkUsedFails, Arrive
<1>14. ASSUME NEW k \in Key, Expire(k) PROVE LockOfRunner'
  BY <1>12, <1>14 DEF Expire
<1>15. CASE UNCHANGED vars
  BY <1>12, <1>15 DEF vars
<1> QED BY <1>1, <1>2, <1>3, <1>4, <1>5, <1>6, <1>7, <1>8, <1>9, <1>10, <1>11, <1>13, <1>14, <1>15
        DEF Next, Step, Prepares, Changes

\* Commands that wait for each other never form a circle: a preparation lock is asked for
\* with nothing in hand, a key is locked before applications, and who has those waits for
\* nobody (prepare, changeApplications and revoke; the rows of one statement are locked in
\* the order of their names).  Two insertions at once, which the server may abort, are
\* PrepareFails.
THEOREM NoCircularWait == Spec => []WaitsForward
<1>1. Init => LockOfRunner
  BY NameAssumption DEF Init, LockOfRunner
<1>2. IInv /\ LockOfRunner => WaitsForward
  <2> SUFFICES ASSUME IInv, LockOfRunner, NEW c \in Cli, NEW o \in Cli, Delays(o, c)
               PROVE  Order(pc[o]) < Order(pc[c])
    BY DEF WaitsForward
  <2>0. app[c] \in App /\ cmd[c].apps \subseteq App /\ todo[c] \subseteq App
    BY DEF IInv, TypeOK, Command
  <2>1. CASE pc[c] = "prepare" /\ \E a \in todo[c] : named[a] = o
    BY <2>0, <2>1 DEF LockOfRunner, Order, PreparePc
  <2>2. CASE pc[c] \in {"read", "build", "failing"} /\ appLock[app[c]] = o
    BY <2>0, <2>2 DEF LockOfRunner, Order
  <2>3. CASE pc[c] = "lock" /\ keyLock[cmd[c].key] = o
    <3>1. cmd[c].key \in Key
      BY <2>3, KeyNamed DEF IInv
    <3> QED BY <2>3, <3>1 DEF LockOfRunner, Order
  <2>4. CASE pc[c] = "check" /\ \E a \in cmd[c].apps : appLock[a] = o
    BY <2>0, <2>4 DEF LockOfRunner, Order
  <2> QED BY <2>1, <2>2, <2>3, <2>4 DEF Delays
<1>3. IInv => TypeOK
  BY DEF IInv
<1>4. IInv /\ LockOfRunner /\ [Next]_vars => LockOfRunner'
  BY <1>3, LockNext
<1> QED BY <1>1, <1>2, <1>4, ProvisioningInvariant, PTL DEF Spec

=============================================================================
