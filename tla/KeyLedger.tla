----------------------------- MODULE KeyLedger ------------------------------
(***************************************************************************)
(* What operators and requests may take access keys and applications for,  *)
(* with no process, lock or transaction in sight: every change of a key is *)
(* one step, which is audited with it, grants applications that are ready, *)
(* exceeds no limit and leaves revoked keys alone, tables belong to one    *)
(* application for good, and a request is permitted by a key that is in    *)
(* use and has the application at that moment.                             *)
(***************************************************************************)
EXTENDS Naturals, FiniteSets, Sequences

CONSTANTS App, Prefix, NoPrefix, Key, MaxApplications

VARIABLES
    prefix,             \* the tables of each application
    ready,              \* applications that can be granted
    created,            \* keys
    expired,
    revoked,
    grants,             \* applications of each key
    audits,             \* how they came about
    revocations,        \* audited revocations of each key
    permitted           \* requests that may go on: the request, its key and application

registry == <<prefix, ready>>
keys == <<created, revoked, grants, audits, revocations>>
ledgerVars == <<registry, keys, expired, permitted>>

Init ==
    /\ prefix = [a \in App |-> NoPrefix] /\ ready = {}
    /\ created = {} /\ expired = {} /\ revoked = {}
    /\ grants = [k \in Key |-> {}] /\ audits = [k \in Key |-> <<>>]
    /\ revocations = [k \in Key |-> 0]
    /\ permitted = {}

Register(a, p) ==
    /\ prefix[a] = NoPrefix /\ \A b \in App : prefix[b] # p
    /\ prefix' = [prefix EXCEPT ![a] = p]
    /\ UNCHANGED <<ready, keys, expired, permitted>>

\* A preparation succeeds or fails.
Prepare(a) ==
    /\ \/ prefix[a] # NoPrefix /\ ready' = ready \cup {a}
       \/ ready' = ready \ {a}
    /\ UNCHANGED <<prefix, keys, expired, permitted>>

\* The key k has the applications from now on, and the audit says what it had.
Scope(k, apps) ==
    /\ apps # grants[k] /\ apps \ grants[k] \subseteq ready
    /\ Cardinality(apps) <= MaxApplications
    /\ grants' = [grants EXCEPT ![k] = apps]
    /\ audits' = [audits EXCEPT ![k] = Append(@, [before |-> grants[k], after |-> apps])]
    /\ UNCHANGED <<registry, expired, revoked, revocations, permitted>>

Create(k, apps) ==
    /\ k \notin created /\ grants[k] = {}
    /\ created' = created \cup {k}
    /\ Scope(k, apps)

\* Applications are granted or taken, never both in one step.
Change(k, apps) ==
    /\ k \in created \ revoked
    /\ apps \subseteq grants[k] \/ grants[k] \subseteq apps
    /\ Scope(k, apps)
    /\ UNCHANGED created

Revoke(k) ==
    /\ k \in created \ revoked
    /\ revoked' = revoked \cup {k}
    /\ revocations' = [revocations EXCEPT ![k] = @ + 1]
    /\ UNCHANGED <<registry, created, grants, audits, expired, permitted>>

Expire(k) ==
    /\ k \in created \ expired
    /\ expired' = expired \cup {k}
    /\ UNCHANGED <<registry, keys, permitted>>

Permit(t) ==
    /\ t.key \in created \ (revoked \cup expired) /\ t.app \in grants[t.key]
    /\ permitted' = permitted \cup {t}
    /\ UNCHANGED <<registry, keys, expired>>

\* It could not be told that the key was used.
Withdraw(t) ==
    /\ permitted' = permitted \ {t}
    /\ UNCHANGED <<registry, keys, expired>>

Next ==
    \/ \E a \in App : Prepare(a) \/ \E p \in Prefix : Register(a, p)
    \/ \E k \in Key : \/ Revoke(k) \/ Expire(k)
                      \/ \E apps \in SUBSET App : Create(k, apps) \/ Change(k, apps)
    \/ \E t \in permitted' \ permitted : Permit(t)
    \/ \E t \in permitted \ permitted' : Withdraw(t)

Spec == Init /\ [][Next]_ledgerVars
=============================================================================
