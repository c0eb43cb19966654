---------------------------- MODULE TaskOutcome ----------------------------
(***************************************************************************)
(* What the publish task table and its execution log promise to a reader   *)
(* of the administration API, with no worker, lease or lock in sight: a    *)
(* task is submitted once, is tried a bounded number of times, one attempt *)
(* at a time, every attempt gets exactly one verdict, and the task ends    *)
(* either with the one attempt that succeeded or with none.                *)
(***************************************************************************)
EXTENDS Naturals

CONSTANTS
    Task,           \* publish tasks
    MaxAttempts     \* max_attempts of every task

VARIABLES
    outcome,        \* [Task -> Outcome], what the task has come to
    verdict         \* [Task -> [1..MaxAttempts -> Verdict]]

outcomeVars == <<outcome, verdict>>

Outcome == {"absent", "open", "succeeded", "failed"}
Verdict == {"none", "running", "succeeded", "failed", "lease_expired"}

Init ==
    /\ outcome = [t \in Task |-> "absent"]
    /\ verdict = [t \in Task |-> [n \in 1..MaxAttempts |-> "none"]]

Untried(t, n) == verdict[t][n] = "none"

\* The attempt a task would make next: every earlier one has been made.
IsNext(t, n) ==
    /\ Untried(t, n)
    /\ \A m \in 1..MaxAttempts : m < n => ~Untried(t, m)

\* The attempts of t with every running one replaced by a verdict.
Settled(t, v) ==
    [n \in 1..MaxAttempts |->
        IF verdict[t][n] = "running" THEN v ELSE verdict[t][n]]

Submit(t) ==
    /\ outcome[t] = "absent"
    /\ outcome' = [outcome EXCEPT ![t] = "open"]
    /\ UNCHANGED verdict

\* A new attempt begins; an attempt that was still running has lost its lease.
Begin(t, n) ==
    /\ outcome[t] = "open"
    /\ IsNext(t, n)
    /\ verdict' = [verdict EXCEPT ![t] = [Settled(t, "lease_expired") EXCEPT ![n] = "running"]]
    /\ UNCHANGED outcome

\* The running attempt gets its verdict, and with it perhaps the task.
Decide(t, v, o) ==
    /\ outcome[t] = "open"
    /\ \E n \in 1..MaxAttempts : verdict[t][n] = "running"
    /\ <<v, o>> \in { <<"succeeded", "succeeded">>, <<"failed", "open">>, <<"failed", "failed">>,
                      <<"lease_expired", "failed">> }
    /\ o = "failed" => \A n \in 1..MaxAttempts : ~Untried(t, n)
    /\ outcome' = [outcome EXCEPT ![t] = o]
    /\ verdict' = [verdict EXCEPT ![t] = Settled(t, v)]

Next ==
    \E t \in Task :
        \/ Submit(t)
        \/ \E n \in 1..MaxAttempts : Begin(t, n)
        \/ \E v \in Verdict, o \in Outcome : Decide(t, v, o)

Spec == Init /\ [][Next]_outcomeVars
=============================================================================
