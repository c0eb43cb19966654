--------------------------- MODULE AuditedWrites ---------------------------
(***************************************************************************)
(* What an operation id stands for, to the client that sent the request    *)
(* and to whoever reads the audit, with no lock, transaction or connection *)
(* in sight: an operation is applied once or audited as failed once, never *)
(* both, only to an application that is ready, and not at all once its     *)
(* client has been answered.                                               *)
(***************************************************************************)
CONSTANT Operation      \* audited management requests

VARIABLES
    ready,              \* the application is ready, with all of its tables
    applied,            \* operations whose change and success audit are there
    refused,            \* operations with a result = failed audit row
    answer              \* what the client was told

writesVars == <<ready, applied, refused, answer>>

Answer == {"none", "ok", "error"}

Init ==
    /\ ready = FALSE
    /\ applied = {}
    /\ refused = {}
    /\ answer = [w \in Operation |-> "none"]

\* A preparation succeeds, or one that fails marks the application failed.
Prepare ==
    /\ ready' = ~ready
    /\ UNCHANGED <<applied, refused, answer>>

Undecided(w) == answer[w] = "none" /\ w \notin applied \cup refused

Apply(w) ==
    /\ Undecided(w) /\ ready
    /\ applied' = applied \cup {w}
    /\ UNCHANGED <<ready, refused, answer>>

Refuse(w) ==
    /\ Undecided(w) /\ ready
    /\ refused' = refused \cup {w}
    /\ UNCHANGED <<ready, applied, answer>>

\* An error says nothing of the operation: its outcome may be unknown.
Reply(w, a) ==
    /\ answer[w] = "none"
    /\ a = "ok" => w \in applied
    /\ answer' = [answer EXCEPT ![w] = a]
    /\ UNCHANGED <<ready, applied, refused>>

Next ==
    \/ Prepare
    \/ \E w \in Operation :
          Apply(w) \/ Refuse(w) \/ \E a \in Answer \ {"none"} : Reply(w, a)

Spec == Init /\ [][Next]_writesVars
=============================================================================
