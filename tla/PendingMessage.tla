--------------------------- MODULE PendingMessage ---------------------------
(***************************************************************************)
(* The one pending message of a target (a user id or a device of an         *)
(* application): senders that store it and then emit it to the sockets of   *)
(* the target, sockets that subscribe and are replayed what is pending,     *)
(* acknowledgements, expiry, and the process dying in between.              *)
(*                                                                          *)
(* Targets do not share rows, rooms or subscriptions, so one is enough.     *)
(* Code between two awaited database calls is one action: joining a room of *)
(* the in-memory adapter waits for no other event.  A closed socket is      *)
(* emitted nothing; what happens on the wire is not modelled.               *)
(***************************************************************************)
EXTENDS Naturals

CONSTANTS
    Socket,         \* connections; a client that reconnects is another one
    Message,        \* messages sent to the target, each with its own id
    Request,        \* subscribe calls, each of one socket
    NoMessage,      \* no row, no message
    MaxFaults       \* bound: failed or unanswered database calls and restarts

ASSUME NoMessageAssumption == NoMessage \notin Message

VARIABLES
    row,            \* ota_messages: the message of the target
    expired,        \* messages whose expiresAt has passed
    sender,         \* how far the request that sends a message has come
    conn,           \* the connection store
    subscribed,     \* room and subscription of the target
    request,        \* handlers of subscribe calls
    acking,         \* acknowledgements whose DELETE is on its way
    got,            \* history: what a socket was emitted since it subscribed
    seen,           \* history: messages whose id a client knows
    missed,         \* history: sockets whose replay failed
    faults          \* faults so far

socketVars == <<conn, subscribed, got, seen>>
vars == <<row, expired, sender, socketVars, request, acking, missed, faults>>

-----------------------------------------------------------------------------
\* stored: upserted, not emitted yet; cut: the process died in between;
\* failed: the upsert threw, whether it was applied or not.
Sender == {"idle", "stored", "sent", "failed", "cut"}

Row == Message \cup {NoMessage}

\* asking: the row is queried; answered: found has been read; deleting: found
\* had expired and is being deleted.
Handler == [pc : {"new", "asking", "answered", "deleting", "done"},
            socket : Socket, found : Row]

TypeOK ==
    /\ row \in Row
    /\ expired \subseteq Message
    /\ sender \in [Message -> Sender]
    /\ conn \in [Socket -> {"new", "open", "closed"}]
    /\ subscribed \subseteq {s \in Socket : conn[s] = "open"}
    /\ request \in [Request -> Handler]
    /\ \A q \in Request : request[q].pc \in {"answered", "deleting"} => request[q].found \in Message
    /\ acking \subseteq seen
    /\ got \in [Socket -> SUBSET Message]
    /\ seen \subseteq Message
    /\ missed \subseteq Socket
    /\ faults \in Nat

Init ==
    /\ row = NoMessage
    /\ expired = {}
    /\ sender = [m \in Message |-> "idle"]
    /\ conn = [s \in Socket |-> "new"]
    /\ subscribed = {}
    /\ request \in [Request -> [pc : {"new"}, socket : Socket, found : {NoMessage}]]
    /\ acking = {}
    /\ got = [s \in Socket |-> {}]
    /\ seen = {}
    /\ missed = {}
    /\ faults = 0

Fault == faults < MaxFaults /\ faults' = faults + 1

-----------------------------------------------------------------------------
(* Sending: sendUserId and sendUniqueId.                                     *)

\* Mutant: a socket enters the room only when its replay is over.
RoomAfterReplay ==
    {s \in subscribed : \A q \in Request :
        request[q].socket = s => request[q].pc \notin {"asking", "answered"}}

\* The sockets a message to the target is emitted to.
Room == subscribed

Emitted(m) == [s \in Socket |-> IF s \in Room THEN got[s] \cup {m} ELSE got[s]]

\* create: the upsert replaces whatever was pending.
Store(m) ==
    /\ sender[m] = "idle"
    /\ sender' = [sender EXCEPT ![m] = "stored"]
    /\ row' = m
    /\ UNCHANGED <<expired, socketVars, request, acking, missed, faults>>

\* The upsert fails, or its answer is lost: nothing is emitted.
StoreFails(m) ==
    /\ sender[m] = "idle"
    /\ Fault
    /\ sender' = [sender EXCEPT ![m] = "failed"]
    /\ row' \in {row, m}
    /\ UNCHANGED <<expired, socketVars, request, acking, missed>>

Emit(m) ==
    /\ sender[m] = "stored"
    /\ sender' = [sender EXCEPT ![m] = "sent"]
    /\ got' = Emitted(m)
    /\ seen' = seen \cup {x \in {m} : Room # {}}
    /\ UNCHANGED <<row, expired, conn, subscribed, request, acking, missed, faults>>

\* resend = false: an envelope without a message id, which cannot be acknowledged.
SendTransient(m) ==
    /\ sender[m] = "idle"
    /\ sender' = [sender EXCEPT ![m] = "sent"]
    /\ got' = Emitted(m)
    /\ UNCHANGED <<row, expired, conn, subscribed, seen, request, acking, missed, faults>>

\* Time passes the expiry of a message.
Expire(m) ==
    /\ sender[m] # "idle"
    /\ m \notin expired
    /\ expired' = expired \cup {m}
    /\ UNCHANGED <<row, sender, socketVars, request, acking, missed, faults>>

-----------------------------------------------------------------------------
(* Subscribing: the handlers of userId:subscribe and uniqueId:subscribe.     *)

Connect(s) ==
    /\ conn[s] = "new"
    /\ conn' = [conn EXCEPT ![s] = "open"]
    /\ UNCHANGED <<row, expired, sender, subscribed, got, seen, request, acking, missed, faults>>

\* Joined and recorded before the query, so that a message stored while the
\* query is answered reaches the socket through the room.
Subscribe(q) ==
    /\ request[q].pc = "new"
    /\ conn[request[q].socket] = "open"
    /\ request' = [request EXCEPT ![q].pc = "asking"]
    /\ subscribed' = subscribed \cup {request[q].socket}
    /\ got' = [got EXCEPT ![request[q].socket] = {}]
    /\ missed' = missed \ {request[q].socket}
    /\ UNCHANGED <<row, expired, sender, conn, seen, acking, faults>>

Ended(h) == [h EXCEPT !.pc = "done", !.found = NoMessage]

\* findOneBy; without a row there is nothing to replay.
Read(q) ==
    /\ request[q].pc = "asking"
    /\ request' = [request EXCEPT ![q] =
           IF row = NoMessage THEN Ended(@) ELSE [@ EXCEPT !.pc = "answered", !.found = row]]
    /\ UNCHANGED <<row, expired, sender, socketVars, acking, missed, faults>>

\* The message read is emitted to this client, subscribed still or not.
Replay(q) ==
    /\ request[q].pc = "answered"
    /\ request[q].found \notin expired
    /\ LET s == request[q].socket
           told == {m \in {request[q].found} : conn[s] = "open"}
       IN  /\ got' = [got EXCEPT ![s] = @ \cup told]
           /\ seen' = seen \cup told
    /\ request' = [request EXCEPT ![q] = Ended(@)]
    /\ UNCHANGED <<row, expired, sender, conn, subscribed, acking, missed, faults>>

FindExpired(q) ==
    /\ request[q].pc = "answered"
    /\ request[q].found \in expired
    /\ request' = [request EXCEPT ![q].pc = "deleting"]
    /\ UNCHANGED <<row, expired, sender, socketVars, acking, missed, faults>>

\* Mutant: the row of the target is deleted, whichever message it is by now.
DeletedByTarget(m) == NoMessage

\* DELETE by target and message id.
Deleted(m) == IF row = m THEN NoMessage ELSE row

DeleteExpired(q) ==
    /\ request[q].pc = "deleting"
    /\ row' = Deleted(request[q].found)
    /\ request' = [request EXCEPT ![q] = Ended(@)]
    /\ UNCHANGED <<expired, sender, socketVars, acking, missed, faults>>

\* The query throws, in its SELECT or in its DELETE, which may be applied all
\* the same: logged, and nothing is replayed.
ReplayFails(q) ==
    /\ request[q].pc \in {"asking", "deleting"}
    /\ Fault
    /\ row' \in {row} \cup {Deleted(m) : m \in {request[q].found} \cap Message}
    /\ request' = [request EXCEPT ![q] = Ended(@)]
    /\ missed' = missed \cup {request[q].socket}
    /\ UNCHANGED <<expired, sender, socketVars, acking>>

Unsubscribe(s) ==
    /\ s \in subscribed
    /\ subscribed' = subscribed \ {s}
    /\ UNCHANGED <<row, expired, sender, conn, got, seen, request, acking, missed, faults>>

\* Its handlers go on, to the end of what they await.
Disconnect(s) ==
    /\ conn[s] = "open"
    /\ conn' = [conn EXCEPT ![s] = "closed"]
    /\ subscribed' = subscribed \ {s}
    /\ UNCHANGED <<row, expired, sender, got, seen, request, acking, missed, faults>>

-----------------------------------------------------------------------------
(* Acknowledging: the handlers of userId:ack and uniqueId:ack.               *)

\* Any client that knows the id may acknowledge it, if it is subscribed now.
Ack(s, m) ==
    /\ s \in subscribed
    /\ m \in seen
    /\ acking' = acking \cup {m}
    /\ UNCHANGED <<row, expired, sender, socketVars, request, missed, faults>>

AckDeletes(m) ==
    /\ m \in acking
    /\ row' = Deleted(m)
    /\ acking' = acking \ {m}
    /\ UNCHANGED <<expired, sender, socketVars, request, missed, faults>>

AckFails(m) ==
    /\ m \in acking
    /\ Fault
    /\ row' \in {row, Deleted(m)}
    /\ acking' = acking \ {m}
    /\ UNCHANGED <<expired, sender, socketVars, request, missed>>

-----------------------------------------------------------------------------
\* The process dies and starts again: connections, handlers and senders are
\* gone, rows stay.
Restart ==
    /\ Fault
    /\ conn' = [s \in Socket |-> IF conn[s] = "open" THEN "closed" ELSE conn[s]]
    /\ subscribed' = {}
    /\ request' = [q \in Request |->
           IF request[q].pc = "new" THEN request[q] ELSE Ended(request[q])]
    /\ sender' = [m \in Message |-> IF sender[m] = "stored" THEN "cut" ELSE sender[m]]
    /\ acking' = {}
    /\ UNCHANGED <<row, expired, got, seen, missed>>

Next ==
    \/ \E m \in Message : \/ Store(m) \/ StoreFails(m) \/ Emit(m) \/ SendTransient(m)
                          \/ Expire(m) \/ AckDeletes(m) \/ AckFails(m)
    \/ \E s \in Socket : \/ Connect(s) \/ Unsubscribe(s) \/ Disconnect(s)
                         \/ \E m \in Message : Ack(s, m)
    \/ \E q \in Request : \/ Subscribe(q) \/ Read(q) \/ Replay(q) \/ FindExpired(q)
                          \/ DeleteExpired(q) \/ ReplayFails(q)
    \/ Restart

Spec == Init /\ [][Next]_vars

-----------------------------------------------------------------------------
(* Properties.                                                              *)

\* The message of s that a handler of s is still going to bring.
Underway(s, m) ==
    \E q \in Request :
        /\ request[q].socket = s
        /\ \/ request[q].pc = "asking"
           \/ request[q].pc = "answered" /\ request[q].found = m

\* Whoever sent the pending message has finished with it, or died.
Announced(m) == sender[m] \in {"sent", "cut"}

\* A pending message reaches every subscriber: live when it was subscribed
\* before, by its replay when it subscribed later, whatever the order of the
\* upsert, the emit, the subscription and its query, and also when the process
\* died between the upsert and the emit.  Only a failed query lets it miss it.
PendingReachesSubscribers ==
    \A s \in subscribed \ missed, m \in Message \ expired :
        row = m /\ Announced(m) => m \in got[s] \/ Underway(s, m)

\* A message leaves the table only because it has expired, because a subscriber
\* acknowledges it, or because another takes its place: the acknowledgement or
\* the expiry of an earlier message never deletes a later one.
OnlyConsumedIsDeleted ==
    [][row # row' => row' # NoMessage \/ row \in expired \cup acking]_vars
=============================================================================
