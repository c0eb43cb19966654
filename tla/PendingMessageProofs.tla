------------------------ MODULE PendingMessageProofs ------------------------
(***************************************************************************)
(* For any number of sockets, messages, subscribe calls and faults: a        *)
(* pending message reaches every subscriber, and a message leaves the table  *)
(* only when it is consumed.                                                 *)
(***************************************************************************)
EXTENDS PendingMessage, TLAPS

\* A message in the table has a sender that stored it, so an envelope that is
\* only emitted never takes the name of a pending one.
RowHasSender == row # NoMessage => sender[row] # "idle"

\* A handler has found nothing before it has read, and deletes only what expired.
HandlersRemember ==
    \A q \in Request :
        /\ request[q].pc \in {"new", "asking"} => request[q].found = NoMessage
        /\ request[q].pc = "deleting" => request[q].found \in expired

IInv == TypeOK /\ RowHasSender /\ HandlersRemember /\ PendingReachesSubscribers

-----------------------------------------------------------------------------
(* Types.                                                                    *)

LEMMA EndedType ==
    ASSUME NEW h \in Handler
    PROVE  Ended(h) \in Handler /\ Ended(h).pc = "done" /\ Ended(h).socket = h.socket
BY DEF Ended, Handler, Row

LEMMA AnsweredType ==
    ASSUME NEW h \in Handler, NEW r \in Row
    PROVE  [h EXCEPT !.pc = "answered", !.found = r] \in Handler
BY DEF Handler, Row

\* DELETE takes away the one message or nothing.
LEMMA DeletedType ==
    ASSUME row \in Row, NEW m
    PROVE  Deleted(m) \in Row /\ (Deleted(m) = row \/ (Deleted(m) = NoMessage /\ row = m))
BY DEF Deleted, Row

LEMMA InitTypes == Init => TypeOK
BY DEF Init, TypeOK, Sender, Row, Handler

LEMMA StepTypes == TypeOK /\ [Next]_vars => TypeOK'
<1> SUFFICES ASSUME TypeOK, [Next]_vars PROVE TypeOK'
    OBVIOUS
<1> USE NoMessageAssumption DEF TypeOK, Sender, Row, Handler, socketVars
<1>1. ASSUME NEW m \in Message, Store(m) PROVE TypeOK'
    BY <1>1 DEF Store
<1>2. ASSUME NEW m \in Message, StoreFails(m) PROVE TypeOK'
    BY <1>2 DEF StoreFails, Fault
<1>3. ASSUME NEW m \in Message, Emit(m) PROVE TypeOK'
    BY <1>3 DEF Emit, Emitted
<1>4. ASSUME NEW m \in Message, SendTransient(m) PROVE TypeOK'
    BY <1>4 DEF SendTransient, Emitted
<1>5. ASSUME NEW m \in Message, Expire(m) PROVE TypeOK'
    BY <1>5 DEF Expire
<1>6. ASSUME NEW m \in Message, AckDeletes(m) PROVE TypeOK'
    BY <1>6 DEF AckDeletes, Deleted
<1>7. ASSUME NEW m \in Message, AckFails(m) PROVE TypeOK'
    BY <1>7 DEF AckFails, Deleted, Fault
<1>8. ASSUME NEW s \in Socket, Connect(s) PROVE TypeOK'
    BY <1>8 DEF Connect
<1>9. ASSUME NEW s \in Socket, Unsubscribe(s) PROVE TypeOK'
    BY <1>9 DEF Unsubscribe
<1>10. ASSUME NEW s \in Socket, Disconnect(s) PROVE TypeOK'
    BY <1>10 DEF Disconnect
<1>11. ASSUME NEW s \in Socket, NEW m \in Message, Ack(s, m) PROVE TypeOK'
    BY <1>11 DEF Ack
<1>12. ASSUME NEW q \in Request, Subscribe(q) PROVE TypeOK'
    BY <1>12 DEF Subscribe
<1>13. ASSUME NEW q \in Request, Read(q) PROVE TypeOK'
  <2>1. CASE row = NoMessage
    <3>1. request' = [request EXCEPT ![q] = Ended(request[q])]
        BY <1>13, <2>1 DEF Read
    <3> QED
        BY <1>13, <3>1, EndedType DEF Read
  <2>2. CASE row # NoMessage
    <3>1. request' = [request EXCEPT ![q] =
              [request[q] EXCEPT !.pc = "answered", !.found = row]]
        BY <1>13, <2>2 DEF Read
    <3>2. request' \in [Request -> Handler]
        BY <3>1, AnsweredType
    <3>3. \A p \in Request : request'[p].pc \in {"answered", "deleting"}
                               => request'[p].found \in Message
        BY <2>2, <3>1
    <3> QED
        BY <1>13, <2>2, <3>2, <3>3 DEF Read
  <2> QED
    BY <2>1, <2>2
<1>14. ASSUME NEW q \in Request, Replay(q) PROVE TypeOK'
    BY <1>14, EndedType DEF Replay
<1>15. ASSUME NEW q \in Request, FindExpired(q) PROVE TypeOK'
    BY <1>15 DEF FindExpired
<1>16. ASSUME NEW q \in Request, DeleteExpired(q) PROVE TypeOK'
    BY <1>16, EndedType, DeletedType DEF DeleteExpired
<1>17. ASSUME NEW q \in Request, ReplayFails(q) PROVE TypeOK'
    BY <1>17, EndedType, DeletedType DEF ReplayFails, Fault
<1>18. ASSUME Restart PROVE TypeOK'
    BY <1>18, EndedType DEF Restart, Fault
<1>19. ASSUME UNCHANGED vars PROVE TypeOK'
    BY <1>19 DEF vars
<1> QED
    BY <1>1, <1>2, <1>3, <1>4, <1>5, <1>6, <1>7, <1>8, <1>9, <1>10, <1>11, <1>12,
       <1>13, <1>14, <1>15, <1>16, <1>17, <1>18, <1>19 DEF Next

-----------------------------------------------------------------------------
(* Every pending message reaches every subscriber.                           *)

LEMMA StepHasSender == TypeOK /\ RowHasSender /\ [Next]_vars => RowHasSender'
<1> SUFFICES ASSUME TypeOK, RowHasSender, [Next]_vars, row' # NoMessage
             PROVE  sender'[row'] # "idle"
    BY DEF RowHasSender
<1>1. row \in Row /\ sender \in [Message -> Sender]
    BY DEF TypeOK
<1> USE <1>1 DEF RowHasSender, Row
<1>2. ASSUME NEW m \in Message, Store(m) \/ StoreFails(m) PROVE sender'[row'] # "idle"
    BY <1>2 DEF Store, StoreFails
<1>3. ASSUME NEW m \in Message, Emit(m) \/ SendTransient(m) PROVE sender'[row'] # "idle"
    BY <1>3 DEF Emit, SendTransient
<1>4. ASSUME row' = row \/ row' = NoMessage, sender' = sender PROVE sender'[row'] # "idle"
    BY <1>4
<1>5. ASSUME NEW m \in Message, Expire(m) \/ AckDeletes(m) \/ AckFails(m)
      PROVE  sender'[row'] # "idle"
    BY <1>5, <1>4, DeletedType DEF Expire, AckDeletes, AckFails
<1>6. ASSUME NEW s \in Socket, \/ Connect(s) \/ Unsubscribe(s) \/ Disconnect(s)
                               \/ \E m \in Message : Ack(s, m)
      PROVE  sender'[row'] # "idle"
    BY <1>6, <1>4 DEF Connect, Unsubscribe, Disconnect, Ack
<1>7. ASSUME NEW q \in Request, Subscribe(q) \/ Read(q) \/ Replay(q) \/ FindExpired(q)
      PROVE  sender'[row'] # "idle"
    BY <1>7, <1>4 DEF Subscribe, Read, Replay, FindExpired
<1>8. ASSUME NEW q \in Request, DeleteExpired(q) \/ ReplayFails(q)
      PROVE  sender'[row'] # "idle"
    BY <1>8, <1>4, DeletedType DEF DeleteExpired, ReplayFails
<1>9. ASSUME Restart PROVE sender'[row'] # "idle"
    BY <1>9 DEF Restart
<1>10. ASSUME UNCHANGED vars PROVE sender'[row'] # "idle"
    BY <1>10, <1>4 DEF vars
<1> QED
    BY <1>2, <1>3, <1>5, <1>6, <1>7, <1>8, <1>9, <1>10 DEF Next

LEMMA StepRemembers == TypeOK /\ HandlersRemember /\ [Next]_vars => HandlersRemember'
<1> SUFFICES ASSUME TypeOK, HandlersRemember, [Next]_vars, NEW p \in Request
             PROVE  /\ request'[p].pc \in {"new", "asking"} => request'[p].found = NoMessage
                    /\ request'[p].pc = "deleting" => request'[p].found \in expired'
    BY DEF HandlersRemember
<1> DEFINE Remembers == /\ request'[p].pc \in {"new", "asking"} => request'[p].found = NoMessage
                        /\ request'[p].pc = "deleting" => request'[p].found \in expired'
<1>1. request \in [Request -> Handler]
    BY DEF TypeOK
<1>2. ASSUME request'[p] = request[p], expired \subseteq expired' PROVE Remembers
    BY <1>2 DEF HandlersRemember
<1>3. ASSUME request'[p].pc = "done" PROVE Remembers
    BY <1>3
<1>4. ASSUME NEW m \in Message, \/ Store(m) \/ StoreFails(m) \/ Emit(m) \/ SendTransient(m)
                                \/ Expire(m) \/ AckDeletes(m) \/ AckFails(m)
      PROVE  Remembers
    BY <1>2, <1>4 DEF Store, StoreFails, Emit, SendTransient, Expire, AckDeletes, AckFails
<1>5. ASSUME NEW s \in Socket, \/ Connect(s) \/ Unsubscribe(s) \/ Disconnect(s)
                               \/ \E m \in Message : Ack(s, m)
      PROVE  Remembers
    BY <1>2, <1>5 DEF Connect, Unsubscribe, Disconnect, Ack
<1>6. ASSUME NEW q \in Request, q # p, \/ Subscribe(q) \/ Read(q) \/ Replay(q) \/ FindExpired(q)
                                       \/ DeleteExpired(q) \/ ReplayFails(q)
      PROVE  Remembers
    BY <1>1, <1>2, <1>6 DEF Subscribe, Read, Replay, FindExpired, DeleteExpired, ReplayFails
<1>7. CASE Subscribe(p)
    BY <1>1, <1>7 DEF Subscribe, HandlersRemember, Handler
<1>8. CASE Read(p)
  <2>1. CASE row = NoMessage
    <3>1. request'[p] = Ended(request[p])
        BY <1>1, <1>8, <2>1 DEF Read
    <3> QED
        BY <1>1, <1>3, <3>1, EndedType
  <2>2. CASE row # NoMessage
    <3>1. request'[p] = [request[p] EXCEPT !.pc = "answered", !.found = row]
        BY <1>1, <1>8, <2>2 DEF Read
    <3> QED
        BY <1>1, <3>1 DEF Handler
  <2> QED
    BY <2>1, <2>2
<1>9. CASE FindExpired(p)
    BY <1>1, <1>9 DEF FindExpired, Handler
<1>10. CASE Replay(p) \/ DeleteExpired(p) \/ ReplayFails(p)
  <2>1. request'[p] = Ended(request[p])
    BY <1>1, <1>10 DEF Replay, DeleteExpired, ReplayFails
  <2> QED
    BY <1>1, <1>3, <2>1, EndedType
<1>11. CASE Restart
  <2>1. request'[p] = request[p] \/ request'[p] = Ended(request[p])
    BY <1>1, <1>11 DEF Restart
  <2> QED
    BY <1>1, <1>2, <1>3, <1>11, <2>1, EndedType DEF Restart
<1>12. CASE UNCHANGED vars
    BY <1>2, <1>12 DEF vars
<1> QED
    BY <1>4, <1>5, <1>6, <1>7, <1>8, <1>9, <1>10, <1>11, <1>12 DEF Next

LEMMA InitReaches == Init => RowHasSender /\ HandlersRemember /\ PendingReachesSubscribers
BY DEF Init, RowHasSender, HandlersRemember, PendingReachesSubscribers

LEMMA StepReaches == IInv /\ [Next]_vars => PendingReachesSubscribers'
<1> SUFFICES ASSUME IInv, [Next]_vars,
                    NEW s \in subscribed' \ missed', NEW m \in Message \ expired',
                    row' = m, Announced(m)'
             PROVE  m \in got'[s] \/ Underway(s, m)'
    BY DEF PendingReachesSubscribers
<1> DEFINE Reached == m \in got'[s] \/ Underway(s, m)'
<1>1. /\ TypeOK
      /\ row \in Row /\ sender \in [Message -> Sender] /\ request \in [Request -> Handler]
      /\ subscribed \subseteq Socket /\ got \in [Socket -> SUBSET Message]
      /\ m # NoMessage
    BY NoMessageAssumption DEF IInv, TypeOK
<1>2. ASSUME s \in subscribed \ missed, m \notin expired, row = m, Announced(m)
      PROVE  m \in got[s] \/ Underway(s, m)
    BY <1>2 DEF IInv, PendingReachesSubscribers
\* Steps that leave what is pending, announced, emitted and underway alone.
<1>3. ASSUME s \in subscribed \ missed, m \notin expired, row = m, Announced(m),
             got[s] \subseteq got'[s], request' = request
      PROVE  Reached
    BY <1>2, <1>3 DEF Underway
<1>4. ASSUME NEW x \in Message, Store(x) PROVE Reached
    BY <1>1, <1>4 DEF Store, Announced
<1>5. ASSUME NEW x \in Message, StoreFails(x) PROVE Reached
  <2>1. x # m
    BY <1>1, <1>5 DEF StoreFails, Announced
  <2> QED
    BY <1>1, <1>3, <1>5, <2>1 DEF StoreFails, Announced, socketVars
<1>6. ASSUME NEW x \in Message, Emit(x) \/ SendTransient(x) PROVE Reached
  <2>1. s \in subscribed \ missed /\ m \notin expired /\ row = m
    BY <1>6 DEF Emit, SendTransient
  <2>2. s \in Socket /\ got'[s] = got[s] \cup {x}
    BY <1>1, <1>6, <2>1 DEF Emit, SendTransient, Emitted, Room
  <2>3. CASE x = m
    BY <2>2, <2>3
  <2>4. CASE x # m
    BY <1>1, <1>3, <1>6, <2>1, <2>2, <2>4 DEF Emit, SendTransient, Announced
  <2> QED
    BY <2>3, <2>4
<1>7. ASSUME NEW x \in Message, Expire(x) PROVE Reached
    BY <1>3, <1>7 DEF Expire, Announced, socketVars
<1>8. ASSUME NEW x \in Message, AckDeletes(x) \/ AckFails(x) PROVE Reached
    BY <1>1, <1>3, <1>8, DeletedType DEF AckDeletes, AckFails, Announced, socketVars
<1>9. ASSUME NEW t \in Socket, \/ Connect(t) \/ Unsubscribe(t) \/ Disconnect(t)
                               \/ \E x \in Message : Ack(t, x)
      PROVE  Reached
    BY <1>3, <1>9 DEF Connect, Unsubscribe, Disconnect, Ack, Announced, socketVars
<1>10. ASSUME NEW q \in Request, Subscribe(q) PROVE Reached
  <2>1. request' = [request EXCEPT ![q].pc = "asking"]
    BY <1>10 DEF Subscribe
  <2>2. CASE s = request[q].socket
    <3>1. request'[q].pc = "asking" /\ request'[q].socket = s
        BY <1>1, <2>1, <2>2 DEF Handler
    <3> QED
        BY <3>1 DEF Underway
  <2>3. CASE s # request[q].socket
    <3>1. s \in subscribed \ missed /\ m \notin expired /\ row = m /\ Announced(m)
        BY <1>10, <2>3 DEF Subscribe, Announced
    <3>2. got'[s] = got[s]
        BY <1>1, <1>10, <2>3, <3>1 DEF Subscribe
    <3>3. ASSUME Underway(s, m) PROVE Underway(s, m)'
        BY <1>1, <2>1, <2>3, <3>3 DEF Underway, Handler
    <3> QED
        BY <1>2, <3>1, <3>2, <3>3
  <2> QED
    BY <2>2, <2>3
\* A handler that goes on: what was underway still is, unless it was this one.
<1>11. ASSUME NEW q \in Request, Read(q) \/ Replay(q) \/ FindExpired(q)
                                 \/ DeleteExpired(q) \/ ReplayFails(q)
       PROVE  Reached
  <2>1. m \notin expired /\ row = m /\ Announced(m) /\ s \in subscribed \ missed
    BY <1>1, <1>11, DeletedType
    DEF Read, Replay, FindExpired, DeleteExpired, ReplayFails, Announced, socketVars
  <2>2. got[s] \subseteq got'[s]
    BY <1>1, <1>11, <2>1 DEF Read, Replay, FindExpired, DeleteExpired, ReplayFails, socketVars
  <2>3. CASE m \in got[s]
    BY <2>2, <2>3
  <2>4. CASE Underway(s, m)
    <3>1. PICK p \in Request : /\ request[p].socket = s
                               /\ \/ request[p].pc = "asking"
                                  \/ request[p].pc = "answered" /\ request[p].found = m
        BY <2>4 DEF Underway
    <3>2. CASE p # q
      <4>1. request'[p] = request[p]
        BY <1>1, <1>11, <3>2 DEF Read, Replay, FindExpired, DeleteExpired, ReplayFails
      <4> QED
        BY <3>1, <4>1 DEF Underway
    <3>3. CASE p = q /\ Read(q)
      <4>1. request' = [request EXCEPT ![q] = [@ EXCEPT !.pc = "answered", !.found = row]]
        BY <1>1, <2>1, <3>3 DEF Read
      <4>2. /\ request'[q].socket = s /\ request'[q].pc = "answered"
            /\ request'[q].found = m
        BY <1>1, <2>1, <3>1, <3>3, <4>1 DEF Handler
      <4> QED
        BY <4>2 DEF Underway
    <3>4. CASE p = q /\ Replay(q)
      <4>1. request[q].found = m
        BY <3>1, <3>4 DEF Replay
      <4>2. conn[s] = "open"
        BY <2>1, <1>1 DEF TypeOK
      <4> QED
        BY <1>1, <2>1, <3>1, <3>4, <4>1, <4>2 DEF Replay
    <3>5. CASE p = q /\ ~Read(q) /\ ~Replay(q)
        BY <1>11, <2>1, <3>1, <3>5 DEF FindExpired, DeleteExpired, ReplayFails
    <3> QED
        BY <3>2, <3>3, <3>4, <3>5
  <2> QED
    BY <1>2, <2>1, <2>3, <2>4
<1>12. ASSUME Restart PROVE Reached
    BY <1>12 DEF Restart
<1>13. ASSUME UNCHANGED vars PROVE Reached
    BY <1>3, <1>13 DEF vars, socketVars, Announced
<1> QED
    BY <1>4, <1>5, <1>6, <1>7, <1>8, <1>9, <1>10, <1>11, <1>12, <1>13 DEF Next

-----------------------------------------------------------------------------
(* Theorems.                                                                 *)

\* The inductive invariant: well-formed state, a sender for every row, and what
\* each subscriber has or will be replayed.
THEOREM MessageInvariant == Spec => []IInv
<1>1. Init => IInv
    BY InitTypes, InitReaches DEF IInv
<1>2. IInv /\ [Next]_vars => IInv'
    BY StepTypes, StepHasSender, StepRemembers, StepReaches DEF IInv
<1> QED
    BY <1>1, <1>2, PTL DEF Spec

\* Rows, handlers and connections stay well formed.
THEOREM MessageTypes == Spec => []TypeOK
<1>1. IInv => TypeOK
    BY DEF IInv
<1> QED
    BY <1>1, MessageInvariant, PTL

\* A pending message reaches every subscriber of its target, however its upsert,
\* its emit, subscriptions, replays and a restart interleave.
THEOREM NobodyMissesPending == Spec => []PendingReachesSubscribers
<1>1. IInv => PendingReachesSubscribers
    BY DEF IInv
<1> QED
    BY <1>1, MessageInvariant, PTL

\* Expiry and acknowledgement delete the message they are about and no later one.
THEOREM OnlyConsumedLeaves == Spec => OnlyConsumedIsDeleted
<1> DEFINE Kept == row # row' => row' # NoMessage \/ row \in expired \cup acking
<1>1. IInv /\ Next => Kept
  <2> SUFFICES ASSUME IInv, Next, row' = NoMessage, row # NoMessage
               PROVE  row \in expired \cup acking
    OBVIOUS
  <2>1. TypeOK /\ row \in Message
    BY DEF IInv, TypeOK, Row
  <2>2. ASSUME NEW m, row' = Deleted(m) PROVE row = m
    BY <2>2 DEF Deleted
  <2>3. ASSUME NEW m \in Message, \/ Store(m) \/ StoreFails(m) \/ Emit(m)
                                  \/ SendTransient(m) \/ Expire(m)
        PROVE  FALSE
    BY <2>1, <2>3, NoMessageAssumption DEF Store, StoreFails, Emit, SendTransient, Expire
  <2>4. ASSUME NEW m \in Message, AckDeletes(m) \/ AckFails(m) PROVE row \in acking
    BY <2>2, <2>4 DEF AckDeletes, AckFails
  <2>5. ASSUME NEW s \in Socket, \/ Connect(s) \/ Unsubscribe(s) \/ Disconnect(s)
                                 \/ \E m \in Message : Ack(s, m)
        PROVE  FALSE
    BY <2>5 DEF Connect, Unsubscribe, Disconnect, Ack
  <2>6. ASSUME NEW q \in Request, Subscribe(q) \/ Read(q) \/ Replay(q) \/ FindExpired(q)
        PROVE  FALSE
    BY <2>6 DEF Subscribe, Read, Replay, FindExpired
  <2>7. ASSUME NEW q \in Request, DeleteExpired(q) \/ ReplayFails(q) PROVE row \in expired
    <3>1. row = request[q].found
        BY <2>2, <2>7 DEF DeleteExpired, ReplayFails
    <3>2. request[q].pc = "deleting"
        BY <2>1, <2>7, <3>1, NoMessageAssumption
        DEF IInv, HandlersRemember, DeleteExpired, ReplayFails
    <3> QED
        BY <3>1, <3>2 DEF IInv, HandlersRemember
  <2>8. CASE Restart
    BY <2>8 DEF Restart
  <2> QED
    BY <2>3, <2>4, <2>5, <2>6, <2>7, <2>8 DEF Next
<1>2. IInv /\ [Next]_vars => [Kept]_vars
    BY <1>1
<1> QED
    BY <1>2, MessageInvariant, PTL DEF Spec, OnlyConsumedIsDeleted
=============================================================================
