----------------------- MODULE OutboundMessagesProofs -----------------------
(***************************************************************************)
(* Theorems of outbound messages, for every number of messages and         *)
(* callbacks and every limit.                                              *)
(*                                                                         *)
(* OInv is the inductive invariant. It says how far a request and its      *)
(* relay can be apart (Stage), that a message is only ever failed, or      *)
(* about to be, by its provider, by the relay's refusal or by a request    *)
(* whose command does not say "sent" (Failures), and that a "sent" answer  *)
(* is the relay's (Answered).                                              *)
(***************************************************************************)
EXTENDS OutboundMessages, FiniteSetTheorems, TLAPS

-----------------------------------------------------------------------------
(* The inductive invariant. *)

Contacted == {"answered", "reporting", "reported"}
Shown == {"sent", "delivered", "read", "failed"}

\* A message is posted only while its usage is billed, and contacts the
\* provider only after it was posted.
Stage(m) ==
    /\ request[m].pc \in {"new", "accepted", "blocked", "unbilled", "dispatching"}
         => relay[m].pc = "idle"
    /\ request[m].pc \in {"accepted", "dispatching", "waiting"} => m \in billed
    /\ relay[m].pc # "idle" => m \in billed
    /\ fate[m] # "unseen" => relay[m].pc \in Contacted
    /\ relay[m].pc \notin Contacted => ~relay[m].accepted
    /\ relay[m].accepted => fate[m] # "unseen"

\* Why a message may be failed.
MayFail(m) ==
    \/ fate[m] = "dropped"
    \/ relay[m].pc \in Contacted /\ ~relay[m].accepted
    \/ request[m].pc \in {"answered", "saved"} /\ request[m].answer = "failed"
    \/ request[m].pc \in {"ended", "dead"} /\ command[m] # "sent"

Failures(m) ==
    /\ row[m].status = "failed" => MayFail(m)
    /\ relay[m].write.status = "failed" => MayFail(m)
    /\ \A h \in Handlers : m \in DOMAIN handler[h] =>
          /\ handler[h][m].status \in Shown
          /\ handler[h][m].status = "failed" => MayFail(m)

\* A "sent" answer is the relay's, and the row follows it.
Answered(m) ==
    /\ request[m].pc \in {"answered", "saved"} /\ request[m].answer = "sent" =>
          relay[m].pc = "reported" /\ relay[m].accepted
    /\ command[m] = "sent" => /\ request[m].pc = "ended"
                              /\ relay[m].pc = "reported" /\ relay[m].accepted
    /\ command[m] = "sent" \/ (request[m].pc = "saved" /\ request[m].answer = "sent")
         => row[m].status \in Shown

BilledWithinQuota == IsFiniteSet(billed) /\ Cardinality(billed) <= Limit

OInv ==
    /\ TypeOK
    /\ \A m \in Messages : Stage(m) /\ Failures(m) /\ Answered(m)
    /\ BilledWithinQuota

-----------------------------------------------------------------------------
(* Types. *)

\* A status report makes a row of a row.
LEMMA AppliedRow ==
    ASSUME NEW r \in Row, NEW s \in Status, NEW e \in BOOLEAN
    PROVE  /\ Applied(r, s, e) \in Row
           /\ Applied(r, s, e).status \in {r.status, s}
           /\ Applied(r, s, e).status = r.status => r.status \in {s, "read", "failed", "delivered"}
  BY DEF Applied, Row, ShouldApply

\* Changing fields of a request or a relay leaves a request or a relay.
LEMMA RequestUpdates ==
    ASSUME NEW r \in Request, NEW p \in {"new", "accepted", "blocked", "unbilled",
               "dispatching", "waiting", "answered", "saved", "ended", "dead"}
    PROVE  /\ [r EXCEPT !.pc = p] \in Request
           /\ \A c \in Row : [r EXCEPT !.copy = c, !.pc = p] \in Request
           /\ \A a \in Answers : [r EXCEPT !.pc = p, !.answer = a] \in Request
           /\ \A c \in Row, a \in Answers : [pc |-> p, copy |-> c, answer |-> a] \in Request
  BY DEF Request

LEMMA RelayUpdates ==
    ASSUME NEW r \in Relay, NEW p \in {"idle", "called", "answered", "reporting", "reported"}
    PROVE  /\ [r EXCEPT !.pc = p] \in Relay
           /\ \A a \in BOOLEAN : [r EXCEPT !.pc = p, !.accepted = a] \in Relay
           /\ \A c \in Row : [r EXCEPT !.pc = p, !.write = c] \in Relay
  BY DEF Relay

LEMMA Constants == Absent \in Row /\ Sending \in Row /\ NoRows \in Pending
<1>1. Absent \in Row /\ Sending \in Row
  BY DEF Absent, Sending, Row, Status
<1>2. NoRows \in [{} -> Row]
  BY DEF NoRows
<1>3. QED
  BY <1>1, <1>2 DEF Pending

LEMMA TypeNext == TypeOK /\ [Next]_vars => TypeOK'
<1> SUFFICES ASSUME TypeOK, [Next]_vars PROVE TypeOK'
  OBVIOUS
<1> USE Constants DEF TypeOK
<1>1. ASSUME NEW m \in Messages, Accept(m) PROVE TypeOK'
  BY <1>1, RequestUpdates DEF Accept, Move, At, Answers
<1>2. ASSUME NEW m \in Messages, Load(m) PROVE TypeOK'
  <2>1. \A q \in {"dispatching", "blocked"} :
            [request[m] EXCEPT !.copy = row[m], !.pc = q] \in Request
    BY RequestUpdates
  <2>2. QED
    BY <1>2, <2>1 DEF Load
<1>3. ASSUME NEW m \in Messages, Unbill(m) PROVE TypeOK'
  <2>1. [request[m] EXCEPT !.pc = "unbilled"] \in Request
    BY RequestUpdates
  <2>2. QED
    BY <1>3, <2>1 DEF Unbill, Move
<1>4. ASSUME NEW m \in Messages, SaveBlocked(m) PROVE TypeOK'
  <2>1. [request[m].copy EXCEPT !.status = "failed"] \in Row
    BY DEF Request, Row, Status
  <2>2. QED
    BY <1>4, <2>1, RequestUpdates DEF SaveBlocked, Finish, Answers
<1>5. ASSUME NEW m \in Messages, Post(m) PROVE TypeOK'
  <2>1. [request[m] EXCEPT !.pc = "waiting"] \in Request
    BY RequestUpdates
  <2>2. \A q \in {"called", "idle"} : [relay[m] EXCEPT !.pc = q] \in Relay
    BY RelayUpdates
  <2>3. QED
    BY <1>5, <2>1, <2>2 DEF Post, Move
<1>6. ASSUME NEW m \in Messages, Reply(m) PROVE TypeOK'
  BY <1>6, RequestUpdates DEF Reply, AnswerStatus, Answers
<1>7. ASSUME NEW m \in Messages, LoseReply(m) PROVE TypeOK'
  BY <1>7, RequestUpdates DEF LoseReply, UnknownStatus, Answers
<1>8. ASSUME NEW m \in Messages, SaveMessage(m) PROVE TypeOK'
  <2>1. [status |-> request[m].answer,
         ext |-> request[m].copy.ext \/ request[m].answer = "sent"] \in Row
    BY DEF Request, Row, Status, Answers
  <2>2. request' \in [Messages -> Request]
    <3>1. [request[m] EXCEPT !.pc = "saved"] \in Request
      BY RequestUpdates
    <3>2. QED
      BY <1>8, <3>1 DEF SaveMessage, Move
  <2>3. QED
    BY <1>8, <2>1, <2>2 DEF SaveMessage
<1>9. ASSUME NEW m \in Messages, SaveCommand(m) PROVE TypeOK'
  <2>1. [pc |-> "ended", copy |-> Absent, answer |-> "delivery_unknown"] \in Request
    BY RequestUpdates DEF Answers
  <2>2. request[m].answer \in Answers
    BY DEF Request
  <2>3. QED
    BY <1>9, <2>1, <2>2 DEF SaveCommand, Finish
<1>10. ASSUME NEW m \in Messages, Die(m) PROVE TypeOK'
  BY <1>10, RequestUpdates DEF Die, Finish, Answers
<1>11. ASSUME NEW m \in Messages, Contact(m) PROVE TypeOK'
  <2>1. \A a \in BOOLEAN : [relay[m] EXCEPT !.pc = "answered", !.accepted = a] \in Relay
    BY RelayUpdates
  <2>2. QED
    BY <1>11, <2>1 DEF Contact
<1>12. ASSUME NEW m \in Messages, ReportLoad(m) PROVE TypeOK'
  <2>1. Applied(row[m], AnswerStatus(relay[m].accepted), relay[m].accepted) \in Row
    <3>1. relay[m].accepted \in BOOLEAN /\ AnswerStatus(relay[m].accepted) \in Status
      BY DEF AnswerStatus, Status, Relay
    <3>2. QED
      BY <3>1, AppliedRow
  <2>2. QED
    BY <1>12, <2>1, RelayUpdates DEF ReportLoad
<1>13. ASSUME NEW m \in Messages, ReportSave(m) PROVE TypeOK'
  <2>1. relay[m].write \in Row
    BY DEF Relay
  <2>2. [relay[m] EXCEPT !.pc = "reported", !.write = Absent] \in Relay
    BY RelayUpdates
  <2>3. QED
    BY <1>13, <2>1, <2>2 DEF ReportSave
<1>14. ASSUME NEW m \in Messages, ReportFails(m) PROVE TypeOK'
  BY <1>14, RelayUpdates DEF ReportFails
<1>15. ASSUME NEW m \in Messages, ProviderDrops(m) PROVE TypeOK'
  BY <1>15 DEF ProviderDrops
<1>16. ASSUME NEW h \in Handlers, Callback(h) PROVE TypeOK'
  <2>1. ASSUME NEW m \in Messages, NEW s \in Callbacks \cup {"failed"}, CallbackOfOne(h, m, s)
        PROVE  TypeOK'
    <3>1. s \in Status
      BY OutboundAssumption DEF Status
    <3>2. Applied(row[m], s, TRUE) \in Row
      BY <3>1, AppliedRow
    <3> DEFINE new == [k \in {m} |-> Applied(row[m], s, TRUE)]
    <3>3. new \in [{m} -> Row] /\ {m} \in SUBSET Messages
      BY <3>2
    <3> HIDE DEF new
    <3>4. new \in Pending
      BY <3>3 DEF Pending
    <3> USE DEF new
    <3>5. QED
      BY <2>1, <3>4 DEF CallbackOfOne
  <2>2. ASSUME NEW m \in Messages, NEW s \in Callbacks \ {"sent"}, CallbackUpTo(h, m, s)
        PROVE  TypeOK'
    <3> DEFINE matching == {k \in 1..m : ShouldApply(row[k].status, s)}
    <3>1. s \in Status
      BY OutboundAssumption DEF Status
    <3>2. matching \subseteq Messages
      BY OutboundAssumption DEF Messages
    <3>3. \A k \in matching : [row[k] EXCEPT !.status = s] \in Row
      BY <3>1, <3>2 DEF Row
    <3>4. [k \in matching |-> [row[k] EXCEPT !.status = s]] \in [matching -> Row]
      BY <3>3
    <3> HIDE DEF matching
    <3>5. [k \in matching |-> [row[k] EXCEPT !.status = s]] \in Pending
      BY <3>2, <3>4 DEF Pending
    <3> USE DEF matching
    <3>6. QED
      BY <2>2, <3>5 DEF CallbackUpTo
  <2>3. CASE SaveStatuses(h)
    <3>1. PICK S \in SUBSET Messages : handler[h] \in [S -> Row]
      BY DEF Pending
    <3>2. row' \in [Messages -> Row]
      BY <2>3, <3>1 DEF SaveStatuses
    <3>3. QED
      BY <2>3, <3>2 DEF SaveStatuses
  <2>4. QED
    BY <1>16, <2>1, <2>2, <2>3 DEF Callback
<1>17. CASE Disconnect \/ Reconnect
  BY <1>17 DEF Disconnect, Reconnect
<1>18. CASE UNCHANGED vars
  BY <1>18 DEF vars
<1>19. ASSUME NEW m \in Messages, ReplyUnusable(m) PROVE TypeOK'
  BY <1>19, RequestUpdates DEF ReplyUnusable, AnswerStatus, Answers
<1>20. QED
  BY <1>1, <1>2, <1>3, <1>4, <1>5, <1>6, <1>7, <1>8, <1>9, <1>10, <1>11, <1>12, <1>13, <1>14,
     <1>15, <1>16, <1>17, <1>18, <1>19 DEF Next, RequestStep, RelayStep
-----------------------------------------------------------------------------
(* Every step keeps the invariant. *)

MInv(m) == Stage(m) /\ Failures(m) /\ Answered(m)

\* What a step does not touch keeps its part of the invariant.
LEMMA Untouched ==
    ASSUME NEW m \in Messages, MInv(m),
           row'[m] = row[m], command'[m] = command[m], request'[m] = request[m],
           relay'[m] = relay[m], fate'[m] = fate[m], m \in billed' <=> m \in billed,
           handler' = handler
    PROVE  MInv(m)'
  BY DEF MInv, Stage, Failures, Answered, MayFail

LEMMA MessagesNext ==
    ASSUME OInv, [Next]_vars, TypeOK', NEW k \in Messages
    PROVE  MInv(k)'
<1> USE DEF OInv, TypeOK
<1>0. MInv(k)
  BY DEF MInv
<1>1. ASSUME NEW m \in Messages, Accept(m) PROVE MInv(k)'
  <2>1. CASE k = m
    BY <1>0, <1>1, <2>1 DEF Accept, Move, At, Sending, MInv, Stage, Failures, Answered, MayFail,
       Request, Relay, Contacted, Shown, Row, Answers
  <2>2. CASE k # m
    BY <1>0, <1>1, <2>2, Untouched DEF Accept, Move, At, Sending
  <2>3. QED
    BY <2>1, <2>2
<1>2. ASSUME NEW m \in Messages, Load(m) PROVE MInv(k)'
  <2>1. CASE k = m
    BY <1>0, <1>2, <2>1 DEF Load, At, MInv, Stage, Failures, Answered, MayFail,
       Request, Relay, Contacted, Shown, Row, Answers
  <2>2. CASE k # m
    BY <1>0, <1>2, <2>2, Untouched DEF Load, At
  <2>3. QED
    BY <2>1, <2>2
<1>3. ASSUME NEW m \in Messages, Unbill(m) PROVE MInv(k)'
  <2>1. CASE k = m
    BY <1>0, <1>3, <2>1 DEF Unbill, Move, At, MInv, Stage, Failures, Answered, MayFail,
       Request, Relay, Contacted, Shown, Row, Answers
  <2>2. CASE k # m
    BY <1>0, <1>3, <2>2, Untouched DEF Unbill, Move, At
  <2>3. QED
    BY <2>1, <2>2
<1>4. ASSUME NEW m \in Messages, SaveBlocked(m) PROVE MInv(k)'
  <2>1. CASE k = m
    BY <1>0, <1>4, <2>1 DEF SaveBlocked, Finish, At, MInv, Stage, Failures, Answered, MayFail,
       Request, Relay, Contacted, Shown, Row, Answers
  <2>2. CASE k # m
    BY <1>0, <1>4, <2>2, Untouched DEF SaveBlocked, Finish, At
  <2>3. QED
    BY <2>1, <2>2
<1>5. ASSUME NEW m \in Messages, Post(m) PROVE MInv(k)'
  <2>1. CASE k = m
    BY <1>0, <1>5, <2>1 DEF Post, Move, At, MInv, Stage, Failures, Answered, MayFail,
       Request, Relay, Contacted, Shown, Row, Answers
  <2>2. CASE k # m
    BY <1>0, <1>5, <2>2, Untouched DEF Post, Move, At
  <2>3. QED
    BY <2>1, <2>2
<1>6. ASSUME NEW m \in Messages, Reply(m) PROVE MInv(k)'
  <2>1. CASE k = m
    BY <1>0, <1>6, <2>1 DEF Reply, At, AnswerStatus, MInv, Stage, Failures, Answered, MayFail,
       Request, Relay, Contacted, Shown, Row, Answers
  <2>2. CASE k # m
    BY <1>0, <1>6, <2>2, Untouched DEF Reply, At, AnswerStatus
  <2>3. QED
    BY <2>1, <2>2
<1>7. ASSUME NEW m \in Messages, LoseReply(m) PROVE MInv(k)'
  <2>1. CASE k = m
    BY <1>0, <1>7, <2>1 DEF LoseReply, At, UnknownStatus, MInv, Stage, Failures, Answered, MayFail,
       Request, Relay, Contacted, Shown, Row, Answers
  <2>2. CASE k # m
    BY <1>0, <1>7, <2>2, Untouched DEF LoseReply, At, UnknownStatus
  <2>3. QED
    BY <2>1, <2>2
<1>8. ASSUME NEW m \in Messages, SaveMessage(m) PROVE MInv(k)'
  <2>1. CASE k = m
    BY <1>0, <1>8, <2>1 DEF SaveMessage, Move, At, MInv, Stage, Failures, Answered, MayFail,
       Request, Relay, Contacted, Shown, Row, Answers
  <2>2. CASE k # m
    BY <1>0, <1>8, <2>2, Untouched DEF SaveMessage, Move, At
  <2>3. QED
    BY <2>1, <2>2
<1>9. ASSUME NEW m \in Messages, SaveCommand(m) PROVE MInv(k)'
  <2>1. CASE k = m
    BY <1>0, <1>9, <2>1 DEF SaveCommand, Finish, At, MInv, Stage, Failures, Answered, MayFail,
       Request, Relay, Contacted, Shown, Row, Answers
  <2>2. CASE k # m
    BY <1>0, <1>9, <2>2, Untouched DEF SaveCommand, Finish, At
  <2>3. QED
    BY <2>1, <2>2
<1>10. ASSUME NEW m \in Messages, Die(m) PROVE MInv(k)'
  <2>1. CASE k = m
    BY <1>0, <1>10, <2>1 DEF Die, Finish, MInv, Stage, Failures, Answered, MayFail,
       Request, Relay, Contacted, Shown, Row, Answers
  <2>2. CASE k # m
    BY <1>0, <1>10, <2>2, Untouched DEF Die, Finish
  <2>3. QED
    BY <2>1, <2>2
<1>11. ASSUME NEW m \in Messages, Contact(m) PROVE MInv(k)'
  <2>1. CASE k = m
    BY <1>0, <1>11, <2>1 DEF Contact, MInv, Stage, Failures, Answered, MayFail,
       Request, Relay, Contacted, Shown, Row, Answers
  <2>2. CASE k # m
    BY <1>0, <1>11, <2>2, Untouched DEF Contact
  <2>3. QED
    BY <2>1, <2>2
<1>12. ASSUME NEW m \in Messages, ReportLoad(m) PROVE MInv(k)'
  <2>1. CASE k = m
    <3>1. relay[m].accepted \in BOOLEAN /\ AnswerStatus(relay[m].accepted) \in Status
      BY DEF AnswerStatus, Status, Relay
    <3>2. /\ relay'[m].pc = "reporting" /\ relay'[m].accepted = relay[m].accepted
          /\ relay'[m].write.status \in {row[m].status, AnswerStatus(relay[m].accepted)}
      BY <1>12, <3>1, AppliedRow DEF ReportLoad, Relay
    <3>3. relay'[m].write.status = "failed" => MayFail(m)'
      BY <1>0, <1>12, <2>1, <3>1, <3>2
      DEF ReportLoad, AnswerStatus, MInv, Failures, MayFail, Contacted
    <3>4. QED
      BY <1>0, <1>12, <2>1, <3>1, <3>2, <3>3
      DEF ReportLoad, MInv, Stage, Failures, Answered, MayFail, Contacted
  <2>2. CASE k # m
    BY <1>0, <1>12, <2>2, Untouched DEF ReportLoad
  <2>3. QED
    BY <2>1, <2>2
<1>13. ASSUME NEW m \in Messages, ReportSave(m) PROVE MInv(k)'
  <2>1. CASE k = m
    BY <1>0, <1>13, <2>1 DEF ReportSave, Absent, MInv, Stage, Failures, Answered, MayFail,
       Request, Relay, Contacted, Shown, Row, Answers
  <2>2. CASE k # m
    BY <1>0, <1>13, <2>2, Untouched DEF ReportSave, Absent
  <2>3. QED
    BY <2>1, <2>2
<1>14. ASSUME NEW m \in Messages, ReportFails(m) PROVE MInv(k)'
  <2>1. CASE k = m
    BY <1>0, <1>14, <2>1 DEF ReportFails, Absent, MInv, Stage, Failures, Answered, MayFail,
       Request, Relay, Contacted, Shown, Row, Answers
  <2>2. CASE k # m
    BY <1>0, <1>14, <2>2, Untouched DEF ReportFails, Absent
  <2>3. QED
    BY <2>1, <2>2
<1>15. ASSUME NEW m \in Messages, ProviderDrops(m) PROVE MInv(k)'
  <2>1. CASE k = m
    BY <1>0, <1>15, <2>1 DEF ProviderDrops, MInv, Stage, Failures, Answered, MayFail,
       Request, Relay, Contacted, Shown, Row, Answers
  <2>2. CASE k # m
    BY <1>0, <1>15, <2>2, Untouched DEF ProviderDrops
  <2>3. QED
    BY <2>1, <2>2
<1>16. ASSUME NEW h \in Handlers, Callback(h) PROVE MInv(k)'
  <2>1. ASSUME NEW m \in Messages, NEW s \in Callbacks \cup {"failed"}, CallbackOfOne(h, m, s)
        PROVE  MInv(k)'
    <3> DEFINE new == Applied(row[m], s, TRUE)
    <3>1. s \in Status /\ s \in Shown
      BY OutboundAssumption DEF Status, Shown
    <3>2. new.status \in Shown /\ new.status \in {row[m].status, s}
      <4>1. row[m] \in Row /\ TRUE \in BOOLEAN
        OBVIOUS
      <4>2. /\ new.status \in {row[m].status, s}
            /\ new.status = row[m].status => row[m].status \in {s, "read", "failed", "delivered"}
        BY <3>1, <4>1, AppliedRow
      <4>3. QED
        BY <3>1, <4>2 DEF Shown
    <3>3. new.status = "failed" => MayFail(m)
      BY <1>0, <2>1, <3>2, OutboundAssumption DEF CallbackOfOne, OInv, Failures, MayFail
    <3> HIDE DEF new
    <3>4. handler' = [handler EXCEPT ![h] = [j \in {m} |-> new]]
      BY <2>1 DEF CallbackOfOne, new
    <3>5. \A g \in Handlers : k \in DOMAIN handler'[g] =>
             /\ handler'[g][k].status \in Shown
             /\ handler'[g][k].status = "failed" => MayFail(k)
      BY <1>0, <3>2, <3>3, <3>4 DEF MInv, Failures
    <3>6. QED
      BY <1>0, <2>1, <3>5 DEF CallbackOfOne, MInv, Stage, Failures, Answered, MayFail
  <2>2. ASSUME NEW m \in Messages, NEW s \in Callbacks \ {"sent"}, CallbackUpTo(h, m, s)
        PROVE  MInv(k)'
    <3> DEFINE matching == {j \in 1..m : ShouldApply(row[j].status, s)}
    <3>1. s \in Shown /\ s # "failed"
      BY OutboundAssumption DEF Shown
    <3>2. matching \subseteq Messages
      BY OutboundAssumption DEF Messages
    <3>3. \A j \in matching : [row[j] EXCEPT !.status = s].status = s
      BY <3>2 DEF Row
    <3>4. handler' = [handler EXCEPT ![h] =
                        [j \in matching |-> [row[j] EXCEPT !.status = s]]]
      BY <2>2 DEF CallbackUpTo
    <3> HIDE DEF matching
    <3>5. \A g \in Handlers : k \in DOMAIN handler'[g] =>
             /\ handler'[g][k].status \in Shown
             /\ handler'[g][k].status = "failed" => MayFail(k)
      BY <1>0, <3>1, <3>3, <3>4 DEF MInv, Failures
    <3>6. QED
      BY <1>0, <2>2, <3>5 DEF CallbackUpTo, MInv, Stage, Failures, Answered, MayFail
  <2>3. CASE SaveStatuses(h)
    <3>1. row'[k] = IF k \in DOMAIN handler[h] THEN handler[h][k] ELSE row[k]
      BY <2>3 DEF SaveStatuses
    <3>2. \A g \in Handlers : g # h => handler'[g] = handler[g]
      BY <2>3 DEF SaveStatuses
    <3>3. DOMAIN handler'[h] = {}
      BY <2>3 DEF SaveStatuses, NoRows
    <3>4. QED
      BY <1>0, <2>3, <3>1, <3>2, <3>3
      DEF SaveStatuses, MInv, Stage, Failures, Answered, MayFail, Shown
  <2>4. QED
    BY <1>16, <2>1, <2>2, <2>3 DEF Callback
<1>17. CASE Disconnect \/ Reconnect
  BY <1>0, <1>17, Untouched DEF Disconnect, Reconnect
<1>18. CASE UNCHANGED vars
  BY <1>0, <1>18, Untouched DEF vars
<1>19. ASSUME NEW m \in Messages, ReplyUnusable(m) PROVE MInv(k)'
  <2>1. CASE k = m
    BY <1>0, <1>19, <2>1 DEF ReplyUnusable, At, AnswerStatus, MInv, Stage, Failures, Answered,
       MayFail, Request, Relay, Contacted, Shown, Row, Answers
  <2>2. CASE k # m
    BY <1>0, <1>19, <2>2, Untouched DEF ReplyUnusable, At, AnswerStatus
  <2>3. QED
    BY <2>1, <2>2
<1>20. QED
  BY <1>1, <1>2, <1>3, <1>4, <1>5, <1>6, <1>7, <1>8, <1>9, <1>10, <1>11, <1>12, <1>13, <1>14,
     <1>15, <1>16, <1>17, <1>18, <1>19 DEF OInv, Next, RequestStep, RelayStep

\* Usage is added under the quota and otherwise only handed back.
LEMMA QuotaNext ==
    ASSUME OInv, [Next]_vars
    PROVE  BilledWithinQuota'
<1> USE DEF OInv, BilledWithinQuota
<1>1. ASSUME NEW m \in Messages, Accept(m) PROVE BilledWithinQuota'
  <2>1. /\ IsFiniteSet(billed \cup {m})
        /\ Cardinality(billed \cup {m}) <= Cardinality(billed) + 1
    BY FS_AddElement, FS_CardinalityType
  <2>2. Cardinality(billed) + 1 <= Limit /\ billed' = billed \cup {m}
    BY <1>1 DEF Accept, WithinQuota
  <2>3. QED
    BY <2>1, <2>2, FS_CardinalityType, OutboundAssumption
<1>2. ASSUME NEW m \in Messages, Unbill(m) PROVE BilledWithinQuota'
  <2>1. billed' \subseteq billed
    BY <1>2 DEF Unbill
  <2>2. QED
    BY <2>1, FS_Subset, FS_CardinalityType, OutboundAssumption
<1>3. CASE UNCHANGED billed
  BY <1>3
<1>4. QED
  BY <1>1, <1>2, <1>3 DEF Next, RequestStep, RelayStep, Callback, vars, Load, SaveBlocked, Post,
     Reply, ReplyUnusable, LoseReply, SaveMessage, SaveCommand, Die, Contact, ReportLoad, ReportSave, ReportFails,
     ProviderDrops, CallbackOfOne, CallbackUpTo, SaveStatuses, Disconnect, Reconnect

LEMMA Inductive == Spec => []OInv
<1>1. Init => OInv
  <2> SUFFICES ASSUME Init PROVE OInv
    OBVIOUS
  <2>1. TypeOK
    <3>1. /\ [pc |-> "new", copy |-> Absent, answer |-> "delivery_unknown"] \in Request
          /\ [pc |-> "idle", accepted |-> FALSE, write |-> Absent] \in Relay
      BY Constants DEF Request, Relay, Answers
    <3>2. QED
      BY <3>1, Constants DEF Init, TypeOK
  <2>2. BilledWithinQuota
    BY FS_EmptySet, OutboundAssumption DEF Init, BilledWithinQuota
  <2>3. ASSUME NEW m \in Messages PROVE Stage(m) /\ Failures(m) /\ Answered(m)
    BY DEF Init, Stage, Failures, Answered, Contacted, Absent, NoRows
  <2>4. QED
    BY <2>1, <2>2, <2>3 DEF OInv
<1>2. OInv /\ [Next]_vars => OInv'
  <2> SUFFICES ASSUME OInv, [Next]_vars PROVE OInv'
    OBVIOUS
  <2>1. TypeOK'
    BY TypeNext DEF OInv
  <2>2. \A k \in Messages : MInv(k)'
    BY <2>1, MessagesNext
  <2>3. QED
    BY <2>1, <2>2, QuotaNext DEF OInv, MInv
<1>3. QED
  BY <1>1, <1>2, PTL DEF Spec

-----------------------------------------------------------------------------
(* The theorems. *)

\* Every reachable state is well typed.
THEOREM OutboundTypeCorrect == Spec => []TypeOK
<1>1. OInv => TypeOK
  BY DEF OInv
<1>2. QED
  BY <1>1, Inductive, PTL

\* Whatever dies, fails or is answered late, the provider has no message whose
\* usage was written off.
THEOREM TakenMessagesAreBilled == Spec => []TakenIsBilled
<1>1. OInv => TakenIsBilled
  BY DEF OInv, TakenIsBilled, Stage, Contacted
<1>2. QED
  BY <1>1, Inductive, PTL

\* The provider is given no more messages than the limit allows.
THEOREM TakenMessagesKeepTheQuota == Spec => []TakenWithinQuota
<1>1. OInv => TakenWithinQuota
  <2> SUFFICES ASSUME OInv PROVE TakenWithinQuota
    OBVIOUS
  <2> DEFINE taken == {m \in Messages : fate[m] # "unseen"}
  <2>1. taken \subseteq billed
    BY DEF OInv, Stage, Contacted
  <2>2. IsFiniteSet(billed) /\ Cardinality(billed) <= Limit
    BY DEF OInv, BilledWithinQuota
  <2> HIDE DEF taken
  <2>3. Cardinality(taken) <= Limit
    BY <2>1, <2>2, FS_Subset, FS_CardinalityType, OutboundAssumption
  <2>4. QED
    BY <2>3 DEF TakenWithinQuota, taken
<1>2. QED
  BY <1>1, Inductive, PTL

\* However many stale copies are saved over it, a message whose command was
\* answered "sent" was accepted by the provider and shows it.
THEOREM SentCommandsWereAccepted == Spec => []SentMeansAccepted
<1>1. OInv => SentMeansAccepted
  <2> SUFFICES ASSUME OInv, NEW m \in Messages, command[m] = "sent"
               PROVE  \/ fate[m] = "taken" /\ row[m].status \in {"sent", "delivered", "read"}
                      \/ /\ fate[m] = "dropped"
                         /\ row[m].status \in {"sent", "delivered", "read", "failed"}
    BY DEF SentMeansAccepted
  <2>1. /\ request[m].pc = "ended" /\ relay[m].accepted /\ relay[m].pc = "reported"
        /\ row[m].status \in Shown
    BY DEF OInv, Answered
  <2>2. fate[m] \in {"taken", "dropped"}
    BY <2>1 DEF OInv, TypeOK, Stage
  <2>3. row[m].status = "failed" => fate[m] = "dropped"
    BY <2>1 DEF OInv, Failures, MayFail
  <2>4. QED
    BY <2>1, <2>2, <2>3 DEF Shown
<1>2. QED
  BY <1>1, Inductive, PTL
=============================================================================
